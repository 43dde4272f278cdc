------------------------------- MODULE Estate -------------------------------
(* The estate of a company: the land it acquires, the units it lets, the   *)
(* units it sells. Each service is specified by itself (LandSpec,          *)
(* LeaseSpec, SalesSpec) on variables of its own.                          *)
EXTENDS Rows, FiniteSetsExt

-----------------------------------------------------------------------------
(* Acquisition of one parcel (modules/landops, application/services.py):   *)
(* ownership shares, due diligence, feasibility, the opportunity with its  *)
(* offers, statutory approvals and risks.                                  *)
(*                                                                         *)
(* transition_opportunity locks its own row only (of=("self",)) and        *)
(* decides on rows of five other tables; transition_offer locks the offer  *)
(* and, by its join, the opportunity, then looks for a competing offer.    *)
(* create_ownership sums the shares of a parcel it does not lock.  These   *)
(* three are two steps: lock and checks, then writes and commit.  The rest *)
(* decide on the row they lock.  The status of a new parcel and the stage  *)
(* of a new opportunity or approval are whatever the caller names.         *)
(* Policies and events are left out: the threshold of a policy only asks   *)
(* for a note.                                                             *)

CONSTANTS
  Actor,
  Owner, Share,  \* ownership interests and the share, in hundredths, each records
  Diligence, Scenario, Offer, Permit, Risk,  \* rows of the other tables
  MaxOpen        \* bound: transactions open at once

LandAssumption ==
  /\ IsFiniteSet(Owner) /\ IsFiniteSet(Scenario) /\ Share \in [Owner -> Nat] /\ MaxOpen \in Nat

VARIABLES
  ownership,    \* Owner -> row; PENDING, VERIFIED, REJECTED
  diligence,    \* Diligence -> row
  feasibility,  \* Scenario -> row
  opportunity,  \* the opportunity's row, with its scenario; entered: its first stage
  parcel,       \* the parcel's row: its status, and the one it was entered with
  offer,        \* Offer -> row
  approval,     \* Permit -> row; every one is mandatory for acquisition
  risk,         \* Risk -> row; every one is critical
  landTx            \* open transactions, with what each will do to its row

files == <<ownership, diligence, feasibility, approval, risk>>
landVars == <<files, opportunity, parcel, offer, landTx>>

OwnershipStages ==
  [PENDING |-> {"VERIFIED", "REJECTED"}, REJECTED |-> {"PENDING"}, VERIFIED |-> {"PENDING"}]

DiligenceStages ==
  [DRAFT |-> {"IN_REVIEW", "CANCELLED"},
   IN_REVIEW |-> {"CLEARED", "CONDITIONAL", "REJECTED", "DRAFT"},
   CONDITIONAL |-> {"IN_REVIEW", "CLEARED", "REJECTED"}, REJECTED |-> {"DRAFT"}]

FeasibilityStages ==
  [DRAFT |-> {"SUBMITTED", "CANCELLED"}, SUBMITTED |-> {"APPROVED", "REJECTED", "DRAFT"},
   REJECTED |-> {"DRAFT"}, APPROVED |-> {"SUPERSEDED"}]

OpportunityStages ==
  [IDENTIFIED |-> {"SCREENING", "DROPPED"},
   SCREENING |-> {"DUE_DILIGENCE", "ON_HOLD", "DROPPED"},
   DUE_DILIGENCE |-> {"NEGOTIATION", "ON_HOLD", "DROPPED"},
   NEGOTIATION |-> {"APPROVED", "ON_HOLD", "DROPPED"},
   APPROVED |-> {"ACQUIRED", "ON_HOLD", "DROPPED"},
   ON_HOLD |-> {"SCREENING", "DUE_DILIGENCE", "NEGOTIATION", "DROPPED"},
   ACQUIRED |-> {"CLOSED"}]

OpportunityStatus == DOMAIN OpportunityStages \cup {"CLOSED", "DROPPED"}

PastFeasibility == {"NEGOTIATION", "APPROVED", "ACQUIRED", "CLOSED"}

\* Any code is a status of a parcel: these stand for the one that acquisition
\* writes and for the rest.
ParcelStatus == {"PROSPECT", "ACQUIRED"}

OfferStages ==
  [DRAFT |-> {"SUBMITTED", "WITHDRAWN"}, SUBMITTED |-> {"APPROVED", "REJECTED", "DRAFT"},
   APPROVED |-> {"ISSUED", "WITHDRAWN"},
   ISSUED |-> {"ACCEPTED", "REJECTED", "EXPIRED", "WITHDRAWN"}, REJECTED |-> {"DRAFT"}]

ApprovalStages ==
  [PLANNED |-> {"SUBMITTED", "CANCELLED"},
   SUBMITTED |-> {"UNDER_REVIEW", "APPROVED", "REJECTED", "WITHDRAWN"},
   UNDER_REVIEW |-> {"APPROVED", "REJECTED", "WITHDRAWN"},
   APPROVED |-> {"EXPIRED", "SUPERSEDED"}, REJECTED |-> {"PLANNED"},
   EXPIRED |-> {"PLANNED"}, WITHDRAWN |-> {"PLANNED"}]

ApprovalStatus == DOMAIN ApprovalStages \cup {"CANCELLED", "SUPERSEDED"}

RiskStages ==
  [OPEN |-> {"MITIGATING", "ACCEPTED", "CLOSED"},
   MITIGATING |-> {"OPEN", "ACCEPTED", "CLOSED"},
   ACCEPTED |-> {"MITIGATING", "CLOSED"}, CLOSED |-> {"OPEN"}]

LandInit ==
  /\ ownership = [w \in Owner |-> Absent] /\ diligence = [d \in Diligence |-> Absent]
  /\ feasibility = [s \in Scenario |-> Absent] /\ offer = [f \in Offer |-> Absent]
  /\ approval = [p \in Permit |-> Absent] /\ risk = [k \in Risk |-> Absent]
  /\ opportunity = Absent /\ landTx = {}
  /\ parcel \in {[status |-> to, entered |-> to] : to \in ParcelStatus}

-----------------------------------------------------------------------------
(* The files of a parcel, each decided on its own row.                     *)

Shares == MapThenSumSet(LAMBDA w : Share[w], {w \in Owner : Has(ownership, w)})

Opens(do, of, to, a, locks) ==
  landTx' = landTx \cup {[do |-> do, of |-> of, to |-> to, by |-> a, locks |-> locks]}

\* No row is locked: two that are checked at once may add up to more than 100.
CheckOwnership(w, a) ==
  /\ Cardinality(landTx) < MaxOpen /\ \A t \in landTx : t.of # {w}
  /\ ~Has(ownership, w) /\ Shares + Share[w] <= 100
  /\ Opens("OWNERSHIP", {w}, "PENDING", a, {})
  /\ UNCHANGED <<files, opportunity, parcel, offer>>

CreateOwnership(t) ==
  /\ t.do = "OWNERSHIP"
  /\ ownership' = [w \in Owner |->
       IF w \in t.of THEN [status |-> t.to, by |-> t.by, verifier |-> {}] ELSE ownership[w]]
  /\ landTx' = landTx \ {t}
  /\ UNCHANGED <<diligence, feasibility, approval, risk, opportunity, parcel, offer>>

VerifyOwnership(w, a) ==
  /\ \E to \in Offers(OwnershipStages, ownership, w) :
       /\ to = "VERIFIED" => ownership[w].by # a
       /\ ownership' = [ownership EXCEPT ![w].status = to,
                          ![w].verifier = IF to = "VERIFIED" THEN {a} ELSE {}]
  /\ UNCHANGED <<diligence, feasibility, approval, risk, opportunity, parcel, offer, landTx>>

CreateDiligence(d, a) ==
  /\ ~Has(diligence, d)
  /\ diligence' = [diligence EXCEPT ![d] = [status |-> "DRAFT", by |-> a]]
  /\ UNCHANGED <<ownership, feasibility, approval, risk, opportunity, parcel, offer, landTx>>

TransitionDiligence(d, a) ==
  /\ \E to \in Offers(DiligenceStages, diligence, d) :
       /\ to \in {"CLEARED", "CONDITIONAL", "REJECTED"} => diligence[d].by # a
       /\ diligence' = Moved(diligence, d, to)
  /\ UNCHANGED <<ownership, feasibility, approval, risk, opportunity, parcel, offer, landTx>>

CreateFeasibility(s, a) ==
  /\ ~Has(feasibility, s)
  /\ feasibility' = [feasibility EXCEPT ![s] = [status |-> "DRAFT", by |-> a]]
  /\ UNCHANGED <<ownership, diligence, approval, risk, opportunity, parcel, offer, landTx>>

TransitionFeasibility(s, a) ==
  /\ \E to \in Offers(FeasibilityStages, feasibility, s) :
       /\ to = "APPROVED" => feasibility[s].by # a
       /\ feasibility' = Moved(feasibility, s, to)
  /\ UNCHANGED <<ownership, diligence, approval, risk, opportunity, parcel, offer, landTx>>

\* The approvals and risks here are those of the opportunity.
CreateApproval(p, a) ==
  /\ ~Has(approval, p) /\ opportunity # Absent
  /\ \E to \in ApprovalStatus : approval' = [approval EXCEPT ![p] = [status |-> to, by |-> a]]
  /\ UNCHANGED <<ownership, diligence, feasibility, risk, opportunity, parcel, offer, landTx>>

TransitionApproval(p, a) ==
  /\ \E to \in Offers(ApprovalStages, approval, p) :
       /\ to = "APPROVED" => approval[p].by # a
       /\ approval' = Moved(approval, p, to)
  /\ UNCHANGED <<ownership, diligence, feasibility, risk, opportunity, parcel, offer, landTx>>

CreateRisk(k) ==
  /\ ~Has(risk, k) /\ opportunity # Absent
  /\ risk' = [risk EXCEPT ![k] = [status |-> "OPEN"]]
  /\ UNCHANGED <<ownership, diligence, feasibility, approval, opportunity, parcel, offer, landTx>>

TransitionRisk(k) ==
  /\ \E to \in Offers(RiskStages, risk, k) : risk' = Moved(risk, k, to)
  /\ UNCHANGED <<ownership, diligence, feasibility, approval, opportunity, parcel, offer, landTx>>

-----------------------------------------------------------------------------
(* The opportunity and its offers.                                         *)

\* The opportunity may name a scenario of the parcel, of any status, or none.
CreateOpportunity(s, a) ==
  /\ opportunity = Absent /\ \A x \in s : Has(feasibility, x)
  /\ \E to \in OpportunityStatus :
       opportunity' = [status |-> to, by |-> a, feasibility |-> s, entered |-> to]
  /\ UNCHANGED <<files, parcel, offer, landTx>>

Feasible == \E s \in opportunity.feasibility : In(feasibility, s, {"APPROVED"})

Cleared == \A d \in Diligence : In(diligence, d, {"ABSENT", "CLEARED", "CONDITIONAL", "CANCELLED"})

MayProceed(to, a) ==
  /\ to \in {"NEGOTIATION", "APPROVED"} => Feasible /\ Cleared
  /\ to = "APPROVED" => /\ opportunity.by # a
                        /\ \A k \in Risk : In(risk, k, {"ABSENT", "CLOSED", "ACCEPTED"})
  /\ to = "ACQUIRED" => /\ \E f \in Offer : In(offer, f, {"ACCEPTED"})
                        /\ \A p \in Permit : In(approval, p, {"ABSENT", "APPROVED"})

CheckOpportunity(a) ==
  /\ Cardinality(landTx) < MaxOpen /\ Unlocked(landTx, {"opportunity"})
  /\ opportunity.status \in DOMAIN OpportunityStages
  /\ \E to \in OpportunityStages[opportunity.status] :
       /\ MayProceed(to, a)
       /\ Opens("OPPORTUNITY", {}, to, a, {"opportunity"})
  /\ UNCHANGED <<files, opportunity, parcel, offer>>

\* The parcel is written with update_fields, whatever was read of it.
CommitOpportunity(t) ==
  /\ t.do = "OPPORTUNITY"
  /\ opportunity' = [opportunity EXCEPT !.status = t.to]
  /\ parcel' = IF t.to = "ACQUIRED" THEN [parcel EXCEPT !.status = "ACQUIRED"] ELSE parcel
  /\ landTx' = landTx \ {t}
  /\ UNCHANGED <<files, offer>>

\* create_offer is handed an opportunity that was read without a lock; a draft
\* says nothing yet, so when it is inserted makes no difference.
CreateOffer(f, a) ==
  /\ ~Has(offer, f) /\ opportunity.status \in {"NEGOTIATION", "APPROVED"}
  /\ offer' = [offer EXCEPT ![f] = [status |-> "DRAFT", by |-> a]]
  /\ UNCHANGED <<files, opportunity, parcel, landTx>>

\* Mutant: of=("self",) leaves the opportunity unlocked.
LocksOfOfferAlone(f) == {f}

LocksOfOffer(f) == {f, "opportunity"}

CheckOffer(f, a) ==
  /\ Cardinality(landTx) < MaxOpen /\ Unlocked(landTx, LocksOfOffer(f))
  /\ \E to \in Offers(OfferStages, offer, f) :
       /\ to = "APPROVED" => offer[f].by # a
       /\ to = "ACCEPTED" => \A g \in Offer \ {f} : ~In(offer, g, {"ACCEPTED"})
       /\ Opens("OFFER", {f}, to, a, LocksOfOffer(f))
  /\ UNCHANGED <<files, opportunity, parcel, offer>>

CommitOffer(t) ==
  /\ t.do = "OFFER" /\ \E f \in t.of : offer' = Moved(offer, f, t.to)
  /\ landTx' = landTx \ {t}
  /\ UNCHANGED <<files, opportunity, parcel>>

LandRollback(t) == landTx' = landTx \ {t} /\ UNCHANGED <<files, opportunity, parcel, offer>>

-----------------------------------------------------------------------------
LandNext ==
  \/ \E a \in Actor :
       \/ \E w \in Owner : CheckOwnership(w, a) \/ VerifyOwnership(w, a)
       \/ \E d \in Diligence : CreateDiligence(d, a) \/ TransitionDiligence(d, a)
       \/ \E s \in Scenario : CreateFeasibility(s, a) \/ TransitionFeasibility(s, a)
       \/ \E p \in Permit : CreateApproval(p, a) \/ TransitionApproval(p, a)
       \/ \E s \in SUBSET Scenario : Cardinality(s) <= 1 /\ CreateOpportunity(s, a)
       \/ CheckOpportunity(a)
       \/ \E f \in Offer : CreateOffer(f, a) \/ CheckOffer(f, a)
  \/ \E k \in Risk : CreateRisk(k) \/ TransitionRisk(k)
  \/ \E t \in landTx : CreateOwnership(t) \/ CommitOpportunity(t) \/ CommitOffer(t) \/ LandRollback(t)

LandSpec == LandInit /\ [][LandNext]_landVars

OwnershipInterestRow ==
  [status : {"PENDING", "VERIFIED", "REJECTED"}, by : Actor, verifier : {{}} \cup {{a} : a \in Actor}]

DueDiligenceCaseRow == [status : DOMAIN DiligenceStages \cup {"CLEARED", "CANCELLED"}, by : Actor]

FeasibilityScenarioRow == [status : DOMAIN FeasibilityStages \cup {"SUPERSEDED", "CANCELLED"}, by : Actor]

AcquisitionOpportunityRow ==
  [status : OpportunityStatus, by : Actor, feasibility : {{}} \cup {{s} : s \in Scenario},
   entered : OpportunityStatus]

LandParcelRow == [status : ParcelStatus, entered : ParcelStatus]

CommercialOfferRow ==
  [status : DOMAIN OfferStages \cup {"ACCEPTED", "EXPIRED", "WITHDRAWN"}, by : Actor]

StatutoryApprovalRow == [status : ApprovalStatus, by : Actor]

LandRiskRow == [status : DOMAIN RiskStages]

LandTypeOK ==
  /\ ownership \in [Owner -> OwnershipInterestRow \cup {Absent}]
  /\ diligence \in [Diligence -> DueDiligenceCaseRow \cup {Absent}]
  /\ feasibility \in [Scenario -> FeasibilityScenarioRow \cup {Absent}]
  /\ opportunity \in AcquisitionOpportunityRow \cup {Absent} /\ parcel \in LandParcelRow
  /\ offer \in [Offer -> CommercialOfferRow \cup {Absent}]
  /\ approval \in [Permit -> StatutoryApprovalRow \cup {Absent}]
  /\ risk \in [Risk -> LandRiskRow \cup {Absent}] /\ Cardinality(landTx) <= MaxOpen

Acquired == {"ACQUIRED", "CLOSED"}

\* Of what the transitions, and not the caller who entered the row, brought about:
\* one offer is accepted; nothing is negotiated without a feasibility that was
\* approved; an opportunity is acquired with an accepted offer and its parcel with
\* it; a parcel leaves the status it was entered with for ACQUIRED alone, with an
\* acquired opportunity and its offer.  A row entered at such a stage is exempt:
\* nobody asks for its grounds.  None of the checks locks what it reads: it is right
\* because ACCEPTED is final, an approved scenario can only be superseded, and
\* offers of one opportunity are decided one at a time.
AcquisitionIsBacked ==
  /\ \A f, g \in Offer : In(offer, f, {"ACCEPTED"}) /\ In(offer, g, {"ACCEPTED"}) => f = g
  /\ opportunity.status \in PastFeasibility /\ opportunity.entered \notin PastFeasibility =>
       \E s \in opportunity.feasibility : In(feasibility, s, {"APPROVED", "SUPERSEDED"})
  /\ opportunity.status \in Acquired /\ opportunity.entered \notin Acquired =>
       parcel.status = "ACQUIRED" /\ \E f \in Offer : In(offer, f, {"ACCEPTED"})
  /\ parcel.status # parcel.entered =>
       /\ parcel.status = "ACQUIRED" /\ opportunity.status \in Acquired
       /\ \E f \in Offer : In(offer, f, {"ACCEPTED"})

-----------------------------------------------------------------------------
(* Letting of one unit (modules/leaseops, application/services.py): lease  *)
(* agreements, occupancy, rent invoices and tenant cases.                  *)
(*                                                                         *)
(* transition_lease locks the agreement and, by its join, the unit; then   *)
(* it looks for agreements that overlap, rows it does not lock, and writes *)
(* agreement and unit: two steps.  The other services decide on what they  *)
(* lock and are one.  Properties, units, tenants and charges are inserted  *)
(* and never changed; they are part of the instance.  expected_version     *)
(* refuses a caller who has not seen the row as it is, and nothing else.   *)

CONSTANTS
  Lease, Period,             \* agreements for the unit; the months each covers
  Occupancy, Invoice, Case,  \* rows of the other tables
  Charged                    \* what an invoice comes to, gross and tax

LeaseAssumption ==
  /\ IsFiniteSet(Lease) /\ \A l \in Lease : IsFiniteSet(Period[l])
  /\ Charged \in Nat /\ MaxOpen \in Nat

VARIABLES
  leaseUnit,  \* status_code of the unit
  lease,      \* Lease -> row
  occupancy,  \* Occupancy -> row, with the lease it is for
  invoice,    \* Invoice -> row, with its lease and what is paid
  case,       \* Case -> row, with whether resolved_at is set
  leaseTx     \* transactions of transition_lease between checks and commit

leaseVars == <<leaseUnit, lease, occupancy, invoice, case, leaseTx>>

LeaseStages ==
  [DRAFT |-> {"SUBMITTED", "CANCELLED"}, SUBMITTED |-> {"APPROVED", "REJECTED"},
   REJECTED |-> {"DRAFT", "CANCELLED"}, APPROVED |-> {"ACTIVE", "CANCELLED"},
   ACTIVE |-> {"EXPIRED", "TERMINATED"}, EXPIRED |-> {"CLOSED"},
   TERMINATED |-> {"CLOSED"}]

OccupancyStages ==
  [DRAFT |-> {"SUBMITTED", "CANCELLED"}, SUBMITTED |-> {"VERIFIED", "REJECTED"},
   REJECTED |-> {"DRAFT", "CANCELLED"}, VERIFIED |-> {"OCCUPIED"},
   OCCUPIED |-> {"MOVED_OUT"}, MOVED_OUT |-> {"CLOSED"}]

InvoiceStages ==
  [DRAFT |-> {"SUBMITTED", "VOID"}, SUBMITTED |-> {"ISSUED", "REJECTED"},
   REJECTED |-> {"DRAFT", "VOID"}, ISSUED |-> {"PARTIALLY_PAID", "PAID", "VOID"},
   PARTIALLY_PAID |-> {"PAID", "VOID"}]

CaseStages ==
  [NEW |-> {"ACKNOWLEDGED", "ASSIGNED", "CANCELLED"},
   ACKNOWLEDGED |-> {"ASSIGNED", "IN_PROGRESS", "CANCELLED"},
   ASSIGNED |-> {"IN_PROGRESS", "RESOLVED", "CANCELLED"},
   IN_PROGRESS |-> {"RESOLVED", "ON_HOLD", "CANCELLED"},
   ON_HOLD |-> {"IN_PROGRESS", "CANCELLED"},
   RESOLVED |-> {"CLOSED", "REOPENED"}, REOPENED |-> {"ASSIGNED", "IN_PROGRESS"}]

UnitRow == {"AVAILABLE", "RESERVED", "LEASED", "OCCUPIED"}

LeaseRow == [status : {"DRAFT", "SUBMITTED", "REJECTED", "APPROVED", "ACTIVE",
                       "EXPIRED", "TERMINATED", "CLOSED", "CANCELLED"}, by : Actor]

OccupancyRow ==
  [status : DOMAIN OccupancyStages \cup {"CLOSED", "CANCELLED"}, by : Actor, lease : Lease]

InvoiceRow ==
  [status : DOMAIN InvoiceStages \cup {"PAID", "VOID"}, by : Actor, paid : 0..Charged, lease : Lease]

CaseRow == [status : DOMAIN CaseStages \cup {"CLOSED", "CANCELLED"}, resolved : BOOLEAN]

LeaseInit ==
  /\ leaseUnit = "AVAILABLE" /\ leaseTx = {}
  /\ lease = [l \in Lease |-> Absent]
  /\ occupancy = [o \in Occupancy |-> Absent]
  /\ invoice = [n \in Invoice |-> Absent]
  /\ case = [c \in Case |-> Absent]

-----------------------------------------------------------------------------
(* Agreements.                                                             *)

Binding == {"SUBMITTED", "APPROVED", "ACTIVE"}

\* _ensure_unit_available finds an agreement in the way of l.
Overlapped(l) ==
  \E m \in Lease \ {l} : In(lease, m, Binding) /\ Period[m] \cap Period[l] # {}

\* The new row is a draft, which is in nobody's way.
CreateLease(l, a) ==
  /\ ~Has(lease, l) /\ ~Overlapped(l)
  /\ lease' = [lease EXCEPT ![l] = [status |-> "DRAFT", by |-> a]]
  /\ UNCHANGED <<leaseUnit, occupancy, invoice, case, leaseTx>>

\* Mutant: of=("self",) leaves the unit unlocked.
LocksOfAgreementAlone(l) == {<<"lease", l>>}

LocksOfLease(l) == {<<"lease", l>>, <<"unit">>}

CheckLease(l, a) ==
  /\ Cardinality(leaseTx) < MaxOpen /\ Unlocked(leaseTx, LocksOfLease(l))
  /\ \E to \in Offers(LeaseStages, lease, l) :
       /\ to = "APPROVED" => lease[l].by # a
       /\ to \in Binding => ~Overlapped(l)
       /\ leaseTx' = leaseTx \cup {[lease |-> l, to |-> to, locks |-> LocksOfLease(l)]}
  /\ UNCHANGED <<leaseUnit, lease, occupancy, invoice, case>>

CommitLease(t) ==
  /\ lease' = Moved(lease, t.lease, t.to)
  /\ leaseUnit' = CASE t.to = "APPROVED" -> "RESERVED"
                    [] t.to = "ACTIVE" -> "LEASED"
                    [] t.to \in {"CLOSED", "CANCELLED"} -> "AVAILABLE"
                    [] OTHER -> leaseUnit
  /\ leaseTx' = leaseTx \ {t}
  /\ UNCHANGED <<occupancy, invoice, case>>

\* The worker dies or a later check refuses: nothing was written.
RollbackLease(t) ==
  /\ leaseTx' = leaseTx \ {t}
  /\ UNCHANGED <<leaseUnit, lease, occupancy, invoice, case>>

-----------------------------------------------------------------------------
(* Occupancy, invoices, cases.                                             *)

CreateOccupancy(o, l, a) ==
  /\ ~Has(occupancy, o) /\ Has(lease, l)
  /\ occupancy' = [occupancy EXCEPT ![o] = [status |-> "DRAFT", by |-> a, lease |-> l]]
  /\ UNCHANGED <<leaseUnit, lease, invoice, case, leaseTx>>

TransitionOccupancy(o, a) ==
  /\ \E to \in Offers(OccupancyStages, occupancy, o) :
       /\ Unlocked(leaseTx, LocksOfLease(occupancy[o].lease))
       /\ to = "VERIFIED" => occupancy[o].by # a
       /\ occupancy' = Moved(occupancy, o, to)
       /\ leaseUnit' = CASE to = "OCCUPIED" -> "OCCUPIED"
                         [] to = "CLOSED" -> IF In(lease, occupancy[o].lease, {"ACTIVE"})
                                             THEN "LEASED" ELSE "AVAILABLE"
                         [] OTHER -> leaseUnit
  /\ UNCHANGED <<lease, invoice, case, leaseTx>>

CreateInvoice(n, l, a) ==
  /\ ~Has(invoice, n) /\ Has(lease, l)
  /\ invoice' = [invoice EXCEPT ![n] = [status |-> "DRAFT", by |-> a, paid |-> 0, lease |-> l]]
  /\ UNCHANGED <<leaseUnit, lease, occupancy, case, leaseTx>>

\* A paid_amount given with any transition replaces the one on the invoice.
Accepts(n, amount) == invoice[n].paid <= amount /\ amount <= Charged

TransitionInvoice(n, a) ==
  /\ \E to \in Offers(InvoiceStages, invoice, n), amount \in 0..Charged :
       /\ Unlocked(leaseTx, {<<"lease", invoice[n].lease>>})
       /\ to = "ISSUED" => invoice[n].by # a
       /\ Accepts(n, amount)
       /\ to = "PARTIALLY_PAID" => 0 < amount /\ amount < Charged
       /\ invoice' = [invoice EXCEPT ![n].status = to,
                        ![n].paid = IF to = "PAID" THEN Charged ELSE amount]
  /\ UNCHANGED <<leaseUnit, lease, occupancy, case, leaseTx>>

CreateCase(c) ==
  /\ ~Has(case, c)
  /\ case' = [case EXCEPT ![c] = [status |-> "NEW", resolved |-> FALSE]]
  /\ UNCHANGED <<leaseUnit, lease, occupancy, invoice, leaseTx>>

TransitionCase(c) ==
  /\ \E to \in Offers(CaseStages, case, c) :
       case' = [case EXCEPT ![c] =
         [status |-> to,
          resolved |-> CASE to \in {"RESOLVED", "CLOSED"} -> TRUE
                         [] to = "REOPENED" -> FALSE
                         [] OTHER -> case[c].resolved]]
  /\ UNCHANGED <<leaseUnit, lease, occupancy, invoice, leaseTx>>

-----------------------------------------------------------------------------
LeaseNext ==
  \/ \E l \in Lease, a \in Actor :
       \/ CreateLease(l, a) \/ CheckLease(l, a)
       \/ \E o \in Occupancy : CreateOccupancy(o, l, a)
       \/ \E n \in Invoice : CreateInvoice(n, l, a)
  \/ \E t \in leaseTx : CommitLease(t) \/ RollbackLease(t)
  \/ \E o \in Occupancy, a \in Actor : TransitionOccupancy(o, a)
  \/ \E n \in Invoice, a \in Actor : TransitionInvoice(n, a)
  \/ \E c \in Case : CreateCase(c) \/ TransitionCase(c)

LeaseSpec == LeaseInit /\ [][LeaseNext]_leaseVars

LeaseTypeOK ==
  /\ leaseUnit \in UnitRow
  /\ lease \in [Lease -> LeaseRow \cup {Absent}]
  /\ occupancy \in [Occupancy -> OccupancyRow \cup {Absent}]
  /\ invoice \in [Invoice -> InvoiceRow \cup {Absent}]
  /\ case \in [Case -> CaseRow \cup {Absent}]
  /\ \A t \in leaseTx : t.lease \in Lease /\ t.to \in {"CANCELLED"} \cup Binding \cup
       {"REJECTED", "DRAFT", "EXPIRED", "TERMINATED", "CLOSED"}

\* Agreements that are submitted, approved or active never cover one month of
\* the unit twice: two transactions that both found the unit free of others
\* cannot both commit, because transition_lease holds the unit while it looks.
NoDoubleLetting ==
  \A l, m \in Lease : l # m /\ In(lease, l, Binding) /\ In(lease, m, Binding)
                          => Period[l] \cap Period[m] = {}

-----------------------------------------------------------------------------
(* Sale of one unit (modules/salesops, application/services.py):           *)
(* reservations, bookings, payment milestones with their collections,      *)
(* broker commissions and the handover.                                    *)
(*                                                                         *)
(* create_reservation and create_booking decide on a unit and a            *)
(* reservation that the view has read, and on rows that the other          *)
(* transaction may be about to insert; transition_receipt adds to a        *)
(* milestone that it reads by a join and does not lock (of=("self",));     *)
(* transition_booking reads the unit that way and writes its status back,  *)
(* and create_milestone sums milestones of a booking it does not lock.     *)
(* These are two steps; the services that lock what they decide on are     *)
(* one.  A unit that was created in a stage other than RELEASED or         *)
(* AVAILABLE is like one in DRAFT.                                         *)

CONSTANTS
  Reservation, Booking,  \* rows for the unit
  Milestone, Due,        \* the milestones and what each comes to
  Receipt, Amount,       \* collection receipts and the amount of each
  Consideration,         \* total_consideration of a booking
  Commission, Handover   \* rows; a booking has at most one handover

SalesAssumption ==
  /\ IsFiniteSet(Milestone) /\ IsFiniteSet(Receipt) /\ MaxOpen \in Nat
  /\ Due \in [Milestone -> Nat \ {0}] /\ Amount \in [Receipt -> Nat \ {0}]
  /\ Consideration \in Nat

VARIABLES
  salesUnit,    \* status_code of the unit
  reservation,  \* row: live until expires_at passes; booking it was converted to
  booking,      \* row: by, approver and reservation, each a set of at most one
  milestone,    \* row: booking, what is paid
  receipt,      \* row: booking, milestone (at most one), by, confirmer
  commission,   \* row: by
  handover,     \* row: booking, by, defects left
  salesTx       \* calls between checks and commit

sale == <<salesUnit, reservation, booking>>
money == <<milestone, receipt, commission>>
salesVars == <<sale, money, handover, salesTx>>

ReservationStages == [ACTIVE |-> {"EXPIRED", "CANCELLED"}]

BookingStages ==
  [DRAFT |-> {"SUBMITTED", "CANCELLED"}, SUBMITTED |-> {"APPROVED", "REJECTED"},
   REJECTED |-> {"DRAFT", "CANCELLED"}, APPROVED |-> {"ACTIVE", "CANCELLED"},
   ACTIVE |-> {"CANCELLED"}, HANDED_OVER |-> {"CLOSED"}]

ReceiptStages ==
  [DRAFT |-> {"SUBMITTED", "CANCELLED"}, SUBMITTED |-> {"CONFIRMED", "REJECTED"},
   REJECTED |-> {"DRAFT", "CANCELLED"}, CONFIRMED |-> {"REVERSED"}]

CommissionStages ==
  [DRAFT |-> {"SUBMITTED", "CANCELLED"}, SUBMITTED |-> {"APPROVED", "REJECTED"},
   REJECTED |-> {"DRAFT", "CANCELLED"}, APPROVED |-> {"PAYABLE", "CANCELLED"},
   PAYABLE |-> {"PAID"}]

HandoverStages ==
  [DRAFT |-> {"READINESS_REVIEW", "CANCELLED"}, READINESS_REVIEW |-> {"READY", "REJECTED"},
   REJECTED |-> {"DRAFT", "CANCELLED"}, READY |-> {"OFFERED"},
   OFFERED |-> {"POSSESSED"}, POSSESSED |-> {"CLOSED"}]

Statuses(stages) == DOMAIN stages \cup UNION {stages[s] : s \in DOMAIN stages}

UnitReservationRow ==
  [status : Statuses(ReservationStages) \cup {"CONVERTED"}, live : BOOLEAN, booking : SUBSET Booking]
BookingAgreementRow ==
  [status : Statuses(BookingStages), by : Actor, approver : SUBSET Actor,
   reservation : SUBSET Reservation]
PaymentMilestoneRow ==
  [status : {"SCHEDULED", "PARTIALLY_PAID", "PAID"}, booking : Booking, paid : Nat]
CollectionReceiptRow ==
  [status : Statuses(ReceiptStages), booking : Booking, milestone : SUBSET Milestone,
   by : Actor, confirmer : SUBSET Actor]
BrokerCommissionRow == [status : Statuses(CommissionStages), by : Actor, approver : SUBSET Actor]
CustomerHandoverRow ==
  [status : Statuses(HandoverStages), booking : Booking, by : Actor, defects : BOOLEAN]

SalesInit ==
  /\ salesUnit \in {"DRAFT", "RELEASED"}
  /\ reservation = [r \in Reservation |-> Absent] /\ booking = [b \in Booking |-> Absent]
  /\ milestone = [m \in Milestone |-> Absent] /\ receipt = [c \in Receipt |-> Absent]
  /\ commission = [k \in Commission |-> Absent] /\ handover = [h \in Handover |-> Absent]
  /\ salesTx = {}

Open(call) == Cardinality(salesTx) < MaxOpen /\ salesTx' = salesTx \cup {call}

-----------------------------------------------------------------------------
(* Reservations and bookings.                                              *)

CheckReservation(r) ==
  /\ ~Has(reservation, r) /\ salesUnit \in {"RELEASED", "AVAILABLE"}
  /\ ~\E s \in Reservation : In(reservation, s, {"ACTIVE"}) /\ reservation[s].live
  /\ Open([call |-> "reserve", row |-> r, locks |-> {r}])
  /\ Unlocked(salesTx, {r})
  /\ UNCHANGED <<sale, money, handover>>

CommitReservation(t) ==
  /\ t.call = "reserve"
  /\ reservation' = [reservation EXCEPT ![t.row] =
       [status |-> "ACTIVE", live |-> TRUE, booking |-> {}]]
  /\ salesUnit' = "RESERVED" /\ salesTx' = salesTx \ {t}
  /\ UNCHANGED <<booking, money, handover>>

\* expires_at passes: no service runs.
ReservationLapses(r) ==
  /\ In(reservation, r, {"ACTIVE"}) /\ reservation[r].live
  /\ reservation' = [reservation EXCEPT ![r].live = FALSE]
  /\ UNCHANGED <<salesUnit, booking, money, handover, salesTx>>

\* CONVERTED asks for a linked booking, which no active reservation has.
TransitionReservation(r) ==
  /\ \E to \in Offers(ReservationStages, reservation, r) :
       reservation' = Moved(reservation, r, to)
  /\ salesUnit' = IF salesUnit = "RESERVED" THEN "AVAILABLE" ELSE salesUnit
  /\ UNCHANGED <<booking, money, handover, salesTx>>

CheckBooking(b, for) ==
  /\ ~Has(booking, b) /\ Unlocked(salesTx, {b})
  /\ \A r \in for : In(reservation, r, {"ACTIVE"}) /\ reservation[r].live
  /\ for = {} => salesUnit \in {"RELEASED", "AVAILABLE"}
  /\ \A c \in Booking : In(booking, c, {"ABSENT", "CANCELLED", "REJECTED"})
  /\ Open([call |-> "book", row |-> b, for |-> for, locks |-> {b}])
  /\ UNCHANGED <<sale, money, handover>>

CommitBooking(t, a) ==
  /\ t.call = "book"
  /\ booking' = [booking EXCEPT ![t.row] =
       [status |-> "DRAFT", by |-> a, approver |-> {}, reservation |-> t.for]]
  /\ salesTx' = salesTx \ {t}
  /\ UNCHANGED <<salesUnit, reservation, money, handover>>

\* Mutant: a conversion does not record which booking it is for.
ConvertedUnnamed(r, b) == [reservation[r] EXCEPT !.status = "CONVERTED"]

Converted(r, b) == [reservation[r] EXCEPT !.status = "CONVERTED", !.booking = {b}]

\* The status of the unit is read with the booking, by a join that locks nothing.
CheckTransition(b, a) ==
  /\ Unlocked(salesTx, {b})
  /\ \E to \in Offers(BookingStages, booking, b) :
       /\ to = "APPROVED" => booking[b].by # a
       /\ Open([call |-> "transition", row |-> b, to |-> to, seen |-> salesUnit, locks |-> {b},
                approver |-> IF to = "APPROVED" THEN {a} ELSE booking[b].approver])
  /\ UNCHANGED <<sale, money, handover>>

\* The unit gets the status that the stage stands for, or the one that was read;
\* the reservation becomes CONVERTED whatever it has become since.
TransitionBooking(t) ==
  /\ t.call = "transition"
  /\ booking' = [booking EXCEPT ![t.row].status = t.to,
       ![t.row].approver = t.approver]
  /\ salesUnit' = CASE t.to = "APPROVED" -> "BOOKED"
                    [] t.to = "ACTIVE" -> "SOLD"
                    [] t.to = "CANCELLED" -> "AVAILABLE"
                    [] OTHER -> t.seen
  /\ reservation' = [r \in Reservation |->
       IF t.to = "APPROVED" /\ r \in booking[t.row].reservation
       THEN Converted(r, t.row) ELSE reservation[r]]
  /\ salesTx' = salesTx \ {t}
  /\ UNCHANGED <<money, handover>>

-----------------------------------------------------------------------------
(* Milestones, receipts, commissions.                                      *)

Scheduled(b) == MapThenSumSet(LAMBDA m : Due[m],
                  {m \in Milestone : Has(milestone, m) /\ milestone[m].booking = b})

\* No row is locked: two that are checked at once may exceed the consideration.
CheckMilestone(m, b) ==
  /\ ~Has(milestone, m) /\ Has(booking, b) /\ Unlocked(salesTx, {m})
  /\ Scheduled(b) + Due[m] <= Consideration
  /\ Open([call |-> "milestone", row |-> m, for |-> b, locks |-> {m}])
  /\ UNCHANGED <<sale, money, handover>>

CreateMilestone(t) ==
  /\ t.call = "milestone"
  /\ milestone' = [milestone EXCEPT ![t.row] =
       [status |-> "SCHEDULED", booking |-> t.for, paid |-> 0]]
  /\ salesTx' = salesTx \ {t}
  /\ UNCHANGED <<sale, receipt, commission, handover>>

MayCollect(b) == In(booking, b, {"APPROVED", "ACTIVE", "HANDED_OVER", "CLOSED"})

\* The view has read the booking; cancelling it meanwhile changes nothing here.
CreateReceipt(c, b, for, a) ==
  /\ ~Has(receipt, c) /\ MayCollect(b)
  /\ \A m \in for : Has(milestone, m) /\ milestone[m].booking = b
  /\ receipt' = [receipt EXCEPT ![c] =
       [status |-> "DRAFT", booking |-> b, milestone |-> for, by |-> a, confirmer |-> {}]]
  /\ UNCHANGED <<sale, milestone, commission, handover, salesTx>>

\* The amount paid is read with the lock on the receipt, not on the milestone.
CheckReceipt(c, a) ==
  /\ Unlocked(salesTx, {c})
  /\ \E to \in Offers(ReceiptStages, receipt, c) :
       LET settles == to \in {"CONFIRMED", "REVERSED"}
           seen == [m \in receipt[c].milestone |-> milestone[m].paid] IN
       /\ to = "CONFIRMED" => /\ receipt[c].by # a
                              /\ \A m \in DOMAIN seen : seen[m] + Amount[c] <= Due[m]
       /\ Open([call |-> "receipt", row |-> c, to |-> to,
                confirmer |-> IF to = "CONFIRMED" /\ receipt[c].milestone # {}
                              THEN {a} ELSE receipt[c].confirmer,
                seen |-> IF settles THEN seen ELSE <<>>, locks |-> {c}])
  /\ UNCHANGED <<sale, money, handover>>

Settled(m, to, seen, amount) ==
  LET paid == IF to = "CONFIRMED" THEN seen + amount
              ELSE IF seen < amount THEN 0 ELSE seen - amount IN
  [milestone[m] EXCEPT !.paid = paid,
     !.status = IF paid = Due[m] /\ to = "CONFIRMED" THEN "PAID"
                ELSE IF paid = 0 /\ to = "REVERSED" THEN "SCHEDULED" ELSE "PARTIALLY_PAID"]

CommitReceipt(t) ==
  /\ t.call = "receipt"
  /\ receipt' = [receipt EXCEPT ![t.row].status = t.to,
       ![t.row].confirmer = t.confirmer]
  /\ milestone' = [m \in Milestone |-> IF m \in DOMAIN t.seen
                     THEN Settled(m, t.to, t.seen[m], Amount[t.row]) ELSE milestone[m]]
  /\ salesTx' = salesTx \ {t}
  /\ UNCHANGED <<sale, commission, handover>>

CreateCommission(k, b, a) ==
  /\ ~Has(commission, k) /\ Has(booking, b)
  /\ commission' = [commission EXCEPT ![k] = [status |-> "DRAFT", by |-> a, approver |-> {}]]
  /\ UNCHANGED <<sale, milestone, receipt, handover, salesTx>>

TransitionCommission(k, a) ==
  /\ \E to \in Offers(CommissionStages, commission, k) :
       /\ to = "APPROVED" => commission[k].by # a
       /\ commission' = [commission EXCEPT ![k].status = to,
            ![k].approver = IF to = "APPROVED" THEN {a} ELSE @]
  /\ UNCHANGED <<sale, milestone, receipt, handover, salesTx>>

-----------------------------------------------------------------------------
(* Handover.                                                               *)

CreateHandover(h, b, a, defects) ==
  /\ ~Has(handover, h) /\ In(booking, b, {"ACTIVE", "HANDED_OVER", "CLOSED"})
  /\ \A g \in Handover : Has(handover, g) => handover[g].booking # b
  /\ handover' = [handover EXCEPT ![h] =
       [status |-> "DRAFT", booking |-> b, by |-> a, defects |-> defects]]
  /\ UNCHANGED <<sale, money, salesTx>>

\* Booking and unit are joined, so they are locked; their stages are not asked.
TransitionHandover(h, a) ==
  /\ \E to \in Offers(HandoverStages, handover, h) :
       /\ to = "READY" => handover[h].by # a
       /\ to \in {"READY", "OFFERED", "POSSESSED"} => ~handover[h].defects
       /\ Unlocked(salesTx, {handover[h].booking})
       /\ handover' = Moved(handover, h, to)
       /\ booking' = CASE to = "POSSESSED" -> Moved(booking, handover[h].booking, "HANDED_OVER")
                       [] to = "CLOSED" -> Moved(booking, handover[h].booking, "CLOSED")
                       [] OTHER -> booking
       /\ salesUnit' = IF to = "POSSESSED" THEN "HANDED_OVER" ELSE salesUnit
  /\ UNCHANGED <<reservation, money, salesTx>>

-----------------------------------------------------------------------------
SalesRollback(t) == salesTx' = salesTx \ {t} /\ UNCHANGED <<sale, money, handover>>

SalesNext ==
  \/ \E r \in Reservation : CheckReservation(r) \/ ReservationLapses(r) \/ TransitionReservation(r)
  \/ \E a \in Actor, b \in Booking :
       \/ \E for \in SUBSET Reservation : Cardinality(for) <= 1 /\ CheckBooking(b, for)
       \/ CheckTransition(b, a)
       \/ \E m \in Milestone : CheckMilestone(m, b)
       \/ \E c \in Receipt, for \in SUBSET Milestone :
            Cardinality(for) <= 1 /\ CreateReceipt(c, b, for, a)
       \/ \E k \in Commission : CreateCommission(k, b, a)
       \/ \E h \in Handover, defects \in BOOLEAN : CreateHandover(h, b, a, defects)
  \/ \E a \in Actor :
       \/ \E c \in Receipt : CheckReceipt(c, a)
       \/ \E k \in Commission : TransitionCommission(k, a)
       \/ \E h \in Handover : TransitionHandover(h, a)
  \/ \E t \in salesTx :
       \/ CommitReservation(t) \/ CommitReceipt(t) \/ TransitionBooking(t)
       \/ CreateMilestone(t) \/ SalesRollback(t)
       \/ \E a \in Actor : CommitBooking(t, a)

SalesSpec == SalesInit /\ [][SalesNext]_salesVars

SalesTypeOK ==
  /\ salesUnit \in {"DRAFT", "RELEASED", "AVAILABLE", "RESERVED", "BOOKED", "SOLD", "HANDED_OVER"}
  /\ reservation \in [Reservation -> UnitReservationRow \cup {Absent}]
  /\ booking \in [Booking -> BookingAgreementRow \cup {Absent}]
  /\ milestone \in [Milestone -> PaymentMilestoneRow \cup {Absent}]
  /\ receipt \in [Receipt -> CollectionReceiptRow \cup {Absent}]
  /\ commission \in [Commission -> BrokerCommissionRow \cup {Absent}]
  /\ handover \in [Handover -> CustomerHandoverRow \cup {Absent}]

\* Money is confirmed, and a reservation converted, only for a booking that was
\* approved by another user than its creator, although bookings, receipts and
\* reservations are decided in different transactions that lock only themselves;
\* and no milestone holds more than is due, whatever receipts race for it.
CollectionsAreTraced ==
  /\ \A c \in Receipt : Has(receipt, c) =>
       LET b == booking[receipt[c].booking] IN b.approver # {} /\ b.by \notin b.approver
  /\ \A r \in Reservation : In(reservation, r, {"CONVERTED"}) =>
       \E b \in reservation[r].booking : booking[b].approver # {} /\ r \in booking[b].reservation
  /\ \A m \in Milestone : Has(milestone, m) => milestone[m].paid <= Due[m]
=============================================================================
