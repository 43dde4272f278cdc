---------------------------- MODULE EstateProofs ----------------------------
(***************************************************************************)
(* Proofs about Estate, for any number of agreements, offers, bookings,    *)
(* receipts and callers: types, that no month of a unit is let twice, that *)
(* a parcel is acquired on an accepted offer and an approved feasibility,  *)
(* and that collections lead to approved bookings.                         *)
(*                                                                         *)
(* Every service of these is a lock with checks and a later commit.  What  *)
(* the invariants add to the properties is what an open transaction has    *)
(* found and nobody can have changed since: because it holds the row, or   *)
(* because rows of the kind only ever move the other way.                  *)
(***************************************************************************)
EXTENDS Estate, FiniteSetTheorems, TLAPS

-----------------------------------------------------------------------------
(* Letting.                                                                *)

LeaseTxOK(t) ==
  /\ t.lease \in Lease /\ t.locks = LocksOfLease(t.lease)
  /\ t.to \in Offers(LeaseStages, lease, t.lease)
  /\ t.to \in Binding => ~Overlapped(t.lease)

\* One transaction at a time holds the unit; what it found of the agreements
\* stands until it commits.
LeaseInv ==
  /\ LeaseTypeOK
  /\ \A t, u \in leaseTx : t = u
  /\ \A t \in leaseTx : LeaseTxOK(t)
  /\ NoDoubleLetting

-----------------------------------------------------------------------------
(* Acquisition.                                                            *)

OfferStatus == DOMAIN OfferStages \cup {"ACCEPTED", "EXPIRED", "WITHDRAWN"}

OwnershipTxOK(t) ==
  /\ t.do = "OWNERSHIP" /\ t.to = "PENDING" /\ t.locks = {}
  /\ t.by \in Actor

Justified == \E s \in opportunity.feasibility : In(feasibility, s, {"APPROVED", "SUPERSEDED"})
Agreed == \E f \in Offer : In(offer, f, {"ACCEPTED"})

\* The row is locked; an approved scenario is only ever superseded and an
\* accepted offer stays one, although neither is.
OpportunityTxOK(t) ==
  /\ t.do = "OPPORTUNITY" /\ t.locks = {"opportunity"}
  /\ opportunity.status \in DOMAIN OpportunityStages
  /\ t.to \in OpportunityStages[opportunity.status]
  /\ t.to \in {"NEGOTIATION", "APPROVED"} => Justified
  /\ t.to = "ACQUIRED" => Agreed

OfferTxOK(t) ==
  /\ t.do = "OFFER"
  /\ \E f \in Offer :
       /\ t.of = {f} /\ t.locks = LocksOfOffer(f)
       /\ t.to \in Offers(OfferStages, offer, f)
       /\ t.to = "ACCEPTED" => \A g \in Offer \ {f} : ~In(offer, g, {"ACCEPTED"})

LandInv ==
  /\ LandTypeOK /\ IsFiniteSet(landTx)
  /\ \A t, u \in landTx : "opportunity" \in t.locks \cap u.locks => t = u
  /\ \A t \in landTx : OwnershipTxOK(t) \/ OpportunityTxOK(t) \/ OfferTxOK(t)
  /\ AcquisitionIsBacked

-----------------------------------------------------------------------------
(* Sale.                                                                   *)

UnitStatus == {"DRAFT", "RELEASED", "AVAILABLE", "RESERVED", "BOOKED", "SOLD", "HANDED_OVER"}

\* A booking that another user than its creator approved, whatever became of it.
Approved(b) ==
  /\ b \in Booking /\ Has(booking, b)
  /\ booking[b].approver # {} /\ booking[b].by \notin booking[b].approver

ReserveTxOK(t) == t.call = "reserve" /\ t.row \in Reservation

BookTxOK(t) ==
  /\ t.call = "book" /\ t.row \in Booking /\ ~Has(booking, t.row)
  /\ t.for \in SUBSET Reservation /\ \A r \in t.for : Has(reservation, r)

\* The approver to be written is the caller, or who approved before.
TransitionTxOK(t) ==
  /\ t.call = "transition" /\ t.row \in Booking /\ t.seen \in UnitStatus
  /\ t.to \in Offers(BookingStages, booking, t.row)
  /\ t.approver \in SUBSET Actor /\ booking[t.row].by \notin t.approver
  /\ t.to = "APPROVED" \/ Approved(t.row) => t.approver # {}

MilestoneTxOK(t) ==
  t.call = "milestone" /\ t.row \in Milestone /\ t.for \in Booking /\ ~Has(milestone, t.row)

\* The amount that was read need not be the amount that is there.
ReceiptTxOK(t) ==
  /\ t.call = "receipt" /\ t.row \in Receipt /\ t.confirmer \in SUBSET Actor
  /\ t.to \in Offers(ReceiptStages, receipt, t.row)
  /\ \A m \in DOMAIN t.seen \cap Milestone :
       /\ Has(milestone, m) /\ t.seen[m] \in Nat /\ t.seen[m] <= Due[m]
       /\ t.to = "CONFIRMED" => t.seen[m] + Amount[t.row] <= Due[m]
  /\ t.to \notin {"CONFIRMED", "REVERSED"} => DOMAIN t.seen \cap Milestone = {}

BookingsHold ==
  \A b \in Booking : Has(booking, b) =>
    /\ booking[b].by \notin booking[b].approver
    /\ booking[b].status \in {"APPROVED", "ACTIVE", "HANDED_OVER", "CLOSED"} => booking[b].approver # {}
    /\ \A r \in booking[b].reservation : Has(reservation, r)

ReceiptsHold ==
  \A c \in Receipt : Has(receipt, c) =>
    Approved(receipt[c].booking) /\ \A m \in receipt[c].milestone : Has(milestone, m)

HandoversHold == \A h \in Handover : Has(handover, h) => Approved(handover[h].booking)

ConversionsHold ==
  \A r \in Reservation : In(reservation, r, {"CONVERTED"}) =>
    \E b \in reservation[r].booking : Approved(b) /\ r \in booking[b].reservation

SalesTxOK(t) ==
  /\ t.locks = {t.row}
  /\ ReserveTxOK(t) \/ BookTxOK(t) \/ TransitionTxOK(t) \/ MilestoneTxOK(t) \/ ReceiptTxOK(t)

SalesInv ==
  /\ SalesTypeOK
  /\ \A t, u \in salesTx : t.row = u.row => t = u
  /\ \A t \in salesTx : SalesTxOK(t)
  /\ BookingsHold /\ ReceiptsHold /\ HandoversHold /\ ConversionsHold
  /\ \A m \in Milestone : Has(milestone, m) => milestone[m].paid <= Due[m]

-----------------------------------------------------------------------------
(* Proofs of letting.                                                      *)

\* Where an agreement moves to, and from which stages nothing leaves.
LEMMA LeaseMoves ==
  ASSUME NEW l \in Lease, NEW to \in Offers(LeaseStages, lease, l),
         lease \in [Lease -> LeaseRow \cup {Absent}]
  PROVE  /\ lease[l] \in LeaseRow /\ lease[l] # Absent
         /\ to \in {"DRAFT", "SUBMITTED", "REJECTED", "APPROVED", "ACTIVE", "EXPIRED", "TERMINATED",
                    "CLOSED", "CANCELLED"}
<1>1. lease[l].status # "ABSENT"
  BY DEF Offers, LeaseStages
<1>2. lease[l] \in LeaseRow
  BY <1>1 DEF Absent
<1>3. QED BY <1>1, <1>2 DEF Offers, LeaseStages, Absent

LEMMA LeaseInitOK == ASSUME LeaseAssumption, LeaseInit PROVE LeaseInv
BY DEF LeaseInit, LeaseInv, LeaseTypeOK, UnitRow, NoDoubleLetting, In, Absent, Binding

LEMMA LeaseStep == ASSUME LeaseAssumption, LeaseInv, [LeaseNext]_leaseVars PROVE LeaseInv'
<1> USE DEF LeaseInv, LeaseTypeOK
<1>1. ASSUME NEW l \in Lease, NEW a \in Actor, CreateLease(l, a) PROVE LeaseInv'
  <2>1. lease[l].status = "ABSENT" /\ UNCHANGED <<leaseUnit, occupancy, invoice, case, leaseTx>>
    BY <1>1 DEF CreateLease, Has
  <2>2. lease' = [lease EXCEPT ![l] = [status |-> "DRAFT", by |-> a]]
    BY <1>1 DEF CreateLease
  <2>3. [status |-> "DRAFT", by |-> a] \in LeaseRow
    BY DEF LeaseRow
  <2>4. LeaseTypeOK'
    BY <2>1, <2>2, <2>3
  <2>5. \A m \in Lease : /\ m # l => lease'[m] = lease[m]
                         /\ In(lease', m, Binding) => In(lease, m, Binding) /\ m # l
    BY <2>2 DEF In, Binding
  <2>6. ASSUME NEW t \in leaseTx PROVE LeaseTxOK(t)'
    <3>1. LeaseTxOK(t) /\ t.lease # l
      BY <2>1 DEF LeaseTxOK, Offers, LeaseStages
    <3>2. QED BY <2>1, <2>5, <3>1 DEF LeaseTxOK, Offers, Overlapped
  <2>7. NoDoubleLetting'
    BY <2>5 DEF NoDoubleLetting
  <2>8. QED BY <2>1, <2>4, <2>6, <2>7
<1>2. ASSUME NEW l \in Lease, NEW a \in Actor, CheckLease(l, a) PROVE LeaseInv'
  <2>1. UNCHANGED <<leaseUnit, lease, occupancy, invoice, case>> /\ Unlocked(leaseTx, LocksOfLease(l))
    BY <1>2 DEF CheckLease
  <2>2. PICK to \in Offers(LeaseStages, lease, l) :
          /\ to \in Binding => ~Overlapped(l)
          /\ leaseTx' = leaseTx \cup {[lease |-> l, to |-> to, locks |-> LocksOfLease(l)]}
    BY <1>2 DEF CheckLease
  <2> DEFINE new == [lease |-> l, to |-> to, locks |-> LocksOfLease(l)]
  <2>3. leaseTx = {}
    BY <2>1 DEF Unlocked, LeaseTxOK, LocksOfLease
  <2>4. LeaseTxOK(new)'
    BY <2>1, <2>2 DEF LeaseTxOK, Offers, Overlapped
  <2>5. new.to \in {"CANCELLED"} \cup Binding \cup {"REJECTED", "DRAFT", "EXPIRED", "TERMINATED", "CLOSED"}
    BY <2>2, LeaseMoves DEF Binding
  <2>6. leaseTx' = {new}
    BY <2>2, <2>3
  <2> HIDE DEF new
  <2>7. LeaseTypeOK'
    BY <2>1, <2>4, <2>5, <2>6 DEF LeaseTxOK
  <2>8. NoDoubleLetting'
    BY <2>1 DEF NoDoubleLetting
  <2>9. QED BY <2>4, <2>6, <2>7, <2>8
<1>3. ASSUME NEW t \in leaseTx, CommitLease(t) PROVE LeaseInv'
  <2>1. UNCHANGED <<occupancy, invoice, case>> /\ leaseTx' = {} /\ LeaseTxOK(t)
    BY <1>3 DEF CommitLease
  <2>2. lease[t.lease] \in LeaseRow /\ lease'= [lease EXCEPT ![t.lease].status = t.to]
    BY <1>3, <2>1, LeaseMoves DEF CommitLease, Moved, LeaseTxOK
  <2>3. lease' \in [Lease -> LeaseRow \cup {Absent}]
    <3>1. [lease[t.lease] EXCEPT !.status = t.to] \in LeaseRow
      BY <2>1, <2>2, LeaseMoves DEF LeaseRow, LeaseTxOK
    <3>2. QED BY <2>1, <2>2, <3>1 DEF LeaseTxOK
  <2>4. leaseUnit' \in UnitRow
    BY <1>3 DEF CommitLease, UnitRow
  <2>5. \A m \in Lease : m # t.lease => lease'[m] = lease[m]
    BY <2>1, <2>2 DEF LeaseTxOK
  <2>6. In(lease', t.lease, Binding) => ~Overlapped(t.lease)
    <3>1. lease'[t.lease].status = t.to
      BY <2>1, <2>2 DEF LeaseTxOK, LeaseRow
    <3>2. QED BY <2>1, <3>1 DEF LeaseTxOK, In
  <2>7. NoDoubleLetting'
    BY <2>1, <2>5, <2>6 DEF NoDoubleLetting, Overlapped, In, LeaseTxOK
  <2>8. QED BY <2>1, <2>3, <2>4, <2>7
<1>4. ASSUME NEW t \in leaseTx, RollbackLease(t) PROVE LeaseInv'
  <2>1. leaseTx' \subseteq leaseTx /\ UNCHANGED <<leaseUnit, lease, occupancy, invoice, case>>
    BY <1>4 DEF RollbackLease
  <2>2. QED BY <2>1 DEF LeaseTxOK, Offers, Overlapped, NoDoubleLetting
<1>5. ASSUME NEW o \in Occupancy, NEW l \in Lease, NEW a \in Actor, CreateOccupancy(o, l, a) PROVE LeaseInv'
  <2>1. UNCHANGED <<leaseUnit, lease, invoice, case, leaseTx>>
    BY <1>5 DEF CreateOccupancy
  <2>2. occupancy' \in [Occupancy -> OccupancyRow \cup {Absent}]
    BY <1>5 DEF CreateOccupancy, OccupancyRow, OccupancyStages
  <2>3. QED BY <2>1, <2>2 DEF LeaseTxOK, Offers, Overlapped, NoDoubleLetting
<1>6. ASSUME NEW o \in Occupancy, NEW a \in Actor, TransitionOccupancy(o, a) PROVE LeaseInv'
  <2>1. UNCHANGED <<lease, invoice, case, leaseTx>>
    BY <1>6 DEF TransitionOccupancy
  <2>2. PICK to \in Offers(OccupancyStages, occupancy, o) :
          occupancy' = [occupancy EXCEPT ![o].status = to] /\ leaseUnit' \in {"OCCUPIED", "LEASED", "AVAILABLE", leaseUnit}
    BY <1>6 DEF TransitionOccupancy, Moved
  <2>3. occupancy[o] \in OccupancyRow
    BY <2>2 DEF Offers, OccupancyStages, Absent
  <2>4. to \in DOMAIN OccupancyStages \cup {"CLOSED", "CANCELLED"}
    BY <2>2 DEF Offers, OccupancyStages
  <2>5. [occupancy[o] EXCEPT !.status = to] \in OccupancyRow
    BY <2>3, <2>4 DEF OccupancyRow
  <2>6. occupancy' \in [Occupancy -> OccupancyRow \cup {Absent}]
    BY <2>2, <2>5
  <2>7. leaseUnit' \in UnitRow
    BY <2>2 DEF UnitRow
  <2>8. QED BY <2>1, <2>6, <2>7 DEF LeaseTxOK, Offers, Overlapped, NoDoubleLetting
<1>7. ASSUME NEW n \in Invoice, NEW l \in Lease, NEW a \in Actor, CreateInvoice(n, l, a) PROVE LeaseInv'
  <2>1. UNCHANGED <<leaseUnit, lease, occupancy, case, leaseTx>>
    BY <1>7 DEF CreateInvoice
  <2>2. [status |-> "DRAFT", by |-> a, paid |-> 0, lease |-> l] \in InvoiceRow
    BY DEF LeaseAssumption, InvoiceRow, InvoiceStages
  <2>3. invoice' \in [Invoice -> InvoiceRow \cup {Absent}]
    BY <1>7, <2>2 DEF CreateInvoice
  <2>4. QED BY <2>1, <2>3 DEF LeaseTxOK, Offers, Overlapped, NoDoubleLetting
<1>8. ASSUME NEW n \in Invoice, NEW a \in Actor, TransitionInvoice(n, a) PROVE LeaseInv'
  <2>1. UNCHANGED <<leaseUnit, lease, occupancy, case, leaseTx>>
    BY <1>8 DEF TransitionInvoice
  <2>2. PICK to \in Offers(InvoiceStages, invoice, n) : \E amount \in 0..Charged :
          invoice' = [invoice EXCEPT ![n].status = to, ![n].paid = IF to = "PAID" THEN Charged ELSE amount]
    BY <1>8 DEF TransitionInvoice
  <2>3. invoice[n] \in InvoiceRow
    BY <2>2 DEF Offers, InvoiceStages, Absent
  <2>4. to \in DOMAIN InvoiceStages \cup {"PAID", "VOID"}
    BY <2>2 DEF Offers, InvoiceStages
  <2>5. PICK amount \in 0..Charged :
          invoice' = [invoice EXCEPT ![n].status = to, ![n].paid = IF to = "PAID" THEN Charged ELSE amount]
    BY <2>2
  <2> DEFINE paid == IF to = "PAID" THEN Charged ELSE amount
             row == [invoice[n] EXCEPT !.status = to, !.paid = paid]
  <2>6. invoice' = [invoice EXCEPT ![n] = row]
    BY <2>5
  <2>7. invoice' \in [Invoice -> InvoiceRow \cup {Absent}]
    <3>1. paid \in 0..Charged
      BY DEF LeaseAssumption
    <3> HIDE DEF paid
    <3>2. row \in InvoiceRow
      BY <2>3, <2>4, <3>1 DEF InvoiceRow
    <3> HIDE DEF row
    <3>3. QED BY <2>6, <3>2
  <2>8. QED BY <2>1, <2>7 DEF LeaseTxOK, Offers, Overlapped, NoDoubleLetting
<1>9. ASSUME NEW c \in Case, CreateCase(c) \/ TransitionCase(c) PROVE LeaseInv'
  <2>1. UNCHANGED <<leaseUnit, lease, occupancy, invoice, leaseTx>>
    BY <1>9 DEF CreateCase, TransitionCase
  <2>2. CASE CreateCase(c)
    BY <2>1, <2>2 DEF CreateCase, CaseRow, CaseStages, LeaseTxOK, Offers, Overlapped, NoDoubleLetting
  <2>3. CASE TransitionCase(c)
    <3>1. PICK to \in Offers(CaseStages, case, c) :
            \E resolved \in BOOLEAN \cup {case[c].resolved} :
              case' = [case EXCEPT ![c] = [status |-> to, resolved |-> resolved]]
      BY <2>3 DEF TransitionCase
    <3>2. case[c] \in CaseRow
      BY <3>1 DEF Offers, CaseStages, Absent
    <3>3. to \in DOMAIN CaseStages \cup {"CLOSED", "CANCELLED"}
      BY <3>1 DEF Offers, CaseStages
    <3>4. case' \in [Case -> CaseRow \cup {Absent}]
      <4>1. case[c].resolved \in BOOLEAN
        BY <3>2 DEF CaseRow
      <4>2. PICK resolved \in BOOLEAN : case' = [case EXCEPT ![c] = [status |-> to, resolved |-> resolved]]
        BY <3>1, <4>1
      <4>3. [status |-> to, resolved |-> resolved] \in CaseRow
        BY <3>3, <4>2 DEF CaseRow
      <4>4. QED BY <4>2, <4>3
    <3>5. QED BY <2>1, <3>4 DEF LeaseTxOK, Offers, Overlapped, NoDoubleLetting
  <2>4. QED BY <1>9, <2>2, <2>3
<1>10. ASSUME UNCHANGED leaseVars PROVE LeaseInv'
  BY <1>10 DEF leaseVars, LeaseTxOK, Offers, Overlapped, NoDoubleLetting
<1>11. QED
  BY <1>1, <1>2, <1>3, <1>4, <1>5, <1>6, <1>7, <1>8, <1>9, <1>10 DEF LeaseNext

LEMMA LeaseInvariance == ASSUME LeaseAssumption PROVE LeaseSpec => []LeaseInv
<1>1. LeaseInit => LeaseInv
  BY LeaseInitOK
<1>2. LeaseInv /\ [LeaseNext]_leaseVars => LeaseInv'
  BY LeaseStep
<1>3. QED BY <1>1, <1>2, PTL DEF LeaseSpec

\* Rows of leaseops keep their types.
THEOREM LeaseTypeCorrect == ASSUME LeaseAssumption PROVE LeaseSpec => []LeaseTypeOK
<1>1. LeaseInv => LeaseTypeOK
  BY DEF LeaseInv
<1>2. QED BY <1>1, LeaseInvariance, PTL

\* No month of a unit is let twice, for any number of agreements, whatever months
\* they cover, and of callers who submit, approve and activate them at once.
THEOREM LeaseNoDoubleLetting == ASSUME LeaseAssumption PROVE LeaseSpec => []NoDoubleLetting
<1>1. LeaseInv => NoDoubleLetting
  BY DEF LeaseInv
<1>2. QED BY <1>1, LeaseInvariance, PTL

-----------------------------------------------------------------------------
(* Proofs of acquisition.                                                  *)

\* One row of a table is replaced.
LEMMA RowReplaced ==
  ASSUME NEW K, NEW Row, NEW table \in [K -> Row \cup {Absent}], NEW k \in K, NEW row \in Row
  PROVE  [table EXCEPT ![k] = row] \in [K -> Row \cup {Absent}]
OBVIOUS

LEMMA RowMoved ==
  ASSUME NEW K, NEW Row, NEW table \in [K -> Row \cup {Absent}], NEW k \in K, NEW to,
         [table[k] EXCEPT !.status = to] \in Row
  PROVE  Moved(table, k, to) \in [K -> Row \cup {Absent}]
<1>1. Moved(table, k, to) = [table EXCEPT ![k] = [table[k] EXCEPT !.status = to]]
  BY DEF Moved
<1>2. QED BY <1>1, RowReplaced

\* Whatever an open transaction found stands while the opportunity, the offers
\* and the parcel stay and no scenario loses its approval.
LEMMA LandStands ==
  ASSUME LandInv, LandTypeOK', IsFiniteSet(landTx'), UNCHANGED <<opportunity, parcel, offer>>, landTx' \subseteq landTx,
         \A s \in Scenario : In(feasibility, s, {"APPROVED", "SUPERSEDED"}) => In(feasibility', s, {"APPROVED", "SUPERSEDED"})
  PROVE  LandInv'
<1>1. opportunity # Absent => opportunity \in AcquisitionOpportunityRow
  BY DEF LandInv, LandTypeOK
<1>2. \A s \in opportunity.feasibility : opportunity # Absent => s \in Scenario
  BY <1>1 DEF AcquisitionOpportunityRow
<1>3. opportunity.status # "ABSENT" /\ Justified => Justified'
  BY <1>2 DEF Justified, Absent
<1>4. Agreed => Agreed'
  BY DEF Agreed, In
<1>5. ASSUME NEW t \in landTx PROVE (OwnershipTxOK(t) \/ OpportunityTxOK(t) \/ OfferTxOK(t))'
  <2>1. CASE OwnershipTxOK(t)
    BY <2>1 DEF OwnershipTxOK
  <2>2. CASE OpportunityTxOK(t)
    <3>1. opportunity.status # "ABSENT"
      BY <2>2 DEF OpportunityTxOK, OpportunityStages
    <3>2. OpportunityTxOK(t)'
      BY <1>3, <1>4, <2>2, <3>1 DEF OpportunityTxOK
    <3>3. QED BY <3>2
  <2>3. CASE OfferTxOK(t)
    BY <2>3 DEF OfferTxOK, Offers, In
  <2>4. QED BY <2>1, <2>2, <2>3 DEF LandInv
<1>6. AcquisitionIsBacked'
  <2>1. opportunity.status \in PastFeasibility => opportunity.status # "ABSENT"
    BY DEF PastFeasibility
  <2>2. AcquisitionIsBacked
    BY DEF LandInv
  <2>3. QED BY <1>3, <2>1, <2>2 DEF AcquisitionIsBacked, Justified, In
<1>7. QED BY <1>5, <1>6 DEF LandInv

\* The approval of a scenario is not taken back.
LEMMA ApprovalsStand ==
  ASSUME feasibility \in [Scenario -> FeasibilityScenarioRow \cup {Absent}],
         NEW s \in Scenario, NEW to \in Offers(FeasibilityStages, feasibility, s),
         feasibility' = Moved(feasibility, s, to), NEW x \in Scenario,
         In(feasibility, x, {"APPROVED", "SUPERSEDED"})
  PROVE  In(feasibility', x, {"APPROVED", "SUPERSEDED"})
<1>1. CASE x = s
  <2>1. to = "SUPERSEDED"
    BY <1>1 DEF In, Offers, FeasibilityStages
  <2>2. feasibility'[s].status = to
    BY <1>1 DEF Moved, In, FeasibilityScenarioRow, Absent
  <2>3. QED BY <1>1, <2>1, <2>2 DEF In
<1>2. CASE x # s
  BY <1>2 DEF Moved, In
<1>3. QED BY <1>1, <1>2

\* The files of a parcel, save what adds a transaction.
LEMMA FilesStep ==
  ASSUME LandAssumption, LandInv, NEW a \in Actor,
         \/ \E w \in Owner : VerifyOwnership(w, a)
         \/ \E d \in Diligence : CreateDiligence(d, a) \/ TransitionDiligence(d, a)
         \/ \E s \in Scenario : CreateFeasibility(s, a) \/ TransitionFeasibility(s, a)
         \/ \E p \in Permit : CreateApproval(p, a) \/ TransitionApproval(p, a)
  PROVE  LandInv'
<1> USE DEF LandInv, LandTypeOK
<1>1. ASSUME NEW w \in Owner, VerifyOwnership(w, a) PROVE LandInv'
  <2>1. UNCHANGED <<diligence, feasibility, approval, risk, opportunity, parcel, offer, landTx>>
    BY <1>1 DEF VerifyOwnership
  <2>2. PICK to \in Offers(OwnershipStages, ownership, w) :
          ownership' = [ownership EXCEPT ![w].status = to, ![w].verifier = IF to = "VERIFIED" THEN {a} ELSE {}]
    BY <1>1 DEF VerifyOwnership
  <2>3. ownership[w] \in OwnershipInterestRow /\ to \in {"PENDING", "VERIFIED", "REJECTED"}
    BY <2>2 DEF Offers, OwnershipStages, Absent
  <2> DEFINE verifier == IF to = "VERIFIED" THEN {a} ELSE {}
             row == [ownership[w] EXCEPT !.status = to, !.verifier = verifier]
  <2>4. ownership' = [ownership EXCEPT ![w] = row]
    BY <2>2
  <2>5. verifier \in {{}} \cup {{b} : b \in Actor}
    OBVIOUS
  <2> HIDE DEF verifier
  <2>6. row \in OwnershipInterestRow
    BY <2>3, <2>5 DEF OwnershipInterestRow
  <2> HIDE DEF row
  <2>7. ownership' \in [Owner -> OwnershipInterestRow \cup {Absent}]
    BY <2>4, <2>6, RowReplaced
  <2>8. QED BY <2>1, <2>7, LandStands DEF In
<1>2. ASSUME NEW d \in Diligence, CreateDiligence(d, a) PROVE LandInv'
  <2>1. UNCHANGED <<ownership, feasibility, approval, risk, opportunity, parcel, offer, landTx>>
    BY <1>2 DEF CreateDiligence
  <2>2. [status |-> "DRAFT", by |-> a] \in DueDiligenceCaseRow
    BY DEF DueDiligenceCaseRow, DiligenceStages
  <2>3. diligence' \in [Diligence -> DueDiligenceCaseRow \cup {Absent}]
    BY <1>2, <2>2, RowReplaced DEF CreateDiligence
  <2>4. QED BY <2>1, <2>3, LandStands DEF In
<1>3. ASSUME NEW d \in Diligence, TransitionDiligence(d, a) PROVE LandInv'
  <2>1. UNCHANGED <<ownership, feasibility, approval, risk, opportunity, parcel, offer, landTx>>
    BY <1>3 DEF TransitionDiligence
  <2>2. PICK to \in Offers(DiligenceStages, diligence, d) : diligence' = Moved(diligence, d, to)
    BY <1>3 DEF TransitionDiligence
  <2>3. diligence[d] \in DueDiligenceCaseRow
    BY <2>2 DEF Offers, DiligenceStages, Absent
  <2>4. to \in DOMAIN DiligenceStages \cup {"CLEARED", "CANCELLED"}
    BY <2>2 DEF Offers, DiligenceStages
  <2>5. [diligence[d] EXCEPT !.status = to] \in DueDiligenceCaseRow
    BY <2>3, <2>4 DEF DueDiligenceCaseRow
  <2>6. diligence' \in [Diligence -> DueDiligenceCaseRow \cup {Absent}]
    BY <2>2, <2>5, RowMoved
  <2>7. QED BY <2>1, <2>6, LandStands DEF In
<1>4. ASSUME NEW s \in Scenario, CreateFeasibility(s, a) PROVE LandInv'
  <2>1. UNCHANGED <<ownership, diligence, approval, risk, opportunity, parcel, offer, landTx>>
    BY <1>4 DEF CreateFeasibility
  <2>2. [status |-> "DRAFT", by |-> a] \in FeasibilityScenarioRow
    BY DEF FeasibilityScenarioRow, FeasibilityStages
  <2>3. feasibility' \in [Scenario -> FeasibilityScenarioRow \cup {Absent}]
    BY <1>4, <2>2, RowReplaced DEF CreateFeasibility
  <2>4. feasibility[s].status = "ABSENT" /\ \A x \in Scenario : x # s => feasibility'[x] = feasibility[x]
    BY <1>4 DEF CreateFeasibility, Has
  <2>5. \A x \in Scenario : In(feasibility, x, {"APPROVED", "SUPERSEDED"}) => In(feasibility', x, {"APPROVED", "SUPERSEDED"})
    BY <2>4 DEF In
  <2>6. QED BY <2>1, <2>3, <2>5, LandStands
<1>5. ASSUME NEW s \in Scenario, TransitionFeasibility(s, a) PROVE LandInv'
  <2>1. UNCHANGED <<ownership, diligence, approval, risk, opportunity, parcel, offer, landTx>>
    BY <1>5 DEF TransitionFeasibility
  <2>2. PICK to \in Offers(FeasibilityStages, feasibility, s) : feasibility' = Moved(feasibility, s, to)
    BY <1>5 DEF TransitionFeasibility
  <2>3. feasibility[s] \in FeasibilityScenarioRow
    BY <2>2 DEF Offers, FeasibilityStages, Absent
  <2>4. to \in DOMAIN FeasibilityStages \cup {"SUPERSEDED", "CANCELLED"}
    BY <2>2 DEF Offers, FeasibilityStages
  <2>5. [feasibility[s] EXCEPT !.status = to] \in FeasibilityScenarioRow
    BY <2>3, <2>4 DEF FeasibilityScenarioRow
  <2>6. feasibility' \in [Scenario -> FeasibilityScenarioRow \cup {Absent}]
    BY <2>2, <2>5, RowMoved
  <2>7. \A x \in Scenario : In(feasibility, x, {"APPROVED", "SUPERSEDED"}) => In(feasibility', x, {"APPROVED", "SUPERSEDED"})
    BY <2>2, ApprovalsStand
  <2>8. QED BY <2>1, <2>6, <2>7, LandStands
<1>6. ASSUME NEW p \in Permit, CreateApproval(p, a) PROVE LandInv'
  <2>1. UNCHANGED <<ownership, diligence, feasibility, risk, opportunity, parcel, offer, landTx>>
    BY <1>6 DEF CreateApproval
  <2>2. PICK to \in ApprovalStatus : approval' = [approval EXCEPT ![p] = [status |-> to, by |-> a]]
    BY <1>6 DEF CreateApproval
  <2>3. [status |-> to, by |-> a] \in StatutoryApprovalRow
    BY DEF StatutoryApprovalRow
  <2>4. approval' \in [Permit -> StatutoryApprovalRow \cup {Absent}]
    BY <2>2, <2>3, RowReplaced
  <2>5. QED BY <2>1, <2>4, LandStands DEF In
<1>7. ASSUME NEW p \in Permit, TransitionApproval(p, a) PROVE LandInv'
  <2>1. UNCHANGED <<ownership, diligence, feasibility, risk, opportunity, parcel, offer, landTx>>
    BY <1>7 DEF TransitionApproval
  <2>2. PICK to \in Offers(ApprovalStages, approval, p) : approval' = Moved(approval, p, to)
    BY <1>7 DEF TransitionApproval
  <2>3. approval[p] \in StatutoryApprovalRow
    BY <2>2 DEF Offers, ApprovalStages, Absent
  <2>4. to \in ApprovalStatus
    BY <2>2 DEF Offers, ApprovalStages, ApprovalStatus
  <2>5. [approval[p] EXCEPT !.status = to] \in StatutoryApprovalRow
    BY <2>3, <2>4 DEF StatutoryApprovalRow
  <2>6. approval' \in [Permit -> StatutoryApprovalRow \cup {Absent}]
    BY <2>2, <2>5, RowMoved
  <2>7. QED BY <2>1, <2>6, LandStands DEF In
<1>8. QED BY <1>1, <1>2, <1>3, <1>4, <1>5, <1>6, <1>7

LEMMA RisksStep ==
  ASSUME LandInv, NEW k \in Risk, CreateRisk(k) \/ TransitionRisk(k)
  PROVE  LandInv'
<1>1. UNCHANGED <<ownership, diligence, feasibility, approval, opportunity, parcel, offer, landTx>>
  BY DEF CreateRisk, TransitionRisk
<1>2. risk' \in [Risk -> LandRiskRow \cup {Absent}]
  <2>1. CASE CreateRisk(k)
    <3>1. [status |-> "OPEN"] \in LandRiskRow
      BY DEF LandRiskRow, RiskStages
    <3>2. QED BY <2>1, <3>1, RowReplaced DEF CreateRisk, LandInv, LandTypeOK
  <2>2. CASE TransitionRisk(k)
    <3>1. PICK to \in Offers(RiskStages, risk, k) : risk' = Moved(risk, k, to)
      BY <2>2 DEF TransitionRisk
    <3>2. risk[k] \in LandRiskRow /\ to \in DOMAIN RiskStages
      BY <3>1 DEF Offers, RiskStages, Absent, LandInv, LandTypeOK
    <3>3. [risk[k] EXCEPT !.status = to] \in LandRiskRow
      BY <3>2 DEF LandRiskRow
    <3>4. QED BY <3>1, <3>3, RowMoved DEF LandInv, LandTypeOK
  <2>3. QED BY <2>1, <2>2
<1>3. QED BY <1>1, <1>2, LandStands DEF LandInv, LandTypeOK, In

\* An open transaction of the opportunity or of an offer is the only such one.
LEMMA NobodyDecides ==
  ASSUME LandInv, NEW locks, "opportunity" \in locks, Unlocked(landTx, locks)
  PROVE  \A t \in landTx : OwnershipTxOK(t) /\ t.locks = {}
BY DEF LandInv, Unlocked, OwnershipTxOK, OpportunityTxOK, OfferTxOK, LocksOfOffer

\* A transaction is opened that says what it found.
LEMMA LandOpens ==
  ASSUME LandAssumption, LandInv, Cardinality(landTx) < MaxOpen, NEW new, landTx' = landTx \cup {new},
         UNCHANGED <<files, opportunity, parcel, offer>>,
         OwnershipTxOK(new) \/ OpportunityTxOK(new) \/ OfferTxOK(new),
         "opportunity" \in new.locks => Unlocked(landTx, new.locks)
  PROVE  LandInv'
<1>1. IsFiniteSet(landTx') /\ Cardinality(landTx') <= MaxOpen
  <2>1. IsFiniteSet(landTx) /\ MaxOpen \in Nat
    BY DEF LandInv, LandAssumption
  <2>2. /\ IsFiniteSet(landTx') /\ Cardinality(landTx) \in Nat
        /\ Cardinality(landTx') = Cardinality(landTx) \/ Cardinality(landTx') = Cardinality(landTx) + 1
    BY <2>1, FS_AddElement, FS_CardinalityType
  <2>3. QED BY <2>1, <2>2
<1>2. LandTypeOK' /\ AcquisitionIsBacked'
  BY <1>1 DEF LandInv, LandTypeOK, files, AcquisitionIsBacked, In
<1>3. ASSUME NEW t \in landTx' PROVE (OwnershipTxOK(t) \/ OpportunityTxOK(t) \/ OfferTxOK(t))'
  <2>1. OwnershipTxOK(t) \/ OpportunityTxOK(t) \/ OfferTxOK(t)
    BY DEF LandInv
  <2>2. OwnershipTxOK(t) => OwnershipTxOK(t)'
    BY DEF OwnershipTxOK
  <2>3. OpportunityTxOK(t) => OpportunityTxOK(t)'
    BY DEF OpportunityTxOK, Justified, Agreed, files, In
  <2>4. OfferTxOK(t) => OfferTxOK(t)'
    BY DEF OfferTxOK, Offers, In
  <2>5. QED BY <2>1, <2>2, <2>3, <2>4
<1>4. ASSUME NEW t \in landTx', NEW u \in landTx', "opportunity" \in t.locks \cap u.locks PROVE t = u
  <2>1. CASE "opportunity" \in new.locks
    <3>1. \A v \in landTx : v.locks = {}
      BY <2>1, NobodyDecides
    <3>2. QED BY <1>4, <3>1
  <2>2. CASE "opportunity" \notin new.locks
    BY <1>4, <2>2 DEF LandInv
  <2>3. QED BY <2>1, <2>2
<1>5. QED BY <1>1, <1>2, <1>3, <1>4 DEF LandInv

LEMMA ChecksStep ==
  ASSUME LandAssumption, LandInv, NEW a \in Actor,
         (\E w \in Owner : CheckOwnership(w, a)) \/ CheckOpportunity(a) \/ (\E f \in Offer : CheckOffer(f, a))
  PROVE  LandInv'
<1>1. ASSUME NEW w \in Owner, CheckOwnership(w, a) PROVE LandInv'
  <2> DEFINE new == [do |-> "OWNERSHIP", of |-> {w}, to |-> "PENDING", by |-> a, locks |-> {}]
  <2>1. /\ Cardinality(landTx) < MaxOpen /\ landTx' = landTx \cup {new}
        /\ UNCHANGED <<files, opportunity, parcel, offer>>
    BY <1>1 DEF CheckOwnership, Opens
  <2>2. OwnershipTxOK(new) /\ new.locks = {}
    BY DEF OwnershipTxOK
  <2> HIDE DEF new
  <2>3. QED BY <2>1, <2>2, LandOpens
<1>2. ASSUME CheckOpportunity(a) PROVE LandInv'
  <2>1. /\ Cardinality(landTx) < MaxOpen /\ Unlocked(landTx, {"opportunity"})
        /\ opportunity.status \in DOMAIN OpportunityStages
        /\ UNCHANGED <<files, opportunity, parcel, offer>>
    BY <1>2 DEF CheckOpportunity
  <2>2. PICK to \in OpportunityStages[opportunity.status] :
          MayProceed(to, a) /\ Opens("OPPORTUNITY", {}, to, a, {"opportunity"})
    BY <1>2 DEF CheckOpportunity
  <2> DEFINE new == [do |-> "OPPORTUNITY", of |-> {}, to |-> to, by |-> a, locks |-> {"opportunity"}]
  <2>3. to \in {"NEGOTIATION", "APPROVED"} => Justified
    BY <2>2 DEF MayProceed, Feasible, Justified, In
  <2>4. to = "ACQUIRED" => Agreed
    BY <2>2 DEF MayProceed, Agreed
  <2>5. OpportunityTxOK(new) /\ new.locks = {"opportunity"}
    BY <2>1, <2>2, <2>3, <2>4 DEF OpportunityTxOK
  <2>6. landTx' = landTx \cup {new}
    BY <2>2 DEF Opens
  <2> HIDE DEF new
  <2>7. QED BY <2>1, <2>5, <2>6, LandOpens
<1>3. ASSUME NEW f \in Offer, CheckOffer(f, a) PROVE LandInv'
  <2>1. /\ Cardinality(landTx) < MaxOpen /\ Unlocked(landTx, LocksOfOffer(f))
        /\ UNCHANGED <<files, opportunity, parcel, offer>>
    BY <1>3 DEF CheckOffer
  <2>2. PICK to \in Offers(OfferStages, offer, f) :
          /\ to = "ACCEPTED" => \A g \in Offer \ {f} : ~In(offer, g, {"ACCEPTED"})
          /\ Opens("OFFER", {f}, to, a, LocksOfOffer(f))
    BY <1>3 DEF CheckOffer
  <2> DEFINE new == [do |-> "OFFER", of |-> {f}, to |-> to, by |-> a, locks |-> LocksOfOffer(f)]
  <2>3. OfferTxOK(new) /\ new.locks = LocksOfOffer(f)
    BY <2>2 DEF OfferTxOK
  <2>4. landTx' = landTx \cup {new}
    BY <2>2 DEF Opens
  <2> HIDE DEF new
  <2>5. QED BY <2>1, <2>3, <2>4, LandOpens
<1>4. QED BY <1>1, <1>2, <1>3

LEMMA LandCloses ==
  ASSUME LandAssumption, LandInv, NEW t \in landTx, landTx' = landTx \ {t}
  PROVE  IsFiniteSet(landTx') /\ Cardinality(landTx') <= MaxOpen
<1>1. IsFiniteSet(landTx) /\ MaxOpen \in Nat /\ Cardinality(landTx) <= MaxOpen
  BY DEF LandInv, LandTypeOK, LandAssumption
<1>2. IsFiniteSet(landTx') /\ Cardinality(landTx') = Cardinality(landTx) - 1 /\ Cardinality(landTx) \in Nat
  BY <1>1, FS_RemoveElement, FS_CardinalityType
<1>3. QED BY <1>1, <1>2

\* Who names a stage that is past feasibility says so; the rest have to move there.
LEMMA OpportunityCreated ==
  ASSUME LandAssumption, LandInv, NEW a \in Actor, NEW s \in SUBSET Scenario, Cardinality(s) <= 1, CreateOpportunity(s, a)
  PROVE  LandInv'
<1>1. UNCHANGED <<files, parcel, offer, landTx>> /\ opportunity.status = "ABSENT"
  BY DEF CreateOpportunity, Absent
<1>2. PICK to \in OpportunityStatus :
        opportunity' = [status |-> to, by |-> a, feasibility |-> s, entered |-> to]
  BY DEF CreateOpportunity
<1>3. s \in {{}} \cup {{x} : x \in Scenario}
  <2>1. IsFiniteSet(s) /\ Cardinality(s) \in Nat
    BY FS_Subset, FS_CardinalityType DEF LandAssumption
  <2>2. CASE Cardinality(s) = 0
    BY <2>1, <2>2, FS_EmptySet
  <2>3. CASE Cardinality(s) = 1
    <3>1. PICK x : s = {x}
      BY <2>1, <2>3, FS_Singleton
    <3>2. QED BY <3>1
  <2>4. QED BY <2>1, <2>2, <2>3
<1>4. opportunity' \in AcquisitionOpportunityRow
  BY <1>2, <1>3 DEF AcquisitionOpportunityRow
<1>5. LandTypeOK'
  BY <1>1, <1>4 DEF LandInv, LandTypeOK, files
<1>6. AcquisitionIsBacked'
  <2>1. opportunity'.status = opportunity'.entered
    BY <1>2
  <2>2. parcel'.status = parcel'.entered
    BY <1>1 DEF LandInv, AcquisitionIsBacked, Acquired
  <2>3. QED BY <1>1, <2>1, <2>2 DEF LandInv, AcquisitionIsBacked, In
<1>7. ASSUME NEW t \in landTx' PROVE (OwnershipTxOK(t) \/ OpportunityTxOK(t) \/ OfferTxOK(t))'
  <2>1. OwnershipTxOK(t) \/ OfferTxOK(t)
    BY <1>1 DEF LandInv, OpportunityTxOK, OpportunityStages
  <2>2. OwnershipTxOK(t) => OwnershipTxOK(t)'
    BY DEF OwnershipTxOK
  <2>3. OfferTxOK(t) => OfferTxOK(t)'
    BY <1>1 DEF OfferTxOK, Offers, In
  <2>4. QED BY <2>1, <2>2, <2>3
<1>8. QED BY <1>1, <1>5, <1>6, <1>7 DEF LandInv

LEMMA OfferCreated ==
  ASSUME LandInv, NEW a \in Actor, NEW f \in Offer, CreateOffer(f, a)
  PROVE  LandInv'
<1>1. UNCHANGED <<files, opportunity, parcel, landTx>> /\ offer[f].status = "ABSENT"
  BY DEF CreateOffer, Has
<1>2. [status |-> "DRAFT", by |-> a] \in CommercialOfferRow
  BY DEF CommercialOfferRow, OfferStages
<1>3. offer' \in [Offer -> CommercialOfferRow \cup {Absent}]
  BY <1>2, RowReplaced DEF CreateOffer, LandInv, LandTypeOK
<1>4. \A g \in Offer : In(offer', g, {"ACCEPTED"}) <=> In(offer, g, {"ACCEPTED"})
  BY <1>1 DEF CreateOffer, In, LandInv, LandTypeOK
<1>5. \A g \in Offer : g # f => offer'[g] = offer[g]
  BY DEF CreateOffer, LandInv, LandTypeOK
<1>6. LandTypeOK'
  BY <1>1, <1>3 DEF LandInv, LandTypeOK, files
<1>7. AcquisitionIsBacked'
  <2>1. \A x \in opportunity.feasibility : In(feasibility', x, {"APPROVED", "SUPERSEDED"}) <=> In(feasibility, x, {"APPROVED", "SUPERSEDED"})
    BY <1>1 DEF files
  <2>2. QED BY <1>1, <1>4, <2>1 DEF LandInv, AcquisitionIsBacked
<1>8. ASSUME NEW t \in landTx' PROVE (OwnershipTxOK(t) \/ OpportunityTxOK(t) \/ OfferTxOK(t))'
  <2>1. OwnershipTxOK(t) \/ OpportunityTxOK(t) \/ OfferTxOK(t)
    BY <1>1 DEF LandInv
  <2>2. OwnershipTxOK(t) => OwnershipTxOK(t)'
    BY DEF OwnershipTxOK
  <2>3. OpportunityTxOK(t) => OpportunityTxOK(t)'
    BY <1>1, <1>4 DEF OpportunityTxOK, Justified, Agreed, files, In
  <2>4. ASSUME OfferTxOK(t) PROVE OfferTxOK(t)'
    <3>1. PICK g \in Offer :
            /\ t.of = {g} /\ t.locks = LocksOfOffer(g)
            /\ t.to \in Offers(OfferStages, offer, g)
            /\ t.to = "ACCEPTED" => \A h \in Offer \ {g} : ~In(offer, h, {"ACCEPTED"})
      BY <2>4 DEF OfferTxOK
    <3>2. g # f
      BY <1>1, <3>1 DEF Offers, OfferStages
    <3>3. t.to \in Offers(OfferStages, offer', g)
      BY <1>5, <3>1, <3>2 DEF Offers
    <3>4. QED BY <1>4, <2>4, <3>1, <3>3 DEF OfferTxOK
  <2>5. QED BY <2>1, <2>2, <2>3, <2>4
<1>9. QED BY <1>1, <1>6, <1>7, <1>8 DEF LandInv

LEMMA OwnershipCreated ==
  ASSUME LandAssumption, LandInv, NEW t \in landTx, CreateOwnership(t)
  PROVE  LandInv'
<1>1. UNCHANGED <<diligence, feasibility, approval, risk, opportunity, parcel, offer>> /\ landTx' = landTx \ {t}
  BY DEF CreateOwnership
<1>2. OwnershipTxOK(t)
  BY DEF LandInv, CreateOwnership, OpportunityTxOK, OfferTxOK
<1> DEFINE row == [status |-> t.to, by |-> t.by, verifier |-> {}]
<1>3. row \in OwnershipInterestRow
  BY <1>2 DEF OwnershipTxOK, OwnershipInterestRow
<1>4. ownership' = [w \in Owner |-> IF w \in t.of THEN row ELSE ownership[w]]
  BY DEF CreateOwnership
<1> HIDE DEF row
<1>5. ownership' \in [Owner -> OwnershipInterestRow \cup {Absent}]
  BY <1>3, <1>4 DEF LandInv, LandTypeOK
<1>6. IsFiniteSet(landTx') /\ Cardinality(landTx') <= MaxOpen
  BY <1>1, LandCloses
<1>7. LandTypeOK'
  BY <1>1, <1>5, <1>6 DEF LandInv, LandTypeOK
<1>8. QED BY <1>1, <1>6, <1>7, LandStands DEF In

LEMMA LandRolledBack ==
  ASSUME LandAssumption, LandInv, NEW t \in landTx, LandRollback(t)
  PROVE  LandInv'
<1>1. UNCHANGED <<files, opportunity, parcel, offer>> /\ landTx' = landTx \ {t}
  BY DEF LandRollback
<1>2. IsFiniteSet(landTx') /\ Cardinality(landTx') <= MaxOpen
  BY <1>1, LandCloses
<1>3. LandTypeOK'
  BY <1>1, <1>2 DEF LandInv, LandTypeOK, files
<1>4. QED BY <1>1, <1>2, <1>3, LandStands DEF In, files

\* With the transaction that decides on the opportunity or an offer gone, the
\* ones that are left record shares of the parcel.
LEMMA OthersRecord ==
  ASSUME LandInv, NEW t \in landTx, "opportunity" \in t.locks
  PROVE  \A u \in landTx \ {t} : OwnershipTxOK(u) /\ u.locks = {}
BY DEF LandInv, OwnershipTxOK, OpportunityTxOK, OfferTxOK, LocksOfOffer

LEMMA OpportunityCommitted ==
  ASSUME LandAssumption, LandInv, NEW t \in landTx, CommitOpportunity(t)
  PROVE  LandInv'
<1>1. UNCHANGED <<files, offer>> /\ landTx' = landTx \ {t}
  BY DEF CommitOpportunity
<1>2. OpportunityTxOK(t)
  BY DEF LandInv, CommitOpportunity, OwnershipTxOK, OfferTxOK
<1>3. IsFiniteSet(landTx') /\ Cardinality(landTx') <= MaxOpen
  BY <1>1, LandCloses
<1>4. \A u \in landTx' : OwnershipTxOK(u) /\ u.locks = {}
  BY <1>1, <1>2, OthersRecord DEF OpportunityTxOK
<1>5. opportunity \in AcquisitionOpportunityRow
  BY <1>2 DEF LandInv, LandTypeOK, OpportunityTxOK, OpportunityStages, Absent
<1>6. t.to \in OpportunityStatus
  BY <1>2 DEF OpportunityTxOK, OpportunityStatus, OpportunityStages
<1>7. opportunity' = [opportunity EXCEPT !.status = t.to]
  BY DEF CommitOpportunity
<1>8. opportunity' \in AcquisitionOpportunityRow
  BY <1>5, <1>6, <1>7 DEF AcquisitionOpportunityRow
<1>9. opportunity'.status = t.to /\ opportunity'.entered = opportunity.entered /\ opportunity'.feasibility = opportunity.feasibility
  BY <1>5, <1>7 DEF AcquisitionOpportunityRow
<1>10. LandTypeOK'
  <2>1. parcel' \in LandParcelRow
    BY DEF LandInv, LandTypeOK, CommitOpportunity, LandParcelRow, ParcelStatus
  <2>2. QED BY <1>1, <1>3, <1>8, <2>1 DEF LandInv, LandTypeOK, files
<1>11. AcquisitionIsBacked'
  <2>1. \A f \in Offer : In(offer', f, {"ACCEPTED"}) <=> In(offer, f, {"ACCEPTED"})
    BY <1>1
  <2>2. opportunity'.status \in PastFeasibility /\ opportunity'.entered \notin PastFeasibility => Justified
    <3>1. CASE t.to \in {"NEGOTIATION", "APPROVED"}
      BY <1>2, <3>1 DEF OpportunityTxOK
    <3>2. CASE t.to \in {"ACQUIRED", "CLOSED"}
      <4>1. opportunity.status \in PastFeasibility
        BY <1>2, <3>2 DEF OpportunityTxOK, OpportunityStages, PastFeasibility
      <4>2. QED BY <1>9, <4>1 DEF LandInv, AcquisitionIsBacked, Justified
    <3>3. QED BY <1>9, <3>1, <3>2 DEF PastFeasibility
  <2>3. opportunity'.status \in PastFeasibility /\ opportunity'.entered \notin PastFeasibility =>
          \E s \in opportunity'.feasibility : In(feasibility', s, {"APPROVED", "SUPERSEDED"})
    BY <1>1, <1>9, <2>2 DEF Justified, files
  <2>4. /\ opportunity'.status \in Acquired /\ opportunity'.entered \notin Acquired =>
             parcel'.status = "ACQUIRED" /\ Agreed
        /\ parcel'.status # parcel'.entered =>
             parcel'.status = "ACQUIRED" /\ opportunity'.status \in Acquired /\ Agreed
    <3>1. CASE t.to = "ACQUIRED"
      <4>1. Agreed /\ opportunity'.status \in Acquired
        BY <1>2, <1>9, <3>1 DEF OpportunityTxOK, Acquired
      <4>2. parcel'.status = "ACQUIRED"
        BY <3>1 DEF CommitOpportunity, LandInv, LandTypeOK, LandParcelRow
      <4>3. QED BY <4>1, <4>2
    <3>2. CASE t.to # "ACQUIRED"
      <4>1. parcel' = parcel
        BY <3>2 DEF CommitOpportunity
      <4>2. opportunity.status \in Acquired <=> opportunity'.status \in Acquired
        BY <1>2, <1>9, <3>2 DEF OpportunityTxOK, OpportunityStages, Acquired
      <4>3. QED BY <1>9, <4>1, <4>2 DEF LandInv, AcquisitionIsBacked, Agreed
    <3>3. QED BY <3>1, <3>2
  <2>5. \A f, g \in Offer : In(offer', f, {"ACCEPTED"}) /\ In(offer', g, {"ACCEPTED"}) => f = g
    BY <2>1 DEF LandInv, AcquisitionIsBacked
  <2>6. QED BY <2>1, <2>3, <2>4, <2>5 DEF AcquisitionIsBacked, Agreed
<1>12. \A u \in landTx' : OwnershipTxOK(u)'
  BY <1>4 DEF OwnershipTxOK
<1>13. \A u, v \in landTx' : "opportunity" \in u.locks \cap v.locks => u = v
  BY <1>4
<1>14. QED BY <1>3, <1>10, <1>11, <1>12, <1>13 DEF LandInv

\* An accepted offer has no stage to go to: no commit takes the acceptance back.
LEMMA OfferCommitted ==
  ASSUME LandAssumption, LandInv, NEW t \in landTx, CommitOffer(t)
  PROVE  LandInv'
<1>1. UNCHANGED <<files, opportunity, parcel>> /\ landTx' = landTx \ {t}
  BY DEF CommitOffer
<1>2. OfferTxOK(t)
  BY DEF LandInv, CommitOffer, OwnershipTxOK, OpportunityTxOK
<1>3. PICK f \in Offer :
        /\ t.of = {f} /\ t.locks = LocksOfOffer(f)
        /\ t.to \in Offers(OfferStages, offer, f)
        /\ t.to = "ACCEPTED" => \A g \in Offer \ {f} : ~In(offer, g, {"ACCEPTED"})
  BY <1>2 DEF OfferTxOK
<1>4. offer' = Moved(offer, f, t.to)
  BY <1>3 DEF CommitOffer
<1>5. IsFiniteSet(landTx') /\ Cardinality(landTx') <= MaxOpen
  BY <1>1, LandCloses
<1>6. \A u \in landTx' : OwnershipTxOK(u) /\ u.locks = {}
  BY <1>1, <1>3, OthersRecord DEF LocksOfOffer
<1>7. offer[f] \in CommercialOfferRow
  BY <1>3 DEF LandInv, LandTypeOK, Offers, OfferStages, Absent
<1>8. t.to \in OfferStatus
  BY <1>3 DEF Offers, OfferStages, OfferStatus
<1>9. [offer[f] EXCEPT !.status = t.to] \in CommercialOfferRow
  BY <1>7, <1>8 DEF CommercialOfferRow, OfferStatus
<1>10. offer' \in [Offer -> CommercialOfferRow \cup {Absent}]
  BY <1>4, <1>9, RowMoved DEF LandInv, LandTypeOK
<1>11. LandTypeOK'
  BY <1>1, <1>5, <1>10 DEF LandInv, LandTypeOK, files
<1>12. offer'[f].status = t.to /\ \A g \in Offer : g # f => offer'[g] = offer[g]
  BY <1>4, <1>7 DEF Moved, CommercialOfferRow, LandInv, LandTypeOK
<1>13. ~In(offer, f, {"ACCEPTED"})
  BY <1>3 DEF Offers, OfferStages, In
<1>14. \A g \in Offer : In(offer', g, {"ACCEPTED"}) <=> In(offer, g, {"ACCEPTED"}) \/ (g = f /\ t.to = "ACCEPTED")
  BY <1>12, <1>13 DEF In
<1>15. AcquisitionIsBacked'
  <2>1. \A x, y \in Offer : In(offer', x, {"ACCEPTED"}) /\ In(offer', y, {"ACCEPTED"}) => x = y
    BY <1>3, <1>14 DEF LandInv, AcquisitionIsBacked
  <2>2. QED BY <1>1, <1>14, <2>1 DEF LandInv, AcquisitionIsBacked, files, In
<1>16. \A u \in landTx' : OwnershipTxOK(u)'
  BY <1>6 DEF OwnershipTxOK
<1>17. \A u, v \in landTx' : "opportunity" \in u.locks \cap v.locks => u = v
  BY <1>6
<1>18. QED BY <1>5, <1>11, <1>15, <1>16, <1>17 DEF LandInv

LEMMA LandInitOK ==
  ASSUME LandAssumption, LandInit
  PROVE  LandInv
<1>1. IsFiniteSet(landTx) /\ Cardinality(landTx) = 0 /\ MaxOpen \in Nat
  BY FS_EmptySet DEF LandInit, LandAssumption
<1>2. LandTypeOK
  BY <1>1 DEF LandInit, LandTypeOK, LandParcelRow
<1>3. AcquisitionIsBacked
  BY DEF LandInit, AcquisitionIsBacked, In, Absent, PastFeasibility, Acquired
<1>4. QED BY <1>1, <1>2, <1>3 DEF LandInv, LandInit

LEMMA LandStep ==
  ASSUME LandAssumption, LandInv, [LandNext]_landVars
  PROVE  LandInv'
<1>1. CASE UNCHANGED landVars
  <2>1. LandTypeOK' /\ IsFiniteSet(landTx')
    BY <1>1 DEF landVars, files, LandInv, LandTypeOK
  <2>2. QED BY <1>1, <2>1, LandStands DEF landVars, files, In
<1>2. CASE LandNext
  <2>1. ASSUME NEW a \in Actor,
               \/ \E w \in Owner : CheckOwnership(w, a) \/ VerifyOwnership(w, a)
               \/ \E d \in Diligence : CreateDiligence(d, a) \/ TransitionDiligence(d, a)
               \/ \E s \in Scenario : CreateFeasibility(s, a) \/ TransitionFeasibility(s, a)
               \/ \E p \in Permit : CreateApproval(p, a) \/ TransitionApproval(p, a)
               \/ \E s \in SUBSET Scenario : Cardinality(s) <= 1 /\ CreateOpportunity(s, a)
               \/ CheckOpportunity(a)
               \/ \E f \in Offer : CreateOffer(f, a) \/ CheckOffer(f, a)
        PROVE LandInv'
    BY <2>1, FilesStep, ChecksStep, OpportunityCreated, OfferCreated
  <2>2. ASSUME NEW k \in Risk, CreateRisk(k) \/ TransitionRisk(k) PROVE LandInv'
    BY <2>2, RisksStep
  <2>3. ASSUME NEW t \in landTx, CreateOwnership(t) \/ CommitOpportunity(t) \/ CommitOffer(t) \/ LandRollback(t)
        PROVE LandInv'
    BY <2>3, OwnershipCreated, OpportunityCommitted, OfferCommitted, LandRolledBack
  <2>4. QED BY <1>2, <2>1, <2>2, <2>3 DEF LandNext
<1>3. QED BY <1>1, <1>2

LEMMA LandInvariance ==
  ASSUME LandAssumption
  PROVE  LandSpec => []LandInv
<1>1. LandInit => LandInv
  BY LandInitOK
<1>2. LandInv /\ [LandNext]_landVars => LandInv'
  BY LandStep
<1>3. QED BY <1>1, <1>2, PTL DEF LandSpec

\* In an acquisition every row is of its type and the open transactions keep to
\* their bound (modules/landops/application/services.py).
THEOREM LandTypeCorrect ==
  ASSUME LandAssumption
  PROVE  LandSpec => []LandTypeOK
<1>1. LandInv => LandTypeOK
  BY DEF LandInv
<1>2. QED BY <1>1, LandInvariance, PTL

\* Whatever status a parcel and whatever stage an opportunity is entered with: one
\* offer is accepted; an opportunity that was moved to ACQUIRED, and not entered
\* there, has an accepted offer, and its parcel is acquired; a parcel that is not as
\* it was entered was acquired that way; and an opportunity that was moved past
\* feasibility, and not entered there, rests on a scenario that was approved.  So it
\* is however the transitions interleave: what transition_opportunity reads of rows
\* it does not lock cannot be undone.
THEOREM LandAcquisitionIsBacked ==
  ASSUME LandAssumption
  PROVE  LandSpec => []AcquisitionIsBacked
<1>1. LandInv => AcquisitionIsBacked
  BY DEF LandInv
<1>2. QED BY <1>1, LandInvariance, PTL

-----------------------------------------------------------------------------
(* Proofs of sale.                                                         *)

LEMMA OfferedIsStatus ==
  ASSUME NEW stages, NEW table, NEW r, NEW to \in Offers(stages, table, r)
  PROVE  to \in Statuses(stages)
BY DEF Offers, Statuses

LEMMA OfferedIsNotAbsent ==
  ASSUME NEW table, NEW r
  PROVE  /\ \A to \in Offers(ReservationStages, table, r) : to \notin {"ABSENT", "CONVERTED"}
         /\ \A to \in Offers(BookingStages, table, r) : to \notin {"ABSENT", "HANDED_OVER"}
         /\ \A to \in Offers(ReceiptStages, table, r) : to # "ABSENT"
         /\ \A to \in Offers(CommissionStages, table, r) : to # "ABSENT"
         /\ \A to \in Offers(HandoverStages, table, r) : to # "ABSENT"
<1>1. \A to \in Offers(ReservationStages, table, r) : to \notin {"ABSENT", "CONVERTED"}
  BY DEF Offers, ReservationStages
<1>2. \A to \in Offers(BookingStages, table, r) : to \notin {"ABSENT", "HANDED_OVER"}
  BY DEF Offers, BookingStages
<1>3. \A to \in Offers(ReceiptStages, table, r) : to # "ABSENT"
  BY DEF Offers, ReceiptStages
<1>4. \A to \in Offers(CommissionStages, table, r) : to # "ABSENT"
  BY DEF Offers, CommissionStages
<1>5. \A to \in Offers(HandoverStages, table, r) : to # "ABSENT"
  BY DEF Offers, HandoverStages
<1>6. QED BY <1>1, <1>2, <1>3, <1>4, <1>5

\* A stage is offered to rows that are there.
LEMMA OfferedIsThere ==
  ASSUME NEW table, NEW r
  PROVE  /\ Offers(ReservationStages, table, r) # {} => Has(table, r)
         /\ Offers(BookingStages, table, r) # {} => Has(table, r)
         /\ Offers(ReceiptStages, table, r) # {} => Has(table, r)
         /\ Offers(CommissionStages, table, r) # {} => Has(table, r)
         /\ Offers(HandoverStages, table, r) # {} => Has(table, r)
<1>1. Offers(ReservationStages, table, r) # {} => Has(table, r)
  BY DEF Offers, ReservationStages, Has
<1>2. Offers(BookingStages, table, r) # {} => Has(table, r)
  BY DEF Offers, BookingStages, Has
<1>3. Offers(ReceiptStages, table, r) # {} => Has(table, r)
  BY DEF Offers, ReceiptStages, Has
<1>4. Offers(CommissionStages, table, r) # {} => Has(table, r)
  BY DEF Offers, CommissionStages, Has
<1>5. Offers(HandoverStages, table, r) # {} => Has(table, r)
  BY DEF Offers, HandoverStages, Has
<1>6. QED BY <1>1, <1>2, <1>3, <1>4, <1>5

\* A row that is there is a row of the table's type.
LEMMA ThereIsRow ==
  ASSUME NEW K, NEW Row, NEW table \in [K -> Row \cup {Absent}], NEW k \in K, Has(table, k)
  PROVE  table[k] \in Row
BY DEF Has, Absent

\* What an open transaction has found stands while its own row stays and no
\* reservation or milestone is removed.
LEMMA SalesTxStands ==
  ASSUME SalesInv, NEW t \in salesTx,
         \A r \in Reservation : Has(reservation, r) => Has(reservation', r),
         \A m \in Milestone : Has(milestone, m) => Has(milestone', m),
         t.call \in {"book", "transition"} => booking'[t.row] = booking[t.row],
         t.call = "milestone" => milestone'[t.row] = milestone[t.row],
         t.call = "receipt" => receipt'[t.row] = receipt[t.row]
  PROVE  SalesTxOK(t)'
<1>1. t.locks = {t.row}
  BY DEF SalesInv, SalesTxOK
<1>2. CASE ReserveTxOK(t)
  BY <1>1, <1>2 DEF ReserveTxOK, SalesTxOK
<1>3. CASE BookTxOK(t)
  <2>1. BookTxOK(t)'
    BY <1>3 DEF BookTxOK, Has
  <2>2. QED BY <1>1, <2>1 DEF SalesTxOK
<1>4. CASE TransitionTxOK(t)
  <2>1. booking'[t.row] = booking[t.row]
    BY <1>4 DEF TransitionTxOK
  <2>2. TransitionTxOK(t)'
    BY <1>4, <2>1 DEF TransitionTxOK, Offers, Approved, Has
  <2>3. QED BY <1>1, <2>2 DEF SalesTxOK
<1>5. CASE MilestoneTxOK(t)
  <2>1. MilestoneTxOK(t)'
    BY <1>5 DEF MilestoneTxOK, Has
  <2>2. QED BY <1>1, <2>1 DEF SalesTxOK
<1>6. CASE ReceiptTxOK(t)
  <2>1. receipt'[t.row] = receipt[t.row]
    BY <1>6 DEF ReceiptTxOK
  <2>2. Offers(ReceiptStages, receipt', t.row) = Offers(ReceiptStages, receipt, t.row)
    BY <2>1 DEF Offers
  <2>3. ReceiptTxOK(t)'
    BY <1>6, <2>2 DEF ReceiptTxOK
  <2>4. QED BY <1>1, <2>3 DEF SalesTxOK
<1>7. QED BY <1>2, <1>3, <1>4, <1>5, <1>6 DEF SalesInv, SalesTxOK

\* Bookings that were approved stay so, with the reservation they were made on.
ApprovalsKept ==
  \A b \in Booking : Approved(b) => Approved(b)' /\ booking'[b].reservation = booking[b].reservation

\* What receipts, conversions and handovers rest on is not lost with that.
LEMMA SalesRecordsStand ==
  ASSUME SalesInv, ApprovalsKept
  PROVE  /\ /\ UNCHANGED receipt
            /\ \A m \in Milestone : Has(milestone, m) => Has(milestone', m)
            => ReceiptsHold'
         /\ UNCHANGED handover => HandoversHold'
         /\ (\A r \in Reservation : In(reservation', r, {"CONVERTED"}) => reservation'[r] = reservation[r])
            => ConversionsHold'
<1>1. ASSUME UNCHANGED receipt, \A m \in Milestone : Has(milestone, m) => Has(milestone', m)
      PROVE  ReceiptsHold'
  <2>1. ASSUME NEW c \in Receipt, Has(receipt, c)
        PROVE  Approved(receipt[c].booking)' /\ \A m \in receipt[c].milestone : Has(milestone', m)
    <3>1. receipt[c] \in CollectionReceiptRow
      BY <2>1, ThereIsRow DEF SalesInv, SalesTypeOK
    <3>2. receipt[c].booking \in Booking /\ receipt[c].milestone \subseteq Milestone
      BY <3>1 DEF CollectionReceiptRow
    <3>3. QED BY <1>1, <2>1, <3>2 DEF SalesInv, ReceiptsHold, ApprovalsKept
  <2>2. QED BY <1>1, <2>1 DEF ReceiptsHold
<1>2. ASSUME UNCHANGED handover PROVE HandoversHold'
  <2>1. ASSUME NEW h \in Handover, Has(handover, h) PROVE Approved(handover[h].booking)'
    <3>1. handover[h] \in CustomerHandoverRow
      BY <2>1, ThereIsRow DEF SalesInv, SalesTypeOK
    <3>2. handover[h].booking \in Booking
      BY <3>1 DEF CustomerHandoverRow
    <3>3. QED BY <1>2, <2>1, <3>2 DEF SalesInv, HandoversHold, ApprovalsKept
  <2>2. QED BY <1>2, <2>1 DEF HandoversHold
<1>3. ASSUME \A r \in Reservation : In(reservation', r, {"CONVERTED"}) => reservation'[r] = reservation[r]
      PROVE  ConversionsHold'
  <2>1. ASSUME NEW r \in Reservation, In(reservation', r, {"CONVERTED"})
        PROVE  \E b \in reservation'[r].booking : Approved(b)' /\ r \in booking'[b].reservation
    <3>1. reservation'[r] = reservation[r]
      BY <1>3, <2>1
    <3>2. In(reservation, r, {"CONVERTED"})
      BY <2>1, <3>1 DEF In
    <3>3. PICK b \in reservation[r].booking : Approved(b) /\ r \in booking[b].reservation
      BY <3>2 DEF SalesInv, ConversionsHold
    <3>4. b \in Booking
      BY <3>3 DEF Approved
    <3>5. QED BY <3>1, <3>3, <3>4 DEF ApprovalsKept
  <2>2. QED BY <2>1 DEF ConversionsHold
<1>4. QED BY <1>1, <1>2, <1>3

LEMMA UnchangedApprovals ==
  ASSUME UNCHANGED booking
  PROVE  ApprovalsKept
BY DEF ApprovalsKept, Approved, Has

\* Steps that leave bookings, milestones and receipts alone.
LEMMA ReservationsMove ==
  ASSUME SalesInv, SalesTypeOK', salesTx' \subseteq salesTx, UNCHANGED <<booking, milestone, receipt>>,
         \A r \in Reservation : Has(reservation, r) => Has(reservation', r),
         \A r \in Reservation : In(reservation', r, {"CONVERTED"}) => reservation'[r] = reservation[r],
         UNCHANGED handover \/ HandoversHold'
  PROVE  SalesInv'
<1>1. ApprovalsKept
  BY UnchangedApprovals
<1>2. \A t \in salesTx' : SalesTxOK(t)'
  BY SalesTxStands
<1>3. ReceiptsHold' /\ HandoversHold' /\ ConversionsHold'
  BY <1>1, SalesRecordsStand
<1>4. BookingsHold'
  <2>1. ASSUME NEW b \in Booking, Has(booking, b) PROVE \A r \in booking[b].reservation : Has(reservation', r)
    <3>1. booking[b] \in BookingAgreementRow
      BY <2>1, ThereIsRow DEF SalesInv, SalesTypeOK
    <3>2. booking[b].reservation \subseteq Reservation
      BY <3>1 DEF BookingAgreementRow
    <3>3. QED BY <2>1, <3>2 DEF SalesInv, BookingsHold
  <2>2. QED BY <2>1 DEF SalesInv, BookingsHold, Has
<1>5. \A m \in Milestone : Has(milestone', m) => milestone'[m].paid <= Due[m]
  BY DEF SalesInv
<1>6. QED BY <1>2, <1>3, <1>4, <1>5 DEF SalesInv

\* A transaction is opened that says what it found; nothing is written.
LEMMA SalesOpens ==
  ASSUME SalesInv, NEW new, salesTx' = salesTx \cup {new}, UNCHANGED <<sale, money, handover>>,
         SalesTxOK(new), Unlocked(salesTx, {new.row})
  PROVE  SalesInv'
<1>1. \A t \in salesTx' : SalesTxOK(t)
  BY DEF SalesInv
<1>2. ASSUME NEW t \in salesTx' PROVE SalesTxOK(t)'
  <2>1. UNCHANGED <<reservation, booking, milestone, receipt>>
    BY DEF sale, money
  <2>2. SalesTxOK(t)
    BY <1>1
  <2>3. ReserveTxOK(t) => ReserveTxOK(t)'
    BY DEF ReserveTxOK
  <2>4. BookTxOK(t) => BookTxOK(t)'
    BY <2>1 DEF BookTxOK, Has
  <2>5. TransitionTxOK(t) => TransitionTxOK(t)'
    BY <2>1 DEF TransitionTxOK, Approved, Offers, Has
  <2>6. MilestoneTxOK(t) => MilestoneTxOK(t)'
    BY <2>1 DEF MilestoneTxOK, Has
  <2>7. ReceiptTxOK(t) => ReceiptTxOK(t)'
    BY <2>1 DEF ReceiptTxOK, Offers, Has
  <2>8. QED BY <2>2, <2>3, <2>4, <2>5, <2>6, <2>7 DEF SalesTxOK
<1>3. ASSUME NEW t \in salesTx', NEW u \in salesTx', t.row = u.row PROVE t = u
  <2>1. \A v \in salesTx : v.row # new.row
    BY DEF Unlocked, SalesInv, SalesTxOK
  <2>2. QED BY <1>3, <2>1 DEF SalesInv
<1>4. SalesTypeOK'
  BY DEF SalesInv, SalesTypeOK, sale, money
<1>5. ApprovalsKept
  BY UnchangedApprovals DEF sale
<1>6. ReceiptsHold' /\ HandoversHold' /\ ConversionsHold'
  BY <1>5, SalesRecordsStand DEF sale, money, Has
<1>7. BookingsHold' /\ \A m \in Milestone : Has(milestone', m) => milestone'[m].paid <= Due[m]
  BY DEF SalesInv, BookingsHold, sale, money, Has
<1>8. QED BY <1>2, <1>3, <1>4, <1>6, <1>7 DEF SalesInv

\* The checks: each opens a transaction.
LEMMA ReservationChecked ==
  ASSUME SalesInv, NEW r \in Reservation, CheckReservation(r)
  PROVE  SalesInv'
<1> DEFINE new == [call |-> "reserve", row |-> r, locks |-> {r}]
<1>1. salesTx' = salesTx \cup {new} /\ Unlocked(salesTx, {r}) /\ UNCHANGED <<sale, money, handover>>
  BY DEF CheckReservation, Open
<1>2. SalesTxOK(new) /\ new.row = r
  BY DEF SalesTxOK, ReserveTxOK
<1> HIDE DEF new
<1>3. QED BY <1>1, <1>2, SalesOpens

LEMMA BookingsChecked ==
  ASSUME SalesInv, NEW a \in Actor, NEW b \in Booking,
         \/ \E for \in SUBSET Reservation : CheckBooking(b, for)
         \/ CheckTransition(b, a)
         \/ \E m \in Milestone : CheckMilestone(m, b)
  PROVE  SalesInv'
<1>1. ASSUME NEW for \in SUBSET Reservation, CheckBooking(b, for) PROVE SalesInv'
  <2> DEFINE new == [call |-> "book", row |-> b, for |-> for, locks |-> {b}]
  <2>1. salesTx' = salesTx \cup {new} /\ Unlocked(salesTx, {b}) /\ UNCHANGED <<sale, money, handover>>
    BY <1>1 DEF CheckBooking, Open
  <2>2. ~Has(booking, b) /\ \A r \in for : Has(reservation, r)
    BY <1>1 DEF CheckBooking, Has, In
  <2>3. SalesTxOK(new) /\ new.row = b
    BY <2>2 DEF SalesTxOK, BookTxOK
  <2> HIDE DEF new
  <2>4. QED BY <2>1, <2>3, SalesOpens
<1>2. ASSUME CheckTransition(b, a) PROVE SalesInv'
  <2>1. PICK to \in Offers(BookingStages, booking, b) :
          /\ to = "APPROVED" => booking[b].by # a
          /\ Open([call |-> "transition", row |-> b, to |-> to, seen |-> salesUnit, locks |-> {b},
                   approver |-> IF to = "APPROVED" THEN {a} ELSE booking[b].approver])
    BY <1>2 DEF CheckTransition
  <2> DEFINE approver == IF to = "APPROVED" THEN {a} ELSE booking[b].approver
             new == [call |-> "transition", row |-> b, to |-> to, seen |-> salesUnit, locks |-> {b},
                     approver |-> approver]
  <2>2. salesTx' = salesTx \cup {new}
    BY <2>1 DEF Open
  <2>3. Unlocked(salesTx, {b}) /\ UNCHANGED <<sale, money, handover>>
    BY <1>2 DEF CheckTransition
  <2>4. Has(booking, b) /\ booking[b] \in BookingAgreementRow
    BY <2>1, OfferedIsThere, ThereIsRow DEF SalesInv, SalesTypeOK
  <2>5. approver \in SUBSET Actor /\ booking[b].by \notin approver
    BY <2>1, <2>4 DEF BookingAgreementRow, SalesInv, BookingsHold
  <2>6. to = "APPROVED" \/ Approved(b) => approver # {}
    BY DEF Approved
  <2>7. salesUnit \in UnitStatus
    BY DEF SalesInv, SalesTypeOK, UnitStatus
  <2> HIDE DEF approver
  <2>8. SalesTxOK(new) /\ new.row = b
    BY <2>1, <2>5, <2>6, <2>7 DEF SalesTxOK, TransitionTxOK
  <2> HIDE DEF new
  <2>9. QED BY <2>2, <2>3, <2>8, SalesOpens
<1>3. ASSUME NEW m \in Milestone, CheckMilestone(m, b) PROVE SalesInv'
  <2> DEFINE new == [call |-> "milestone", row |-> m, for |-> b, locks |-> {m}]
  <2>1. salesTx' = salesTx \cup {new} /\ Unlocked(salesTx, {m}) /\ UNCHANGED <<sale, money, handover>>
    BY <1>3 DEF CheckMilestone, Open
  <2>2. SalesTxOK(new) /\ new.row = m
    BY <1>3 DEF SalesTxOK, MilestoneTxOK, CheckMilestone
  <2> HIDE DEF new
  <2>3. QED BY <2>1, <2>2, SalesOpens
<1>4. QED BY <1>1, <1>2, <1>3

LEMMA ReceiptChecked ==
  ASSUME SalesInv, NEW a \in Actor, NEW c \in Receipt, CheckReceipt(c, a)
  PROVE  SalesInv'
<1> DEFINE read == [m \in receipt[c].milestone |-> milestone[m].paid]
<1>1. PICK to \in Offers(ReceiptStages, receipt, c) :
        /\ to = "CONFIRMED" => \A m \in DOMAIN read : read[m] + Amount[c] <= Due[m]
        /\ Open([call |-> "receipt", row |-> c, to |-> to,
                 confirmer |-> IF to = "CONFIRMED" /\ receipt[c].milestone # {}
                               THEN {a} ELSE receipt[c].confirmer,
                 seen |-> IF to \in {"CONFIRMED", "REVERSED"} THEN read ELSE <<>>, locks |-> {c}])
  BY DEF CheckReceipt
<1> DEFINE confirmer == IF to = "CONFIRMED" /\ receipt[c].milestone # {} THEN {a} ELSE receipt[c].confirmer
           seen == IF to \in {"CONFIRMED", "REVERSED"} THEN read ELSE <<>>
           new == [call |-> "receipt", row |-> c, to |-> to, confirmer |-> confirmer,
                   seen |-> seen, locks |-> {c}]
<1>2. salesTx' = salesTx \cup {new}
  BY <1>1 DEF Open
<1>3. Unlocked(salesTx, {c}) /\ UNCHANGED <<sale, money, handover>>
  BY DEF CheckReceipt
<1>4. Has(receipt, c) /\ receipt[c] \in CollectionReceiptRow
  BY <1>1, OfferedIsThere, ThereIsRow DEF SalesInv, SalesTypeOK
<1>5. confirmer \in SUBSET Actor
  BY <1>4 DEF CollectionReceiptRow
<1>6. ASSUME NEW m \in receipt[c].milestone
      PROVE  Has(milestone, m) /\ read[m] \in Nat /\ read[m] <= Due[m]
  <2>1. m \in Milestone /\ Has(milestone, m)
    BY <1>4 DEF CollectionReceiptRow, SalesInv, ReceiptsHold
  <2>2. milestone[m] \in PaymentMilestoneRow
    BY <2>1, ThereIsRow DEF SalesInv, SalesTypeOK
  <2>3. QED BY <2>1, <2>2 DEF PaymentMilestoneRow, SalesInv
<1>7. DOMAIN read = receipt[c].milestone
  OBVIOUS
<1> HIDE DEF read
<1>8. DOMAIN <<>> = {}
  OBVIOUS
<1>9. CASE to \in {"CONFIRMED", "REVERSED"}
  <2>1. seen = read
    BY <1>9
  <2> HIDE DEF seen, confirmer
  <2>2. ReceiptTxOK(new)
    BY <1>1, <1>5, <1>6, <1>7, <1>9, <2>1 DEF ReceiptTxOK
  <2>3. SalesTxOK(new) /\ new.row = c
    BY <2>2 DEF SalesTxOK
  <2> HIDE DEF new
  <2>4. QED BY <1>2, <1>3, <2>3, SalesOpens
<1>10. CASE to \notin {"CONFIRMED", "REVERSED"}
  <2>1. DOMAIN seen \cap Milestone = {}
    BY <1>8, <1>10
  <2> HIDE DEF seen, confirmer
  <2>2. ReceiptTxOK(new)
    BY <1>1, <1>5, <1>10, <2>1 DEF ReceiptTxOK
  <2>3. SalesTxOK(new) /\ new.row = c
    BY <2>2 DEF SalesTxOK
  <2> HIDE DEF new
  <2>4. QED BY <1>2, <1>3, <2>3, SalesOpens
<1>11. QED BY <1>9, <1>10

LEMMA ReservationsStep ==
  ASSUME SalesInv,
         \/ \E t \in salesTx : CommitReservation(t)
         \/ \E r \in Reservation : ReservationLapses(r) \/ TransitionReservation(r)
  PROVE  SalesInv'
<1>1. reservation \in [Reservation -> UnitReservationRow \cup {Absent}] /\ SalesTypeOK
  BY DEF SalesInv, SalesTypeOK
<1>2. ASSUME NEW t \in salesTx, CommitReservation(t) PROVE SalesInv'
  <2>1. t.row \in Reservation
    BY <1>2 DEF CommitReservation, SalesInv, SalesTxOK, ReserveTxOK, BookTxOK, TransitionTxOK, MilestoneTxOK, ReceiptTxOK
  <2> DEFINE row == [status |-> "ACTIVE", live |-> TRUE, booking |-> {}]
  <2>2. row \in UnitReservationRow /\ row.status = "ACTIVE"
    BY DEF UnitReservationRow, Statuses, ReservationStages
  <2>3. reservation' = [reservation EXCEPT ![t.row] = row]
    BY <1>2 DEF CommitReservation
  <2> HIDE DEF row
  <2>4. reservation' \in [Reservation -> UnitReservationRow \cup {Absent}]
    BY <1>1, <2>1, <2>2, <2>3, RowReplaced
  <2>5. \A r \in Reservation : Has(reservation, r) => Has(reservation', r)
    BY <1>1, <2>2, <2>3 DEF Has
  <2>6. \A r \in Reservation : In(reservation', r, {"CONVERTED"}) => reservation'[r] = reservation[r]
    BY <1>1, <2>2, <2>3 DEF In
  <2>7. UNCHANGED <<booking, milestone, receipt, commission, handover>> /\ salesTx' \subseteq salesTx /\ salesUnit' = "RESERVED"
    BY <1>2 DEF CommitReservation, money
  <2>8. SalesTypeOK'
    BY <1>1, <2>4, <2>7 DEF SalesTypeOK
  <2>9. QED BY <2>5, <2>6, <2>7, <2>8, ReservationsMove
<1>3. ASSUME NEW r \in Reservation, ReservationLapses(r) PROVE SalesInv'
  <2>1. Has(reservation, r) /\ In(reservation, r, {"ACTIVE"})
    BY <1>3 DEF ReservationLapses, In, Has
  <2> DEFINE row == [reservation[r] EXCEPT !.live = FALSE]
  <2>2. reservation[r] \in UnitReservationRow
    BY <1>1, <2>1, ThereIsRow
  <2>3. row \in UnitReservationRow /\ row.status = "ACTIVE"
    BY <2>1, <2>2 DEF UnitReservationRow, In
  <2>4. reservation' = [reservation EXCEPT ![r] = row]
    BY <1>3 DEF ReservationLapses
  <2> HIDE DEF row
  <2>5. reservation' \in [Reservation -> UnitReservationRow \cup {Absent}]
    BY <1>1, <2>3, <2>4, RowReplaced
  <2>6. \A x \in Reservation : Has(reservation, x) => Has(reservation', x)
    BY <1>1, <2>3, <2>4 DEF Has
  <2>7. \A x \in Reservation : In(reservation', x, {"CONVERTED"}) => reservation'[x] = reservation[x]
    BY <1>1, <2>3, <2>4 DEF In
  <2>8. UNCHANGED <<salesUnit, booking, milestone, receipt, commission, handover, salesTx>>
    BY <1>3 DEF ReservationLapses, money
  <2>9. SalesTypeOK'
    BY <1>1, <2>5, <2>8 DEF SalesTypeOK
  <2>10. QED BY <2>6, <2>7, <2>8, <2>9, ReservationsMove
<1>4. ASSUME NEW r \in Reservation, TransitionReservation(r) PROVE SalesInv'
  <2>1. PICK to \in Offers(ReservationStages, reservation, r) : reservation' = Moved(reservation, r, to)
    BY <1>4 DEF TransitionReservation
  <2>2. to \in Statuses(ReservationStages) /\ to \notin {"ABSENT", "CONVERTED"} /\ Has(reservation, r)
    BY <2>1, OfferedIsStatus, OfferedIsNotAbsent, OfferedIsThere
  <2> DEFINE row == [reservation[r] EXCEPT !.status = to]
  <2>3. reservation[r] \in UnitReservationRow
    BY <1>1, <2>2, ThereIsRow
  <2>4. row \in UnitReservationRow /\ row.status = to
    BY <2>2, <2>3 DEF UnitReservationRow
  <2>5. reservation' = [reservation EXCEPT ![r] = row]
    BY <2>1 DEF Moved
  <2> HIDE DEF row
  <2>6. reservation' \in [Reservation -> UnitReservationRow \cup {Absent}]
    BY <1>1, <2>4, <2>5, RowReplaced
  <2>7. \A x \in Reservation : Has(reservation, x) => Has(reservation', x)
    BY <1>1, <2>2, <2>4, <2>5 DEF Has
  <2>8. \A x \in Reservation : In(reservation', x, {"CONVERTED"}) => reservation'[x] = reservation[x]
    BY <1>1, <2>2, <2>4, <2>5 DEF In
  <2>9. /\ UNCHANGED <<booking, milestone, receipt, commission, handover, salesTx>>
        /\ salesUnit' \in {salesUnit, "AVAILABLE"}
    BY <1>4 DEF TransitionReservation, money
  <2>10. SalesTypeOK'
    BY <1>1, <2>6, <2>9 DEF SalesTypeOK
  <2>11. QED BY <2>7, <2>8, <2>9, <2>10, ReservationsMove
<1>5. QED BY <1>2, <1>3, <1>4

\* Commissions, a new handover, a rollback.
LEMMA SalesAside ==
  ASSUME SalesInv,
         \/ \E k \in Commission, b \in Booking, a \in Actor : CreateCommission(k, b, a)
         \/ \E k \in Commission, a \in Actor : TransitionCommission(k, a)
         \/ \E h \in Handover, b \in Booking, a \in Actor, defects \in BOOLEAN : CreateHandover(h, b, a, defects)
         \/ \E t \in salesTx : SalesRollback(t)
  PROVE  SalesInv'
<1>1. SalesTypeOK
  BY DEF SalesInv
<1>2. ASSUME NEW k \in Commission, NEW b \in Booking, NEW a \in Actor, CreateCommission(k, b, a) PROVE SalesInv'
  <2>1. UNCHANGED <<sale, milestone, receipt, handover, salesTx>>
    BY <1>2 DEF CreateCommission
  <2>2. [status |-> "DRAFT", by |-> a, approver |-> {}] \in BrokerCommissionRow
    BY DEF BrokerCommissionRow, Statuses, CommissionStages
  <2>3. commission' \in [Commission -> BrokerCommissionRow \cup {Absent}]
    BY <1>1, <1>2, <2>2, RowReplaced DEF CreateCommission, SalesTypeOK
  <2>4. SalesTypeOK'
    BY <1>1, <2>1, <2>3 DEF SalesTypeOK, sale
  <2>5. QED BY <2>1, <2>4, ReservationsMove DEF sale, Has
<1>3. ASSUME NEW k \in Commission, NEW a \in Actor, TransitionCommission(k, a) PROVE SalesInv'
  <2>1. UNCHANGED <<sale, milestone, receipt, handover, salesTx>>
    BY <1>3 DEF TransitionCommission
  <2>2. PICK to \in Offers(CommissionStages, commission, k) :
          commission' = [commission EXCEPT ![k].status = to, ![k].approver = IF to = "APPROVED" THEN {a} ELSE @]
    BY <1>3 DEF TransitionCommission
  <2>3. to \in Statuses(CommissionStages) /\ commission[k] \in BrokerCommissionRow
    BY <1>1, <2>2, OfferedIsStatus, OfferedIsThere, ThereIsRow DEF SalesTypeOK
  <2> DEFINE approver == IF to = "APPROVED" THEN {a} ELSE commission[k].approver
             row == [commission[k] EXCEPT !.status = to, !.approver = approver]
  <2>4. commission' = [commission EXCEPT ![k] = row]
    BY <1>1, <2>2, <2>3 DEF SalesTypeOK, BrokerCommissionRow
  <2>5. approver \in SUBSET Actor
    BY <2>3 DEF BrokerCommissionRow
  <2> HIDE DEF approver
  <2>6. row \in BrokerCommissionRow
    BY <2>3, <2>5 DEF BrokerCommissionRow
  <2> HIDE DEF row
  <2>7. commission' \in [Commission -> BrokerCommissionRow \cup {Absent}]
    BY <1>1, <2>4, <2>6, RowReplaced DEF SalesTypeOK
  <2>8. SalesTypeOK'
    BY <1>1, <2>1, <2>7 DEF SalesTypeOK, sale
  <2>9. QED BY <2>1, <2>8, ReservationsMove DEF sale, Has
<1>4. ASSUME NEW h \in Handover, NEW b \in Booking, NEW a \in Actor, NEW defects \in BOOLEAN, CreateHandover(h, b, a, defects)
      PROVE  SalesInv'
  <2>1. UNCHANGED <<sale, money, salesTx>> /\ In(booking, b, {"ACTIVE", "HANDED_OVER", "CLOSED"})
    BY <1>4 DEF CreateHandover
  <2> DEFINE row == [status |-> "DRAFT", booking |-> b, by |-> a, defects |-> defects]
  <2>2. row \in CustomerHandoverRow /\ row.booking = b
    BY DEF CustomerHandoverRow, Statuses, HandoverStages
  <2>3. handover' = [handover EXCEPT ![h] = row]
    BY <1>4 DEF CreateHandover
  <2> HIDE DEF row
  <2>4. handover' \in [Handover -> CustomerHandoverRow \cup {Absent}]
    BY <1>1, <2>2, <2>3, RowReplaced DEF SalesTypeOK
  <2>5. SalesTypeOK'
    BY <1>1, <2>1, <2>4 DEF SalesTypeOK, sale, money
  <2>6. Approved(b)
    BY <2>1 DEF Approved, In, Has, SalesInv, BookingsHold
  <2>7. ApprovalsKept
    BY <2>1, UnchangedApprovals DEF sale
  <2>8. HandoversHold'
    <3>1. ASSUME NEW g \in Handover, Has(handover', g) PROVE Approved(handover[g].booking)'
      <4>1. CASE g = h
        BY <1>1, <2>2, <2>3, <2>6, <2>7, <4>1 DEF SalesTypeOK, ApprovalsKept
      <4>2. CASE g # h
        <5>1. handover'[g] = handover[g] /\ Has(handover, g)
          BY <1>1, <2>3, <3>1, <4>2 DEF SalesTypeOK, Has
        <5>2. handover[g] \in CustomerHandoverRow
          BY <1>1, <5>1, ThereIsRow DEF SalesTypeOK
        <5>3. handover[g].booking \in Booking
          BY <5>2 DEF CustomerHandoverRow
        <5>4. QED BY <2>7, <5>1, <5>3 DEF SalesInv, HandoversHold, ApprovalsKept
      <4>3. QED BY <4>1, <4>2
    <3>2. QED BY <3>1 DEF HandoversHold
  <2>9. QED BY <2>1, <2>5, <2>8, ReservationsMove DEF sale, money, Has
<1>5. ASSUME NEW t \in salesTx, SalesRollback(t) PROVE SalesInv'
  <2>1. UNCHANGED <<sale, money, handover>> /\ salesTx' \subseteq salesTx
    BY <1>5 DEF SalesRollback
  <2>2. SalesTypeOK'
    BY <1>1, <2>1 DEF SalesTypeOK, sale, money
  <2>3. QED BY <2>1, <2>2, ReservationsMove DEF sale, money, Has
<1>6. QED BY <1>2, <1>3, <1>4, <1>5

\* One booking is written by its transaction, or by a handover while it has none.
LEMMA BookingsMove ==
  ASSUME SalesInv, SalesTypeOK', salesTx' \subseteq salesTx, UNCHANGED money, NEW b \in Booking,
         \A t \in salesTx' : t.row # b,
         \A c \in Booking : c # b => booking'[c] = booking[c],
         Approved(b) => Approved(b)' /\ booking'[b].reservation = booking[b].reservation,
         \A r \in Reservation : Has(reservation, r) => Has(reservation', r),
         Has(booking', b) =>
           /\ booking'[b].by \notin booking'[b].approver
           /\ booking'[b].status \in {"APPROVED", "ACTIVE", "HANDED_OVER", "CLOSED"} => booking'[b].approver # {}
           /\ \A r \in booking'[b].reservation : Has(reservation', r),
         UNCHANGED handover \/ HandoversHold',
         (\A r \in Reservation : In(reservation', r, {"CONVERTED"}) => reservation'[r] = reservation[r]) \/ ConversionsHold'
  PROVE  SalesInv'
<1>1. ApprovalsKept
  <2>1. ASSUME NEW c \in Booking, c # b, Approved(c) PROVE Approved(c)'
    BY <2>1 DEF Approved, Has
  <2>2. QED BY <2>1 DEF ApprovalsKept
<1>2. UNCHANGED <<milestone, receipt>>
  BY DEF money
<1>3. ReceiptsHold' /\ HandoversHold' /\ ConversionsHold'
  BY <1>1, <1>2, SalesRecordsStand DEF Has
<1>4. ASSUME NEW t \in salesTx' PROVE SalesTxOK(t)'
  <2>1. t.row \in Booking => booking'[t.row] = booking[t.row]
    OBVIOUS
  <2>2. t.call \in {"book", "transition"} => t.row \in Booking
    BY DEF SalesInv, SalesTxOK, ReserveTxOK, BookTxOK, TransitionTxOK, MilestoneTxOK, ReceiptTxOK
  <2>3. QED BY <1>2, <2>1, <2>2, SalesTxStands
<1>5. BookingsHold'
  <2>1. ASSUME NEW c \in Booking, c # b, Has(booking, c) PROVE \A r \in booking[c].reservation : Has(reservation', r)
    <3>1. booking[c] \in BookingAgreementRow
      BY <2>1, ThereIsRow DEF SalesInv, SalesTypeOK
    <3>2. booking[c].reservation \subseteq Reservation
      BY <3>1 DEF BookingAgreementRow
    <3>3. QED BY <2>1, <3>2 DEF SalesInv, BookingsHold
  <2>2. ASSUME NEW c \in Booking, c # b, Has(booking', c)
        PROVE  /\ booking'[c].by \notin booking'[c].approver
               /\ booking'[c].status \in {"APPROVED", "ACTIVE", "HANDED_OVER", "CLOSED"} => booking'[c].approver # {}
               /\ \A r \in booking'[c].reservation : Has(reservation', r)
    <3>1. booking'[c] = booking[c] /\ Has(booking, c)
      BY <2>2 DEF Has
    <3>2. QED BY <2>1, <2>2, <3>1 DEF SalesInv, BookingsHold
  <2>3. QED BY <2>2 DEF BookingsHold
<1>6. \A m \in Milestone : Has(milestone', m) => milestone'[m].paid <= Due[m]
  BY <1>2 DEF SalesInv, Has
<1>7. \A t, u \in salesTx' : t.row = u.row => t = u
  BY DEF SalesInv
<1>8. QED BY <1>3, <1>4, <1>5, <1>6, <1>7 DEF SalesInv

LEMMA BookingCommitted ==
  ASSUME SalesInv, NEW t \in salesTx, NEW a \in Actor, CommitBooking(t, a)
  PROVE  SalesInv'
<1>1. BookTxOK(t)
  BY DEF CommitBooking, SalesInv, SalesTxOK, ReserveTxOK, TransitionTxOK, MilestoneTxOK, ReceiptTxOK
<1>2. t.row \in Booking /\ ~Has(booking, t.row) /\ t.for \in SUBSET Reservation /\ \A r \in t.for : Has(reservation, r)
  BY <1>1 DEF BookTxOK
<1> DEFINE row == [status |-> "DRAFT", by |-> a, approver |-> {}, reservation |-> t.for]
<1>3. row \in BookingAgreementRow
  BY <1>2 DEF BookingAgreementRow, Statuses, BookingStages
<1>4. row.status = "DRAFT" /\ row.approver = {} /\ row.reservation = t.for
  OBVIOUS
<1>5. booking' = [booking EXCEPT ![t.row] = row]
  BY DEF CommitBooking
<1> HIDE DEF row
<1>6. UNCHANGED <<salesUnit, reservation, money, handover>> /\ salesTx' = salesTx \ {t}
  BY DEF CommitBooking
<1>7. booking \in [Booking -> BookingAgreementRow \cup {Absent}] /\ SalesTypeOK
  BY DEF SalesInv, SalesTypeOK
<1>8. booking' \in [Booking -> BookingAgreementRow \cup {Absent}]
  BY <1>2, <1>3, <1>5, <1>7, RowReplaced
<1>9. SalesTypeOK'
  BY <1>6, <1>7, <1>8 DEF SalesTypeOK, money
<1>10. \A u \in salesTx' : u.row # t.row
  BY <1>6 DEF SalesInv
<1>11. booking'[t.row] = row /\ \A c \in Booking : c # t.row => booking'[c] = booking[c]
  BY <1>2, <1>5, <1>7
<1>12. ~Approved(t.row)
  BY <1>2 DEF Approved
<1>13. Has(booking', t.row) =>
           /\ booking'[t.row].by \notin booking'[t.row].approver
           /\ booking'[t.row].status \in {"APPROVED", "ACTIVE", "HANDED_OVER", "CLOSED"} => booking'[t.row].approver # {}
           /\ \A r \in booking'[t.row].reservation : Has(reservation', r)
  BY <1>2, <1>4, <1>6, <1>11 DEF Has
<1>14. \A r \in Reservation : /\ Has(reservation, r) => Has(reservation', r)
                              /\ In(reservation', r, {"CONVERTED"}) => reservation'[r] = reservation[r]
  BY <1>6 DEF Has
<1>15. salesTx' \subseteq salesTx /\ UNCHANGED money /\ UNCHANGED handover
  BY <1>6
<1>16. QED BY <1>2, <1>9, <1>10, <1>11, <1>12, <1>13, <1>14, <1>15, BookingsMove

\* The stage was looked up while the transaction held the booking, and who is to
\* be written as approver with it.
LEMMA BookingTransitioned ==
  ASSUME SalesInv, NEW t \in salesTx, TransitionBooking(t)
  PROVE  SalesInv'
<1>1. TransitionTxOK(t)
  BY DEF TransitionBooking, SalesInv, SalesTxOK, ReserveTxOK, BookTxOK, MilestoneTxOK, ReceiptTxOK
<1>2. /\ t.row \in Booking /\ t.seen \in UnitStatus /\ t.approver \in SUBSET Actor
      /\ t.to \in Offers(BookingStages, booking, t.row) /\ booking[t.row].by \notin t.approver
      /\ t.to = "APPROVED" \/ Approved(t.row) => t.approver # {}
  BY <1>1 DEF TransitionTxOK
<1>3. booking \in [Booking -> BookingAgreementRow \cup {Absent}] /\ reservation \in [Reservation -> UnitReservationRow \cup {Absent}] /\ SalesTypeOK
  BY DEF SalesInv, SalesTypeOK
<1>4. t.to \in Statuses(BookingStages) /\ t.to \notin {"ABSENT", "HANDED_OVER"} /\ Has(booking, t.row)
  BY <1>2, OfferedIsStatus, OfferedIsNotAbsent, OfferedIsThere
<1>5. booking[t.row] \in BookingAgreementRow
  BY <1>2, <1>3, <1>4, ThereIsRow
<1> DEFINE row == [booking[t.row] EXCEPT !.status = t.to, !.approver = t.approver]
<1>6. row \in BookingAgreementRow
  BY <1>2, <1>4, <1>5 DEF BookingAgreementRow
<1>7. /\ row.status = t.to /\ row.approver = t.approver
      /\ row.by = booking[t.row].by /\ row.reservation = booking[t.row].reservation
  BY <1>5 DEF BookingAgreementRow
<1>8. booking' = [booking EXCEPT ![t.row] = row]
  BY <1>2, <1>3, <1>5 DEF TransitionBooking, BookingAgreementRow
<1> HIDE DEF row
<1>9. booking' \in [Booking -> BookingAgreementRow \cup {Absent}]
  BY <1>2, <1>3, <1>6, <1>8, RowReplaced
<1>10. booking'[t.row] = row /\ \A c \in Booking : c # t.row => booking'[c] = booking[c]
  BY <1>2, <1>3, <1>8
<1>11. UNCHANGED <<money, handover>> /\ salesTx' = salesTx \ {t} /\ \A u \in salesTx' : u.row # t.row
  BY DEF TransitionBooking, SalesInv
<1>12. salesUnit' \in UnitStatus
  BY <1>2 DEF TransitionBooking, UnitStatus
<1>13. ASSUME NEW r \in Reservation, t.to = "APPROVED", r \in booking[t.row].reservation
       PROVE  /\ reservation'[r] \in UnitReservationRow /\ reservation'[r].status = "CONVERTED"
              /\ reservation'[r].booking = {t.row}
  <2>1. Has(reservation, r)
    BY <1>2, <1>4, <1>13 DEF SalesInv, BookingsHold
  <2>2. reservation[r] \in UnitReservationRow
    BY <1>3, <2>1, ThereIsRow
  <2>3. reservation'[r] = [reservation[r] EXCEPT !.status = "CONVERTED", !.booking = {t.row}]
    BY <1>13 DEF TransitionBooking, Converted
  <2>4. QED BY <1>2, <2>2, <2>3 DEF UnitReservationRow
<1>14. ASSUME NEW r \in Reservation, ~(t.to = "APPROVED" /\ r \in booking[t.row].reservation)
       PROVE  reservation'[r] = reservation[r]
  BY <1>14 DEF TransitionBooking
<1>15. reservation' \in [Reservation -> UnitReservationRow \cup {Absent}]
  <2>1. \A r \in Reservation : reservation'[r] \in UnitReservationRow \cup {Absent}
    BY <1>3, <1>13, <1>14
  <2>2. reservation' = [r \in Reservation |-> reservation'[r]]
    BY DEF TransitionBooking
  <2>3. QED BY <2>1, <2>2
<1>16. SalesTypeOK'
  BY <1>3, <1>9, <1>11, <1>12, <1>15 DEF SalesTypeOK, money, UnitStatus
<1>17. \A r \in Reservation : Has(reservation, r) => Has(reservation', r)
  BY <1>13, <1>14 DEF Has
<1>18. Has(booking', t.row) /\ (t.approver # {} => Approved(t.row)')
  BY <1>2, <1>4, <1>7, <1>10 DEF Has, Approved
<1>19. Approved(t.row) => Approved(t.row)' /\ booking'[t.row].reservation = booking[t.row].reservation
  BY <1>2, <1>7, <1>10, <1>18
<1>20. booking'[t.row].by \notin booking'[t.row].approver
  BY <1>2, <1>7, <1>10
<1>21. booking'[t.row].status \in {"APPROVED", "ACTIVE", "HANDED_OVER", "CLOSED"} => booking'[t.row].approver # {}
  <2>1. t.to = "ACTIVE" => booking[t.row].status = "APPROVED"
    BY <1>2 DEF Offers, BookingStages
  <2>2. t.to = "CLOSED" => booking[t.row].status = "HANDED_OVER"
    BY <1>2 DEF Offers, BookingStages
  <2>3. t.to \in {"ACTIVE", "CLOSED"} => Approved(t.row)
    BY <1>2, <1>4, <2>1, <2>2 DEF SalesInv, BookingsHold, Approved
  <2>4. QED BY <1>2, <1>4, <1>7, <1>10, <2>3
<1>22. \A r \in booking'[t.row].reservation : Has(reservation', r)
  <2>1. booking[t.row].reservation \subseteq Reservation
    BY <1>5 DEF BookingAgreementRow
  <2>2. \A r \in booking[t.row].reservation : Has(reservation, r)
    BY <1>2, <1>4 DEF SalesInv, BookingsHold
  <2>3. QED BY <1>7, <1>10, <1>17, <2>1, <2>2
<1>23. (\A r \in Reservation : In(reservation', r, {"CONVERTED"}) => reservation'[r] = reservation[r]) \/ ConversionsHold'
  <2>1. CASE t.to # "APPROVED"
    BY <1>14, <2>1
  <2>2. CASE t.to = "APPROVED"
    <3>1. Approved(t.row)'
      BY <1>2, <1>18, <2>2
    <3>2. ASSUME NEW r \in Reservation, In(reservation', r, {"CONVERTED"})
          PROVE  \E b \in reservation'[r].booking : Approved(b)' /\ r \in booking'[b].reservation
      <4>1. CASE r \in booking[t.row].reservation
        BY <1>7, <1>10, <1>13, <2>2, <3>1, <4>1
      <4>2. CASE r \notin booking[t.row].reservation
        <5>1. reservation'[r] = reservation[r] /\ In(reservation, r, {"CONVERTED"})
          BY <1>14, <3>2, <4>2 DEF In
        <5>2. PICK b \in reservation[r].booking : Approved(b) /\ r \in booking[b].reservation
          BY <5>1 DEF SalesInv, ConversionsHold
        <5>3. b # t.row /\ b \in Booking
          BY <4>2, <5>2 DEF Approved
        <5>4. booking'[b] = booking[b]
          BY <1>10, <5>3
        <5>5. Approved(b)'
          BY <5>2, <5>4 DEF Approved, Has
        <5>6. QED BY <5>1, <5>2, <5>4, <5>5
      <4>3. QED BY <4>1, <4>2
    <3>3. QED BY <3>2 DEF ConversionsHold
  <2>3. QED BY <2>1, <2>2
<1>24. salesTx' \subseteq salesTx /\ UNCHANGED money /\ UNCHANGED handover
  BY <1>11
<1>25. QED BY <1>2, <1>10, <1>11, <1>16, <1>17, <1>18, <1>19, <1>20, <1>21, <1>22, <1>23, <1>24, BookingsMove

\* A handover writes the stage of its booking, which somebody approved.
LEMMA HandoverTransitioned ==
  ASSUME SalesInv, NEW h \in Handover, NEW a \in Actor, TransitionHandover(h, a)
  PROVE  SalesInv'
<1>1. PICK to \in Offers(HandoverStages, handover, h) :
        /\ Unlocked(salesTx, {handover[h].booking})
        /\ handover' = Moved(handover, h, to)
        /\ booking' = CASE to = "POSSESSED" -> Moved(booking, handover[h].booking, "HANDED_OVER")
                        [] to = "CLOSED" -> Moved(booking, handover[h].booking, "CLOSED")
                        [] OTHER -> booking
        /\ salesUnit' = IF to = "POSSESSED" THEN "HANDED_OVER" ELSE salesUnit
  BY DEF TransitionHandover
<1>2. UNCHANGED <<reservation, money, salesTx>>
  BY DEF TransitionHandover
<1>3. /\ handover \in [Handover -> CustomerHandoverRow \cup {Absent}]
      /\ booking \in [Booking -> BookingAgreementRow \cup {Absent}] /\ SalesTypeOK
  BY DEF SalesInv, SalesTypeOK
<1>4. to \in Statuses(HandoverStages) /\ Has(handover, h)
  BY <1>1, OfferedIsStatus, OfferedIsThere
<1>5. handover[h] \in CustomerHandoverRow
  BY <1>3, <1>4, ThereIsRow
<1>6. PICK b \in Booking : b = handover[h].booking
  BY <1>5 DEF CustomerHandoverRow
<1> DEFINE row == [handover[h] EXCEPT !.status = to]
<1>7. Approved(b)
  BY <1>4, <1>6 DEF SalesInv, HandoversHold
<1>8. row \in CustomerHandoverRow /\ row.booking = b
  BY <1>4, <1>5, <1>6 DEF CustomerHandoverRow
<1>9. handover' = [handover EXCEPT ![h] = row]
  BY <1>1 DEF Moved
<1> HIDE DEF row
<1>10. handover' \in [Handover -> CustomerHandoverRow \cup {Absent}]
  BY <1>3, <1>8, <1>9, RowReplaced
<1>11. handover'[h].booking = b /\ \A g \in Handover : g # h => handover'[g] = handover[g]
  BY <1>3, <1>8, <1>9
<1>12. PICK stage \in {booking[b].status, "HANDED_OVER", "CLOSED"} : booking' = Moved(booking, b, stage)
  <2>1. CASE to = "POSSESSED"
    BY <1>1, <1>6, <2>1
  <2>2. CASE to = "CLOSED"
    BY <1>1, <1>6, <2>2
  <2>3. CASE to \notin {"POSSESSED", "CLOSED"}
    <3>1. booking' = booking
      BY <1>1, <2>3
    <3>2. booking[b] \in BookingAgreementRow
      BY <1>3, <1>6, <1>7, ThereIsRow DEF Approved
    <3>3. booking = Moved(booking, b, booking[b].status)
      BY <1>3, <1>6, <3>2 DEF Moved, BookingAgreementRow
    <3>4. QED BY <3>1, <3>3
  <2>4. QED BY <2>1, <2>2, <2>3
<1>13. booking[b] \in BookingAgreementRow
  BY <1>3, <1>6, <1>7, ThereIsRow DEF Approved
<1> DEFINE new == [booking[b] EXCEPT !.status = stage]
<1>14. stage \in Statuses(BookingStages)
  BY <1>12, <1>13 DEF BookingAgreementRow, Statuses, BookingStages
<1>15. /\ new \in BookingAgreementRow /\ new.status = stage /\ new.by = booking[b].by
       /\ new.approver = booking[b].approver /\ new.reservation = booking[b].reservation
  BY <1>13, <1>14 DEF BookingAgreementRow
<1>16. booking' = [booking EXCEPT ![b] = new]
  BY <1>12 DEF Moved
<1> HIDE DEF new
<1>17. booking' \in [Booking -> BookingAgreementRow \cup {Absent}]
  BY <1>3, <1>6, <1>15, <1>16, RowReplaced
<1>18. booking'[b] = new /\ \A c \in Booking : c # b => booking'[c] = booking[c]
  BY <1>3, <1>6, <1>16
<1>19. salesUnit' \in UnitStatus
  BY <1>1, <1>3 DEF SalesTypeOK, UnitStatus
<1>20. SalesTypeOK'
  BY <1>2, <1>3, <1>10, <1>17, <1>19 DEF SalesTypeOK, money, UnitStatus
<1>21. \A t \in salesTx' : t.row # b
  BY <1>1, <1>2, <1>6 DEF Unlocked, SalesInv, SalesTxOK
<1>22. Approved(b)' /\ booking'[b].reservation = booking[b].reservation
  BY <1>6, <1>7, <1>12, <1>15, <1>18 DEF Approved, Has
<1>23. HandoversHold'
  <2>1. ApprovalsKept
    <3>1. ASSUME NEW c \in Booking, c # b, Approved(c) PROVE Approved(c)' /\ booking'[c].reservation = booking[c].reservation
      BY <1>18, <3>1 DEF Approved, Has
    <3>2. QED BY <1>22, <3>1 DEF ApprovalsKept
  <2>2. ASSUME NEW g \in Handover, g # h, Has(handover', g) PROVE Approved(handover[g].booking)'
    <3>1. handover'[g] = handover[g] /\ Has(handover, g)
      BY <1>11, <2>2 DEF Has
    <3>2. handover[g] \in CustomerHandoverRow
      BY <1>3, <3>1, ThereIsRow
    <3>3. handover[g].booking \in Booking
      BY <3>2 DEF CustomerHandoverRow
    <3>4. QED BY <2>1, <3>1, <3>3 DEF SalesInv, HandoversHold, ApprovalsKept
  <2>3. Approved(handover[h].booking)'
    BY <1>11, <1>22
  <2>4. QED BY <2>2, <2>3 DEF HandoversHold
<1>24. /\ Has(booking', b) /\ booking'[b].by \notin booking'[b].approver
       /\ booking'[b].status \in {"APPROVED", "ACTIVE", "HANDED_OVER", "CLOSED"} => booking'[b].approver # {}
  BY <1>22 DEF Approved
<1>25. \A r \in booking'[b].reservation : Has(reservation', r)
  BY <1>2, <1>6, <1>7, <1>22 DEF SalesInv, BookingsHold, Approved, Has
<1>26. \A r \in Reservation : /\ Has(reservation, r) => Has(reservation', r)
                              /\ In(reservation', r, {"CONVERTED"}) => reservation'[r] = reservation[r]
  BY <1>2 DEF Has
<1>27. salesTx' \subseteq salesTx /\ UNCHANGED money
  BY <1>2
<1>28. QED BY <1>6, <1>18, <1>20, <1>21, <1>22, <1>23, <1>24, <1>25, <1>26, <1>27, BookingsMove

LEMMA MilestoneCreated ==
  ASSUME SalesAssumption, SalesInv, NEW t \in salesTx, CreateMilestone(t)
  PROVE  SalesInv'
<1>1. t.row \in Milestone /\ t.for \in Booking
  BY DEF CreateMilestone, SalesInv, SalesTxOK, ReserveTxOK, BookTxOK, TransitionTxOK, MilestoneTxOK, ReceiptTxOK
<1> DEFINE row == [status |-> "SCHEDULED", booking |-> t.for, paid |-> 0]
<1>2. row \in PaymentMilestoneRow /\ row.status = "SCHEDULED" /\ row.paid = 0
  BY <1>1 DEF PaymentMilestoneRow
<1>3. milestone' = [milestone EXCEPT ![t.row] = row]
  BY DEF CreateMilestone
<1> HIDE DEF row
<1>4. milestone \in [Milestone -> PaymentMilestoneRow \cup {Absent}] /\ SalesTypeOK
  BY DEF SalesInv, SalesTypeOK
<1>5. milestone' \in [Milestone -> PaymentMilestoneRow \cup {Absent}]
  BY <1>1, <1>2, <1>3, <1>4, RowReplaced
<1>6. UNCHANGED <<salesUnit, reservation, booking, receipt, commission, handover>> /\ salesTx' = salesTx \ {t}
  BY DEF CreateMilestone, sale
<1>7. SalesTypeOK'
  BY <1>4, <1>5, <1>6 DEF SalesTypeOK
<1>8. milestone'[t.row] = row /\ \A m \in Milestone : m # t.row => milestone'[m] = milestone[m]
  BY <1>1, <1>3, <1>4
<1>9. \A m \in Milestone : Has(milestone, m) => Has(milestone', m)
  BY <1>2, <1>8 DEF Has
<1>10. ASSUME NEW u \in salesTx' PROVE SalesTxOK(u)'
  <2>1. u \in salesTx /\ u.row # t.row
    BY <1>6 DEF SalesInv
  <2>2. u.call = "milestone" => u.row \in Milestone
    BY <2>1 DEF SalesInv, SalesTxOK, ReserveTxOK, BookTxOK, TransitionTxOK, MilestoneTxOK, ReceiptTxOK
  <2>3. u.call = "milestone" => milestone'[u.row] = milestone[u.row]
    BY <1>8, <2>1, <2>2
  <2>4. QED BY <1>6, <1>9, <2>1, <2>3, SalesTxStands DEF Has
<1>11. ApprovalsKept
  BY <1>6, UnchangedApprovals
<1>12. ReceiptsHold' /\ HandoversHold' /\ ConversionsHold'
  BY <1>6, <1>9, <1>11, SalesRecordsStand
<1>13. BookingsHold'
  BY <1>6 DEF SalesInv, BookingsHold, Has
<1>14. ASSUME NEW m \in Milestone, Has(milestone', m) PROVE milestone'[m].paid <= Due[m]
  <2>1. Due[m] \in Nat
    BY DEF SalesAssumption
  <2>2. CASE m = t.row
    BY <1>2, <1>8, <2>1, <2>2
  <2>3. CASE m # t.row
    BY <1>8, <1>14, <2>3 DEF SalesInv, Has
  <2>4. QED BY <2>2, <2>3
<1>15. \A u, v \in salesTx' : u.row = v.row => u = v
  BY <1>6 DEF SalesInv
<1>16. QED BY <1>7, <1>10, <1>12, <1>13, <1>14, <1>15 DEF SalesInv

LEMMA ReceiptCreated ==
  ASSUME SalesInv, NEW c \in Receipt, NEW b \in Booking, NEW for \in SUBSET Milestone, NEW a \in Actor,
         CreateReceipt(c, b, for, a)
  PROVE  SalesInv'
<1>1. ~Has(receipt, c) /\ MayCollect(b) /\ \A m \in for : Has(milestone, m)
  BY DEF CreateReceipt
<1> DEFINE row == [status |-> "DRAFT", booking |-> b, milestone |-> for, by |-> a, confirmer |-> {}]
<1>2. row \in CollectionReceiptRow /\ row.booking = b /\ row.milestone = for
  BY DEF CollectionReceiptRow, Statuses, ReceiptStages
<1>3. receipt' = [receipt EXCEPT ![c] = row]
  BY DEF CreateReceipt
<1> HIDE DEF row
<1>4. receipt \in [Receipt -> CollectionReceiptRow \cup {Absent}] /\ SalesTypeOK
  BY DEF SalesInv, SalesTypeOK
<1>5. receipt' \in [Receipt -> CollectionReceiptRow \cup {Absent}]
  BY <1>2, <1>3, <1>4, RowReplaced
<1>6. UNCHANGED <<salesUnit, reservation, booking, milestone, commission, handover, salesTx>>
  BY DEF CreateReceipt, sale
<1>7. SalesTypeOK'
  BY <1>4, <1>5, <1>6 DEF SalesTypeOK
<1>8. receipt'[c] = row /\ \A d \in Receipt : d # c => receipt'[d] = receipt[d]
  BY <1>3, <1>4
<1>9. ASSUME NEW u \in salesTx' PROVE SalesTxOK(u)'
  <2>1. u \in salesTx
    BY <1>6
  <2>2. u.call = "receipt" => u.row \in Receipt /\ Has(receipt, u.row)
    BY <2>1, OfferedIsThere DEF SalesInv, SalesTxOK, ReserveTxOK, BookTxOK, TransitionTxOK, MilestoneTxOK, ReceiptTxOK
  <2>3. u.call = "receipt" => receipt'[u.row] = receipt[u.row]
    BY <1>1, <1>8, <2>2
  <2>4. QED BY <1>6, <2>1, <2>3, SalesTxStands DEF Has
<1>10. ApprovalsKept
  BY <1>6, UnchangedApprovals
<1>11. HandoversHold' /\ ConversionsHold'
  BY <1>6, <1>10, SalesRecordsStand
<1>12. ReceiptsHold'
  <2>1. Approved(b)
    BY <1>1 DEF MayCollect, Approved, In, Has, SalesInv, BookingsHold
  <2>2. Approved(b)'
    BY <1>10, <2>1 DEF ApprovalsKept
  <2>3. ASSUME NEW d \in Receipt, d # c, Has(receipt', d)
        PROVE  Approved(receipt[d].booking)' /\ \A m \in receipt'[d].milestone : Has(milestone', m)
    <3>1. receipt'[d] = receipt[d] /\ Has(receipt, d)
      BY <1>8, <2>3 DEF Has
    <3>2. receipt[d] \in CollectionReceiptRow
      BY <1>4, <3>1, ThereIsRow
    <3>3. receipt[d].booking \in Booking
      BY <3>2 DEF CollectionReceiptRow
    <3>4. Approved(receipt[d].booking) /\ \A m \in receipt[d].milestone : Has(milestone, m)
      BY <3>1 DEF SalesInv, ReceiptsHold
    <3>5. QED BY <1>6, <1>10, <3>1, <3>3, <3>4 DEF ApprovalsKept, Has
  <2>4. Approved(receipt[c].booking)' /\ \A m \in receipt'[c].milestone : Has(milestone', m)
    BY <1>1, <1>2, <1>6, <1>8, <2>2 DEF Has
  <2>5. QED BY <2>3, <2>4 DEF ReceiptsHold
<1>13. BookingsHold' /\ \A m \in Milestone : Has(milestone', m) => milestone'[m].paid <= Due[m]
  BY <1>6 DEF SalesInv, BookingsHold, Has
<1>14. \A u, v \in salesTx' : u.row = v.row => u = v
  BY <1>6 DEF SalesInv
<1>15. QED BY <1>7, <1>9, <1>11, <1>12, <1>13, <1>14 DEF SalesInv

\* The amount written is the one that was read plus or minus the receipt: what
\* another receipt wrote meanwhile is lost, but no more than is due is there.
LEMMA ReceiptCommitted ==
  ASSUME SalesAssumption, SalesInv, NEW t \in salesTx, CommitReceipt(t)
  PROVE  SalesInv'
<1>1. ReceiptTxOK(t)
  BY DEF CommitReceipt, SalesInv, SalesTxOK, ReserveTxOK, BookTxOK, TransitionTxOK, MilestoneTxOK
<1>2. /\ t.row \in Receipt /\ t.confirmer \in SUBSET Actor
      /\ t.to \in Offers(ReceiptStages, receipt, t.row)
      /\ t.to \notin {"CONFIRMED", "REVERSED"} => DOMAIN t.seen \cap Milestone = {}
  BY <1>1 DEF ReceiptTxOK
<1>3. /\ receipt \in [Receipt -> CollectionReceiptRow \cup {Absent}]
      /\ milestone \in [Milestone -> PaymentMilestoneRow \cup {Absent}] /\ SalesTypeOK
  BY DEF SalesInv, SalesTypeOK
<1>4. t.to \in Statuses(ReceiptStages) /\ Has(receipt, t.row)
  BY <1>2, OfferedIsStatus, OfferedIsThere
<1>5. receipt[t.row] \in CollectionReceiptRow
  BY <1>2, <1>3, <1>4, ThereIsRow
<1> DEFINE row == [receipt[t.row] EXCEPT !.status = t.to, !.confirmer = t.confirmer]
<1>6. row \in CollectionReceiptRow /\ row.booking = receipt[t.row].booking /\ row.milestone = receipt[t.row].milestone
  BY <1>2, <1>4, <1>5 DEF CollectionReceiptRow
<1>7. receipt' = [receipt EXCEPT ![t.row] = row]
  BY <1>2, <1>3, <1>5 DEF CommitReceipt, CollectionReceiptRow
<1> HIDE DEF row
<1>8. receipt' \in [Receipt -> CollectionReceiptRow \cup {Absent}]
  BY <1>2, <1>3, <1>6, <1>7, RowReplaced
<1>9. receipt'[t.row] = row /\ \A d \in Receipt : d # t.row => receipt'[d] = receipt[d]
  BY <1>2, <1>3, <1>7
<1>10. ASSUME NEW m \in Milestone, m \in DOMAIN t.seen
       PROVE  /\ milestone'[m] \in PaymentMilestoneRow /\ Has(milestone', m)
              /\ milestone'[m].paid <= Due[m]
  <2>1. /\ Has(milestone, m) /\ t.seen[m] \in Nat /\ t.seen[m] <= Due[m]
        /\ t.to = "CONFIRMED" => t.seen[m] + Amount[t.row] <= Due[m]
    BY <1>1, <1>10 DEF ReceiptTxOK
  <2>2. milestone[m] \in PaymentMilestoneRow /\ Amount[t.row] \in Nat /\ Due[m] \in Nat
    BY <1>2, <1>3, <2>1, ThereIsRow DEF SalesAssumption
  <2> DEFINE paid == IF t.to = "CONFIRMED" THEN t.seen[m] + Amount[t.row]
                     ELSE IF t.seen[m] < Amount[t.row] THEN 0 ELSE t.seen[m] - Amount[t.row]
             status == IF paid = Due[m] /\ t.to = "CONFIRMED" THEN "PAID"
                       ELSE IF paid = 0 /\ t.to = "REVERSED" THEN "SCHEDULED" ELSE "PARTIALLY_PAID"
  <2>3. paid \in Nat /\ paid <= Due[m]
    BY <2>1, <2>2
  <2>4. status \in {"SCHEDULED", "PARTIALLY_PAID", "PAID"}
    OBVIOUS
  <2>5. milestone'[m] = [milestone[m] EXCEPT !.paid = paid, !.status = status]
    BY <1>10 DEF CommitReceipt, Settled
  <2> HIDE DEF paid, status
  <2>6. milestone'[m] \in PaymentMilestoneRow /\ milestone'[m].paid = paid /\ milestone'[m].status = status
    BY <2>2, <2>3, <2>4, <2>5 DEF PaymentMilestoneRow
  <2>7. QED BY <2>3, <2>4, <2>6 DEF Has
<1>11. ASSUME NEW m \in Milestone, m \notin DOMAIN t.seen PROVE milestone'[m] = milestone[m]
  BY <1>11 DEF CommitReceipt
<1>12. milestone' \in [Milestone -> PaymentMilestoneRow \cup {Absent}]
  <2>1. \A m \in Milestone : milestone'[m] \in PaymentMilestoneRow \cup {Absent}
    BY <1>3, <1>10, <1>11
  <2>2. milestone' = [m \in Milestone |-> milestone'[m]]
    BY DEF CommitReceipt
  <2>3. QED BY <2>1, <2>2
<1>13. UNCHANGED <<salesUnit, reservation, booking, commission, handover>> /\ salesTx' = salesTx \ {t}
  BY DEF CommitReceipt, sale
<1>14. SalesTypeOK'
  BY <1>3, <1>8, <1>12, <1>13 DEF SalesTypeOK
<1>15. \A m \in Milestone : Has(milestone, m) => Has(milestone', m)
  BY <1>10, <1>11 DEF Has
<1>16. ASSUME NEW u \in salesTx' PROVE SalesTxOK(u)'
  <2>1. u \in salesTx /\ u.row # t.row
    BY <1>13 DEF SalesInv
  <2>2. SalesTxOK(u)
    BY <2>1 DEF SalesInv
  <2>3. u.call = "receipt" => u.row \in Receipt
    BY <2>2 DEF SalesTxOK, ReserveTxOK, BookTxOK, TransitionTxOK, MilestoneTxOK, ReceiptTxOK
  <2>4. u.call = "receipt" => receipt'[u.row] = receipt[u.row]
    BY <1>9, <2>1, <2>3
  <2>5. u.call = "milestone" => ~Has(milestone, u.row) /\ u.row \in Milestone
    BY <2>2 DEF SalesTxOK, ReserveTxOK, BookTxOK, TransitionTxOK, MilestoneTxOK, ReceiptTxOK
  <2>6. u.call = "milestone" => milestone'[u.row] = milestone[u.row]
    <3>1. \A m \in Milestone : m \in DOMAIN t.seen => Has(milestone, m)
      BY <1>1 DEF ReceiptTxOK
    <3>2. QED BY <1>11, <2>5, <3>1
  <2>7. QED BY <1>13, <1>15, <2>1, <2>4, <2>6, SalesTxStands
<1>17. ApprovalsKept
  BY <1>13, UnchangedApprovals
<1>18. HandoversHold' /\ ConversionsHold'
  BY <1>13, <1>17, SalesRecordsStand
<1>19. ReceiptsHold'
  <2>1. ASSUME NEW d \in Receipt, Has(receipt', d)
        PROVE  /\ receipt'[d].booking = receipt[d].booking /\ receipt'[d].milestone = receipt[d].milestone
               /\ Has(receipt, d)
    <3>1. CASE d = t.row
      BY <1>4, <1>6, <1>9, <3>1
    <3>2. CASE d # t.row
      BY <1>9, <2>1, <3>2 DEF Has
    <3>3. QED BY <3>1, <3>2
  <2>2. ASSUME NEW d \in Receipt, Has(receipt', d)
        PROVE  Approved(receipt[d].booking)' /\ \A m \in receipt'[d].milestone : Has(milestone', m)
    <3>1. receipt[d] \in CollectionReceiptRow
      BY <1>3, <2>1, <2>2, ThereIsRow
    <3>2. receipt[d].booking \in Booking /\ receipt[d].milestone \subseteq Milestone
      BY <3>1 DEF CollectionReceiptRow
    <3>3. Approved(receipt[d].booking) /\ \A m \in receipt[d].milestone : Has(milestone, m)
      BY <2>1, <2>2 DEF SalesInv, ReceiptsHold
    <3>4. PICK b \in Booking : b = receipt[d].booking
      BY <3>2
    <3>5. Approved(b)' /\ receipt'[d].booking = b
      BY <1>17, <2>1, <2>2, <3>3, <3>4 DEF ApprovalsKept
    <3>6. QED BY <1>15, <2>1, <2>2, <3>2, <3>3, <3>5
  <2>3. QED BY <2>2 DEF ReceiptsHold
<1>20. BookingsHold'
  BY <1>13 DEF SalesInv, BookingsHold, Has
<1>21. ASSUME NEW m \in Milestone, Has(milestone', m) PROVE milestone'[m].paid <= Due[m]
  BY <1>10, <1>11, <1>21 DEF SalesInv, Has
<1>22. \A u, v \in salesTx' : u.row = v.row => u = v
  BY <1>13 DEF SalesInv
<1>23. QED BY <1>14, <1>16, <1>18, <1>19, <1>20, <1>21, <1>22 DEF SalesInv

LEMMA SalesInitOK ==
  ASSUME SalesInit
  PROVE  SalesInv
<1>1. SalesTypeOK
  BY DEF SalesInit, SalesTypeOK
<1>2. BookingsHold /\ ReceiptsHold /\ HandoversHold
  BY DEF SalesInit, BookingsHold, ReceiptsHold, HandoversHold, Has, Absent
<1>3. ConversionsHold
  BY DEF SalesInit, ConversionsHold, In, Absent
<1>4. QED BY <1>1, <1>2, <1>3 DEF SalesInv, SalesInit, Has, Absent

LEMMA SalesStep ==
  ASSUME SalesAssumption, SalesInv, [SalesNext]_salesVars
  PROVE  SalesInv'
<1>1. CASE UNCHANGED salesVars
  <2>1. SalesTypeOK'
    BY <1>1 DEF salesVars, sale, money, SalesInv, SalesTypeOK
  <2>2. QED BY <1>1, <2>1, ReservationsMove DEF salesVars, sale, money, Has
<1>2. CASE SalesNext
  <2>1. ASSUME NEW r \in Reservation, CheckReservation(r) \/ ReservationLapses(r) \/ TransitionReservation(r)
        PROVE  SalesInv'
    BY <2>1, ReservationChecked, ReservationsStep
  <2>2. ASSUME NEW a \in Actor, NEW b \in Booking,
               \/ \E for \in SUBSET Reservation : Cardinality(for) <= 1 /\ CheckBooking(b, for)
               \/ CheckTransition(b, a)
               \/ \E m \in Milestone : CheckMilestone(m, b)
        PROVE  SalesInv'
    BY <2>2, BookingsChecked
  <2>3. ASSUME NEW a \in Actor, NEW b \in Booking,
               \/ \E c \in Receipt, for \in SUBSET Milestone : Cardinality(for) <= 1 /\ CreateReceipt(c, b, for, a)
               \/ \E k \in Commission : CreateCommission(k, b, a)
               \/ \E h \in Handover, defects \in BOOLEAN : CreateHandover(h, b, a, defects)
        PROVE  SalesInv'
    BY <2>3, ReceiptCreated, SalesAside
  <2>4. ASSUME NEW a \in Actor,
               \/ \E k \in Commission : TransitionCommission(k, a)
               \/ \E h \in Handover : TransitionHandover(h, a)
        PROVE  SalesInv'
    BY <2>4, SalesAside, HandoverTransitioned
  <2>5. ASSUME NEW a \in Actor, NEW c \in Receipt, CheckReceipt(c, a) PROVE SalesInv'
    BY <2>5, ReceiptChecked
  <2>6. ASSUME NEW t \in salesTx,
               \/ CommitReservation(t) \/ CommitReceipt(t) \/ TransitionBooking(t)
               \/ CreateMilestone(t) \/ SalesRollback(t) \/ \E a \in Actor : CommitBooking(t, a)
        PROVE  SalesInv'
    BY <2>6, ReservationsStep, ReceiptCommitted, BookingTransitioned, MilestoneCreated, SalesAside, BookingCommitted
  <2>7. QED BY <1>2, <2>1, <2>2, <2>3, <2>4, <2>5, <2>6 DEF SalesNext
<1>3. QED BY <1>1, <1>2

LEMMA SalesInvariance ==
  ASSUME SalesAssumption
  PROVE  SalesSpec => []SalesInv
<1>1. SalesInit => SalesInv
  BY SalesInitOK
<1>2. SalesInv /\ [SalesNext]_salesVars => SalesInv'
  BY SalesStep
<1>3. QED BY <1>1, <1>2, PTL DEF SalesSpec

\* In a sale every row is of its type (modules/salesops/application/services.py).
THEOREM SalesTypeCorrect ==
  ASSUME SalesAssumption
  PROVE  SalesSpec => []SalesTypeOK
<1>1. SalesInv => SalesTypeOK
  BY DEF SalesInv
<1>2. QED BY <1>1, SalesInvariance, PTL

\* Every receipt is for a booking that another user than its creator approved,
\* every converted reservation names such a booking, made on it, and no milestone
\* is paid more than is due, although transition_receipt, transition_booking and
\* transition_reservation lock only their own rows.
THEOREM SalesCollectionsAreTraced ==
  ASSUME SalesAssumption
  PROVE  SalesSpec => []CollectionsAreTraced
<1>1. SalesInv => CollectionsAreTraced
  BY DEF SalesInv, CollectionsAreTraced, ReceiptsHold, ConversionsHold, Approved
<1>2. QED BY <1>1, SalesInvariance, PTL
=============================================================================
