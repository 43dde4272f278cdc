---------------------------- MODULE Procurement ----------------------------
(***************************************************************************)
(* From an approved purchase request to goods in stock (modules/           *)
(* procurement, application/services.py; stages as bootstrap_supply_phase6 *)
(* makes them), together with the inventory that receipts are posted to.   *)
(*                                                                         *)
(* A service is one transaction that locks the row it changes and, through *)
(* select_related, the rows it joins; it is one step.  submit_quote reads  *)
(* the stage of the RFQ without a lock and inserts later: it is two.       *)
(* create_receipt also reads the order's stage without a lock, but nobody  *)
(* looks at a receipt's draft until it is posted, so when it is inserted   *)
(* makes no difference.                                                    *)
(*                                                                         *)
(* expected_version only refuses callers and is left out.  A request has   *)
(* at most one RFQ, because create_rfq takes it out of "approved" for good.*)
(***************************************************************************)
EXTENDS Inventory, FiniteSets, FiniteSetsExt

CONSTANTS
  Vendor,    \* the invited vendors, each with at most one quote and one order
  Line,      \* sequence of the request's lines [item, quantity, rate]
  NoItem,    \* the item of a line that is not stocked
  Receipt,   \* rows of procurement_goods_receipt
  Manual,    \* sources of movements posted by hand: the API takes any, the line
             \* of a receipt included
  Quantity, Cost  \* bound: what is posted by hand

Lines == DOMAIN Line

ASSUME ProcurementAssumption ==
  /\ IsFiniteSet(Vendor) /\ Item # {}
  /\ Line \in Seq([item : Item \cup {NoItem}, quantity : Nat \ {0}, rate : Nat])
  /\ Manual \cup (Receipt \X Lines) \subseteq Source
  /\ Quantity \subseteq Int \ {0} /\ Cost \subseteq Nat

VARIABLES
  request,   \* stage of the purchase request
  rfq,       \* stage of its RFQ; "none" before create_rfq
  quoting,   \* vendors whose submit_quote has found the RFQ issued
  quote,     \* Vendor -> stage of its quote
  order,     \* Vendor -> stage of the purchase order its quote was awarded
  received,  \* Vendor -> quantity_received of the lines of its order
  receipt    \* Receipt -> [vendor, accepted, posted]: whose order it is for,
             \* and quantity_accepted by line, 0 for a line not on the receipt

rfqVars == <<request, rfq, quoting, quote>>
orderVars == <<order, received, receipt>>
procurementVars == <<rfqVars, orderVars, books>>

Nothing == [l \in Lines |-> 0]

ProcurementInit ==
  /\ request = "draft" /\ rfq = "none" /\ quoting = {}
  /\ quote = [v \in Vendor |-> "none"]
  /\ order = [v \in Vendor |-> "none"]
  /\ received = [v \in Vendor |-> Nothing]
  /\ receipt = <<>>
  /\ EmptyBooks

-----------------------------------------------------------------------------
(* Request, RFQ and quotes.                                                *)

RequestStages ==
  [draft |-> {"submitted", "cancelled"}, submitted |-> {"approved", "rejected"},
   approved |-> {"rfq_created", "cancelled"}, rejected |-> {"draft", "cancelled"},
   rfq_created |-> {"ordered", "cancelled"}, ordered |-> {"closed"},
   closed |-> {}, cancelled |-> {}]

RfqStages ==
  [none |-> {}, draft |-> {"issued", "cancelled"}, issued |-> {"closed", "cancelled"},
   closed |-> {"awarded", "no_award"}, awarded |-> {}, no_award |-> {},
   cancelled |-> {}]

OrderStages ==
  [none |-> {}, draft |-> {"approved", "cancelled"}, approved |-> {"issued", "cancelled"},
   issued |-> {"partially_received", "received", "cancelled"},
   partially_received |-> {"received", "cancelled"}, received |-> {"closed"},
   closed |-> {}, cancelled |-> {}]

TransitionRequest ==
  /\ request' \in RequestStages[request]
  /\ UNCHANGED <<rfq, quoting, quote, orderVars, books>>

CreateRfq ==
  /\ request = "approved"
  /\ request' = "rfq_created" /\ rfq' = "draft"
  /\ UNCHANGED <<quoting, quote, orderVars, books>>

TransitionRfq ==
  /\ rfq' \in RfqStages[rfq]
  /\ UNCHANGED <<request, quoting, quote, orderVars, books>>

BeginQuote(v) ==
  /\ rfq = "issued" /\ quote[v] = "none"
  /\ quoting' = quoting \cup {v}
  /\ UNCHANGED <<request, rfq, quote, orderVars, books>>

CommitQuote(v) ==
  /\ v \in quoting
  /\ quote' = [quote EXCEPT ![v] = "submitted"]
  /\ quoting' = quoting \ {v}
  /\ UNCHANGED <<request, rfq, orderVars, books>>

\* Mutant: award_quote does not look at the RFQ.
MayAwardAnyTime(v) == order[v] = "none" /\ quote[v] = "submitted"

\* An order that the quote already has is returned as it is.
MayAward(v) == order[v] = "none" /\ rfq = "closed" /\ quote[v] = "submitted"

\* award_quote rejects the other quotes it sees, moves RFQ and request on, the
\* latter from whatever stage it is in, and creates the order.
AwardQuote(v) ==
  /\ MayAward(v)
  /\ order' = [order EXCEPT ![v] = "draft"]
  /\ quote' = [u \in Vendor |-> IF u = v THEN "accepted"
                                ELSE IF quote[u] = "submitted" THEN "rejected"
                                ELSE quote[u]]
  /\ rfq' = "awarded" /\ request' = "ordered"
  /\ UNCHANGED <<quoting, received, receipt, books>>

-----------------------------------------------------------------------------
(* Orders and receipts.                                                    *)

TransitionOrder(v) ==
  /\ \E s \in OrderStages[order[v]] : order' = [order EXCEPT ![v] = s]
  /\ UNCHANGED <<rfqVars, received, receipt, books>>

\* Nothing compares the quantities with the order yet.
CreateReceipt(g, v, accepted) ==
  /\ g \notin DOMAIN receipt
  /\ order[v] \in {"issued", "partially_received"}
  /\ receipt' = [h \in DOMAIN receipt \cup {g} |->
                   IF h = g THEN [vendor |-> v, accepted |-> accepted, posted |-> FALSE]
                   ELSE receipt[h]]
  /\ UNCHANGED <<rfqVars, order, received, books>>

\* Mutant: the receipt is compared with the order, not with what is left of it.
WithinOrderAlone(g) ==
  \A l \in Lines : receipt[g].accepted[l] <= Line[l].quantity

WithinOrder(g) ==
  \A l \in Lines :
    received[receipt[g].vendor][l] + receipt[g].accepted[l] <= Line[l].quantity

\* Lines that are not stocked, or of which nothing was accepted, move no stock.
Stocked(g, l) == Line[l].item # NoItem /\ receipt[g].accepted[l] > 0

Movement(g, l) ==
  [item |-> Line[l].item, source |-> <<g, l>>,
   quantity |-> receipt[g].accepted[l], cost |-> Line[l].rate]

\* The stock after the lines of a receipt, in their order: one that is refused
\* refuses them all.
ReceiveLine(g, l, b) == IF Stocked(g, l) THEN Post(Movement(g, l), b) ELSE b
ReceiveLines(g) ==
  FoldLeft(LAMBDA b, l : ReceiveLine(g, l, b), books, [l \in Lines |-> l])

\* post_receipt: the lines of the order, the stock, the receipt and the stage
\* of the order, which is set whatever it was.
PostReceipt(g) ==
  /\ g \in DOMAIN receipt /\ ~receipt[g].posted
  /\ WithinOrder(g)
  /\ books' = ReceiveLines(g) /\ books' # Refused
  /\ receipt' = [receipt EXCEPT ![g].posted = TRUE]
  /\ LET v == receipt[g].vendor IN
       /\ received' = [received EXCEPT ![v] =
            [l \in Lines |-> @[l] + receipt[g].accepted[l]]]
       /\ order' = [order EXCEPT ![v] =
            IF \A l \in Lines : received'[v][l] = Line[l].quantity
            THEN "received" ELSE "partially_received"]
  /\ UNCHANGED rfqVars

MoveByHand(mv) == PostMovement(mv) /\ UNCHANGED <<rfqVars, orderVars>>

-----------------------------------------------------------------------------
ProcurementNext ==
  \/ TransitionRequest \/ CreateRfq \/ TransitionRfq
  \/ \E v \in Vendor : \/ BeginQuote(v) \/ CommitQuote(v) \/ AwardQuote(v)
                       \/ TransitionOrder(v)
  \/ \E g \in Receipt, v \in Vendor :
       \E accepted \in [Lines -> 0..Max({Line[l].quantity : l \in Lines})] :
         CreateReceipt(g, v, accepted)
  \/ \E g \in Receipt : PostReceipt(g)
  \/ \E mv \in [item : Item, source : Manual, quantity : Quantity, cost : Cost] :
       MoveByHand(mv)

ProcurementSpec == ProcurementInit /\ [][ProcurementNext]_procurementVars

-----------------------------------------------------------------------------
(* Properties.                                                             *)

ProcurementTypeOK ==
  /\ request \in DOMAIN RequestStages /\ rfq \in DOMAIN RfqStages
  /\ quoting \subseteq Vendor
  /\ quote \in [Vendor -> {"none", "submitted", "accepted", "rejected"}]
  /\ order \in [Vendor -> DOMAIN OrderStages]
  /\ received \in [Vendor -> [Lines -> Nat]]
  /\ DOMAIN receipt \subseteq Receipt
  /\ \A g \in DOMAIN receipt :
       receipt[g] \in [vendor : Vendor, accepted : [Lines -> Nat], posted : BOOLEAN]
  /\ BooksTypeOK

\* One award: however many quotes are awarded, submitted late or handled at
\* once, at most one vendor gets an order, its quote is the accepted one, and
\* RFQ and request say so.
OneAward ==
  /\ \A v \in Vendor : order[v] # "none" <=> quote[v] = "accepted"
  /\ \A v, u \in Vendor : quote[v] = "accepted" /\ quote[u] = "accepted" => v = u
  /\ (\E v \in Vendor : order[v] # "none") =>
       rfq = "awarded" /\ request \in {"ordered", "closed"}

PostedFor(v) == {g \in DOMAIN receipt : receipt[g].vendor = v /\ receipt[g].posted}

\* The entries of the stock ledger for a line of a receipt.
Booked(g, l) ==
  UNION {{e \in {books[i].entries[k] : k \in DOMAIN books[i].entries} :
            e.source = <<g, l>>} : i \in Item}

\* Three-way agreement: what an order has received is what its posted receipts
\* accepted, never more than was ordered, and exactly that is on the stock
\* ledger for every stocked line; an unposted receipt has moved nothing.  (Not
\* for a line that somebody names as the source of a movement by hand: what has
\* that source is returned to post_receipt as its own.)
ReceivedIsBooked ==
  /\ \A v \in Vendor, l \in Lines :
       /\ received[v][l] =
            SumFunctionOnSet([g \in DOMAIN receipt |-> receipt[g].accepted[l]], PostedFor(v))
       /\ received[v][l] <= Line[l].quantity
  /\ \A g \in DOMAIN receipt, l \in Lines : <<g, l>> \notin Manual =>
       IF receipt[g].posted /\ Stocked(g, l)
       THEN \E e \in Booked(g, l) : /\ Booked(g, l) = {e}
                                    /\ e.quantity = receipt[g].accepted[l]
       ELSE Booked(g, l) = {}

\* create_receipt: "Receipts require an issued purchase order", and the stage
\* table lets an order out of "cancelled" to no other stage.
CancelledOrdersStayCancelled ==
  [][\A v \in Vendor : order[v] = "cancelled" => order'[v] = "cancelled"]_procurementVars
=============================================================================
