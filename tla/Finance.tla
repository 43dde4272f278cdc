------------------------------ MODULE Finance ------------------------------
(***************************************************************************)
(* A vendor invoice, its payments and the append-only commercial ledger of *)
(* modules/finance, posted into financial periods that are locked one by   *)
(* one (application/services.py; stages as bootstrap_finance_phase8 makes  *)
(* them).                                                                  *)
(*                                                                         *)
(* transition_invoice and transition_payment lock the rows they join: the  *)
(* invoice, the payment and the period each of them is booked in.  Such a  *)
(* call is one step.  A period that is only read, by create_adjustment or  *)
(* by a reversal into another period, can be locked by someone else before *)
(* the caller commits: there, checking the period is a step of its own.    *)
(*                                                                         *)
(* expected_version and maker-checker only refuse callers, never change    *)
(* what an accepted call does, and are left out.                           *)
(***************************************************************************)
EXTENDS Integers, FiniteSets, FiniteSetsExt

CONSTANTS
  Payment, Adjustment,   \* rows of finance_payment and finance_commercialadjustment
  Period,
  Home,                  \* the period of the invoice
  Invoice,               \* the invoice, as the source of ledger entries
  InvoiceLine, Charged,  \* its lines, and the total_amount of each
  Total, Retained        \* its total_amount and retention_amount when created

ASSUME FinanceAssumption ==
  /\ IsFiniteSet(Payment) /\ IsFiniteSet(Adjustment) /\ IsFiniteSet(Period)
  /\ Home \in Period /\ Invoice \notin Payment \cup Adjustment
  /\ Payment \cap Adjustment = {}
  /\ IsFiniteSet(InvoiceLine) /\ Charged \in [InvoiceLine -> Nat]
  /\ Total \in Nat \ {0} /\ Total = SumFunctionOnSet(Charged, InvoiceLine)
  /\ Retained \in 0..Total

VARIABLES
  locked,       \* Period -> locked_at IS NOT NULL
  stage,        \* stage of the invoice
  posted,       \* posted_at of the invoice is set
  reversed,     \* reversed_at of the invoice is set
  retention,    \* retention_amount
  outstanding,  \* outstanding_amount
  withheld,     \* history: retention_amount when the invoice was posted
  pay,          \* Payment -> [stage, kind, amount, period]
  ledger,       \* set of [source, fact, key, period, amount, late]: key is the
                \* source_line_key, late tells whether the period was locked
                \* when the entry was committed
  checked       \* <<source, period>>: found open by a transaction under way

invoiceVars == <<stage, posted, reversed, retention, outstanding, withheld>>
vars == <<locked, invoiceVars, pay, ledger, checked>>

NoPayment == [stage |-> "none", kind |-> "standard", amount |-> 0, period |-> Home]

Init ==
  /\ locked = [q \in Period |-> FALSE]
  /\ stage = "draft" /\ posted = FALSE /\ reversed = FALSE
  /\ retention = Retained /\ outstanding = Total - Retained /\ withheld = 0
  /\ pay = [p \in Payment |-> NoPayment]
  /\ ledger = {} /\ checked = {}

-----------------------------------------------------------------------------
(* Periods and the ledger.                                                 *)

LockPeriod(q) ==
  /\ ~locked[q]
  /\ locked' = [locked EXCEPT ![q] = TRUE]
  /\ UNCHANGED <<invoiceVars, pay, ledger, checked>>

Entries(source) == {e \in ledger : e.source = source}

\* Who posts into a period without holding its row: an adjustment, or a
\* reversal that names another period than the one of the document.
PostsElsewhere(source, q) ==
  CASE source = Invoice -> stage = "posted" /\ q # Home
    [] source \in Payment -> pay[source].stage = "posted" /\ q # pay[source].period
    [] OTHER -> Entries(source) = {}

\* _assert_period_open on a period nobody holds: the answer ages.
CheckPeriod(source, q) ==
  /\ ~locked[q] /\ PostsElsewhere(source, q)
  /\ checked' = checked \cup {<<source, q>>}
  /\ UNCHANGED <<locked, invoiceVars, pay, ledger>>

\* Mutant: a period found open when the row was created is still open.
OpenWhenCreated(source, own, q) == TRUE

\* The period is open, for all the caller knows: own is the period whose row
\* the caller has locked.
FoundOpen(source, own, q) == IF q = own THEN ~locked[q] ELSE <<source, q>> \in checked

Entry(source, fact, key, q, amount) ==
  [source |-> source, fact |-> fact, key |-> key, period |-> q,
   amount |-> amount, late |-> locked[q]]

ReversalOf ==
  [line |-> "reversal of line", retention |-> "reversal of retention",
   posted |-> "reversal of posted"]

\* The reversing entries of a source, one per original; the key names it.
Reversals(source, q) ==
  {Entry(source, ReversalOf[e.fact], e.key, q, -e.amount) : e \in Entries(source)}

-----------------------------------------------------------------------------
(* transition_invoice.                                                     *)

NextStages ==
  [draft |-> {"submitted", "cancelled"}, submitted |-> {"approved", "rejected"},
   approved |-> {"posted", "cancelled"}, posted |-> {"paid", "reversed"},
   rejected |-> {"draft", "cancelled"}, paid |-> {}, reversed |-> {},
   cancelled |-> {}]

MoveInvoice(target) ==
  /\ target \in NextStages[stage] \ {"posted", "paid", "reversed"}
  /\ stage' = target
  /\ UNCHANGED <<locked, posted, reversed, retention, outstanding, withheld, pay,
                 ledger, checked>>

\* Mutant: a posting finds the entry of an equal line and takes it for its own.
LinesWithoutKey == {Entry(Invoice, "line", "line", Home, Charged[l]) : l \in InvoiceLine}

\* One entry per line, under its line_number.
LineEntries == {Entry(Invoice, "line", l, Home, Charged[l]) : l \in InvoiceLine}

\* The ledger takes no amount of zero; what is withheld gets the sign of the
\* lines.
PostInvoice ==
  /\ "posted" \in NextStages[stage] /\ FoundOpen(Invoice, Home, Home)
  /\ \A l \in InvoiceLine : Charged[l] # 0
  /\ stage' = "posted" /\ posted' = TRUE /\ withheld' = retention
  /\ ledger' = ledger \cup LineEntries
        \cup {Entry(Invoice, "retention", "retention", Home, r) : r \in {retention} \ {0}}
  /\ UNCHANGED <<locked, reversed, retention, outstanding, pay, checked>>

MarkPaid ==
  /\ "paid" \in NextStages[stage] /\ outstanding = 0
  /\ stage' = "paid"
  /\ UNCHANGED <<locked, posted, reversed, retention, outstanding, withheld, pay,
                 ledger, checked>>

ReverseInvoice(q) ==
  /\ "reversed" \in NextStages[stage] /\ posted /\ ~reversed
  /\ FoundOpen(Invoice, Home, q)
  /\ Entries(Invoice) # {}
  /\ stage' = "reversed" /\ reversed' = TRUE /\ outstanding' = 0
  /\ ledger' = ledger \cup Reversals(Invoice, q)
  /\ checked' = checked \ {<<Invoice, q>>}
  /\ UNCHANGED <<locked, posted, retention, withheld, pay>>

-----------------------------------------------------------------------------
(* create_payment and transition_payment.                                  *)

\* Nothing relates the payment to the stage of the invoice.
CreatePayment(p, kind, amount, q) ==
  /\ pay[p].stage = "none" /\ ~locked[q]
  /\ amount <= IF kind = "standard" THEN outstanding ELSE retention
  /\ pay' = [pay EXCEPT ![p] =
       [stage |-> "draft", kind |-> kind, amount |-> amount, period |-> q]]
  /\ UNCHANGED <<locked, invoiceVars, ledger, checked>>

CancelPayment(p) ==
  /\ pay[p].stage = "draft"
  /\ pay' = [pay EXCEPT ![p].stage = "cancelled"]
  /\ UNCHANGED <<locked, invoiceVars, ledger, checked>>

\* The comparison with the invoice, its full_clean() and the check constraint
\* on its amounts.
InvoiceValid ==
  /\ retention' \in 0..Total
  /\ outstanding' \in 0..Total

\* Mutant: releasing retention forgets to take it off the retained amount.
SettleKeepsRetention(p) ==
  /\ retention' = retention
  /\ outstanding' = IF pay[p].kind = "standard" THEN outstanding - pay[p].amount
                    ELSE outstanding + pay[p].amount

\* What posting a payment does to the invoice.
Settle(p) ==
  IF pay[p].kind = "standard"
  THEN outstanding' = outstanding - pay[p].amount /\ retention' = retention
  ELSE /\ retention' = retention - pay[p].amount
       /\ outstanding' = outstanding + pay[p].amount

PostPayment(p) ==
  /\ pay[p].stage = "draft" /\ FoundOpen(p, pay[p].period, pay[p].period)
  /\ Settle(p) /\ InvoiceValid
  /\ pay' = [pay EXCEPT ![p].stage = "posted"]
  /\ ledger' = ledger \cup {Entry(p, "posted", "posted", pay[p].period, -pay[p].amount)}
  /\ UNCHANGED <<locked, stage, posted, reversed, withheld, checked>>

\* What reversing it does: the outstanding amount stops at zero.
Unsettle(p) ==
  IF pay[p].kind = "standard"
  THEN outstanding' = outstanding + pay[p].amount /\ retention' = retention
  ELSE /\ retention' = retention + pay[p].amount
       /\ outstanding' = IF outstanding > pay[p].amount
                         THEN outstanding - pay[p].amount ELSE 0

ReversePayment(p, q) ==
  /\ pay[p].stage = "posted" /\ FoundOpen(p, pay[p].period, q)
  /\ Unsettle(p) /\ InvoiceValid
  /\ pay' = [pay EXCEPT ![p].stage = "reversed"]
  /\ ledger' = ledger \cup Reversals(p, q)
  /\ checked' = checked \ {<<p, q>>}
  /\ UNCHANGED <<locked, stage, posted, reversed, withheld>>

\* create_adjustment; its amount plays no part.
PostAdjustment(a, q) ==
  /\ Entries(a) = {} /\ <<a, q>> \in checked
  /\ ledger' = ledger \cup {Entry(a, "adjustment", "adjustment", q, 1)}
  /\ checked' = checked \ {<<a, q>>}
  /\ UNCHANGED <<locked, invoiceVars, pay>>

-----------------------------------------------------------------------------
Next ==
  \/ \E q \in Period : \/ LockPeriod(q) \/ ReverseInvoice(q)
                       \/ \E s \in {Invoice} \cup Payment \cup Adjustment : CheckPeriod(s, q)
  \/ \E target \in DOMAIN NextStages : MoveInvoice(target)
  \/ PostInvoice \/ MarkPaid
  \/ \E p \in Payment, kind \in {"standard", "release"}, amount \in 1..Total, q \in Period :
       CreatePayment(p, kind, amount, q)
  \/ \E p \in Payment : CancelPayment(p) \/ PostPayment(p)
  \/ \E p \in Payment, q \in Period : ReversePayment(p, q)
  \/ \E a \in Adjustment, q \in Period : PostAdjustment(a, q)

Spec == Init /\ [][Next]_vars

-----------------------------------------------------------------------------
(* Properties.                                                             *)

Facts == {"line", "retention", "posted", "adjustment", "reversal of line",
          "reversal of retention", "reversal of posted"}

Keys == {"retention", "posted", "adjustment"}

TypeOK ==
  /\ locked \in [Period -> BOOLEAN]
  /\ stage \in DOMAIN NextStages
  /\ posted \in BOOLEAN /\ reversed \in BOOLEAN
  /\ retention \in 0..Total /\ outstanding \in 0..Total /\ withheld \in 0..Total
  /\ pay \in [Payment -> [stage : {"none", "draft", "cancelled", "posted", "reversed"},
                          kind : {"standard", "release"}, amount : 0..Total,
                          period : Period]]
  /\ ledger \subseteq [source : {Invoice} \cup Payment \cup Adjustment, fact : Facts,
                       key : InvoiceLine \cup Keys, period : Period, amount : Int,
                       late : BOOLEAN]
  /\ checked \subseteq ({Invoice} \cup Payment \cup Adjustment) \X Period

Balance(source) == SumFunctionOnSet([e \in ledger |-> e.amount], Entries(source))

\* The ledger agrees with the invoice and its payments: while a document is
\* posted its balance is its whole amount (all lines, each once though two be
\* equal, with what was withheld when it was posted on top of them), once it
\* is reversed it nets to zero, and until it is posted, or if it never is,
\* nothing is there.  Drafts, refusals and second attempts leave no trace.
LedgerAgrees ==
  /\ posted /\ ~reversed => Balance(Invoice) = Total + withheld
  /\ reversed => posted /\ Balance(Invoice) = 0
  /\ ~posted => Entries(Invoice) = {}
  /\ \A p \in Payment :
       CASE pay[p].stage = "posted" -> Balance(p) = -pay[p].amount
         [] pay[p].stage = "reversed" -> Balance(p) = 0 /\ Cardinality(Entries(p)) = 2
         [] OTHER -> Entries(p) = {}

InState(kind, s) == {p \in Payment : pay[p].kind = kind /\ pay[p].stage = s}

Paid == SumFunctionOnSet([p \in Payment |-> pay[p].amount], InState("standard", "posted"))

\* The books of the invoice close: until it is reversed, every unit of its
\* total is outstanding, retained or paid, whatever order payments are
\* drafted, posted and reversed in.  Reversing a retention release may count
\* a unit twice (the outstanding amount stops at zero), never lose one.
BooksClose ==
  ~reversed => /\ outstanding + retention + Paid >= Total
               /\ \/ InState("release", "reversed") # {}
                  \/ outstanding + retention + Paid = Total

\* An invoice or a payment is never posted into a period that is locked, nor
\* reversed into its own one.
OwnPeriodFenced ==
  \A e \in ledger :
    e.late => \/ e.source \in Adjustment
              \/ e.source = Invoice /\ e.period # Home
              \/ e.source \in Payment /\ e.period # pay[e.source].period

\* docs/api/phase-8-finance.md: "financial periods block new postings after
\* lock."
LockedPeriodsBlockPostings == \A e \in ledger : ~e.late
=============================================================================
