----------------------------- MODULE ServiceDesk ----------------------------
(* What members and customers are answered: the desk of a company, with    *)
(* problems and changes (SupportSpec), that of the platform, with its      *)
(* customers' invoices (DeskSpec), notices to members (NoticeSpec), report *)
(* runs and exports (ReportSpec).                                          *)
EXTENDS MakerChecker, Integers, FiniteSetsExt

-----------------------------------------------------------------------------
(* Customer and IT support (modules/supportops, application/services.py):  *)
(* tickets with their interactions and service levels, problems, changes,  *)
(* knowledge articles and improvements.                                    *)
(*                                                                         *)
(* Whether an interaction is the first response is decided on the ticket   *)
(* that the view has read; the ticket is locked only to be written, so     *)
(* that two first responses may both be recorded.                          *)

CONSTANTS
  Member, Item,
  Kind,         \* Item -> kind of its row
  ResponseDue,  \* days after which a ticket is late
  ResolutionDue,
  LastDay,      \* bound: the last day looked at
  MaxOpen       \* bound: interactions being added

Kinds == {"TICKET", "PROBLEM", "CHANGE", "ARTICLE", "IMPROVEMENT"}

SupportAssumption ==
  /\ Kind \in [Item -> Kinds]
  /\ {ResponseDue, ResolutionDue, LastDay, MaxOpen} \subseteq Nat

VARIABLES
  row,      \* Item -> row
  answers,  \* tickets -> days of the interactions that respond to the caller
  adding,   \* interactions being added: ticket, and whether it looked unanswered
  today

supportVars == <<row, answers, adding, today>>

Never == 0
Tickets == {i \in Item : Kind[i] = "TICKET"}

SupportTicketStages ==
  [NEW |-> {"TRIAGED", "IN_PROGRESS", "CANCELLED"},
   TRIAGED |-> {"IN_PROGRESS", "WAITING_CUSTOMER", "WAITING_INTERNAL", "CANCELLED"},
   IN_PROGRESS |-> {"WAITING_CUSTOMER", "WAITING_INTERNAL", "RESOLVED", "CANCELLED"},
   WAITING_CUSTOMER |-> {"IN_PROGRESS", "RESOLVED", "CANCELLED"},
   WAITING_INTERNAL |-> {"IN_PROGRESS", "RESOLVED", "CANCELLED"},
   RESOLVED |-> {"CLOSED", "REOPENED"},
   REOPENED |-> {"IN_PROGRESS", "WAITING_CUSTOMER", "WAITING_INTERNAL", "RESOLVED"},
   CLOSED |-> {"REOPENED"}]
ProblemStages ==
  [OPEN |-> {"INVESTIGATING", "CANCELLED"}, INVESTIGATING |-> {"KNOWN_ERROR", "RESOLVED", "CANCELLED"},
   KNOWN_ERROR |-> {"RESOLVED", "INVESTIGATING"}, RESOLVED |-> {"CLOSED", "INVESTIGATING"}]
ChangeStages ==
  [DRAFT |-> {"ASSESSMENT", "CANCELLED"}, ASSESSMENT |-> {"PENDING_APPROVAL", "DRAFT", "CANCELLED"},
   PENDING_APPROVAL |-> {"APPROVED", "REJECTED"}, APPROVED |-> {"SCHEDULED", "CANCELLED"},
   SCHEDULED |-> {"IMPLEMENTING", "CANCELLED"}, IMPLEMENTING |-> {"IMPLEMENTED", "ROLLED_BACK"},
   IMPLEMENTED |-> {"CLOSED", "ROLLED_BACK"}, REJECTED |-> {"DRAFT"}, ROLLED_BACK |-> {"CLOSED"}]
ArticleStages ==
  [DRAFT |-> {"IN_REVIEW", "ARCHIVED"}, IN_REVIEW |-> {"PUBLISHED", "DRAFT", "ARCHIVED"},
   PUBLISHED |-> {"ARCHIVED", "DRAFT"}, ARCHIVED |-> {"DRAFT"}]
ImprovementStages ==
  [BACKLOG |-> {"PLANNED", "CANCELLED"}, PLANNED |-> {"IN_PROGRESS", "BACKLOG", "CANCELLED"},
   IN_PROGRESS |-> {"VALIDATING", "BLOCKED", "CANCELLED"}, BLOCKED |-> {"IN_PROGRESS", "CANCELLED"},
   VALIDATING |-> {"COMPLETED", "IN_PROGRESS"}]

SupportInit ==
  /\ row = [i \in Item |-> Absent] /\ answers = [t \in Tickets |-> {}]
  /\ adding = {} /\ today = 1

DayPasses == today < LastDay /\ today' = today + 1 /\ UNCHANGED <<row, answers, adding>>

-----------------------------------------------------------------------------
Insert(k, i, new) ==
  /\ Kind[i] = k /\ ~Has(row, i)
  /\ row' = [row EXCEPT ![i] = new]
  /\ UNCHANGED <<answers, adding, today>>

\* _deadlines: both count from the day of creation.
Deadlines == [response |-> today + ResponseDue, resolution |-> today + ResolutionDue]

CreateTicket(i) ==
  Insert("TICKET", i, [status |-> "NEW", due |-> Deadlines, responded |-> Never, resolved |-> Never,
                       closed |-> Never, breached |-> FALSE, escalation |-> 0])
CreateProblem(i) == Insert("PROBLEM", i, [status |-> "OPEN", cause |-> FALSE, resolved |-> FALSE])
CreateChange(i, m) ==
  Insert("CHANGE", i, [status |-> "DRAFT", by |-> m, approver |-> Nobody, rollback |-> FALSE])
CreateArticle(i, m) == Insert("ARTICLE", i, Drafted("DRAFT", m))
CreateImprovement(i) == Insert("IMPROVEMENT", i, [status |-> "BACKLOG", benefit |-> FALSE])

-----------------------------------------------------------------------------
\* A summary is kept from the resolution to the closing.
TransitionTicket(i) ==
  /\ Kind[i] = "TICKET"
  /\ \E stage \in Offers(SupportTicketStages, row, i) :
       row' = [row EXCEPT ![i].status = stage,
         ![i].resolved = CASE stage = "RESOLVED" -> today [] stage = "REOPENED" -> Never [] OTHER -> @,
         ![i].closed = CASE stage = "CLOSED" -> today [] stage = "REOPENED" -> Never [] OTHER -> @,
         ![i].breached = @ \/ (row[i].due.resolution < today /\ stage \notin {"CLOSED", "CANCELLED"})]
  /\ UNCHANGED <<answers, adding, today>>

ReadForInteraction(t) ==
  /\ Has(row, t) /\ Cardinality(adding) < MaxOpen
  /\ adding' = adding \cup {[ticket |-> t, unanswered |-> row[t].responded = Never]}
  /\ UNCHANGED <<row, answers, today>>

LateResponse(t, day) == day > row[t].due.response

FirstResponse(t, day) ==
  [row EXCEPT ![t].responded = day, ![t].status = IF @ = "NEW" THEN "TRIAGED" ELSE @,
              ![t].breached = @ \/ LateResponse(t, day)]

\* The caller may say when the interaction took place.
AddInteraction(x) ==
  /\ \/ \E day \in 1..today :
          /\ answers' = [answers EXCEPT ![x.ticket] = @ \cup {day}]
          /\ row' = IF x.unanswered THEN FirstResponse(x.ticket, day) ELSE row
     \/ UNCHANGED <<row, answers>>   \* a note among colleagues
  /\ adding' = adding \ {x}
  /\ UNCHANGED today

\* One UPDATE over the tickets that are late and do not yet say so.
RefreshSla ==
  LET late == {t \in Tickets :
        /\ In(row, t, {"NEW", "TRIAGED", "IN_PROGRESS", "WAITING_CUSTOMER", "WAITING_INTERNAL", "REOPENED"})
        /\ \/ row[t].responded = Never /\ row[t].due.response < today
           \/ row[t].due.resolution < today
        /\ ~row[t].breached \/ row[t].escalation = 0} IN
  /\ row' = [i \in Item |-> IF i \in late
               THEN [row[i] EXCEPT !.breached = TRUE, !.escalation = IF @ = 0 THEN 1 ELSE @] ELSE row[i]]
  /\ UNCHANGED <<answers, adding, today>>

\* Texts that a stage requires may come with it or before.
TransitionProblem(i) ==
  /\ Kind[i] = "PROBLEM"
  /\ \E stage \in Offers(ProblemStages, row, i), sent \in BOOLEAN :
       LET done == stage \in {"RESOLVED", "CLOSED"} cause == row[i].cause \/ sent IN
       /\ done => cause
       /\ row' = [row EXCEPT ![i] = [status |-> stage, cause |-> cause, resolved |-> done]]
  /\ UNCHANGED <<answers, adding, today>>

TransitionChange(i, m) ==
  /\ \E stage \in Open(Kind[i] = "CHANGE", row, i, ChangeStages, {"APPROVED"}, m), sent \in BOOLEAN :
       LET rollback == row[i].rollback \/ sent IN
       /\ stage \in {"APPROVED", "SCHEDULED", "IMPLEMENTING", "IMPLEMENTED"} => rollback
       /\ row' = [Judged(row, i, stage, m, {"APPROVED"}, {}) EXCEPT ![i].rollback = rollback]
  /\ UNCHANGED <<answers, adding, today>>

TransitionArticle(i, m) ==
  /\ \E stage \in Open(Kind[i] = "ARTICLE", row, i, ArticleStages, {"PUBLISHED"}, m) :
       row' = Judged(row, i, stage, m, {"PUBLISHED"}, {"DRAFT"})
  /\ UNCHANGED <<answers, adding, today>>

TransitionImprovement(i) ==
  /\ Kind[i] = "IMPROVEMENT"
  /\ \E stage \in Offers(ImprovementStages, row, i), sent \in BOOLEAN :
       /\ stage = "COMPLETED" => row[i].benefit \/ sent
       /\ row' = [row EXCEPT ![i] = [status |-> stage, benefit |-> @.benefit \/ sent]]
  /\ UNCHANGED <<answers, adding, today>>

SupportNext ==
  \/ DayPasses \/ RefreshSla
  \/ \E i \in Item :
       \/ CreateTicket(i) \/ CreateProblem(i) \/ CreateImprovement(i)
       \/ TransitionTicket(i) \/ TransitionProblem(i) \/ TransitionImprovement(i)
  \/ \E i \in Item, m \in Member :
       CreateChange(i, m) \/ CreateArticle(i, m) \/ TransitionChange(i, m) \/ TransitionArticle(i, m)
  \/ \E t \in Tickets : ReadForInteraction(t)
  \/ \E x \in adding : AddInteraction(x)

SupportSpec == SupportInit /\ [][SupportNext]_supportVars

-----------------------------------------------------------------------------
SupportTicketRow ==
  [status : Reached(SupportTicketStages), due : [response : Nat, resolution : Nat], responded : Nat,
   resolved : Nat, closed : Nat, breached : BOOLEAN, escalation : {0, 1}]
ProblemRecordRow == [status : Reached(ProblemStages), cause : BOOLEAN, resolved : BOOLEAN]
ChangeRequestRow ==
  [status : Reached(ChangeStages), by : Member, approver : Member \cup {Nobody}, rollback : BOOLEAN]
KnowledgeArticleRow == Judgeable(ArticleStages, Member)
ImprovementItemRow == [status : Reached(ImprovementStages), benefit : BOOLEAN]

RowOf(i) ==
  CASE Kind[i] = "TICKET" -> SupportTicketRow [] Kind[i] = "PROBLEM" -> ProblemRecordRow
    [] Kind[i] = "CHANGE" -> ChangeRequestRow [] Kind[i] = "ARTICLE" -> KnowledgeArticleRow
    [] OTHER -> ImprovementItemRow

SupportTypeOK ==
  /\ DOMAIN row = Item /\ \A i \in Item : row[i] \in RowOf(i) \cup {Absent}
  /\ answers \in [Tickets -> SUBSET Nat] /\ adding \subseteq [ticket : Tickets, unanswered : BOOLEAN]

\* What is told about service levels is so, whatever responses race: the first
\* response of a ticket is a day on which somebody did respond, a ticket
\* somebody responded to is not new and says when, a late response is on
\* record as a breach, and the dates of resolution and closing belong to the
\* stage.  A change that is carried out and an article that is published were
\* judged by another than their author.
LevelsAreTold ==
  \A i \in Item : Has(row, i) =>
    /\ Kind[i] = "TICKET" =>
         /\ answers[i] # {} => row[i].responded \in answers[i] /\ row[i].status # "NEW"
         /\ row[i].responded > row[i].due.response => row[i].breached
         /\ (In(row, i, {"RESOLVED", "CLOSED"}) <=> row[i].resolved # Never)
         /\ (In(row, i, {"CLOSED"}) <=> row[i].closed # Never)
         /\ row[i].escalation > 0 => row[i].breached
    /\ Kind[i] = "CHANGE" /\ In(row, i, {"APPROVED", "SCHEDULED", "IMPLEMENTING", "IMPLEMENTED", "ROLLED_BACK", "CLOSED"})
         => Independently(row, i) /\ row[i].rollback
    /\ Kind[i] = "ARTICLE" =>
         /\ In(row, i, {"PUBLISHED"}) => Independently(row, i)
         /\ In(row, i, {"DRAFT", "IN_REVIEW"}) => row[i].approver = Nobody
    /\ Kind[i] = "PROBLEM" /\ row[i].resolved => row[i].cause
    /\ Kind[i] = "IMPROVEMENT" /\ In(row, i, {"COMPLETED"}) => row[i].benefit

-----------------------------------------------------------------------------
(* The supplier's desk for its customers (modules/successops,              *)
(* application/services.py): support tickets, the invoices of a            *)
(* subscription with their payments, success plans and adoption snapshots. *)
(*                                                                         *)
(* A ticket is numbered by counting the tickets there are, which nobody    *)
(* locks: of two creations that count the same, the number's uniqueness    *)
(* lets one through.                                                       *)

CONSTANTS
  Ticket, Invoice,
  Payment,          \* payments by their reference, which is unique
  Total,            \* Invoice -> Nat, subtotal and tax
  Paid,             \* Payment -> amount
  InvoiceOf,        \* Payment -> Invoice
  Plan, Day         \* success plans by code; days of adoption snapshots

SuccessDeskAssumption ==
  /\ Total \in [Invoice -> Nat] /\ Paid \in [Payment -> Nat \ {0}] /\ InvoiceOf \in [Payment -> Invoice]
  /\ IsFiniteSet(Ticket) /\ IsFiniteSet(Payment) /\ MaxOpen \in Nat

VARIABLES
  ticket,    \* Ticket -> row
  counting,  \* creations that have counted: ticket and number
  invoice,   \* Invoice -> row
  payment,   \* Payment -> row
  plan,      \* success plans that exist
  snapshot   \* Day -> how often its snapshot was written

successDeskVars == <<ticket, counting, invoice, payment, plan, snapshot>>
deskVars == <<ticket, counting>>
billVars == <<invoice, payment>>
planVars == <<plan, snapshot>>

DeskTicketStages ==
  [OPEN |-> {"TRIAGE", "CLOSED"}, TRIAGE |-> {"IN_PROGRESS", "WAITING_CUSTOMER"},
   IN_PROGRESS |-> {"WAITING_CUSTOMER", "RESOLVED"}, WAITING_CUSTOMER |-> {"IN_PROGRESS", "RESOLVED"},
   RESOLVED |-> {"IN_PROGRESS", "CLOSED"}]

DeskInit ==
  /\ ticket = [t \in Ticket |-> Absent] /\ counting = {}
  /\ invoice = [i \in Invoice |-> Absent] /\ payment = [p \in Payment |-> Absent]
  /\ plan = {} /\ snapshot = [d \in Day |-> 0]

-----------------------------------------------------------------------------
CountTickets(t) ==
  /\ ~Has(ticket, t) /\ Cardinality(counting) < MaxOpen
  /\ \A x \in counting : x.ticket # t
  /\ counting' = counting \cup
       {[ticket |-> t, number |-> Cardinality({x \in Ticket : Has(ticket, x)}) + 1]}
  /\ UNCHANGED <<ticket, billVars, planVars>>

NumberIsFree(n) == \A t \in Ticket : Has(ticket, t) => ticket[t].number # n

CreateSupportTicket(x) ==
  /\ ticket' = IF NumberIsFree(x.number)
               THEN [ticket EXCEPT ![x.ticket] =
                       [status |-> "OPEN", number |-> x.number, responded |-> FALSE, resolved |-> FALSE]]
               ELSE ticket
  /\ counting' = counting \ {x}
  /\ UNCHANGED <<billVars, planVars>>

\* resolved_at and first_responded_at are set once and outlive a reopening.
TransitionSupportTicket(t) ==
  /\ \E stage \in Offers(DeskTicketStages, ticket, t) :
       ticket' = [ticket EXCEPT ![t].status = stage,
                                ![t].responded = @ \/ stage \in {"TRIAGE", "IN_PROGRESS"},
                                ![t].resolved = @ \/ stage \in {"RESOLVED", "CLOSED"}]
  /\ UNCHANGED <<counting, billVars, planVars>>

-----------------------------------------------------------------------------
CreateInvoice(i) ==
  /\ ~Has(invoice, i)
  /\ invoice' = [invoice EXCEPT ![i] = [status |-> "DRAFT", outstanding |-> Total[i]]]
  /\ UNCHANGED <<deskVars, payment, planVars>>

IssueInvoice(i) ==
  /\ In(invoice, i, {"DRAFT"})
  /\ invoice' = Moved(invoice, i, "ISSUED")
  /\ UNCHANGED <<deskVars, payment, planVars>>

WithinOutstanding(i, p) == Paid[p] <= invoice[i].outstanding

\* The invoice is locked before its outstanding amount is read.
RecordPayment(p) ==
  LET i == InvoiceOf[p] left == invoice[i].outstanding - Paid[p] IN
  /\ ~Has(payment, p) /\ Has(invoice, i) /\ ~In(invoice, i, {"DRAFT", "VOID"})
  /\ WithinOutstanding(i, p)
  /\ payment' = [payment EXCEPT ![p] = [status |-> "VERIFIED"]]
  /\ invoice' = [invoice EXCEPT ![i] =
       [status |-> IF left = 0 THEN "PAID" ELSE "PARTIALLY_PAID", outstanding |-> left]]
  /\ UNCHANGED <<deskVars, planVars>>

-----------------------------------------------------------------------------
CreateSuccessPlan(p) == p \notin plan /\ plan' = plan \cup {p} /\ UNCHANGED <<deskVars, billVars, snapshot>>

\* update_or_create by day; one rewriting is enough to tell the two apart.
RecordAdoptionSnapshot(d) ==
  /\ snapshot[d] < 2
  /\ snapshot' = [snapshot EXCEPT ![d] = @ + 1]
  /\ UNCHANGED <<deskVars, billVars, plan>>

DeskNext ==
  \/ \E t \in Ticket : CountTickets(t) \/ TransitionSupportTicket(t)
  \/ \E x \in counting : CreateSupportTicket(x)
  \/ \E i \in Invoice : CreateInvoice(i) \/ IssueInvoice(i)
  \/ \E p \in Payment : RecordPayment(p)
  \/ \E p \in Plan : CreateSuccessPlan(p)
  \/ \E d \in Day : RecordAdoptionSnapshot(d)

DeskSpec == DeskInit /\ [][DeskNext]_successDeskVars

-----------------------------------------------------------------------------
DeskSupportTicketRow ==
  [status : Reached(DeskTicketStages), number : Nat, responded : BOOLEAN, resolved : BOOLEAN]
SubscriptionInvoiceRow == [status : {"DRAFT", "ISSUED", "PARTIALLY_PAID", "PAID"}, outstanding : Int]
PaymentRecordRow == [status : {"VERIFIED"}]

DeskTypeOK ==
  /\ ticket \in [Ticket -> DeskSupportTicketRow \cup {Absent}]
  /\ invoice \in [Invoice -> SubscriptionInvoiceRow \cup {Absent}]
  /\ payment \in [Payment -> PaymentRecordRow \cup {Absent}]
  /\ plan \subseteq Plan /\ snapshot \in [Day -> 0..2]

PaymentsOf(i) == {p \in Payment : InvoiceOf[p] = i /\ Has(payment, p)}

\* What an invoice shows as outstanding is its total less the payments recorded
\* against it, never less than nothing; it is paid exactly when payments have
\* brought it to zero; and no two tickets have one number, whoever counted when.
InvoicesBalance ==
  /\ \A i \in Invoice : Has(invoice, i) =>
       LET paid == MapThenSumSet(LAMBDA p : Paid[p], PaymentsOf(i)) IN
       /\ invoice[i].outstanding + paid = Total[i] /\ paid <= Total[i]
       /\ (In(invoice, i, {"PAID"}) <=> (PaymentsOf(i) # {} /\ paid = Total[i]))
       /\ (In(invoice, i, {"DRAFT", "ISSUED"}) <=> PaymentsOf(i) = {})
  /\ \A s, t \in Ticket : Has(ticket, s) /\ Has(ticket, t) /\ s # t => ticket[s].number # ticket[t].number

-----------------------------------------------------------------------------
(* Notifications (modules/notifications, application/services.py): rules   *)
(* say which channels an event goes out on, preferences which of them a    *)
(* user wants; what is read stays read.                                    *)
(*                                                                         *)
(* create_notification reads the rule and each preference without a lock   *)
(* and has an external message sent before it commits: the step for one    *)
(* channel and the commit are separate, with a rollback in place of the    *)
(* commit when the process dies.  What happens to a message afterwards     *)
(* does not reach the delivery.                                            *)

CONSTANTS
  Notification, External,   \* the channels other than in-app
  MaxChanges,               \* bound: preferences and rules written
  MaxRollbacks              \* bound: notifications rolled back

NoticesAssumption == MaxChanges \in Nat /\ MaxRollbacks \in Nat

Channel == {"in_app"} \cup External
Outcome == {"SENT", "DELIVERED", "FAILED", "SUPPRESSED", "QUEUED"}

VARIABLES
  rule,          \* channels of the rule for the event
  muted,         \* channels the user does not want
  configured,    \* external channels with a published template
  notification,  \* Notification -> row: channels of the rule it read, deliveries, read_at
  noticeSent,          \* <<notification, channel>> -> messages requested for it
  now, changes, rollbacks

noticeVars == <<rule, muted, configured, notification, noticeSent, now, changes, rollbacks>>
settings == <<rule, muted, configured, changes>>

Unread == 0

NoticeInit ==
  /\ rule = External /\ muted = {} /\ configured = External /\ now = 1 /\ changes = 0 /\ rollbacks = 0
  /\ notification = [n \in Notification |-> Absent] /\ noticeSent = [d \in Notification \X External |-> 0]

Written == changes < MaxChanges /\ changes' = changes + 1 /\ UNCHANGED <<notification, noticeSent, now, rollbacks>>

UpsertPreference(c) ==
  /\ Written /\ muted' \in {muted \cup {c}, muted \ {c}} /\ UNCHANGED <<rule, configured>>

CreateRule == Written /\ rule' \in SUBSET External /\ UNCHANGED <<muted, configured>>

\* Templates are published elsewhere.
Publish == Written /\ configured' \in SUBSET External /\ UNCHANGED <<rule, muted>>

-----------------------------------------------------------------------------
IsChannelEnabled(c) == c \notin muted

\* The notification with its in-app delivery; route_external asks for the others.
BeginNotification(n) ==
  /\ ~Has(notification, n)
  /\ \E external \in BOOLEAN :
       notification' = [notification EXCEPT ![n] =
         [status |-> "CREATING", todo |-> IF external THEN rule ELSE {}, read |-> Unread,
          delivery |-> [c \in {"in_app"} |-> IF IsChannelEnabled(c) THEN "DELIVERED" ELSE "SUPPRESSED"]]]
  /\ UNCHANGED <<settings, noticeSent, now, rollbacks>>

Delivered(n, c, outcome) ==
  [notification EXCEPT ![n].todo = @ \ {c},
     ![n].delivery = [x \in DOMAIN notification[n].delivery \cup {c} |->
                        IF x = c THEN outcome ELSE notification[n].delivery[x]]]

\* One channel that the user does not want, or that has no template ...
SuppressChannel(n, c) ==
  /\ In(notification, n, {"CREATING"}) /\ c \in notification[n].todo
  /\ ~IsChannelEnabled(c) \/ c \notin configured
  /\ notification' = Delivered(n, c, "SUPPRESSED")
  /\ UNCHANGED <<settings, noticeSent, now, rollbacks>>

\* ... or a message, whose status at this moment the delivery keeps.
DispatchChannel(n, c) ==
  /\ In(notification, n, {"CREATING"}) /\ c \in notification[n].todo
  /\ IsChannelEnabled(c) /\ c \in configured
  /\ noticeSent' = [noticeSent EXCEPT ![<<n, c>>] = @ + 1]
  /\ \E outcome \in Outcome : notification' = Delivered(n, c, outcome)
  /\ UNCHANGED <<settings, now, rollbacks>>

CreateNotification(n) ==
  /\ In(notification, n, {"CREATING"}) /\ notification[n].todo = {}
  /\ notification' = Moved(notification, n, "CREATED")
  /\ UNCHANGED <<settings, noticeSent, now, rollbacks>>

\* What was sent is not undone.
RollbackNotification(n) ==
  /\ In(notification, n, {"CREATING"}) /\ rollbacks < MaxRollbacks /\ rollbacks' = rollbacks + 1
  /\ notification' = [notification EXCEPT ![n] = Absent]
  /\ UNCHANGED <<settings, noticeSent, now>>

-----------------------------------------------------------------------------
\* Under the lock, if nobody has read it; so that the first time is kept.
MarkRead(n) ==
  /\ In(notification, n, {"CREATED"}) /\ notification[n].read = Unread
  /\ notification' = [notification EXCEPT ![n].read = now] /\ now' = now + 1
  /\ UNCHANGED <<settings, noticeSent, rollbacks>>

MarkAllRead ==
  LET unread == {n \in Notification : In(notification, n, {"CREATED"}) /\ notification[n].read = Unread} IN
  /\ unread # {} /\ now' = now + 1
  /\ notification' = [n \in Notification |->
       IF n \in unread THEN [notification[n] EXCEPT !.read = now] ELSE notification[n]]
  /\ UNCHANGED <<settings, noticeSent, rollbacks>>

NoticeNext ==
  \/ CreateRule \/ Publish \/ MarkAllRead \/ \E c \in Channel : UpsertPreference(c)
  \/ \E n \in Notification :
       \/ BeginNotification(n) \/ CreateNotification(n) \/ RollbackNotification(n) \/ MarkRead(n)
       \/ \E c \in External : SuppressChannel(n, c) \/ DispatchChannel(n, c)

NoticeSpec == NoticeInit /\ [][NoticeNext]_noticeVars

-----------------------------------------------------------------------------
NoticeTypeOK ==
  /\ rule \subseteq External /\ muted \subseteq Channel /\ configured \subseteq External
  /\ noticeSent \in [Notification \X External -> 0..(1 + MaxRollbacks)] /\ changes \in 0..MaxChanges /\ rollbacks \in 0..MaxRollbacks
  /\ \A n \in Notification : Has(notification, n) =>
       /\ notification[n].status \in {"CREATING", "CREATED"} /\ notification[n].todo \subseteq External
       /\ "in_app" \in DOMAIN notification[n].delivery /\ DOMAIN notification[n].delivery \subseteq Channel
       /\ \A c \in DOMAIN notification[n].delivery : notification[n].delivery[c] \in Outcome

\* A notification has one delivery for each channel that its rule had, none left
\* out, whatever the settings became meanwhile; a delivery that speaks of a
\* message has one, a message more for a notification only where one was rolled
\* back after it.
DeliveriesAreTold ==
  /\ \A n \in Notification : \A c \in External :
       LET told == Has(notification, n) /\ c \in DOMAIN notification[n].delivery IN
       /\ told /\ notification[n].delivery[c] # "SUPPRESSED" => noticeSent[<<n, c>>] > 0
       /\ noticeSent[<<n, c>>] <= rollbacks + (IF told THEN 1 ELSE 0)
       /\ told => c \notin notification[n].todo
  /\ \A n \in Notification : In(notification, n, {"CREATED"}) => notification[n].todo = {}

-----------------------------------------------------------------------------
(* Metrics, saved reports and exports (modules/reporting, application/     *)
(* services.py).                                                           *)
(*                                                                         *)
(* A run is one transaction: it inserts the run, reads the metrics one     *)
(* after the other, each as committed then, and seals what it rendered.    *)
(* No bytes are kept: a download renders the run again and compares the    *)
(* digest.  A workbook's archive holds the time at which it was written.   *)

CONSTANTS
  Metric, Report,
  Run,          \* requests for a run
  Key,          \* Run -> idempotency key
  MaxFigure,    \* bound: how often a figure changes
  MaxMoment,    \* bound: the clock, in the two seconds that an archive resolves
  MaxDownloads  \* bound: downloads of a run

ReportingAssumption == MaxFigure \in Nat /\ MaxMoment \in Nat /\ MaxDownloads \in Nat /\ DOMAIN Key = Run

VARIABLES
  metric,     \* Metric -> row
  report,     \* Report -> row: its metrics and format
  run,        \* Run -> row: metrics, format, snapshot, sealed (what was digested), expired, downloads
  answer,     \* Run -> the run its caller was told, or NoRun
  figure,     \* Metric -> what counting or summing its rows gives now
  during,     \* Run -> the figures each metric had while the run was open
  moment

reportVars == <<metric, report, run, answer, figure, during, moment>>

NoRun == "none"
Formats == {"csv", "xlsx"}

ReportInit ==
  /\ metric = [m \in Metric |-> Absent] /\ report = [r \in Report |-> Absent] /\ run = [x \in Run |-> Absent]
  /\ answer = [x \in Run |-> NoRun] /\ figure = [m \in Metric |-> 0] /\ during = [x \in Run |-> [m \in Metric |-> {}]]
  /\ moment = 0

\* The code of an active metric is unique, and nothing deactivates one.
CreateMetric(m) ==
  /\ ~ Has(metric, m) /\ metric' = [metric EXCEPT ![m] = [status |-> "ACTIVE"]]
  /\ UNCHANGED <<report, run, answer, figure, during, moment>>

Available(ms) == ms # {} /\ \A m \in ms : Has(metric, m)

CreateSavedReport(r, ms, format) ==
  /\ ~ Has(report, r) /\ Available(ms)
  /\ report' = [report EXCEPT ![r] = [status |-> "ACTIVE", metrics |-> ms, format |-> format]]
  /\ UNCHANGED <<metric, run, answer, figure, during, moment>>

Committed == {x \in Run : In(run, x, {"completed"})}
WithKey(k) == {x \in Committed : Key[x] = k}

\* A key that has a run is answered with it, whatever was asked for this time.
AnswerExisting(x) ==
  /\ answer[x] = NoRun /\ ~ Has(run, x) /\ WithKey(Key[x]) # {}
  /\ answer' = [answer EXCEPT ![x] = CHOOSE y \in WithKey(Key[x]) : TRUE]
  /\ UNCHANGED <<metric, report, run, figure, during, moment>>

\* An insert waits for another with its key: here the later caller comes back
\* when that has committed, and is refused, or was rolled back.
BeginRun(x, ms, format) ==
  /\ ~ Has(run, x) /\ answer[x] = NoRun /\ WithKey(Key[x]) = {} /\ Available(ms)
  /\ run' = [run EXCEPT ![x] = [status |-> "running", metrics |-> ms, format |-> format, snapshot |-> [m \in {} |-> 0]]]
  /\ during' = [during EXCEPT ![x] = [m \in Metric |-> {figure[m]}]]
  /\ UNCHANGED <<metric, report, answer, figure, moment>>

BeginReport(x, r, format) == Has(report, r) /\ format \in {report[r].format, "csv"} /\ BeginRun(x, report[r].metrics, format)

\* Each metric is a query of its own.
CalculateMetric(x, m) ==
  /\ In(run, x, {"running"}) /\ m \in run[x].metrics \ DOMAIN run[x].snapshot
  /\ run' = [run EXCEPT ![x].snapshot = [n \in DOMAIN @ \cup {m} |-> IF n = m THEN figure[m] ELSE @[n]]]
  /\ UNCHANGED <<metric, report, answer, figure, during, moment>>

\* render_artifact: the rows of the snapshot, and in a workbook the moment.
Rendered(x) == [rows |-> run[x].snapshot, at |-> IF run[x].format = "xlsx" THEN moment ELSE 0]

\* The run and its artifact commit, unless another has taken the key by then.
CompleteRun(x) ==
  /\ In(run, x, {"running"}) /\ DOMAIN run[x].snapshot = run[x].metrics
  /\ IF WithKey(Key[x]) # {} THEN run' = [run EXCEPT ![x] = Absent] /\ UNCHANGED answer
     ELSE /\ run' = [run EXCEPT ![x] = [status |-> "completed", metrics |-> run[x].metrics, format |-> run[x].format,
                       snapshot |-> run[x].snapshot, sealed |-> Rendered(x), expired |-> FALSE, downloads |-> 0, given |-> {}]]
          /\ answer' = [answer EXCEPT ![x] = x]
  /\ UNCHANGED <<metric, report, figure, during, moment>>

\* The run is saved as failed and the error raised again, which undoes the save.
FailRun(x) ==
  /\ In(run, x, {"running"}) /\ run' = [run EXCEPT ![x] = Absent]
  /\ UNCHANGED <<metric, report, answer, figure, during, moment>>

MarkArtifactDownloaded(x) ==
  /\ In(run, x, {"completed"}) /\ ~ run[x].expired /\ run[x].downloads < MaxDownloads
  /\ Rendered(x) = run[x].sealed
  /\ run' = [run EXCEPT ![x].downloads = @ + 1, ![x].given = @ \cup {Rendered(x)}]
  /\ UNCHANGED <<metric, report, answer, figure, during, moment>>

ChangeFigure(m) ==
  /\ figure[m] < MaxFigure /\ figure' = [figure EXCEPT ![m] = @ + 1]
  /\ during' = [x \in Run |-> IF In(run, x, {"running"}) THEN [during[x] EXCEPT ![m] = @ \cup {figure[m] + 1}] ELSE during[x]]
  /\ UNCHANGED <<metric, report, run, answer, moment>>

Tick == moment < MaxMoment /\ moment' = moment + 1 /\ UNCHANGED <<metric, report, run, answer, figure, during>>

Expire(x) ==
  /\ In(run, x, {"completed"}) /\ run' = [run EXCEPT ![x].expired = TRUE]
  /\ UNCHANGED <<metric, report, answer, figure, during, moment>>

ReportNext ==
  \/ \E m \in Metric : CreateMetric(m) \/ ChangeFigure(m)
  \/ \E r \in Report, ms \in SUBSET Metric, f \in Formats : CreateSavedReport(r, ms, f)
  \/ \E x \in Run :
       \/ AnswerExisting(x) \/ CompleteRun(x) \/ FailRun(x) \/ MarkArtifactDownloaded(x) \/ Expire(x)
       \/ \E m \in Metric : CalculateMetric(x, m)
       \/ \E f \in Formats :
            \/ \E ms \in SUBSET Metric : BeginRun(x, ms, f)
            \/ \E r \in Report : BeginReport(x, r, f)
  \/ Tick

ReportSpec == ReportInit /\ [][ReportNext]_reportVars

-----------------------------------------------------------------------------
MetricDefinitionRow == [status : {"ACTIVE"}]
SavedReportRow == [status : {"ACTIVE"}, metrics : SUBSET Metric, format : Formats]

ReportTypeOK ==
  /\ metric \in [Metric -> MetricDefinitionRow \cup {Absent}] /\ report \in [Report -> SavedReportRow \cup {Absent}]
  /\ \A x \in Run : Has(run, x) => run[x].status \in {"running", "completed"} /\ run[x].format \in Formats
  /\ answer \in [Run -> Run \cup {NoRun}] /\ figure \in [Metric -> 0..MaxFigure] /\ moment \in 0..MaxMoment

\* All who ask with one key are told one run, that one is there, and it is the
\* only one with its key, however their transactions overlap, fail and are retried.
RunsAreAnswered ==
  \A x \in Run :
    /\ Cardinality(WithKey(Key[x])) <= 1
    /\ answer[x] # NoRun => WithKey(Key[x]) = {answer[x]}

\* A completed run has a figure for each of its metrics that was true at some
\* moment while it ran, and all that was ever given of it is what was sealed then,
\* figures and clock going on.
ExportsAreSealed ==
  \A x \in Committed :
    /\ DOMAIN run[x].snapshot = run[x].metrics
    /\ \A m \in run[x].metrics : run[x].snapshot[m] \in during[x][m]
    /\ run[x].given \subseteq {run[x].sealed}
    /\ run[x].sealed.rows = run[x].snapshot
    /\ run[x].downloads > 0 => run[x].given # {}
=============================================================================
