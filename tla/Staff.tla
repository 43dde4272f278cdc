-------------------------------- MODULE Staff -------------------------------
(* The people of a company: leave, timesheets, payroll and contracts       *)
(* (PeopleSpec), the structure they are placed in (OrgSpec), and what they *)
(* record on a site (SiteSpec).                                            *)
EXTENDS MakerChecker, FiniteSetsExt, Integers

-----------------------------------------------------------------------------
(* People operations (modules/peopleops, application/services.py): leave   *)
(* with its balances, weekly timesheets and payroll runs over contracts.   *)
(*                                                                         *)
(* The overlap of a leave request with others is looked up without a lock; *)
(* the balance it is taken from is locked.                                 *)

CONSTANTS
  Employee,   \* employees, each the user behind his membership
  Request,
  Owner,      \* requests and timesheets -> Employee
  Span,       \* Request -> days of the calendar it covers
  PeopleAutomatic,  \* requests under a policy without approval
  Entitled,   \* Employee -> opening, accrued and adjusted days of the year
  Sheet, Hours,  \* timesheets; Sheet -> hours of its lines
  Run, Gross,    \* payroll runs; Employee -> gross pay of a period under an active contract
  MaxOpen     \* bound: requests between check and insertion

PeopleAssumption ==
  /\ Owner \in [Request \cup Sheet -> Employee] /\ PeopleAutomatic \subseteq Request
  /\ Entitled \in [Employee -> Nat] /\ Gross \in [Employee -> Nat] /\ IsFiniteSet(Employee)
  /\ \A r \in Request : IsFiniteSet(Span[r]) /\ Span[r] \subseteq Nat

VARIABLES
  peopleRequest,  \* Request -> row
  asking,   \* requests that have passed their checks
  taken,    \* Employee -> days taken from the balance
  sheet,    \* Sheet -> row
  run,      \* Run -> row
  contract  \* employees with an active contract

staffVars == <<peopleRequest, asking, taken, sheet, run, contract>>
leaveVars == <<peopleRequest, asking, taken>>

LeaveStages ==
  [SUBMITTED |-> {"APPROVED", "REJECTED", "CANCELLED"}, APPROVED |-> {"CANCELLED"}]
SheetStages == [SUBMITTED |-> {"APPROVED", "REJECTED"}, REJECTED |-> {"SUBMITTED"}]
PayrollStages ==
  [DRAFT |-> {"LOCKED", "CANCELLED"}, LOCKED |-> {"APPROVED", "CANCELLED"}, APPROVED |-> {"POSTED", "CANCELLED"}]

PeopleInit ==
  /\ peopleRequest = [r \in Request |-> Absent] /\ asking = {} /\ taken = [p \in Employee |-> 0]
  /\ sheet = [s \in Sheet |-> Absent] /\ run = [n \in Run |-> Absent] /\ contract = Employee

-----------------------------------------------------------------------------
Days(r) == Cardinality(Span[r])

Overlapping(r) ==
  \E o \in Request : /\ Owner[o] = Owner[r] /\ In(peopleRequest, o, {"SUBMITTED", "APPROVED"})
                     /\ Span[o] \cap Span[r] # {}

CheckLeaveRequest(r) ==
  /\ ~Has(peopleRequest, r) /\ r \notin asking /\ Cardinality(asking) < MaxOpen
  /\ ~Overlapping(r)
  /\ asking' = asking \cup {r}
  /\ UNCHANGED <<peopleRequest, taken, sheet, run, contract>>

Enough(r) == taken[Owner[r]] + Days(r) <= Entitled[Owner[r]]

ConsumeLeaveBalance(r) == taken' = [taken EXCEPT ![Owner[r]] = @ + Days(r)]

CreateLeaveRequest(r) ==
  /\ asking' = asking \ {r}
  /\ IF r \notin PeopleAutomatic
     THEN /\ peopleRequest' = [peopleRequest EXCEPT ![r] = Drafted("SUBMITTED", Owner[r])]
          /\ UNCHANGED taken
     ELSE IF Enough(r)
     THEN /\ peopleRequest' = [peopleRequest EXCEPT ![r] = Drafted("APPROVED", Owner[r])]
          /\ ConsumeLeaveBalance(r)
     ELSE UNCHANGED <<peopleRequest, taken>>
  /\ UNCHANGED <<sheet, run, contract>>

\* The requester may not decide; whoever may, may also cancel.
TransitionLeaveRequest(r, m) ==
  LET deciding == {"APPROVED", "REJECTED"} IN
  /\ \E stage \in Open(TRUE, peopleRequest, r, LeaveStages, deciding, m) :
       /\ stage = "APPROVED" => Enough(r)
       /\ CASE stage = "APPROVED" -> ConsumeLeaveBalance(r)
            [] stage = "CANCELLED" /\ In(peopleRequest, r, {"APPROVED"}) ->
                 taken' = [taken EXCEPT ![Owner[r]] = @ - Days(r)]
            [] OTHER -> UNCHANGED taken
       /\ peopleRequest' = Judged(peopleRequest, r, stage, m, deciding, {})
  /\ UNCHANGED <<asking, sheet, run, contract>>

-----------------------------------------------------------------------------
\* The sheet and its lines; one sheet per employee and week.
CreateTimesheet(s) ==
  /\ ~Has(sheet, s)
  /\ sheet' = [sheet EXCEPT ![s] = [status |-> "SUBMITTED", by |-> Owner[s], approver |-> Nobody, total |-> Hours[s]]]
  /\ UNCHANGED <<leaveVars, run, contract>>

TransitionTimesheet(s, m) ==
  LET deciding == {"APPROVED", "REJECTED"} IN
  /\ \E stage \in Open(TRUE, sheet, s, SheetStages, deciding, m) :
       sheet' = Judged(sheet, s, stage, m, deciding, {"SUBMITTED"})
  /\ UNCHANGED <<leaveVars, run, contract>>

-----------------------------------------------------------------------------
\* Contracts are kept elsewhere; they come and go.
ContractChanges(p) ==
  /\ contract' = IF p \in contract THEN contract \ {p} ELSE contract \cup {p}
  /\ UNCHANGED <<leaveVars, sheet, run>>

PeriodGross(p) == Gross[p]

\* An entry for each active contract, and their sum.
CreatePayrollRun(n, m) ==
  /\ ~Has(run, n)
  /\ run' = [run EXCEPT ![n] = [status |-> "DRAFT", by |-> m, approver |-> Nobody, entries |-> contract,
                                gross |-> MapThenSumSet(PeriodGross, contract)]]
  /\ UNCHANGED <<leaveVars, sheet, contract>>

TransitionPayrollRun(n, m) ==
  /\ \E stage \in Open(TRUE, run, n, PayrollStages, {"APPROVED"}, m) :
       run' = Judged(run, n, stage, m, {"APPROVED"}, {})
  /\ UNCHANGED <<leaveVars, sheet, contract>>

PeopleNext ==
  \/ \E r \in Request : CheckLeaveRequest(r)
  \/ \E r \in asking : CreateLeaveRequest(r)
  \/ \E s \in Sheet : CreateTimesheet(s)
  \/ \E p \in Employee : ContractChanges(p)
  \/ \E m \in Employee :
       \/ \E r \in Request : TransitionLeaveRequest(r, m)
       \/ \E s \in Sheet : TransitionTimesheet(s, m)
       \/ \E n \in Run : CreatePayrollRun(n, m) \/ TransitionPayrollRun(n, m)

PeopleSpec == PeopleInit /\ [][PeopleNext]_staffVars

-----------------------------------------------------------------------------
Person == Employee \cup {Nobody}
PeopleLeaveRequestRow == Judgeable(LeaveStages, Employee)
TimesheetRow == [status : Reached(SheetStages), by : Employee, approver : Person, total : Nat]
PayrollRunRow ==
  [status : Reached(PayrollStages), by : Employee, approver : Person, entries : SUBSET Employee, gross : Nat]

PeopleTypeOK ==
  /\ peopleRequest \in [Request -> PeopleLeaveRequestRow \cup {Absent}] /\ asking \subseteq Request
  /\ taken \in [Employee -> Nat] /\ contract \subseteq Employee
  /\ sheet \in [Sheet -> TimesheetRow \cup {Absent}] /\ run \in [Run -> PayrollRunRow \cup {Absent}]

\* Whatever requests overlap, the days an employee has taken are those of his
\* approved requests and no more than he is entitled to; leave that asks for an
\* approval, a timesheet and a payroll run were approved by another, and a run
\* pays what its entries add up to.
LeaveIsAccounted ==
  /\ \A p \in Employee :
       /\ taken[p] = MapThenSumSet(Days, {r \in Request : Owner[r] = p /\ In(peopleRequest, r, {"APPROVED"})})
       /\ taken[p] <= Entitled[p]
  /\ \A r \in Request \ PeopleAutomatic : In(peopleRequest, r, {"APPROVED"}) => Independently(peopleRequest, r)
  /\ \A s \in Sheet : In(sheet, s, {"APPROVED"}) => Independently(sheet, s)
  /\ \A n \in Run :
       /\ In(run, n, {"APPROVED", "POSTED"}) => Independently(run, n)
       /\ Has(run, n) => run[n].gross = MapThenSumSet(PeriodGross, run[n].entries)

-----------------------------------------------------------------------------
(* The organisation of a company (modules/orgops, application/services.py):*)
(* its structure, who reports to whom, assignments, leave, attendance and  *)
(* the import of people.                                                   *)
(*                                                                         *)
(* A change of manager looks for a cycle without a lock, then ends the     *)
(* lines that reach into its days, which it locks, and adds its own.  The  *)
(* table refuses a line that would end before it starts.                   *)

CONSTANTS
  OrgMember,
  Unit,          \* departments, designations, calendars and leave types: records of kind and code
  Line,          \* reporting lines and assignments that may be added
  Day,           \* days they may start on
  OrgAutomatic,  \* those of a leave type without approval
  Job, Rows      \* imports; the rows they bring: records of person and known

OrgAssumption == Day \subseteq Nat \ {0} /\ OrgAutomatic \subseteq Request /\ MaxOpen \in Nat

VARIABLES
  unit,        \* units that exist
  profile,     \* employees with an organisation profile
  line,        \* Line -> row
  changing,    \* changes of manager or primary assignment in flight
  orgRequest,  \* Request -> row
  attendance,  \* <<Employee, Day>> -> row
  invited,     \* people with an invitation
  job          \* Job -> row

orgVars == <<unit, profile, line, changing, orgRequest, attendance, invited, job>>
lineVars == <<line, changing>>
peopleVars == <<unit, profile, invited, job>>
dayVars == <<orgRequest, attendance>>

Endless == 0

OrgInit ==
  /\ unit = {} /\ profile = {} /\ line = [x \in Line |-> Absent] /\ changing = {}
  /\ orgRequest = [r \in Request |-> Absent] /\ attendance = [x \in Employee \X Day |-> Absent]
  /\ invited = {} /\ job = [j \in Job |-> Absent]

\* A code is unique within its kind.
CreateUnit(k, u) ==
  /\ u.kind = k /\ u \notin unit /\ unit' = unit \cup {u}
  /\ UNCHANGED <<profile, invited, job, lineVars, dayVars>>

CreateDepartment(u) == CreateUnit("DEPARTMENT", u)
CreateDesignation(u) == CreateUnit("DESIGNATION", u)
CreateWorkCalendar(u) == CreateUnit("CALENDAR", u)
CreateLeaveType(u) == CreateUnit("LEAVE_TYPE", u)

UpdateEmployeeProfile(p) ==
  /\ profile' = profile \cup {p}
  /\ UNCHANGED <<unit, invited, job, lineVars, dayVars>>

-----------------------------------------------------------------------------
LinesOf(p, k) == {x \in Line : Has(line, x) /\ line[x].employee = p /\ line[x].kind = k}

Covers(x, day) == line[x].from <= day /\ (line[x].to = Endless \/ line[x].to >= day)

\* _current_manager: of the lines that cover the day, one that started last.
CurrentManager(p, day) ==
  LET covering == {x \in LinesOf(p, "MANAGER") : Covers(x, day)}
      latest == {x \in covering : \A y \in covering : line[y].from <= line[x].from} IN
  {line[x].under : x \in latest}

\* _ensure_no_reporting_cycle: up from the manager, the employee is not met.
NoReportingCycle(p, manager, day) ==
  LET up[n \in 0..Cardinality(Employee)] ==
        IF n = 0 THEN {manager} ELSE UNION {CurrentManager(x, day) : x \in up[n - 1]} IN
  p \notin UNION {up[n] : n \in 0..Cardinality(Employee)}

CheckChange(k, x, p, under, day) ==
  /\ ~Has(line, x) /\ Cardinality(changing) < MaxOpen /\ \A t \in changing : t.line # x
  /\ k = "MANAGER" => p # under /\ NoReportingCycle(p, under, day)
  /\ changing' = changing \cup
       {[line |-> x, kind |-> k, employee |-> p, under |-> under, from |-> day, locks |-> {}, ready |-> FALSE]}
  /\ UNCHANGED <<line, peopleVars, dayVars>>

\* The lines of the employee that end on the day of the change or later.
Reaching(t) ==
  {x \in LinesOf(t.employee, t.kind) : line[x].to = Endless \/ line[x].to >= t.from}

EndLines(t) ==
  /\ ~t.ready /\ Unlocked(changing, Reaching(t))
  /\ changing' = (changing \ {t}) \cup {[t EXCEPT !.locks = Reaching(t), !.ready = TRUE]}
  /\ UNCHANGED <<line, peopleVars, dayVars>>

LastDay(t) == t.from

\* The range constraint undoes a change that starts before a line it ends.
Change(t) ==
  LET refused == \E x \in t.locks : LastDay(t) < line[x].from IN
  /\ t.ready
  /\ line' = IF refused THEN line
             ELSE [x \in Line |->
                     IF x \in t.locks THEN [line[x] EXCEPT !.to = LastDay(t)]
                     ELSE IF x = t.line
                     THEN [status |-> "RECORDED", kind |-> t.kind, employee |-> t.employee, under |-> t.under,
                           from |-> t.from, to |-> Endless]
                     ELSE line[x]]
  /\ changing' = changing \ {t}
  /\ UNCHANGED <<peopleVars, dayVars>>

SetEmployeeManager(x, p, manager, day) == CheckChange("MANAGER", x, p, manager, day)

\* A primary assignment, which ends the primary ones before it.
CreateAssignment(x, p, day) == CheckChange("PRIMARY", x, p, p, day)

-----------------------------------------------------------------------------
SubmitLeaveRequest(r, m) ==
  /\ ~Has(orgRequest, r)
  /\ orgRequest' = [orgRequest EXCEPT ![r] =
       IF r \in OrgAutomatic THEN [status |-> "APPROVED", by |-> m, reviewer |-> m]
       ELSE [status |-> "SUBMITTED", by |-> m, reviewer |-> Nobody]]
  /\ UNCHANGED <<attendance, lineVars, peopleVars>>

\* Nothing keeps requester and reviewer apart.
ReviewLeaveRequest(r, m) ==
  /\ In(orgRequest, r, {"SUBMITTED"})
  /\ \E to \in {"APPROVED", "REJECTED"} :
       orgRequest' = [orgRequest EXCEPT ![r].status = to, ![r].reviewer = m]
  /\ UNCHANGED <<attendance, lineVars, peopleVars>>

UpsertAttendance(p, day, m) ==
  /\ \E to \in {"PRESENT", "ABSENT_DAY"} :
       attendance' = [attendance EXCEPT ![<<p, day>>] = [status |-> to, by |-> m]]
  /\ UNCHANGED <<orgRequest, lineVars, peopleVars>>

\* A row of an employee updates the profile, another invites; each is a
\* savepoint, so that a row that fails leaves the others.
BulkImportPeople(j) ==
  /\ ~Has(job, j)
  /\ \E ok \in SUBSET Rows :
       /\ profile' = profile \cup {r.person : r \in {x \in ok : x.known}}
       /\ invited' = invited \cup {r.person : r \in {x \in ok : ~x.known}}
       /\ job' = [job EXCEPT ![j] =
            [status |-> IF ok = Rows THEN "COMPLETED" ELSE "COMPLETED_WITH_ERRORS",
             total |-> Cardinality(Rows), success |-> Cardinality(ok), failed |-> Cardinality(Rows \ ok), done |-> ok]]
  /\ UNCHANGED <<unit, lineVars, dayVars>>

OrgNext ==
  \/ \E u \in Unit : CreateDepartment(u) \/ CreateDesignation(u) \/ CreateWorkCalendar(u) \/ CreateLeaveType(u)
  \/ \E p \in Employee : UpdateEmployeeProfile(p)
  \/ \E x \in Line, p \in Employee, day \in Day :
       \/ \E manager \in Employee : SetEmployeeManager(x, p, manager, day)
       \/ CreateAssignment(x, p, day)
  \/ \E t \in changing : EndLines(t) \/ Change(t)
  \/ \E r \in Request, m \in OrgMember : SubmitLeaveRequest(r, m) \/ ReviewLeaveRequest(r, m)
  \/ \E p \in Employee, day \in Day, m \in OrgMember : UpsertAttendance(p, day, m)
  \/ \E j \in Job : BulkImportPeople(j)

OrgSpec == OrgInit /\ [][OrgNext]_orgVars

-----------------------------------------------------------------------------
OrganizationAssignmentRow ==
  [status : {"RECORDED"}, kind : {"MANAGER", "PRIMARY"}, employee : Employee, under : Employee,
   from : Day, to : Day \cup {Endless}]
OrgLeaveRequestRow == [status : {"SUBMITTED", "APPROVED", "REJECTED"}, by : OrgMember, reviewer : OrgMember \cup {Nobody}]
AttendanceEntryRow == [status : {"PRESENT", "ABSENT_DAY"}, by : OrgMember]
PeopleImportJobRow ==
  [status : {"COMPLETED", "COMPLETED_WITH_ERRORS"}, total : Nat, success : Nat, failed : Nat, done : SUBSET Rows]

OrgTypeOK ==
  /\ unit \subseteq Unit /\ profile \subseteq Employee
  /\ line \in [Line -> OrganizationAssignmentRow \cup {Absent}]
  /\ orgRequest \in [Request -> OrgLeaveRequestRow \cup {Absent}]
  /\ attendance \in [Employee \X Day -> AttendanceEntryRow \cup {Absent}]
  /\ job \in [Job -> PeopleImportJobRow \cup {Absent}]

\* Whatever changes race, nobody falls out of the structure: a line that has
\* ended is taken over, on the very day it ends, by another of the same
\* employee, and no line ends before it starts.  A decided request names its
\* reviewer, and an import accounts for each of its rows.
NobodyFallsOut ==
  /\ \A x \in Line : Has(line, x) /\ line[x].to # Endless =>
       /\ line[x].from <= line[x].to
       /\ \E y \in LinesOf(line[x].employee, line[x].kind) : y # x /\ line[y].from = line[x].to
  /\ \A r \in Request : In(orgRequest, r, {"APPROVED", "REJECTED"}) => orgRequest[r].reviewer # Nobody
  /\ \A j \in Job : Has(job, j) =>
       /\ job[j].success + job[j].failed = job[j].total
       /\ In(job, j, {"COMPLETED"}) => job[j].failed = 0
       /\ \A r \in job[j].done : r.person \in IF r.known THEN profile ELSE invited

-----------------------------------------------------------------------------
(* What is recorded of a building site: workers, machines, templates and   *)
(* their allocations, attendance, maintenance, inspections, NCRs, incidents*)
(* and observations (modules/labour, equipment, quality and safety,        *)
(* application/services.py), and the stages they start in (modules/        *)
(* fieldops, application/stages.py and api/views.py).                      *)
(*                                                                         *)
(* An entry is a request to record something.  Attendance, incidents and   *)
(* inspections may carry the id of an operation; attendance and incidents  *)
(* that were captured offline are replayed by receive_operation, whose row *)
(* goes in before the record is looked for.  Looks and insertion are two   *)
(* steps, and nothing is locked between them: only constraints keep a      *)
(* record single, full_clean asking them first and the insertion again.    *)
(* record_meter and submit_inspection are in FieldSync.                    *)

CONSTANTS
  SiteMember,
  Entry, Kind,           \* entry -> what it records
  Parents,               \* entry -> the entries it names, one of which at least must be there
  Key,                   \* entry -> its unique number, or the worker, project and day
  Operation,             \* entry -> its operation id, or NoOperation
  NoOperation,
  Offline,               \* entries that arrive through receive_operation
  NewStage,              \* bound: attendance stages that an administrator adds, initial each
  Rank,                  \* stage -> sort_order, which tells them apart
  MaxMeter, MaxVersion   \* bounds

SiteLogAssumption ==
  /\ Offline \subseteq {e \in Entry : Kind[e] \in {"attendance", "incident"}}
  /\ \A e \in Offline : Operation[e] # NoOperation
  /\ MaxMeter \in Nat /\ MaxVersion \in Nat /\ MaxOpen \in Nat

VARIABLES
  record,       \* entry -> the row it made
  operation,    \* operation id -> status of its row in OfflineOperation
  initial,      \* attendance stages with is_initial
  everInitial,  \* those that ever had it (history)
  meter,        \* current_meter of the machine
  tx            \* open transactions

siteVars == <<record, operation, initial, everInitial, meter, tx>>

Operations == {Operation[e] : e \in Entry} \ {NoOperation}

\* The stages of STAGES; those an administrator adds lead where a draft does.
AttendanceStages ==
  [s \in {"draft", "submitted", "approved", "rejected", "cancelled"} \cup NewStage |->
     CASE s = "submitted" -> {"approved", "rejected"}
       [] s = "rejected" -> {"draft", "cancelled"}
       [] s \in {"approved", "cancelled"} -> {}
       [] OTHER -> {"submitted", "cancelled"}]

\* The initial stage of the other kinds; rows of the rest have none.
Start(kind) ==
  CASE kind \in {"allocation", "machineAllocation"} -> "planned"
    [] kind = "machine" -> "available"
    [] kind \in {"maintenance", "ncr"} -> "open"
    [] kind = "inspection" -> "scheduled"
    [] kind = "incident" -> "reported"
    [] OTHER -> "ACTIVE"

SiteInit ==
  /\ record = [e \in Entry |-> Absent] /\ operation = [o \in Operations |-> "none"]
  /\ initial = {"draft"} /\ everInitial = {"draft"} /\ meter = 0 /\ tx = {}

-----------------------------------------------------------------------------
(* Stages.                                                                 *)

\* initial_stage takes the first in the order of the table.
InitialStage == CHOOSE s \in initial : \A t \in initial : Rank[s] <= Rank[t]

Known == everInitial \cup {"draft", "submitted", "approved", "rejected", "cancelled"}

\* The update finds the initial stages that were committed when it began; it
\* waits for another's update of one, and does not look for the other's new one.
BeginStage(s) ==
  /\ Cardinality(tx) < MaxOpen /\ s \notin Known
  /\ \A t \in tx : t.of # s
  /\ tx' = tx \cup {[of |-> s, for |-> "stage", sees |-> initial, by |-> {}]}
  /\ UNCHANGED <<record, operation, initial, everInitial, meter>>

StagesLeft(t) == (initial \ t.sees) \cup {t.of}

CommitStage(t) ==
  /\ t.for = "stage"
  /\ initial' = StagesLeft(t) /\ everInitial' = everInitial \cup {t.of}
  /\ tx' = tx \ {t}
  /\ UNCHANGED <<record, operation, meter>>

-----------------------------------------------------------------------------
(* Records.                                                                *)

Made == {e \in Entry : Has(record, e)}

WithOperation(e) ==
  {r \in Made : Operation[e] # NoOperation /\ Operation[r] = Operation[e] /\ Kind[r] = Kind[e]}

\* What full_clean and the database refuse a second one of.
Repeats(e) == {r \in Made : Kind[r] = Kind[e] /\ Key[r] = Key[e]} \cup WithOperation(e)

Named(e) == \A p \in Parents[e] : Has(record, p)

\* The look for an earlier record of the operation, and the stage to start in.
Begin(e, a) ==
  /\ Cardinality(tx) < MaxOpen /\ e \notin Made
  /\ \A t \in tx : t.of # e
  /\ tx' = tx \cup {[of |-> e, for |-> "record", by |-> {a},
                     sees |-> IF WithOperation(e) # {} THEN {"earlier"}
                              ELSE IF Kind[e] = "attendance" THEN {InitialStage} ELSE {Start(Kind[e])}]}
  /\ UNCHANGED <<record, operation, initial, everInitial, meter>>

Direct(kind, e, a) == Kind[e] = kind /\ e \notin Offline /\ Begin(e, a)

CreateWorker(e, a) == Direct("worker", e, a)
AllocateWorker(e, a) == Direct("allocation", e, a)
RecordAttendance(e, a) == Direct("attendance", e, a)
CreateEquipment(e, a) == Direct("machine", e, a)
AllocateEquipment(e, a) == Direct("machineAllocation", e, a)
CreateMaintenance(e, a) == Direct("maintenance", e, a)
CreateTemplate(e, a) == Direct("template", e, a)
CreateInspection(e, a) == Direct("inspection", e, a)
CreateNcr(e, a) == Direct("ncr", e, a)
ReportIncident(e, a) == Direct("incident", e, a)
CreateObservation(e, a) == Direct("observation", e, a)

\* receive_operation inserts its row, which another of the same operation waits
\* for, and then does what the web API does.
ReceiveOperation(e, a) ==
  /\ e \in Offline /\ operation[Operation[e]] = "none"
  /\ \A t \in tx : t.of \in Offline => Operation[t.of] # Operation[e]
  /\ Begin(e, a)

Answered(t, status) ==
  operation' = IF t.of \in Offline THEN [operation EXCEPT ![Operation[t.of]] = status] ELSE operation

\* An earlier record of the operation is the answer, whatever it says.
ReturnEarlier(t) ==
  /\ t.for = "record" /\ t.sees = {"earlier"}
  /\ Answered(t, "applied") /\ tx' = tx \ {t}
  /\ UNCHANGED <<record, initial, everInitial, meter>>

\* What receive_operation catches is a ValidationError, whose words it reads:
\* those of a missing row or of a constraint stand for no conflict.
Refuse(t) ==
  /\ t.for = "record" /\ t.sees # {"earlier"}
  /\ ~Named(t.of) \/ Repeats(t.of) # {}
  /\ Answered(t, "rejected") /\ tx' = tx \ {t}
  /\ UNCHANGED <<record, initial, everInitial, meter>>

Insert(t) ==
  /\ t.for = "record" /\ t.sees # {"earlier"} /\ Named(t.of) /\ Repeats(t.of) = {}
  /\ \E s \in t.sees :
       record' = [record EXCEPT ![t.of] =
         [status |-> s, born |-> s, by |-> t.by, approver |-> {}, version |-> 1,
          meter |-> IF Kind[t.of] = "maintenance" THEN meter ELSE 0]]
  /\ Answered(t, "applied") /\ tx' = tx \ {t}
  /\ UNCHANGED <<initial, everInitial, meter>>

\* The request dies, or the insertion meets the constraint that full_clean found
\* satisfied: an IntegrityError, which nobody catches.
Rollback(t) == tx' = tx \ {t} /\ UNCHANGED <<record, operation, initial, everInitial, meter>>

TransitionAttendance(e, a) ==
  /\ Kind[e] = "attendance" /\ Has(record, e) /\ record[e].version < MaxVersion
  /\ \E to \in Offers(AttendanceStages, record, e) \cap Known :
       record' = [record EXCEPT ![e].status = to, ![e].version = @ + 1,
                    ![e].approver = IF to = "approved" THEN {a} ELSE @]
  /\ UNCHANGED <<operation, initial, everInitial, meter, tx>>

\* record_meter moves the meter forward (FieldSync).
MeterMoves ==
  /\ meter < MaxMeter /\ meter' = meter + 1
  /\ UNCHANGED <<record, operation, initial, everInitial, tx>>

-----------------------------------------------------------------------------
SiteNext ==
  \/ \E s \in NewStage : BeginStage(s)
  \/ \E e \in Entry, a \in SiteMember :
       \/ CreateWorker(e, a) \/ AllocateWorker(e, a) \/ RecordAttendance(e, a)
       \/ CreateEquipment(e, a) \/ AllocateEquipment(e, a) \/ CreateMaintenance(e, a)
       \/ CreateTemplate(e, a) \/ CreateInspection(e, a) \/ CreateNcr(e, a)
       \/ ReportIncident(e, a) \/ CreateObservation(e, a)
       \/ ReceiveOperation(e, a) \/ TransitionAttendance(e, a)
  \/ \E t \in tx : CommitStage(t) \/ ReturnEarlier(t) \/ Refuse(t) \/ Insert(t) \/ Rollback(t)
  \/ MeterMoves

SiteSpec == SiteInit /\ [][SiteNext]_siteVars

AttendanceRecordRow(e) ==
  [status : Known, born : everInitial, by : {{a} : a \in SiteMember},
   approver : {{}} \cup {{a} : a \in SiteMember}, version : 1..MaxVersion, meter : {0}]
MaintenanceWorkOrderRow(e) ==
  [status : {"open"}, born : {"open"}, by : {{a} : a \in SiteMember}, approver : {{}}, version : {1}, meter : 0..MaxMeter]
SiteRow(e) ==
  [status : {Start(Kind[e])}, born : {Start(Kind[e])}, by : {{a} : a \in SiteMember}, approver : {{}},
   version : {1}, meter : {0}]

SiteTypeOK ==
  /\ \A e \in Made : record[e] \in CASE Kind[e] = "attendance" -> AttendanceRecordRow(e)
                                     [] Kind[e] = "maintenance" -> MaintenanceWorkOrderRow(e)
                                     [] OTHER -> SiteRow(e)
  /\ operation \in [Operations -> {"none", "applied", "rejected"}]
  /\ meter \in 0..MaxMeter /\ initial \subseteq everInitial

\* A worker has one record for a day on a project, a number is there once, and an
\* operation is recorded once, whether it is replayed, called over the web, or
\* both at the same time; an operation that was answered "applied" is recorded,
\* one that was answered "rejected" was not recorded by its replay.
SiteRecordsAreSingle ==
  /\ \A e, f \in Made : e # f /\ Kind[e] = Kind[f] =>
       /\ Key[e] # Key[f]
       /\ Operation[e] # NoOperation => Operation[e] # Operation[f]
  /\ \A o \in Operations :
       /\ operation[o] = "applied" => \E e \in Made : Operation[e] = o
       /\ \A e \in Made \cap Offline : Operation[e] = o => operation[o] = "applied"

\* However stages are added at the same time, there is one to start in, and a
\* record started in one that somebody made initial; what counts as approved
\* names who approved it, also after a rejection; and a work order was opened at
\* a reading that the meter has passed.
SiteRecordsAreRooted ==
  /\ initial # {}
  /\ \A e \in Made :
       /\ Kind[e] = "attendance" => /\ record[e].born \in everInitial
                                    /\ record[e].status = "approved" <=> record[e].approver # {}
       /\ record[e].meter <= meter
=============================================================================
