------------------------------- MODULE WorkOps -------------------------------
(* Work execution (modules/workops, application/services.py): projects,    *)
(* work items with checklists, dependencies and assignments, daily         *)
(* progress, timesheets and work approvals.                                *)
(*                                                                         *)
(* The services lock the row they move.  Those that take objects instead   *)
(* of public ids work on the copy that the view loaded, which is a step of *)
(* its own: request_work_approval writes REVIEW over whatever the item has *)
(* become, record_daily_progress compares with its copy and then again in  *)
(* the UPDATE, create_timesheet and add_dependency insert after a check    *)
(* that no lock protects.  The caller knows the current version of a row.  *)
EXTENDS Rows, FiniteSetsExt

CONSTANTS
  Person,
  Work, Check, Sheet, Approval,
  Reviewer,   \* Work -> reviewer or NoReviewer
  Hours,      \* Sheet -> hours of the entry; one employee, one day
  DayHours,   \* 24 in the code
  Progress,   \* percentages reported; Full is 100
  Full, NoReviewer,
  MaxRequests \* bound: requests between their reads and their commit

WorkAssumption ==
  /\ Reviewer \in [Work -> Person \cup {NoReviewer}] /\ Hours \in [Sheet -> Nat]
  /\ Progress \subseteq 0..Full /\ Full \in Nat /\ MaxRequests \in Nat

VARIABLES
  project,    \* status of the project that the items belong to
  work,       \* Work -> row: progress
  link,       \* dependencies <<predecessor, successor>>
  check,      \* Check -> row: its item, whether it is ticked; all are required
  sheet,      \* Sheet -> row
  workApproval, \* Approval -> row: its item, who asked, who is to decide
  workTx      \* what open requests read: [do, row, ...]

workVars == <<project, work, link, check, sheet, workApproval, workTx>>

PROJECT_TRANSITIONS ==
  [DRAFT |-> {"ACTIVE", "CANCELLED"}, ACTIVE |-> {"ON_HOLD", "COMPLETED", "CANCELLED"},
   ON_HOLD |-> {"ACTIVE", "CANCELLED"}, COMPLETED |-> {}, CANCELLED |-> {}]

WORK_TRANSITIONS ==
  [BACKLOG |-> {"READY", "ASSIGNED", "CANCELLED"},
   READY |-> {"ASSIGNED", "IN_PROGRESS", "BLOCKED", "CANCELLED"},
   ASSIGNED |-> {"IN_PROGRESS", "BLOCKED", "CANCELLED"},
   IN_PROGRESS |-> {"BLOCKED", "REVIEW", "DONE", "CANCELLED"},
   BLOCKED |-> {"READY", "ASSIGNED", "IN_PROGRESS", "CANCELLED"},
   REVIEW |-> {"IN_PROGRESS", "CANCELLED"}, APPROVED |-> {"DONE", "IN_PROGRESS"},
   DONE |-> {}, CANCELLED |-> {}]

Finished == {"DONE", "CANCELLED"}

ProjectStatus == DOMAIN PROJECT_TRANSITIONS

ItemRow == [status : DOMAIN WORK_TRANSITIONS, progress : 0..Full]

CheckRow == [status : {"OPEN", "TICKED"}, of : Work]

SheetRow == [status : {"DRAFT", "SUBMITTED", "APPROVED", "REJECTED"}]

WorkApprovalRow == [status : {"PENDING", "APPROVED", "REJECTED"}, of : Work,
                    by : Person, reviewer : Person]

WorkInit ==
  /\ project = "ABSENT" /\ work = [i \in Work |-> Absent] /\ link = {}
  /\ check = [c \in Check |-> Absent] /\ sheet = [s \in Sheet |-> Absent]
  /\ workApproval = [a \in Approval |-> Absent] /\ workTx = {}

-----------------------------------------------------------------------------
(* Projects and work items.                                                *)

CreateProject ==
  /\ project = "ABSENT" /\ project' = "DRAFT"
  /\ UNCHANGED <<work, link, check, sheet, workApproval, workTx>>

TransitionProject ==
  /\ project \in ProjectStatus
  /\ project' \in PROJECT_TRANSITIONS[project]
  /\ project' = "COMPLETED" => \A i \in Work : Has(work, i) => In(work, i, Finished)
  /\ UNCHANGED <<work, link, check, sheet, workApproval, workTx>>

\* Whatever the status of the project.
CreateWorkItem(i) ==
  /\ project # "ABSENT" /\ ~Has(work, i)
  /\ \E status \in {"ASSIGNED", "BACKLOG"} :
       work' = [work EXCEPT ![i] = [status |-> status, progress |-> 0]]
  /\ UNCHANGED <<project, link, check, sheet, workApproval, workTx>>

\* make_primary; an assignment that is not primary moves nothing.
AssignWorkItem(i) ==
  /\ In(work, i, {"BACKLOG", "READY"})
  /\ work' = Moved(work, i, "ASSIGNED")
  /\ UNCHANGED <<project, link, check, sheet, workApproval, workTx>>

ChecklistDone(i) == \A c \in Check : Has(check, c) /\ check[c].of = i => In(check, c, {"TICKED"})

PredecessorsDone(i) == \A l \in link : l[2] = i => In(work, l[1], Finished)

Approved(i) == \E a \in Approval : In(workApproval, a, {"APPROVED"}) /\ workApproval[a].of = i

\* The targets that the table offers and the gates let through.
MayMove(i, target) ==
  /\ target \in {"REVIEW", "APPROVED", "DONE"} => ChecklistDone(i)
  /\ target = "IN_PROGRESS" => PredecessorsDone(i)
  /\ target = "DONE" /\ Reviewer[i] # NoReviewer => Approved(i)

TransitionWorkItem(i) ==
  /\ \E target \in Offers(WORK_TRANSITIONS, work, i) :
       /\ MayMove(i, target)
       /\ work' = [Moved(work, i, target) EXCEPT
                     ![i].progress = IF target = "DONE" THEN Full ELSE @]
  /\ UNCHANGED <<project, link, check, sheet, workApproval, workTx>>

CreateChecklistItem(c, i) ==
  /\ ~Has(check, c) /\ Has(work, i)
  /\ check' = [check EXCEPT ![c] = [status |-> "OPEN", of |-> i]]
  /\ UNCHANGED <<project, work, link, sheet, workApproval, workTx>>

SetChecklistCompletion(c) ==
  /\ Has(check, c)
  /\ \E status \in {"OPEN", "TICKED"} : check' = Moved(check, c, status)
  /\ UNCHANGED <<project, work, link, sheet, workApproval, workTx>>

-----------------------------------------------------------------------------
(* What views load and services decide on without a lock.                  *)

Opened(t) == Cardinality(workTx) < MaxRequests /\ workTx' = workTx \cup {t}

\* _dependency_reaches: from i along the committed dependencies.
Reached(i) ==
  LET from[n \in Nat] == IF n = 0 THEN {i}
        ELSE from[n - 1] \cup {l[2] : l \in {d \in link : d[1] \in from[n - 1]}}
  IN from[Cardinality(link)]

CheckDependency(p, s) ==
  /\ p # s /\ Has(work, p) /\ Has(work, s) /\ p \notin Reached(s)
  /\ Opened([do |-> "link", row |-> <<p, s>>])
  /\ UNCHANGED <<project, work, link, check, sheet, workApproval>>

AddDependency(t) ==
  /\ t.do = "link" /\ t.row \notin link
  /\ link' = link \cup {t.row} /\ workTx' = workTx \ {t}
  /\ UNCHANGED <<project, work, check, sheet, workApproval>>

\* The copy of the item that the view of daily progress loaded.
LoadForProgress(i) ==
  /\ Has(work, i)
  /\ \E p \in Progress : Opened([do |-> "progress", row |-> i, to |-> p, read |-> work[i].progress])
  /\ UNCHANGED <<project, work, link, check, sheet, workApproval>>

\* UPDATE ... WHERE progress_percent < the reported one.
AdvancedIfLess(t) ==
  IF t.to > t.read /\ t.to > work[t.row].progress THEN t.to ELSE work[t.row].progress

RecordDailyProgress(t) ==
  /\ t.do = "progress"
  /\ work' = [work EXCEPT ![t.row].progress = AdvancedIfLess(t)]
  /\ workTx' = workTx \ {t}
  /\ UNCHANGED <<project, link, check, sheet, workApproval>>

LoadForApproval(i, m, r) ==
  /\ m # r /\ In(work, i, {"IN_PROGRESS", "REVIEW"}) /\ ChecklistDone(i)
  /\ ~\E a \in Approval : In(workApproval, a, {"PENDING"}) /\ workApproval[a].of = i
  /\ Opened([do |-> "approval", row |-> i, read |-> work[i].status, by |-> m, reviewer |-> r])
  /\ UNCHANGED <<project, work, link, check, sheet, workApproval>>

RequestWorkApproval(t, a) ==
  /\ t.do = "approval" /\ ~Has(workApproval, a)
  /\ workApproval' = [workApproval EXCEPT ![a] =
       [status |-> "PENDING", of |-> t.row, by |-> t.by, reviewer |-> t.reviewer]]
  /\ work' = IF t.read = "IN_PROGRESS" THEN Moved(work, t.row, "REVIEW") ELSE work
  /\ workTx' = workTx \ {t}
  /\ UNCHANGED <<project, link, check, sheet>>

MayReview(a, m) ==
  In(workApproval, a, {"PENDING"}) /\ workApproval[a].by # m /\ workApproval[a].reviewer = m

\* The approval, then the item under its own lock, if it is still in review.
ReviewWorkApproval(a, m) ==
  /\ MayReview(a, m)
  /\ \E decision \in {"APPROVED", "REJECTED"} :
       /\ workApproval' = [workApproval EXCEPT ![a].status = decision, ![a].reviewer = m]
       /\ work' = IF In(work, workApproval[a].of, {"REVIEW"})
                    THEN Moved(work, workApproval[a].of,
                               IF decision = "APPROVED" THEN "APPROVED" ELSE "IN_PROGRESS")
                    ELSE work
  /\ UNCHANGED <<project, link, check, sheet, workTx>>

-----------------------------------------------------------------------------
(* Timesheets of one employee and day; s is the entry that is to be.       *)

DaySum(statuses) ==
  MapThenSumSet(LAMBDA s : Hours[s], {s \in Sheet : In(sheet, s, statuses)})

CheckTimesheet(s) ==
  /\ ~Has(sheet, s) /\ DaySum({"DRAFT", "SUBMITTED", "APPROVED"}) + Hours[s] <= DayHours
  /\ Opened([do |-> "sheet", row |-> s])
  /\ UNCHANGED <<project, work, link, check, sheet, workApproval>>

CreateTimesheet(t) ==
  /\ t.do = "sheet" /\ ~Has(sheet, t.row)
  /\ \E status \in {"DRAFT", "SUBMITTED"} :
       sheet' = [sheet EXCEPT ![t.row] = [status |-> status]]
  /\ workTx' = workTx \ {t}
  /\ UNCHANGED <<project, work, link, check, workApproval>>

\* The hours of the day are not looked at again.
SubmitTimesheet(s) ==
  /\ In(sheet, s, {"DRAFT", "REJECTED"})
  /\ sheet' = Moved(sheet, s, "SUBMITTED")
  /\ UNCHANGED <<project, work, link, check, workApproval, workTx>>

ReviewTimesheet(s) ==
  /\ In(sheet, s, {"SUBMITTED"})
  /\ \E decision \in {"APPROVED", "REJECTED"} : sheet' = Moved(sheet, s, decision)
  /\ UNCHANGED <<project, work, link, check, workApproval, workTx>>

WorkNext ==
  \/ CreateProject \/ TransitionProject
  \/ \E i \in Work :
       \/ CreateWorkItem(i) \/ AssignWorkItem(i) \/ TransitionWorkItem(i) \/ LoadForProgress(i)
       \/ \E c \in Check : CreateChecklistItem(c, i)
       \/ \E s \in Work : CheckDependency(i, s)
       \/ \E m, r \in Person : LoadForApproval(i, m, r)
  \/ \E c \in Check : SetChecklistCompletion(c)
  \/ \E t \in workTx : \/ AddDependency(t) \/ RecordDailyProgress(t) \/ CreateTimesheet(t)
                       \/ \E a \in Approval : RequestWorkApproval(t, a)
  \/ \E a \in Approval, m \in Person : ReviewWorkApproval(a, m)
  \/ \E s \in Sheet : CheckTimesheet(s) \/ SubmitTimesheet(s) \/ ReviewTimesheet(s)

WorkSpec == WorkInit /\ [][WorkNext]_workVars

-----------------------------------------------------------------------------
WorkTypeOK ==
  /\ project \in ProjectStatus \cup {"ABSENT"}
  /\ work \in [Work -> ItemRow \cup {Absent}] /\ link \subseteq Work \X Work
  /\ check \in [Check -> CheckRow \cup {Absent}] /\ sheet \in [Sheet -> SheetRow \cup {Absent}]
  /\ workApproval \in [Approval -> WorkApprovalRow \cup {Absent}]

\* An item that is done and has a reviewer was approved by somebody who had not
\* asked for it, and it reads full progress, although approvals are requested,
\* progress is reported and items are moved on copies of any age.
DoneWasApproved ==
  \A i \in Work : In(work, i, {"DONE"}) =>
    /\ work[i].progress = Full
    /\ Reviewer[i] # NoReviewer => \E a \in Approval :
         /\ In(workApproval, a, {"APPROVED"}) /\ workApproval[a].of = i
         /\ workApproval[a].by # workApproval[a].reviewer

\* Reports may arrive late and out of order: progress never falls.
ProgressNeverFalls ==
  \A i \in Work : Has(work, i) => work'[i].progress >= work[i].progress

\* "Total timesheet hours for one employee cannot exceed 24 per day."  Not kept
\* by the code: a rejected entry, which is not counted, can be submitted again,
\* and two entries may be counted before either is inserted.
DayIsDay == DaySum({"DRAFT", "SUBMITTED", "APPROVED"}) <= DayHours
=============================================================================
