----------------------------- MODULE ProjectWork ----------------------------
(* Projects: how they come about, their structure and baselines            *)
(* (ProjectSpec), the overview of one (OverviewSpec), design documents and *)
(* their versions (DesignSpec), the estimates made of them (EstimateSpec), *)
(* and uploaded files (FileSpec).                                          *)
EXTENDS Rows, Integers, Sequences, FiniteSetsExt, TLC

-----------------------------------------------------------------------------
(* Projects (modules/projects, application/services.py, crm_handoff.py):   *)
(* the hand-over of an opportunity, the stages of a project, its breakdown *)
(* and tasks, and the baselines that freeze them.                          *)
(*                                                                         *)
(* create_project holds the company's row, and full_clean() refuses a      *)
(* second project of the opportunity before the database could.  A task's  *)
(* transition locks its project too (select_related); creating one does    *)
(* not.                                                                    *)

CONSTANTS
  Request,      \* requests to hand the opportunity over; the project of one bears its name
  Mode,         \* Request -> preconstruction or award
  OutcomeMoves, \* <<from, to>>: outcomes between which stages of the pipeline lead
  Node, Task,   \* of the first project
  WbsOf,        \* Task -> the node it is under
  MaxVersion, MaxBaselines   \* bounds

Outcome == {"open", "won", "lost"}

ProjectsAssumption ==
  /\ OutcomeMoves \subseteq Outcome \X Outcome
  /\ Mode \in [Request -> {"preconstruction", "award"}] /\ WbsOf \in [Task -> Node]
  /\ MaxVersion \in Nat /\ MaxBaselines \in Nat

VARIABLES
  opportunity,  \* in crm: the outcome of its stage; history: those it ever had
  handing,      \* Request -> what it is doing, and the project it was answered with
  project,      \* Request -> row: stage, version, baseline_version
  wbs, task,    \* nodes there are; Task -> row: stage, progress
  history,      \* ProjectStageHistory
  baselining,   \* Request -> the nodes that the open transaction of baseline_project has read
  projectBaseline      \* ProjectBaseline

projectVars == <<opportunity, handing, project, wbs, task, history, baselining, projectBaseline>>

ProjectStages ==
  [planning |-> {"approved", "cancelled"}, approved |-> {"active", "cancelled"}, active |-> {"completed", "cancelled"},
   completed |-> {}, cancelled |-> {}]
TaskStages ==
  [not_started |-> {"in_progress", "cancelled"}, in_progress |-> {"blocked", "complete", "cancelled"},
   blocked |-> {"in_progress", "cancelled"}, complete |-> {}, cancelled |-> {}]

NotReading == {"not reading"}

ProjectInit ==
  /\ opportunity \in {[outcome |-> o, ever |-> {o}] : o \in Outcome}
  /\ handing = [r \in Request |-> [doing |-> "nothing", project |-> Nobody]]
  /\ project = [r \in Request |-> Absent] /\ history = {} /\ projectBaseline = {} /\ wbs = {}
  /\ task = [t \in Task |-> Absent] /\ baselining = [r \in Request |-> NotReading]

\* crm moves the opportunity along the allowed_next_codes of its stages, which an
\* administrator configures and which may reopen what was won; nothing here stops it.
TransitionOpportunity ==
  /\ \E to \in Outcome :
       /\ <<opportunity.outcome, to>> \in OutcomeMoves
       /\ opportunity' = [outcome |-> to, ever |-> opportunity.ever \cup {to}]
  /\ UNCHANGED <<handing, project, wbs, task, history, baselining, projectBaseline>>

-----------------------------------------------------------------------------
Existing == {r \in Request : Has(project, r)}
ProjectAnswer(r, p) == handing' = [handing EXCEPT ![r] = [doing |-> "answered", project |-> p]]

\* The opportunity's outcome is checked and a project looked for ...
ReadForHandoff(r) ==
  /\ handing[r].doing = "nothing"
  /\ IF Mode[r] = "award" THEN opportunity.outcome = "won" ELSE opportunity.outcome # "lost"
  /\ IF Existing # {} THEN ProjectAnswer(r, CHOOSE p \in Existing : TRUE)
     ELSE handing' = [handing EXCEPT ![r].doing = "creating"]
  /\ UNCHANGED <<opportunity, project, wbs, task, history, baselining, projectBaseline>>

\* ... then create_project inserts it, or refuses when one was created since:
\* not with the IntegrityError that the caller turns into the existing project,
\* but with a ValidationError.
CreateProject(r) ==
  /\ handing[r].doing = "creating"
  /\ IF Existing # {}
     THEN handing' = [handing EXCEPT ![r].doing = "refused"] /\ UNCHANGED <<project, history>>
     ELSE /\ ProjectAnswer(r, r) /\ project' = [project EXCEPT ![r] = [status |-> "planning", version |-> 1, baselines |-> 0]]
          /\ history' = history \cup {[of |-> r, from |-> "", to |-> "planning", version |-> 1]}
  /\ UNCHANGED <<opportunity, wbs, task, baselining, projectBaseline>>

\* A request that was refused is made again.
Retry(r) ==
  /\ handing[r].doing = "refused" /\ handing' = [handing EXCEPT ![r].doing = "nothing"]
  /\ UNCHANGED <<opportunity, project, wbs, task, history, baselining, projectBaseline>>

-----------------------------------------------------------------------------
Free(r) == baselining[r] = NotReading

TransitionProject(r) ==
  /\ Free(r) /\ Has(project, r) /\ project[r].version < MaxVersion
  /\ \E stage \in Offers(ProjectStages, project, r) :
       /\ project' = [project EXCEPT ![r].status = stage, ![r].version = @ + 1]
       /\ history' = history \cup {[of |-> r, from |-> project[r].status, to |-> stage, version |-> project[r].version + 1]}
  /\ UNCHANGED <<opportunity, handing, wbs, task, baselining, projectBaseline>>

CreateWbsNode(n) ==
  /\ Existing # {} /\ wbs' = wbs \cup {n}
  /\ UNCHANGED <<opportunity, handing, project, task, history, baselining, projectBaseline>>

CreateTask(t) ==
  /\ ~ Has(task, t) /\ WbsOf[t] \in wbs
  /\ task' = [task EXCEPT ![t] = [status |-> "not_started", progress |-> 0]]
  /\ UNCHANGED <<opportunity, handing, project, wbs, history, baselining, projectBaseline>>

\* The progress is the caller's, except that complete is 100 per cent.
TransitionTask(t) ==
  /\ \A r \in Existing : Free(r)
  /\ \E stage \in Offers(TaskStages, task, t) : \E progress \in {task[t].progress, 50} :
       task' = [task EXCEPT ![t] = [status |-> stage, progress |-> IF stage = "complete" THEN 100 ELSE progress]]
  /\ UNCHANGED <<opportunity, handing, project, wbs, history, baselining, projectBaseline>>

\* baseline_project locks the project and reads the nodes ...
ReadNodes(r) ==
  /\ Free(r) /\ In(project, r, {"approved"})
  /\ project[r].version < MaxVersion /\ project[r].baselines < MaxBaselines
  /\ baselining' = [baselining EXCEPT ![r] = wbs]
  /\ UNCHANGED <<opportunity, handing, project, wbs, task, history, projectBaseline>>

\* ... then the tasks, and writes the snapshot; tasks may have come since.
BaselineProject(r) ==
  /\ ~ Free(r) /\ baselining' = [baselining EXCEPT ![r] = NotReading]
  /\ projectBaseline' = projectBaseline \cup {[of |-> r, number |-> project[r].baselines + 1, version |-> project[r].version,
                                               nodes |-> baselining[r], tasks |-> task]}
  /\ project' = [project EXCEPT ![r].baselines = @ + 1, ![r].version = @ + 1]
  /\ UNCHANGED <<opportunity, handing, wbs, task, history>>

ProjectNext ==
  \/ TransitionOpportunity
  \/ \E r \in Request : \/ ReadForHandoff(r) \/ CreateProject(r) \/ Retry(r)
                        \/ TransitionProject(r) \/ ReadNodes(r) \/ BaselineProject(r)
  \/ \E n \in Node : CreateWbsNode(n)
  \/ \E t \in Task : CreateTask(t) \/ TransitionTask(t)

ProjectSpec == ProjectInit /\ [][ProjectNext]_projectVars

-----------------------------------------------------------------------------
ProjectRow == [status : DOMAIN ProjectStages, version : 1..MaxVersion, baselines : 0..MaxBaselines]
ProjectTaskRow == [status : DOMAIN TaskStages, progress : {0, 50, 100}]

ProjectTypeOK ==
  /\ opportunity \in [outcome : Outcome, ever : SUBSET Outcome] /\ wbs \subseteq Node
  /\ handing \in [Request -> [doing : {"nothing", "creating", "refused", "answered"}, project : Request \cup {Nobody}]]
  /\ project \in [Request -> ProjectRow \cup {Absent}] /\ task \in [Task -> ProjectTaskRow \cup {Absent}]
  /\ \A r \in Request : baselining[r] = NotReading \/ baselining[r] \subseteq Node
  /\ \A b \in projectBaseline : b.of \in Request /\ b.number \in 1..MaxBaselines

WonIsFinal == \A move \in OutcomeMoves : move[1] # "won"

\* The opportunity becomes one project, which is what every request that was
\* answered was answered with.  An awarded project has an opportunity that was won,
\* and is won still where the pipeline leads nowhere from there (the stages of
\* bootstrap_crm_phase4); elsewhere it may have been reopened between the reading
\* and the insertion, or since.
OneProjectPerOpportunity ==
  /\ Cardinality(Existing) <= 1
  /\ \A r \in Request : handing[r].doing = "answered" => handing[r].project \in Existing
  /\ \A r \in Existing : Mode[r] = "award" =>
       "won" \in opportunity.ever /\ (WonIsFinal => opportunity.outcome = "won")

\* Every version of a project is accounted for, by a step of its history or by a
\* baseline; baselines are numbered as they were taken.  A later baseline has
\* every task of an earlier one, and what was finished in the earlier one it has
\* finished likewise: no transition gets in between the reading of a baseline
\* and its number.
VersionsAreTold ==
  /\ \A r \in Existing : LET steps == {h \in history : h.of = r} taken == {b \in projectBaseline : b.of = r} IN
       /\ {h.version : h \in steps} \cup {b.version + 1 : b \in taken} = 1..project[r].version
       /\ Cardinality(steps) + Cardinality(taken) = project[r].version
       /\ {b.number : b \in taken} = 1..project[r].baselines
  /\ \A b, c \in projectBaseline : b.of = c.of /\ b.number < c.number =>
       /\ b.version < c.version
       /\ \A t \in Task : Has(b.tasks, t) => Has(c.tasks, t)
       /\ \A t \in Task : In(b.tasks, t, {"complete", "cancelled"}) => c.tasks[t] = b.tasks[t]

-----------------------------------------------------------------------------
(* What a viewer is shown of a project (modules/projects, application/     *)
(* experience.py and guided_operations.py).  Nothing is stored: each view  *)
(* counts the rows of the sections that the viewer's permissions open and  *)
(* concludes from the counts; the flow of procurement is put together from *)
(* five queries, between which the work goes on.                           *)

CONSTANTS
  Values,       \* section -> the counts its rows may have
  Viewers,      \* the sets of sections that a viewer's permissions may open
  Lifecycle,    \* the published steps, in their order
  MaxAsked      \* bound: how often the flow of procurement is asked for

Sections == {"crm", "setup", "plan", "tasks", "supply", "design", "estimation", "portal", "finance", "handover", "quality", "safety"}
\* Sections that anybody sees who sees the project.
Public == {"crm", "setup", "plan", "tasks"}
Steps == {"CRM", "PRECONSTRUCTION", "DESIGN", "ESTIMATION", "CLIENT_APPROVAL", "PLANNING", "PROCUREMENT",
          "EXECUTION", "BILLING", "HANDOVER"}
OverviewSectionOf ==
  [CRM |-> "crm", PRECONSTRUCTION |-> "setup", DESIGN |-> "design", ESTIMATION |-> "estimation", CLIENT_APPROVAL |-> "portal",
   PLANNING |-> "plan", PROCUREMENT |-> "supply", EXECUTION |-> "tasks", BILLING |-> "finance", HANDOVER |-> "handover"]

Project360Assumption ==
  /\ DOMAIN Values = Sections /\ Lifecycle \in Seq(Steps) /\ \A v \in Viewers : v \subseteq Sections \ Public
  /\ MaxAsked \in Nat /\ Values.supply = 0..4 /\ Values.crm \subseteq 0..2 /\ Values.setup \subseteq BOOLEAN

VARIABLES
  data,     \* section -> counts; of supply how far the request has come: rfq, quote, order, receipt
  viewer,   \* the sections the viewer's permissions open
  flow      \* project_procurement_flow: queries answered, the furthest row found, where the request was at first

overviewVars == <<data, viewer, flow>>

Data ==
  [crm : Values.crm, setup : Values.setup, plan : Values.plan, tasks : Values.tasks, supply : Values.supply,
   design : Values.design, estimation : Values.estimation, portal : Values.portal, finance : Values.finance,
   handover : Values.handover, quality : Values.quality, safety : Values.safety]

OverviewInit ==
  /\ data \in {d \in Data : d.supply = 0}
  /\ viewer \in Viewers /\ flow = [queries |-> 0, shown |-> 0, asked |-> 0, times |-> 0]

Opens(s) == s \in Public \cup viewer

-----------------------------------------------------------------------------
(* project_experience: for every step of the lifecycle how many rows there *)
(* are, whether it is complete, and its progress.                          *)

\* Shares are looked for under the estimates' baselines: who may not see
\* estimates finds none, whatever the portal's permissions.
Shares(d) == IF Opens("portal") /\ Opens("estimation") /\ d.estimation.baselines > 0 THEN d.portal ELSE 0

Count(d, step) ==
  CASE step = "CRM" -> IF d.crm > 0 THEN 1 ELSE 0
    [] step = "PRECONSTRUCTION" -> 1
    [] step = "DESIGN" -> IF Opens("design") THEN d.design.documents ELSE 0
    [] step = "ESTIMATION" -> IF Opens("estimation") THEN d.estimation.estimates ELSE 0
    [] step = "CLIENT_APPROVAL" -> Shares(d)
    [] step = "PLANNING" -> d.plan.nodes + d.tasks.count + d.plan.baseline
    [] step = "PROCUREMENT" -> IF Opens("supply") THEN 1 + d.supply ELSE 0
    [] step = "EXECUTION" -> d.tasks.count
    [] step = "BILLING" -> IF Opens("finance") THEN d.finance.invoices ELSE 0
    [] step = "HANDOVER" -> IF Opens("handover") THEN d.handover.assets ELSE 0

ExecutionComplete(d) == d.tasks.count > 0 /\ d.tasks.completed = d.tasks.count

Complete(d, step) ==
  /\ Opens(OverviewSectionOf[step])
  /\ CASE step = "CRM" -> d.crm = 2
       [] step = "PRECONSTRUCTION" -> d.setup
       [] step = "DESIGN" -> d.design.documents > 0 /\ d.design.approved > 0 /\ d.design.issues = 0
       [] step = "ESTIMATION" -> d.estimation.baselines > 0
       [] step = "CLIENT_APPROVAL" -> Shares(d) > 0
       [] step = "PLANNING" -> d.plan.baseline > 0 /\ d.plan.nodes > 0
       [] step = "PROCUREMENT" -> d.supply = 4
       [] step = "EXECUTION" -> ExecutionComplete(d)
       [] step = "BILLING" -> d.finance.invoices > 0 /\ d.finance.outstanding = 0
       [] step = "HANDOVER" -> d.handover.assets > 0 /\ ExecutionComplete(d)

\* min(90, 25 + 20 for each approved version).
DesignProgress(d) == IF d.design.documents = 0 THEN 0 ELSE Min({90, 25 + 20 * d.design.approved})

Progress(d, step) ==
  IF Complete(d, step) THEN 100
  ELSE CASE step \in {"CRM", "HANDOVER"} -> IF Count(d, step) > 0 THEN 50 ELSE 0
         [] step \in {"PLANNING", "ESTIMATION", "BILLING"} -> IF Count(d, step) > 0 THEN 60 ELSE 0
         [] step = "PRECONSTRUCTION" -> 60
         [] step = "DESIGN" -> DesignProgress(d)
         [] step = "CLIENT_APPROVAL" -> 0
         [] step = "PROCUREMENT" -> IF d.supply >= 3 THEN 65 ELSE 30
         [] step = "EXECUTION" -> d.tasks.progress

\* A step is blocked that has no rows while one before it that is visible is open.
Shown(d, k) ==
  LET step == Lifecycle[k]
      blocked == Count(d, step) = 0 /\ \E j \in 1..(k - 1) : Opens(OverviewSectionOf[Lifecycle[j]]) /\ ~ Complete(d, Lifecycle[j]) IN
  IF ~ Opens(OverviewSectionOf[step]) THEN [status |-> "RESTRICTED", progress |-> 0]
  ELSE [progress |-> Progress(d, step),
        status |-> IF Complete(d, step) THEN "COMPLETE" ELSE IF blocked THEN "BLOCKED"
                   ELSE IF Count(d, step) > 0 THEN "IN_PROGRESS" ELSE "PENDING"]

Visible == {k \in DOMAIN Lifecycle : Opens(OverviewSectionOf[Lifecycle[k]])}
Overall(d) ==
  LET ProgressAt(k) == Shown(d, k).progress IN
  IF Visible = {} THEN 0 ELSE MapThenSumSet(ProgressAt, Visible) \div Cardinality(Visible)
CurrentStep(d) ==
  LET open == {k \in Visible : Shown(d, k).status # "COMPLETE"} IN IF open # {} THEN Min(open) ELSE 0

ProjectExperience(d) ==
  [steps |-> [k \in DOMAIN Lifecycle |-> Shown(d, k)], overall |-> Overall(d), current |-> CurrentStep(d),
   health |-> IF d.tasks.overdue > 0 \/ (Opens("design") /\ d.design.issues > 0) THEN "ATTENTION" ELSE "ON_TRACK"]

-----------------------------------------------------------------------------
\* project_handover_board: checkpoints that are done, of those the viewer is shown.
Unfinished(d) == d.tasks.count - d.tasks.completed - d.tasks.cancelled
Checkpoints(d) ==
  [EXECUTION |-> d.tasks.count > 0 /\ Unfinished(d) = 0, ASSET_REGISTER |-> d.handover.assets > 0,
   VERIFICATION |-> d.handover.assets > 0 /\ d.handover.verified = d.handover.assets]
  @@ (IF Opens("quality") THEN "QUALITY" :> (d.quality = 0) ELSE << >>)
  @@ (IF Opens("finance") THEN "COMMERCIAL" :> (d.finance.outstanding = 0) ELSE << >>)
  @@ (IF Opens("design") THEN "ISSUED_DESIGN" :> (d.design.issued > 0) ELSE << >>)
ProjectHandoverBoard(d) ==
  IF ~ Opens("handover") THEN [available |-> FALSE, readiness |-> 0]
  ELSE LET done == {c \in DOMAIN Checkpoints(d) : Checkpoints(d)[c]} IN
       [available |-> TRUE, readiness |-> (100 * Cardinality(done)) \div Cardinality(DOMAIN Checkpoints(d))]

\* executive_portfolio: a weighted score of what the viewer may know of.
Score(d) ==
  2 * d.tasks.overdue + (IF d.tasks.late THEN 3 ELSE 0)
  + (IF Opens("quality") THEN 2 * d.quality ELSE 0) + (IF Opens("safety") THEN 2 * d.safety ELSE 0)
  + (IF Opens("finance") /\ d.finance.outstanding > 0 THEN 1 ELSE 0)
Rank == [ON_TRACK |-> 0, ATTENTION |-> 1, CRITICAL |-> 2]
ExecutivePortfolio(d) == IF Score(d) >= 6 THEN "CRITICAL" ELSE IF Score(d) >= 3 THEN "ATTENTION" ELSE "ON_TRACK"

\* project_site_timeline: the sections its events come from, and their counts.
ProjectSiteTimeline(d) ==
  [s \in ({"quality", "safety", "supply", "design"} \cap viewer) \cup {"tasks"} |-> d[s]]

\* project_evidence_panel: what is behind, by severity.
ProjectEvidencePanel(d) ==
  LET behind == [TASKS |-> d.tasks.overdue > 0, DESIGN |-> Opens("design") /\ d.design.issues > 0,
                 NCR |-> Opens("quality") /\ d.quality > 0, FINANCE |-> Opens("finance") /\ d.finance.outstanding > 0] IN
  [e \in {e \in DOMAIN behind : behind[e]} |->
     IF e = "NCR" \/ (e = "TASKS" /\ d.tasks.overdue >= 5) THEN "HIGH" ELSE "MEDIUM"]

Views(d) ==
  <<ProjectExperience(d), ProjectHandoverBoard(d), ExecutivePortfolio(d), ProjectSiteTimeline(d), ProjectEvidencePanel(d)>>

-----------------------------------------------------------------------------
\* The work goes on: a request gets its RFQ, quote, order, receipt.
Proceed ==
  /\ data.supply < 4 /\ data' = [data EXCEPT !.supply = @ + 1] /\ UNCHANGED <<viewer, flow>>

\* The queries of project_procurement_flow, in its order: requests, RFQs,
\* quotes, orders, receipts.  A row is found if it is there when asked for, and
\* the request is shown at the first table in which it has none.
Query ==
  /\ flow.queries < 5 /\ UNCHANGED <<data, viewer>>
  /\ flow.queries = 0 => flow.times < MaxAsked
  /\ flow' = IF flow.queries = 0 THEN [queries |-> 1, shown |-> 0, asked |-> data.supply, times |-> flow.times + 1]
             ELSE [flow EXCEPT !.queries = @ + 1,
                               !.shown = IF @ = flow.queries - 1 /\ data.supply >= flow.queries THEN @ + 1 ELSE @]

OverviewAnswer == flow.queries = 5 /\ flow' = [flow EXCEPT !.queries = 0] /\ UNCHANGED <<data, viewer>>

OverviewNext == Proceed \/ Query \/ OverviewAnswer

OverviewSpec == OverviewInit /\ [][OverviewNext]_overviewVars

-----------------------------------------------------------------------------
OverviewTypeOK ==
  /\ data \in Data /\ viewer \in Viewers
  /\ flow \in [queries : 0..5, shown : 0..4, asked : 0..4, times : 0..MaxAsked]

\* What a viewer may not read has no part in anything that is shown: with other
\* rows in a section that is closed, every step, percentage, score and list is
\* the same.
ClosedIsUnseen ==
  \A s \in Sections : ~ Opens(s) => \A v \in Values[s] : Views([data EXCEPT ![s] = v]) = Views(data)

\* The overall progress is 100 only when every visible step but the execution,
\* whose progress is the tasks' own word, is complete; nothing visible that is
\* complete comes as the current step; an execution that is complete is so for
\* the handover board as well; more trouble never makes a project look better.
ViewsAreTrue ==
  /\ Overall(data) = 100 => \A k \in Visible : Lifecycle[k] = "EXECUTION" \/ Complete(data, Lifecycle[k])
  /\ \A k \in Visible : Shown(data, k).progress \in 0..100 /\ (Complete(data, Lifecycle[k]) => CurrentStep(data) # k)
  /\ ExecutionComplete(data) => Checkpoints(data).EXECUTION
  /\ \A n \in Values.quality, m \in Values.safety : n >= data.quality /\ m >= data.safety =>
       Rank[ExecutivePortfolio([data EXCEPT !.quality = n, !.safety = m])] >= Rank[ExecutivePortfolio(data)]

\* Where the flow shows a request, once all queries are answered, the request
\* was at some moment between the question and the answer.
FlowIsInBetween ==
  flow.queries = 5 => flow.asked <= flow.shown /\ flow.shown <= data.supply

-----------------------------------------------------------------------------
(* Drawings (modules/design, application/services.py): documents in        *)
(* versions that move through the stages of the company, their reviews,    *)
(* issues and transmittals.                                                *)
(*                                                                         *)
(* A transition holds the version, its document and its stage.  A          *)
(* transmittal holds nothing: its versions may be superseded before it is  *)
(* written.                                                                *)

CONSTANTS
  Document, DesignVersion, Review, Issue, Transmittal, Member,
  DocumentOf,   \* Version -> Document
  VersionOf,    \* Review -> Version
  Carries,      \* Transmittal -> its versions
  DesignStage, DesignNextOf, OutcomeOf   \* the stages of the company: what follows, what each means

Outcomes == {"OPEN", "REVIEW", "APPROVED", "ISSUED", "SUPERSEDED"}
DesignAssumption ==
  /\ IsFiniteSet(DesignVersion) /\ "ABSENT" \notin DesignStage
  /\ DocumentOf \in [DesignVersion -> Document] /\ VersionOf \in [Review -> DesignVersion]
  /\ Carries \in [Transmittal -> SUBSET DesignVersion]
  /\ DesignNextOf \in [DesignStage -> SUBSET DesignStage] /\ OutcomeOf \in [DesignStage -> Outcomes]

VARIABLES document, designVersion, review, issue, transmittal, now

designVars == <<document, designVersion, review, issue, transmittal, now>>

Never == 0

DesignInit ==
  /\ document = {} /\ designVersion = [v \in DesignVersion |-> Absent] /\ review = [r \in Review |-> Absent]
  /\ issue = [i \in Issue |-> Absent] /\ transmittal = [t \in Transmittal |-> Absent] /\ now = 1

CreateDocument(d) ==
  /\ d \notin document /\ document' = document \cup {d}
  /\ UNCHANGED <<designVersion, review, issue, transmittal, now>>

Of(d) == {v \in DesignVersion : Has(designVersion, v) /\ DocumentOf[v] = d}

CreateVersion(v) ==
  /\ ~Has(designVersion, v) /\ DocumentOf[v] \in document
  /\ \E s \in DesignStage :
       /\ OutcomeOf[s] = "OPEN"
       /\ designVersion' = [designVersion EXCEPT ![v] = [status |-> s, number |-> Cardinality(Of(DocumentOf[v])) + 1,
                                                         issued |-> Never, superseded |-> Never]]
  /\ UNCHANGED <<document, review, issue, transmittal, now>>

\* The versions that a version which is issued supersedes.
Replaced(v) ==
  {x \in Of(DocumentOf[v]) \ {v} : designVersion[x].issued # Never /\ designVersion[x].superseded = Never}

TransitionVersion(v) ==
  /\ Has(designVersion, v)
  /\ \E s \in DesignNextOf[designVersion[v].status] :
       /\ designVersion' = [x \in DesignVersion |->
         IF x = v THEN [designVersion[v] EXCEPT !.status = s,
                          !.issued = IF OutcomeOf[s] = "ISSUED" THEN now ELSE @,
                          !.superseded = IF OutcomeOf[s] = "SUPERSEDED" THEN now ELSE @]
         ELSE IF OutcomeOf[s] = "ISSUED" /\ x \in Replaced(v) THEN [designVersion[x] EXCEPT !.superseded = now]
         ELSE designVersion[x]]
       /\ now' = IF OutcomeOf[s] \in {"ISSUED", "SUPERSEDED"} THEN now + 1 ELSE now
  /\ UNCHANGED <<document, review, issue, transmittal>>

RequestReview(r) ==
  /\ ~Has(review, r) /\ Has(designVersion, VersionOf[r]) /\ OutcomeOf[designVersion[VersionOf[r]].status] = "REVIEW"
  /\ review' = [review EXCEPT ![r] = [status |-> "PENDING", by |-> Never]]
  /\ UNCHANGED <<document, designVersion, issue, transmittal, now>>

\* Once, whatever became of the version meanwhile.
DecideReview(r) ==
  /\ In(review, r, {"PENDING"})
  /\ \E decision \in {"APPROVED", "REJECTED", "COMMENTED"}, m \in Member :
       review' = [review EXCEPT ![r] = [status |-> decision, by |-> m]]
  /\ UNCHANGED <<document, designVersion, issue, transmittal, now>>

CreateIssue(i) ==
  /\ ~Has(issue, i) /\ issue' = [issue EXCEPT ![i] = [status |-> "OPEN"]]
  /\ UNCHANGED <<document, designVersion, review, transmittal, now>>

CloseIssue(i) ==
  /\ In(issue, i, {"OPEN"}) /\ issue' = Moved(issue, i, "CLOSED")
  /\ UNCHANGED <<document, designVersion, review, transmittal, now>>

InUse(v) == designVersion[v].issued # Never /\ designVersion[v].superseded = Never

\* Its versions are found issued and in use ...
ReadVersions(t) ==
  /\ ~Has(transmittal, t) /\ \A v \in Carries[t] : Has(designVersion, v) /\ InUse(v)
  /\ transmittal' = [transmittal EXCEPT ![t] = [status |-> "READING", read |-> now]]
  /\ UNCHANGED <<document, designVersion, review, issue, now>>

\* ... and sent.
CreateTransmittal(t) ==
  /\ In(transmittal, t, {"READING"}) /\ transmittal' = Moved(transmittal, t, "ISSUED")
  /\ UNCHANGED <<document, designVersion, review, issue, now>>

DesignNext ==
  \/ \E d \in Document : CreateDocument(d)
  \/ \E v \in DesignVersion : CreateVersion(v) \/ TransitionVersion(v)
  \/ \E r \in Review : RequestReview(r) \/ DecideReview(r)
  \/ \E i \in Issue : CreateIssue(i) \/ CloseIssue(i)
  \/ \E t \in Transmittal : ReadVersions(t) \/ CreateTransmittal(t)

DesignSpec == DesignInit /\ [][DesignNext]_designVars

-----------------------------------------------------------------------------
DesignVersionRow == [status : DesignStage, number : 1..Cardinality(DesignVersion), issued : Nat, superseded : Nat]
DesignReviewRow == [status : {"PENDING", "APPROVED", "REJECTED", "COMMENTED"}, by : Member \cup {Never}]
DesignTransmittalRow == [status : {"READING", "ISSUED"}, read : Nat]

DesignTypeOK ==
  /\ document \subseteq Document /\ now \in Nat \ {0}
  /\ designVersion \in [DesignVersion -> DesignVersionRow \cup {Absent}] /\ review \in [Review -> DesignReviewRow \cup {Absent}]
  /\ issue \in [Issue -> [status : {"OPEN", "CLOSED"}] \cup {Absent}]
  /\ transmittal \in [Transmittal -> DesignTransmittalRow \cup {Absent}]

\* A document has one issued version in use at most, and its versions are
\* numbered without a gap; a version that was sent had been issued when the
\* transmittal was composed and was not superseded before that.
OneIssueInUse ==
  /\ \A d \in Document :
       /\ \A v, x \in Of(d) : InUse(v) /\ InUse(x) => v = x
       /\ {designVersion[v].number : v \in Of(d)} = 1..Cardinality(Of(d))
  /\ \A t \in Transmittal : In(transmittal, t, {"ISSUED"}) => \A v \in Carries[t] :
       designVersion[v].issued # Never /\ (designVersion[v].superseded = Never \/ designVersion[v].superseded >= transmittal[t].read)

-----------------------------------------------------------------------------
(* Estimates (modules/estimation, application/services.py): versions of a  *)
(* bill of quantities with their totals, and the baseline that freezes one. *)
(*                                                                         *)
(* An item is added under the lock of its version, a section without: one  *)
(* that found its version open may appear in it after the baseline.        *)

CONSTANTS
  EstimateVersion,    \* versions of one estimate, each a number
  Section, Item,
  EstimateSectionOf,  \* Item -> the section it is entered under
  Amount,     \* Item -> its amount with tax
  EstimateStage, EstimateNextOf, Baselining   \* the stages of the company; those that allow a baseline

EstimationAssumption ==
  /\ EstimateVersion \subseteq Nat \ {0} /\ EstimateSectionOf \in [Item -> Section] /\ Amount \in [Item -> Nat]
  /\ EstimateNextOf \in [EstimateStage -> SUBSET EstimateStage] /\ Baselining \subseteq EstimateStage

VARIABLES
  estimate,  \* the active version
  estimateVersion,   \* Version -> row: its sections, items and total
  estimateBaseline,  \* Version -> row: what the baseline recorded
  adding     \* section -> the version it was found open

estimateVars == <<estimate, estimateVersion, estimateBaseline, adding>>

None == 0
FirstStage == CHOOSE s \in EstimateStage : \A x \in EstimateStage : s \notin EstimateNextOf[x]
Sum(items) == FoldSet(LAMBDA x, sum : Amount[x] + sum, 0, items)
Row(sections, items) ==
  [status |-> FirstStage, sections |-> sections, items |-> items, total |-> Sum(items), frozen |-> FALSE]

\* create_estimate makes its first version with it.
EstimateInit ==
  /\ estimate = 1 /\ estimateBaseline = [v \in EstimateVersion |-> Absent] /\ adding = [s \in Section |-> None]
  /\ estimateVersion = [v \in EstimateVersion |-> IF v = 1 THEN Row({}, {}) ELSE Absent]

\* The next number, under the lock of the estimate; a copy of another version,
\* sections and items, or empty.
CreateEstimateVersion(v) ==
  /\ ~Has(estimateVersion, v) /\ v = Cardinality({x \in EstimateVersion : Has(estimateVersion, x)}) + 1
  /\ estimateVersion' = [estimateVersion EXCEPT ![v] = Row({}, {})]
     \/ \E x \in EstimateVersion : Has(estimateVersion, x) /\ estimateVersion' = [estimateVersion EXCEPT ![v] = Row(estimateVersion[x].sections, estimateVersion[x].items)]
  /\ estimate' = v /\ UNCHANGED <<estimateBaseline, adding>>

Open(v) == Has(estimateVersion, v) /\ ~estimateVersion[v].frozen

ReadForSection(v, s) ==
  /\ Open(v) /\ s \notin estimateVersion[v].sections /\ adding[s] = None /\ adding' = [adding EXCEPT ![s] = v]
  /\ UNCHANGED <<estimate, estimateVersion, estimateBaseline>>

CreateSection(s) ==
  /\ adding[s] # None /\ estimateVersion' = [estimateVersion EXCEPT ![adding[s]].sections = @ \cup {s}]
  /\ adding' = [adding EXCEPT ![s] = None] /\ UNCHANGED <<estimate, estimateBaseline>>

\* The sums are computed again from all items.
Recalculate(v, items) == [estimateVersion EXCEPT ![v].items = items, ![v].total = Sum(items)]

CreateBoqItem(v, i) ==
  /\ Open(v) /\ i \notin estimateVersion[v].items /\ EstimateSectionOf[i] \in estimateVersion[v].sections
  /\ estimateVersion' = Recalculate(v, estimateVersion[v].items \cup {i})
  /\ UNCHANGED <<estimate, estimateBaseline, adding>>

TransitionEstimateVersion(v) ==
  /\ Open(v) /\ \E s \in EstimateNextOf[estimateVersion[v].status] : estimateVersion' = Moved(estimateVersion, v, s)
  /\ UNCHANGED <<estimate, estimateBaseline, adding>>

\* Once: a version that has a baseline returns it.
BaselineEstimateVersion(v) ==
  /\ Open(v) /\ In(estimateVersion, v, Baselining)
  /\ estimateBaseline' = [estimateBaseline EXCEPT ![v] = [status |-> "RECORDED", sections |-> estimateVersion[v].sections,
                                                          items |-> estimateVersion[v].items, total |-> estimateVersion[v].total]]
  /\ estimateVersion' = [estimateVersion EXCEPT ![v].frozen = TRUE] /\ UNCHANGED <<estimate, adding>>

EstimateNext ==
  \/ \E s \in Section : CreateSection(s)
  \/ \E v \in EstimateVersion :
       \/ CreateEstimateVersion(v) \/ TransitionEstimateVersion(v) \/ BaselineEstimateVersion(v)
       \/ \E s \in Section : ReadForSection(v, s)
       \/ \E i \in Item : CreateBoqItem(v, i)

EstimateSpec == EstimateInit /\ [][EstimateNext]_estimateVars

-----------------------------------------------------------------------------
EstimateVersionRow ==
  [status : EstimateStage, sections : SUBSET Section, items : SUBSET Item, total : 0..Sum(Item), frozen : BOOLEAN]
EstimateBaselineRow ==
  [status : {"RECORDED"}, sections : SUBSET Section, items : SUBSET Item, total : 0..Sum(Item)]

EstimateTypeOK ==
  /\ estimate \in EstimateVersion /\ estimateVersion \in [EstimateVersion -> EstimateVersionRow \cup {Absent}]
  /\ estimateBaseline \in [EstimateVersion -> EstimateBaselineRow \cup {Absent}] /\ adding \in [Section -> EstimateVersion \cup {None}]

\* A version adds up to its items, each under a section of that very version; it
\* is frozen exactly while a baseline records it, item for item and with its
\* total, and in a stage that allowed it; the active version is the newest.
BaselineIsFrozen ==
  /\ \A v \in EstimateVersion : Has(estimateVersion, v) =>
       /\ estimateVersion[v].total = Sum(estimateVersion[v].items) /\ \A i \in estimateVersion[v].items : EstimateSectionOf[i] \in estimateVersion[v].sections
       /\ estimateVersion[v].frozen <=> Has(estimateBaseline, v)
       /\ estimateVersion[v].frozen => /\ In(estimateVersion, v, Baselining) /\ estimateBaseline[v].items = estimateVersion[v].items
                                       /\ estimateBaseline[v].total = estimateVersion[v].total /\ estimateBaseline[v].sections \subseteq estimateVersion[v].sections
       /\ v <= estimate
  /\ Has(estimateVersion, estimate)

-----------------------------------------------------------------------------
(* Uploaded files (modules/files, application/services.py): the caller     *)
(* declares a file, puts it into the object store by itself, and has it    *)
(* finalized; a scanner answers; what is clean is handed out.              *)
(*                                                                         *)
(* The store is looked at while the version is locked, and the download    *)
(* reads the version before the object, without a lock.                    *)

CONSTANTS
  FileVersion,    \* each of a file object of its own
  Content,    \* what the store may hold under a key
  Declared,   \* Version -> the content its size, checksum and type describe
  Malicious   \* the contents a scanner reports

FilesAssumption == Declared \in [FileVersion -> Content] /\ Malicious \subseteq Content

VARIABLES
  fileVersion,   \* Version -> row: upload status, and scan
  object,    \* Version -> status of its file object
  stored,    \* Version -> what the store holds under its key
  reading,   \* versions a download has found finalized and clean
  given      \* what downloads have been given

fileVars == <<fileVersion, object, stored, reading, given>>

Nothing == "nothing"

FileInit ==
  /\ fileVersion = [v \in FileVersion |-> Absent] /\ object = [v \in FileVersion |-> "none"]
  /\ stored = [v \in FileVersion |-> Nothing] /\ reading = {} /\ given = {}

InitiateUpload(v) ==
  /\ ~Has(fileVersion, v)
  /\ fileVersion' = [fileVersion EXCEPT ![v] = [status |-> "INITIATED", scan |-> "PENDING"]]
  /\ object' = [object EXCEPT ![v] = "ACTIVE"]
  /\ UNCHANGED <<stored, reading, given>>

\* The caller puts a content under the key that was granted.
Put(v) ==
  /\ In(fileVersion, v, {"INITIATED"}) /\ \E c \in Content : stored' = [stored EXCEPT ![v] = c]
  /\ UNCHANGED <<fileVersion, object, reading, given>>

\* A content that is not the one declared is rejected, and the rejection is kept
\* although the caller gets an error; nothing stored leaves the version as it is.
FinalizeUpload(v) ==
  /\ In(fileVersion, v, {"INITIATED"}) /\ stored[v] # Nothing
  /\ fileVersion' = Moved(fileVersion, v, IF stored[v] = Declared[v] THEN "FINALIZED" ELSE "REJECTED")
  /\ UNCHANGED <<object, stored, reading, given>>

\* Once.
RecordScanResult(v) ==
  /\ In(fileVersion, v, {"FINALIZED"}) /\ fileVersion[v].scan = "PENDING"
  /\ LET clean == stored[v] \notin Malicious IN
     /\ fileVersion' = [fileVersion EXCEPT ![v].scan = IF clean THEN "CLEAN" ELSE "INFECTED"]
     /\ object' = [object EXCEPT ![v] = IF clean THEN @ ELSE "QUARANTINED"]
  /\ UNCHANGED <<stored, reading, given>>

ReadVersion(v) ==
  /\ In(fileVersion, v, {"FINALIZED"}) /\ fileVersion[v].scan = "CLEAN" /\ reading' = reading \cup {v}
  /\ UNCHANGED <<fileVersion, object, stored, given>>

GovernedDownloadUrl(v) ==
  /\ v \in reading /\ object[v] = "ACTIVE"
  /\ reading' = reading \ {v} /\ given' = given \cup {<<v, stored[v]>>}
  /\ UNCHANGED <<fileVersion, object, stored>>

FileNext ==
  \E v \in FileVersion : \/ InitiateUpload(v) \/ Put(v) \/ FinalizeUpload(v) \/ RecordScanResult(v)
                         \/ ReadVersion(v) \/ GovernedDownloadUrl(v)

FileSpec == FileInit /\ [][FileNext]_fileVars

-----------------------------------------------------------------------------
FileVersionRow ==
  [status : {"INITIATED", "FINALIZED", "REJECTED"}, scan : {"PENDING", "CLEAN", "INFECTED"}]

FileTypeOK ==
  /\ fileVersion \in [FileVersion -> FileVersionRow \cup {Absent}]
  /\ object \in [FileVersion -> {"none", "ACTIVE", "QUARANTINED"}] /\ stored \in [FileVersion -> Content \cup {Nothing}]
  /\ reading \subseteq FileVersion /\ given \subseteq (FileVersion \X Content)

\* What is handed out is what its owner declared and no scanner reported; a file
\* that was reported is in quarantine.
HandedOutIsClean ==
  /\ \A d \in given : d[2] = Declared[d[1]] /\ d[2] \notin Malicious
  /\ \A v \in FileVersion : Has(fileVersion, v) /\ fileVersion[v].scan = "INFECTED" => object[v] = "QUARANTINED"
=============================================================================
