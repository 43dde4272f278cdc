------------------------------ MODULE Assurance -----------------------------
(* What stands behind the work: insurance and guarantees (CoverSpec),      *)
(* compliance with its assessments, access reviews, exceptions and risks   *)
(* (ComplianceSpec), and the data of a company: imports and retention      *)
(* (DataSpec).                                                             *)
EXTENDS MakerChecker, FiniteSetsExt

-----------------------------------------------------------------------------
(* Insurance and guarantees (modules/risktransferops,                      *)
(* application/services.py): counterparties, programs, coverages with      *)
(* their premiums and claims, losses, guarantee instruments and the calls  *)
(* on them.                                                                *)
(*                                                                         *)
(* A record is created on the strength of parents that the view has read   *)
(* and nobody locks: the check is one step, the insertion another.         *)

CONSTANTS
  Member, Item,
  Kind,     \* Item -> kind of its row
  Parents,  \* Item -> the rows it is created under
  Amount,   \* Item -> amount, where the kind has one
  MaxOpen   \* bound: creations between check and insertion

Kinds == {"PARTY", "PROGRAM", "COVERAGE", "PREMIUM", "LOSS", "CLAIM", "INSTRUMENT", "CALL"}

RiskTransferAssumption ==
  /\ Kind \in [Item -> Kinds] /\ Parents \in [Item -> SUBSET Item] /\ IsFiniteSet(Item)
  /\ \A i \in Item : Kind[i] \in {"PREMIUM", "CLAIM", "INSTRUMENT", "CALL"} => Amount[i] \in Nat \ {0}
  /\ \A i \in Item, p \in Item : Kind[i] = "CLAIM" /\ p \in Parents[i] => Kind[p] \in {"COVERAGE", "LOSS"}
  /\ MaxOpen \in Nat /\ Nobody \notin Member

VARIABLES
  coverRow,     \* Item -> row
  opening  \* creations that have passed their checks

coverVars == <<coverRow, opening>>

PartyStages ==
  [PENDING |-> {"VERIFIED", "REJECTED"}, REJECTED |-> {"PENDING"}, VERIFIED |-> {"SUSPENDED"},
   SUSPENDED |-> {"VERIFIED"}]
ProgramStages ==
  [DRAFT |-> {"SUBMITTED", "CANCELLED"}, SUBMITTED |-> {"APPROVED", "REJECTED", "DRAFT"},
   REJECTED |-> {"DRAFT"}, APPROVED |-> {"ACTIVE", "CANCELLED"}, ACTIVE |-> {"SUSPENDED", "CLOSED"},
   SUSPENDED |-> {"ACTIVE", "CLOSED"}]
GenericStages ==
  [DRAFT |-> {"SUBMITTED", "CANCELLED"}, SUBMITTED |-> {"APPROVED", "REJECTED", "DRAFT"},
   REJECTED |-> {"DRAFT"}, APPROVED |-> {"ACTIVE", "CANCELLED"},
   ACTIVE |-> {"SUSPENDED", "EXPIRED", "CLOSED", "CANCELLED"},
   SUSPENDED |-> {"ACTIVE", "CLOSED", "CANCELLED"}, EXPIRED |-> {"CLOSED", "RENEWED"},
   RENEWED |-> {"CLOSED"}]
PremiumStages ==
  [DUE |-> {"PAID", "PARTIALLY_PAID", "WAIVED", "CANCELLED"},
   PARTIALLY_PAID |-> {"PAID", "WAIVED", "CANCELLED"}]
LossStages ==
  [OPEN |-> {"INVESTIGATING", "CLOSED"}, INVESTIGATING |-> {"CLAIMED", "CLOSED"},
   CLAIMED |-> {"RECOVERING", "CLOSED"}, RECOVERING |-> {"CLOSED"}]
ClaimStages ==
  [DRAFT |-> {"NOTIFIED", "CANCELLED"}, NOTIFIED |-> {"ADMITTED", "REJECTED", "UNDER_REVIEW"},
   UNDER_REVIEW |-> {"ADMITTED", "REJECTED"}, ADMITTED |-> {"SETTLED", "PARTIALLY_SETTLED"},
   PARTIALLY_SETTLED |-> {"SETTLED", "CLOSED"}, SETTLED |-> {"CLOSED"}, REJECTED |-> {"CLOSED"}]
CallStages ==
  [DRAFT |-> {"SUBMITTED", "CANCELLED"}, SUBMITTED |-> {"APPROVED", "REJECTED", "DRAFT"},
   REJECTED |-> {"DRAFT"}, APPROVED |-> {"SETTLED", "DISPUTED"}, DISPUTED |-> {"SETTLED", "CLOSED"},
   SETTLED |-> {"CLOSED"}]

CoverInit == coverRow = [i \in Item |-> Absent] /\ opening = {}

-----------------------------------------------------------------------------
CreateCoverage(p) == Kind[p] = "PARTY" => In(coverRow, p, {"VERIFIED"})

CreateInstrument(p) == Kind[p] = "PARTY" => In(coverRow, p, {"VERIFIED"})

CreateClaim(p) == Kind[p] = "COVERAGE" => In(coverRow, p, {"APPROVED", "ACTIVE", "EXPIRED", "RENEWED"})

CreateCall(i, p) ==
  LET others == {c \in Item : Kind[c] = "CALL" /\ p \in Parents[c]
                               /\ ~In(coverRow, c, {"ABSENT", "REJECTED", "CANCELLED"})} IN
  /\ In(coverRow, p, {"APPROVED", "ACTIVE", "SUSPENDED"})
  /\ MapThenSumSet(LAMBDA c : Amount[c], others) + Amount[i] <= Amount[p]

\* What the services ask of a parent; the others ask for its existence only.
Suits(i, p) ==
  /\ Has(coverRow, p)
  /\ CASE Kind[i] = "COVERAGE" -> CreateCoverage(p) [] Kind[i] = "INSTRUMENT" -> CreateInstrument(p)
       [] Kind[i] = "CLAIM" -> CreateClaim(p) [] Kind[i] = "CALL" -> CreateCall(i, p)
       [] OTHER -> TRUE

CheckCreation(i, m) ==
  /\ ~Has(coverRow, i) /\ Cardinality(opening) < MaxOpen
  /\ \A p \in Parents[i] : Suits(i, p)
  /\ opening' = opening \cup {[row |-> i, by |-> m]}
  /\ UNCHANGED coverRow

\* full_clean and save of the row the model's defaults make.
Drawn(i, m) ==
  CASE Kind[i] = "PARTY" -> Drafted("PENDING", m)
    [] Kind[i] = "PREMIUM" -> [status |-> "DUE", paid |-> 0]
    [] Kind[i] = "LOSS" -> [status |-> "OPEN"]
    [] Kind[i] = "CLAIM" -> [status |-> "DRAFT", by |-> m, approver |-> Nobody, recovered |-> 0]
    [] OTHER -> Drafted("DRAFT", m)

CommitCreation(t) ==
  /\ ~Has(coverRow, t.row)
  /\ coverRow' = [coverRow EXCEPT ![t.row] = Drawn(t.row, t.by)]
  /\ opening' = opening \ {t}

RollbackCreation(t) == opening' = opening \ {t} /\ UNCHANGED coverRow

-----------------------------------------------------------------------------
\* _transition of a kind that has a maker and an approver.
Transition(k, stages, approving, i, m) ==
  /\ \E stage \in Open(Kind[i] = k, coverRow, i, stages, approving, m) :
       coverRow' = Judged(coverRow, i, stage, m, approving, {"DRAFT", "PENDING", "REJECTED"})
  /\ UNCHANGED opening

TransitionCounterparty(i, m) == Transition("PARTY", PartyStages, {"VERIFIED"}, i, m)
TransitionProgram(i, m) == Transition("PROGRAM", ProgramStages, {"APPROVED"}, i, m)
TransitionCoverage(i, m) == Transition("COVERAGE", GenericStages, {"APPROVED"}, i, m)
TransitionInstrument(i, m) == Transition("INSTRUMENT", GenericStages, {"APPROVED"}, i, m)

TransitionLoss(i) ==
  /\ Kind[i] = "LOSS"
  /\ \E stage \in Offers(LossStages, coverRow, i) : coverRow' = Moved(coverRow, i, stage)
  /\ UNCHANGED opening

\* The caller may send the amount paid so far with any stage.
TransitionPremium(i) ==
  /\ Kind[i] = "PREMIUM"
  /\ \E stage \in Offers(PremiumStages, coverRow, i), sent \in 0..Amount[i] :
       /\ stage = "PARTIALLY_PAID" => sent \in 1..(Amount[i] - 1)
       /\ coverRow' = [coverRow EXCEPT ![i] =
            [status |-> stage, paid |-> IF stage = "PAID" THEN Amount[i] ELSE sent]]
  /\ UNCHANGED opening

TransitionClaim(i, m) ==
  /\ Kind[i] = "CLAIM"
  /\ \E stage \in Open(TRUE, coverRow, i, ClaimStages, {"ADMITTED"}, m), sent \in 0..Amount[i] :
       /\ stage \in {"SETTLED", "PARTIALLY_SETTLED"} => sent > 0
       /\ coverRow' = [Judged(coverRow, i, stage, m, {"ADMITTED"}, {}) EXCEPT ![i].recovered = sent]
  /\ UNCHANGED opening

\* An approval is kept when the call is sent back.
TransitionCall(i, m) ==
  /\ \E stage \in Open(Kind[i] = "CALL", coverRow, i, CallStages, {"APPROVED"}, m) :
       coverRow' = Judged(coverRow, i, stage, m, {"APPROVED"}, {})
  /\ UNCHANGED opening

CoverNext ==
  \/ \E i \in Item, m \in Member :
       \/ CheckCreation(i, m)
       \/ TransitionCounterparty(i, m) \/ TransitionProgram(i, m) \/ TransitionCoverage(i, m)
       \/ TransitionInstrument(i, m) \/ TransitionClaim(i, m) \/ TransitionCall(i, m)
  \/ \E i \in Item : TransitionLoss(i) \/ TransitionPremium(i)
  \/ \E t \in opening : CommitCreation(t) \/ RollbackCreation(t)

CoverSpec == CoverInit /\ [][CoverNext]_coverVars

-----------------------------------------------------------------------------
RiskCounterpartyRow == Judgeable(PartyStages, Member)
InsuranceProgramRow == Judgeable(ProgramStages, Member)
InsuranceCoverageRow == Judgeable(GenericStages, Member)
GuaranteeInstrumentRow == Judgeable(GenericStages, Member)
PremiumScheduleRow == [status : Reached(PremiumStages), paid : Nat]
LossEventRow == [status : Reached(LossStages)]
InsuranceClaimRow ==
  [status : Reached(ClaimStages), by : Member, approver : Member \cup {Nobody}, recovered : Nat]
InstrumentCallRow == Judgeable(CallStages, Member)

RowOf(i) ==
  CASE Kind[i] = "PARTY" -> RiskCounterpartyRow [] Kind[i] = "PROGRAM" -> InsuranceProgramRow
    [] Kind[i] = "COVERAGE" -> InsuranceCoverageRow [] Kind[i] = "INSTRUMENT" -> GuaranteeInstrumentRow
    [] Kind[i] = "PREMIUM" -> PremiumScheduleRow [] Kind[i] = "LOSS" -> LossEventRow
    [] Kind[i] = "CLAIM" -> InsuranceClaimRow [] OTHER -> InstrumentCallRow

CoverTypeOK == DOMAIN coverRow = Item /\ \A i \in Item : coverRow[i] \in RowOf(i) \cup {Absent}

\* Whatever happened between the check and the insertion: claims are made on
\* coverages, and calls on instruments, that somebody else than their maker has
\* approved, with a counterparty somebody else has verified; what was settled
\* was admitted or approved by another, and a claim brought something in.
CoverStands ==
  \A i \in Item : Has(coverRow, i) =>
    /\ \A p \in Parents[i] :
         /\ Kind[i] \in {"CLAIM", "CALL"} /\ Kind[p] \in {"COVERAGE", "INSTRUMENT"} => Independently(coverRow, p)
         /\ Kind[i] \in {"COVERAGE", "INSTRUMENT"} /\ Kind[p] = "PARTY" => Independently(coverRow, p)
    /\ Kind[i] = "CLAIM" /\ In(coverRow, i, {"SETTLED", "PARTIALLY_SETTLED"}) =>
         Independently(coverRow, i) /\ coverRow[i].recovered \in 1..Amount[i]
    /\ Kind[i] = "CALL" /\ In(coverRow, i, {"SETTLED", "DISPUTED", "CLOSED"}) => Independently(coverRow, i)
    /\ Kind[i] = "PREMIUM" /\ In(coverRow, i, {"PAID"}) => coverRow[i].paid = Amount[i]

-----------------------------------------------------------------------------
(* Compliance work (modules/compliance, application/services.py): control  *)
(* assessments whose evidence is sealed when they are submitted, reviews   *)
(* of who has access, security exceptions and the risk register.           *)
(*                                                                         *)
(* A published framework with its controls is given.  An evaluation is     *)
(* written under the lock of its assessment, which select_related joins,   *)
(* as an item of a review is under that of its campaign.                   *)

CONSTANTS
  Assessment, Control, Campaign, Access, Exception, Risk

ComplianceAssumption == MaxOpen \in Nat /\ Nobody \notin Member

VARIABLES
  assessment,  \* Assessment -> row: assessor, reviewer, what was sealed
  evaluation,  \* Assessment -> Control -> result
  campaign,    \* Campaign -> row: owner, reviewer
  decision,    \* Campaign -> Access -> decision
  exception,   \* Exception -> row: requester, reviewer
  risk,        \* Risk -> row
  evalTx       \* open transactions of evaluate_control

complianceVars == <<assessment, evaluation, campaign, decision, exception, risk, evalTx>>

Nothing == [c \in {} |-> "pending"]

AssessmentStages ==
  [draft |-> {"in_progress"}, in_progress |-> {"submitted"}, submitted |-> {"approved", "rejected"},
   rejected |-> {"in_progress"}]
CampaignStages ==
  [draft |-> {"active"}, active |-> {"submitted"}, submitted |-> {"approved"}, approved |-> {"closed"}]
ExceptionStages ==
  [requested |-> {"approved", "rejected"}, approved |-> {"revoked", "expired"}]
RiskStages ==
  [open |-> {"treatment", "accepted", "closed"}, treatment |-> {"accepted", "closed"},
   accepted |-> {"treatment", "closed"}, closed |-> {"open"}]

\* "compliant" stands for every result that is not pending.
Results == {"pending", "compliant", "partial"}
Decisions == {"retain", "remove"}

ComplianceAssessmentRow ==
  [status : {"draft", "in_progress", "submitted", "approved", "rejected"}, assessor : Member,
   reviewer : Member \cup {Nobody}, sealed : [Control -> Results] \cup {Nothing}]
AccessReviewCampaignRow ==
  [status : {"active", "submitted", "approved", "closed"}, owner : Member,
   reviewer : Member \cup {Nobody}]
SecurityExceptionRow ==
  [status : {"requested", "approved", "rejected", "revoked", "expired"}, by : Member,
   reviewer : Member \cup {Nobody}]
RiskRegisterItemRow == [status : DOMAIN RiskStages]

ComplianceInit ==
  /\ assessment = [a \in Assessment |-> Absent]
  /\ evaluation = [a \in Assessment |-> [c \in Control |-> "pending"]]
  /\ campaign = [k \in Campaign |-> Absent]
  /\ decision = [k \in Campaign |-> [x \in Access |-> "pending"]]
  /\ exception = [x \in Exception |-> Absent]
  /\ risk = [r \in Risk |-> Absent] /\ evalTx = {}

-----------------------------------------------------------------------------
(* Assessments.                                                            *)

CreateAssessment(a, m) ==
  /\ ~Has(assessment, a)
  /\ assessment' = [assessment EXCEPT ![a] =
       [status |-> "in_progress", assessor |-> m, reviewer |-> Nobody, sealed |-> Nothing]]
  /\ UNCHANGED <<evaluation, campaign, decision, exception, risk, evalTx>>

\* Mutant: of=("self",) leaves the assessment unlocked.
LocksOfEvaluationAlone(a, c) == {<<a, c>>}

LocksOfEvaluation(a, c) == {<<a>>, <<a, c>>}

CheckEvaluation(a, c) ==
  /\ In(assessment, a, {"draft", "in_progress"})
  /\ Cardinality(evalTx) < MaxOpen /\ Unlocked(evalTx, LocksOfEvaluation(a, c))
  /\ \E result \in Results :
       evalTx' = evalTx \cup {[of |-> a, control |-> c, result |-> result,
                               locks |-> LocksOfEvaluation(a, c)]}
  /\ UNCHANGED <<assessment, evaluation, campaign, decision, exception, risk>>

CommitEvaluation(t) ==
  /\ evaluation' = [evaluation EXCEPT ![t.of][t.control] = t.result]
  /\ evalTx' = evalTx \ {t}
  /\ UNCHANGED <<assessment, campaign, decision, exception, risk>>

RollbackEvaluation(t) ==
  evalTx' = evalTx \ {t} /\ UNCHANGED <<assessment, evaluation, campaign, decision, exception, risk>>

\* Submitting stores the score and the digest of the evidence.
TransitionAssessment(a, m) ==
  /\ Unlocked(evalTx, {<<a>>})
  /\ \E stage \in Offers(AssessmentStages, assessment, a) :
       /\ stage = "submitted" => \A c \in Control : evaluation[a][c] # "pending"
       /\ stage \in {"approved", "rejected"} => assessment[a].assessor # m
       /\ assessment' = [assessment EXCEPT ![a].status = stage,
            ![a].sealed = IF stage = "submitted" THEN evaluation[a] ELSE @,
            ![a].reviewer = IF stage \in {"approved", "rejected"} THEN m ELSE @]
  /\ UNCHANGED <<evaluation, campaign, decision, exception, risk, evalTx>>

-----------------------------------------------------------------------------
(* Access reviews: a campaign is created active, with the roles that the   *)
(* memberships have that day.                                              *)

CreateAccessReview(k, m) ==
  /\ ~Has(campaign, k)
  /\ campaign' = [campaign EXCEPT ![k] = [status |-> "active", owner |-> m, reviewer |-> Nobody]]
  /\ UNCHANGED <<assessment, evaluation, decision, exception, risk, evalTx>>

DecideAccessReviewItem(k, x) ==
  /\ In(campaign, k, {"active"})
  /\ \E d \in Decisions : decision' = [decision EXCEPT ![k][x] = d]
  /\ UNCHANGED <<assessment, evaluation, campaign, exception, risk, evalTx>>

TransitionAccessReview(k, m) ==
  /\ \E stage \in Offers(CampaignStages, campaign, k) :
       /\ stage = "submitted" => \A x \in Access : decision[k][x] # "pending"
       /\ stage = "approved" => campaign[k].owner # m
       /\ campaign' = [campaign EXCEPT ![k].status = stage,
            ![k].reviewer = IF stage = "approved" THEN m ELSE @]
  /\ UNCHANGED <<assessment, evaluation, decision, exception, risk, evalTx>>

-----------------------------------------------------------------------------
RequestException(x, m) ==
  /\ ~Has(exception, x)
  /\ exception' = [exception EXCEPT ![x] = [status |-> "requested", by |-> m, reviewer |-> Nobody]]
  /\ UNCHANGED <<assessment, evaluation, campaign, decision, risk, evalTx>>

\* Approving, rejecting, revoking and expiring alike.
DecideException(x, m) ==
  /\ \E stage \in Offers(ExceptionStages, exception, x) :
       /\ exception[x].by # m
       /\ exception' = [exception EXCEPT ![x].status = stage, ![x].reviewer = m]
  /\ UNCHANGED <<assessment, evaluation, campaign, decision, risk, evalTx>>

CreateRisk(r) ==
  /\ ~Has(risk, r)
  /\ risk' = [risk EXCEPT ![r] = [status |-> "open"]]
  /\ UNCHANGED <<assessment, evaluation, campaign, decision, exception, evalTx>>

TransitionRisk(r) ==
  /\ \E stage \in Offers(RiskStages, risk, r) : risk' = Moved(risk, r, stage)
  /\ UNCHANGED <<assessment, evaluation, campaign, decision, exception, evalTx>>

ComplianceNext ==
  \/ \E a \in Assessment, m \in Member : CreateAssessment(a, m) \/ TransitionAssessment(a, m)
  \/ \E a \in Assessment, c \in Control : CheckEvaluation(a, c)
  \/ \E t \in evalTx : CommitEvaluation(t) \/ RollbackEvaluation(t)
  \/ \E k \in Campaign, m \in Member : CreateAccessReview(k, m) \/ TransitionAccessReview(k, m)
  \/ \E k \in Campaign, x \in Access : DecideAccessReviewItem(k, x)
  \/ \E x \in Exception, m \in Member : RequestException(x, m) \/ DecideException(x, m)
  \/ \E r \in Risk : CreateRisk(r) \/ TransitionRisk(r)

ComplianceSpec == ComplianceInit /\ [][ComplianceNext]_complianceVars

-----------------------------------------------------------------------------
ComplianceTypeOK ==
  /\ assessment \in [Assessment -> ComplianceAssessmentRow \cup {Absent}]
  /\ evaluation \in [Assessment -> [Control -> Results]]
  /\ campaign \in [Campaign -> AccessReviewCampaignRow \cup {Absent}]
  /\ decision \in [Campaign -> [Access -> Decisions \cup {"pending"}]]
  /\ exception \in [Exception -> SecurityExceptionRow \cup {Absent}]
  /\ risk \in [Risk -> RiskRegisterItemRow \cup {Absent}]

\* What was sealed is what the evaluations say for as long as an assessment is
\* submitted, approved or rejected, whoever evaluates at the moment of its
\* submission; reviews that were submitted have no open item, and nobody
\* approved an assessment, a review or an exception of their own.
EvidenceIsSealed ==
  /\ \A a \in Assessment : In(assessment, a, {"submitted", "approved", "rejected"}) =>
       /\ assessment[a].sealed = evaluation[a]
       /\ \A c \in Control : evaluation[a][c] # "pending"
       /\ assessment[a].status # "submitted" => assessment[a].reviewer # assessment[a].assessor
  /\ \A k \in Campaign : In(campaign, k, {"submitted", "approved", "closed"}) =>
       /\ \A x \in Access : decision[k][x] # "pending"
       /\ campaign[k].reviewer # campaign[k].owner
  /\ \A x \in Exception : Has(exception, x) => exception[x].reviewer # exception[x].by

-----------------------------------------------------------------------------
(* Imports and records (modules/dataops, application/services.py): an      *)
(* import is staged row by row and then committed, each row behind a       *)
(* savepoint of its own; requests of data subjects, retention policies and *)
(* recovery exercises.                                                     *)

CONSTANTS
  Job, Row, Request, Policy, Exercise,
  KeyOf,     \* Job -> its idempotency key
  RowsOf,    \* Job -> its rows, numbered
  Invalid,   \* rows that the template refuses
  Broken,    \* rows that creating their target refuses
  CodeOf,    \* Row -> the code of the project or vendor it creates
  RecordType \* Policy -> the records it is about

DataOpsAssumption ==
  /\ IsFiniteSet(Row)
  /\ RowsOf \in [Job -> SUBSET Row] /\ Row \subseteq Nat /\ Invalid \subseteq Row /\ Broken \subseteq Row
  /\ \A j, k \in Job : j # k => RowsOf[j] \cap RowsOf[k] = {}

VARIABLES
  job,        \* Job -> row
  dataRow,        \* Row -> row
  target,     \* codes of the projects and vendors on record
  request,    \* Request -> row
  policy,     \* Policy -> row
  exercise    \* Exercise -> row

dataVars == <<job, dataRow, target, request, policy, exercise>>

DataInit ==
  /\ job = [j \in Job |-> Absent] /\ dataRow = [r \in Row |-> Absent] /\ target = {}
  /\ request = [q \in Request |-> Absent] /\ policy = [p \in Policy |-> Absent]
  /\ exercise = [e \in Exercise |-> Absent]

\* A key that is known returns the job it belongs to; one that another
\* transaction inserts meanwhile fails on the constraint.
CreateImportJob(j) ==
  LET bad == RowsOf[j] \cap Invalid IN
  /\ ~Has(job, j) /\ RowsOf[j] # {} /\ \A k \in Job : Has(job, k) => KeyOf[k] # KeyOf[j]
  /\ job' = [job EXCEPT ![j] = [status |-> IF bad = {} THEN "VALIDATED" ELSE "INVALID",
                                errors |-> Cardinality(bad), committed |-> 0]]
  /\ dataRow' = [r \in Row |-> IF r \in RowsOf[j]
                               THEN [status |-> IF r \in bad THEN "ERROR" ELSE "VALID"] ELSE dataRow[r]]
  /\ UNCHANGED <<target, request, policy, exercise>>

\* Somebody else creates a project or vendor with that code.
CreateElsewhere(code) ==
  /\ code \notin target /\ target' = target \cup {code}
  /\ UNCHANGED <<job, dataRow, request, policy, exercise>>

\* The rows that become a project or vendor: in the order of their numbers, the
\* first of each code that does not exist.
Accepted(valid) ==
  {r \in valid \ Broken : /\ CodeOf[r] \notin target
                          /\ \A x \in valid \ Broken : CodeOf[x] = CodeOf[r] => r <= x}

Errors(before, failed) == before + failed

CommitImportJob(j) ==
  LET valid == {r \in RowsOf[j] : In(dataRow, r, {"VALID"})}
      done == Accepted(valid)
      errors == Errors(job[j].errors, Cardinality(valid \ done))
  IN
  /\ In(job, j, {"VALIDATED", "INVALID"})
  /\ \E partially \in BOOLEAN : job[j].errors = 0 \/ partially
  /\ dataRow' = [r \in Row |-> IF r \in done THEN [status |-> "COMMITTED"]
                               ELSE IF r \in valid THEN [status |-> "ERROR"] ELSE dataRow[r]]
  /\ target' = target \cup {CodeOf[r] : r \in done}
  /\ job' = [job EXCEPT ![j] = [status |-> IF errors = 0 THEN "COMMITTED" ELSE "PARTIAL",
                                errors |-> errors, committed |-> @.committed + Cardinality(done)]]
  /\ UNCHANGED <<request, policy, exercise>>

-----------------------------------------------------------------------------
CreatePrivacyRequest(q) ==
  /\ ~Has(request, q) /\ request' = [request EXCEPT ![q] = [status |-> "RECEIVED"]]
  /\ UNCHANGED <<job, dataRow, target, policy, exercise>>

\* Whatever its status: a request that was rejected may be completed later.
ResolvePrivacyRequest(q) ==
  /\ Has(request, q)
  /\ \E to \in {"COMPLETED", "REJECTED", "CANCELLED"} : request' = Moved(request, q, to)
  /\ UNCHANGED <<job, dataRow, target, policy, exercise>>

Versions(p) == {policy[x].version : x \in {y \in Policy : Has(policy, y) /\ RecordType[y] = RecordType[p]}}

\* Ends the policy in force and starts the next; a second one that started
\* meanwhile violates the constraint on policies in force.
CreateRetentionPolicy(p) ==
  /\ ~Has(policy, p)
  /\ policy' = [x \in Policy |->
       IF x = p THEN [status |-> "ACTIVE", version |-> Cardinality(Versions(p)) + 1]
       ELSE IF Has(policy, x) /\ RecordType[x] = RecordType[p] THEN [policy[x] EXCEPT !.status = "ENDED"]
       ELSE policy[x]]
  /\ UNCHANGED <<job, dataRow, target, request, exercise>>

CreateRecoveryVerification(e) ==
  /\ ~Has(exercise, e) /\ exercise' = [exercise EXCEPT ![e] = [status |-> "PLANNED", within |-> FALSE]]
  /\ UNCHANGED <<job, dataRow, target, request, policy>>

\* May be measured again: the last measurement counts.
CompleteRecoveryVerification(e) ==
  /\ Has(exercise, e)
  /\ \E within \in BOOLEAN :
       exercise' = [exercise EXCEPT ![e] = [status |-> IF within THEN "PASSED" ELSE "FAILED", within |-> within]]
  /\ UNCHANGED <<job, dataRow, target, request, policy>>

DataNext ==
  \/ \E j \in Job : CreateImportJob(j) \/ CommitImportJob(j)
  \/ \E r \in Row : CreateElsewhere(CodeOf[r])
  \/ \E q \in Request : CreatePrivacyRequest(q) \/ ResolvePrivacyRequest(q)
  \/ \E p \in Policy : CreateRetentionPolicy(p)
  \/ \E e \in Exercise : CreateRecoveryVerification(e) \/ CompleteRecoveryVerification(e)

DataSpec == DataInit /\ [][DataNext]_dataVars

-----------------------------------------------------------------------------
ImportJobRow ==
  [status : {"VALIDATED", "INVALID", "COMMITTED", "PARTIAL"}, errors : 0..Cardinality(Row), committed : 0..Cardinality(Row)]
ImportStagingRow == [status : {"VALID", "ERROR", "COMMITTED"}]
PrivacyRequestRow == [status : {"RECEIVED", "COMPLETED", "REJECTED", "CANCELLED"}]
RetentionPolicyRow == [status : {"ACTIVE", "ENDED"}, version : 1..Cardinality(Policy)]
RecoveryVerificationRow == [status : {"PLANNED", "PASSED", "FAILED"}, within : BOOLEAN]

DataTypeOK ==
  /\ job \in [Job -> ImportJobRow \cup {Absent}] /\ dataRow \in [Row -> ImportStagingRow \cup {Absent}]
  /\ target \subseteq {CodeOf[r] : r \in Row}
  /\ request \in [Request -> PrivacyRequestRow \cup {Absent}] /\ policy \in [Policy -> RetentionPolicyRow \cup {Absent}]
  /\ exercise \in [Exercise -> RecoveryVerificationRow \cup {Absent}]

Count(j, status) == Cardinality({r \in RowsOf[j] : In(dataRow, r, {status})})

\* What a job says of its rows is what became of them, however many of them the
\* database refused; a job that is committed lost none; no two rows, of one job
\* or of two, claim to have created the same project or vendor.
ImportsAddUp ==
  /\ \A j \in Job : Has(job, j) =>
       /\ job[j].errors = Count(j, "ERROR") /\ job[j].committed = Count(j, "COMMITTED")
       /\ In(job, j, {"COMMITTED", "PARTIAL"}) => Count(j, "VALID") = 0
       /\ In(job, j, {"COMMITTED"}) => Count(j, "COMMITTED") = Cardinality(RowsOf[j])
  /\ \A r \in Row : In(dataRow, r, {"COMMITTED"}) => CodeOf[r] \in target
  /\ \A r, x \in Row : In(dataRow, r, {"COMMITTED"}) /\ In(dataRow, x, {"COMMITTED"}) /\ CodeOf[r] = CodeOf[x] => r = x

\* One policy is in force for each type of record, and it is the latest.
OnePolicyInForce ==
  \A p, q \in Policy : In(policy, p, {"ACTIVE"}) /\ Has(policy, q) /\ RecordType[p] = RecordType[q] /\ p # q =>
    In(policy, q, {"ENDED"}) /\ policy[q].version < policy[p].version
=============================================================================
