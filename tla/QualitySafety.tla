---------------------------- MODULE QualitySafety ---------------------------
(* Quality (QualitySpec) and safety (SafetySpec) of a project: two         *)
(* services with tables of their own, of one shape, under policies of the  *)
(* same form.                                                              *)
EXTENDS Governed

-----------------------------------------------------------------------------
(* Quality control (modules/qualityops, application/services.py): test     *)
(* plans, inspection requests, inspections, test results, nonconformance   *)
(* reports, corrective actions and risks under one policy, and the         *)
(* approvals that their transitions require.                               *)

CONSTANTS
  Member,         \* memberships: maker, checker, owner
  Item, Kind,     \* records, and the table each belongs to
  Step,           \* approval steps
  Rules, Initial  \* by kind: rules of Governed, first status

QualityKinds == {"ITP", "REQUEST", "INSPECTION", "TEST", "NCR", "ACTION", "RISK"}

QualityPolicy == IsPolicy(QualityKinds, Rules, Initial)

QualityAssumption == QualityPolicy /\ Kind \in [Item -> QualityKinds] /\ Nobody \notin Member

VARIABLES
  item,     \* Item -> row; an action also has its owner and who verified it
  approval  \* set of approvals

qualityVars == <<item, approval>>

Status(k) == {Initial[k]} \cup {t.to : t \in Rules[k]}

Stamp(k) == {t.milestone : t \in Rules[k]}

QualityRow(k) == [status : Status(k), stamps : SUBSET Stamp(k)]

ItpRow == QualityRow("ITP")
RequestRow == QualityRow("REQUEST")
QualityInspectionRow == [status : {"SCHEDULED", "COMPLETED"}, stamps : {{}}]
TestRow == [status : {"RECORDED"}, stamps : {{}}]
NcrRow == QualityRow("NCR")
QualityActionRow == [status : Status("ACTION"), stamps : SUBSET Stamp("ACTION"),
                     owner : Member \cup {Nobody}, verifier : Member \cup {Nobody}]
QualityRiskRow == [status : {"OPEN", "RESOLVED"}, stamps : {{}}]
QualityApprovalRow == ApprovalRow(Item, Step, Member)

QualityInit == item = [i \in Item |-> Absent] /\ approval = {}

-----------------------------------------------------------------------------
Created(k, i, row) ==
  /\ Kind[i] = k /\ ~Has(item, i)
  /\ item' = [item EXCEPT ![i] = row]
  /\ UNCHANGED approval

Fresh(k) == [status |-> Initial[k], stamps |-> {}]

CreateItp(i) == Created("ITP", i, Fresh("ITP"))
CreateInspectionRequest(i) == Created("REQUEST", i, Fresh("REQUEST"))
CreateNcr(i) == Created("NCR", i, Fresh("NCR"))
QualityCreateRisk(i) == Created("RISK", i, [status |-> "OPEN", stamps |-> {}])

\* What is recorded with a completion time is born COMPLETED.
QualityRecordInspection(i) ==
  \E status \in {"SCHEDULED", "COMPLETED"} :
    Created("INSPECTION", i, [status |-> status, stamps |-> {}])

RecordTestResult(i) == Created("TEST", i, [status |-> "RECORDED", stamps |-> {}])

QualityCreateAction(i) ==
  \E owner \in Member \cup {Nobody} :
    Created("ACTION", i, [status |-> Initial["ACTION"], stamps |-> {},
                          owner |-> owner, verifier |-> Nobody])

-----------------------------------------------------------------------------
QualityTransitioned(k, i) ==
  /\ Kind[i] = k
  /\ \E t \in Allowed(Rules[k], item, i) : Met(approval, i, t) /\ item' = Stepped(item, i, t)
  /\ UNCHANGED approval

TransitionItp(i) == QualityTransitioned("ITP", i)
TransitionInspectionRequest(i) == QualityTransitioned("REQUEST", i)
TransitionNcr(i) == QualityTransitioned("NCR", i)

\* The owner cannot verify, and full_clean wants the completion first.
MayVerify(i, m) == item[i].owner # m /\ "completed" \in item[i].stamps

QualityTransitionAction(i, m) ==
  /\ Kind[i] = "ACTION"
  /\ \E t \in Allowed(Rules["ACTION"], item, i) :
       /\ Met(approval, i, t)
       /\ t.milestone = "verified" => MayVerify(i, m)
       /\ item' = [Stepped(item, i, t) EXCEPT
            ![i].verifier = IF t.milestone = "verified" THEN m ELSE @]
  /\ UNCHANGED approval

QualityResolveRisk(i) ==
  /\ Kind[i] = "RISK" /\ In(item, i, {"OPEN"})
  /\ item' = Moved(item, i, "RESOLVED")
  /\ UNCHANGED approval

-----------------------------------------------------------------------------
QualityRequestApproval(i, s, m, from) ==
  /\ MayRequest(approval, i, s, m, from)
  /\ approval' = approval \cup {Requested(i, s, m, from)}
  /\ UNCHANGED item

MayDecide(x, m) == x.status = "PENDING" /\ x.by # m /\ x.from = m

QualityDecideApproval(x, m) ==
  /\ MayDecide(x, m)
  /\ \E verdict \in Verdicts : approval' = Decided(approval, x, verdict, m)
  /\ UNCHANGED item

QualityNext ==
  \/ \E i \in Item :
       \/ CreateItp(i) \/ CreateInspectionRequest(i) \/ QualityRecordInspection(i) \/ RecordTestResult(i)
       \/ CreateNcr(i) \/ QualityCreateAction(i) \/ QualityCreateRisk(i)
       \/ TransitionItp(i) \/ TransitionInspectionRequest(i) \/ TransitionNcr(i) \/ QualityResolveRisk(i)
       \/ \E m \in Member : QualityTransitionAction(i, m)
       \/ \E s \in Step, m, from \in Member : QualityRequestApproval(i, s, m, from)
  \/ \E x \in approval, m \in Member : QualityDecideApproval(x, m)

QualitySpec == QualityInit /\ [][QualityNext]_qualityVars

-----------------------------------------------------------------------------
QualityRowOf(i) ==
  CASE Kind[i] = "ITP" -> ItpRow [] Kind[i] = "REQUEST" -> RequestRow
    [] Kind[i] = "INSPECTION" -> QualityInspectionRow [] Kind[i] = "TEST" -> TestRow
    [] Kind[i] = "NCR" -> NcrRow [] Kind[i] = "ACTION" -> QualityActionRow [] OTHER -> QualityRiskRow

QualityTypeOK ==
  /\ DOMAIN item = Item /\ \A i \in Item : item[i] \in QualityRowOf(i) \cup {Absent}
  /\ approval \subseteq QualityApprovalRow

\* Whatever a record went through, rework included, the approvals that its
\* status required still stand, decided by someone who did not ask for them; and
\* no corrective action was verified by its owner or before it was completed.
QualityIsReviewed ==
  \A i \in Item :
    /\ Kind[i] \in {"ITP", "REQUEST", "NCR", "ACTION"} =>
         Reviewed(Rules[Kind[i]], Initial[Kind[i]], item, approval, i)
    /\ Kind[i] = "ACTION" /\ Has(item, i) /\ "verified" \in item[i].stamps =>
         item[i].verifier # item[i].owner /\ "completed" \in item[i].stamps

-----------------------------------------------------------------------------
(* Site safety (modules/safetyops, application/services.py): observations, *)
(* incidents, permits to work, inspections, toolbox talks, corrective      *)
(* actions, approvals and risks under one policy.                          *)

CONSTANTS
  AutoAction   \* inspection -> the action whose code is AUTO-<inspection code>

SafetyKinds == {"OBSERVATION", "INCIDENT", "PERMIT", "INSPECTION", "TALK", "ACTION", "RISK"}

\* OPEN is the configured initial_risk_status.
SafetyPolicy == IsPolicy(SafetyKinds, Rules, Initial) /\ Initial["RISK"] = "OPEN"

SafetyAssumption ==
  /\ SafetyPolicy /\ Nobody \notin Member
  /\ Kind \in [Item -> SafetyKinds]
  /\ \A i \in DOMAIN AutoAction :
       i \in Item /\ AutoAction[i] \in Item /\ Kind[i] = "INSPECTION" /\ Kind[AutoAction[i]] = "ACTION"
  /\ \A i, j \in DOMAIN AutoAction : AutoAction[i] = AutoAction[j] => i = j

safetyVars == <<item, approval>>

Nothing == "nothing"

SafetyRow(k) == [status : Status(k), stamps : SUBSET {t.milestone : t \in Rules[k]}]

ObservationRow == SafetyRow("OBSERVATION")
IncidentRow == [status : Status("INCIDENT"), critical : BOOLEAN,
                stamps : SUBSET {t.milestone : t \in Rules["INCIDENT"]}]
PermitRow == SafetyRow("PERMIT")
SafetyInspectionRow == [status : {"OPEN", "PASSED", "FAILED"}, stamps : {{}}]
TalkRow == [status : {"RECORDED"}, stamps : {{}}]
SafetyActionRow == [status : Status("ACTION"), source : Item \cup {Nothing},
                    stamps : SUBSET {t.milestone : t \in Rules["ACTION"]}]
SafetyRiskRow == [status : {"OPEN", "RESOLVED"}, source : Item \cup {Nothing}, stamps : {{}}]
SafetyApprovalRow == ApprovalRow(Item, Step, Member)

SafetyInit == item = [i \in Item |-> Absent] /\ approval = {}

-----------------------------------------------------------------------------

Following(k, source) == [status |-> Initial[k], stamps |-> {}, source |-> source]

\* Rows inserted in one transaction: all of them new, or none is written.
Inserted(rows) ==
  /\ \A i \in DOMAIN rows : ~Has(item, i)
  /\ item' = [i \in Item |-> IF i \in DOMAIN rows THEN rows[i] ELSE item[i]]
  /\ UNCHANGED approval

CreateObservation(i) == Kind[i] = "OBSERVATION" /\ Inserted([x \in {i} |-> Fresh("OBSERVATION")])
CreatePermit(i) == Kind[i] = "PERMIT" /\ Inserted([x \in {i} |-> Fresh("PERMIT")])
RecordToolboxTalk(i) ==
  Kind[i] = "TALK" /\ Inserted([x \in {i} |-> [status |-> "RECORDED", stamps |-> {}]])
SafetyCreateAction(i) == Kind[i] = "ACTION" /\ Inserted([x \in {i} |-> Following("ACTION", Nothing)])
SafetyCreateRisk(i) == Kind[i] = "RISK" /\ Inserted([x \in {i} |-> Following("RISK", Nothing)])

\* A severity of critical_severity_codes raises a risk with the incident.
ReportIncident(i) ==
  /\ Kind[i] = "INCIDENT"
  /\ LET incident(critical) == [status |-> Initial["INCIDENT"], stamps |-> {}, critical |-> critical]
     IN \/ Inserted([x \in {i} |-> incident(FALSE)])
        \/ \E r \in Item : Kind[r] = "RISK" /\
             Inserted([x \in {i, r} |-> IF x = i THEN incident(TRUE) ELSE Following("RISK", i)])

\* Mutant: the code of the action is taken, and the inspection is kept alone.
FollowUpIfNew(i, failed) ==
  IF failed /\ ~Has(item, AutoAction[i]) THEN {i, AutoAction[i]} ELSE {i}

\* The rows that an inspection inserts: one that is completed and not accepted
\* comes with a corrective action, whose code must be new.
FollowUp(i, failed) == IF failed THEN {i, AutoAction[i]} ELSE {i}

SafetyRecordInspection(i) ==
  /\ i \in DOMAIN AutoAction
  /\ \E result \in {"OPEN", "PASSED", "FAILED"} :
       Inserted([x \in FollowUp(i, result = "FAILED") |->
         IF x = i THEN [status |-> result, stamps |-> {}] ELSE Following("ACTION", i)])

-----------------------------------------------------------------------------
SafetyTransitioned(k, i) ==
  /\ Kind[i] = k
  /\ \E t \in Allowed(Rules[k], item, i) : Met(approval, i, t) /\ item' = Stepped(item, i, t)
  /\ UNCHANGED approval

TransitionObservation(i) == SafetyTransitioned("OBSERVATION", i)
TransitionIncident(i) == SafetyTransitioned("INCIDENT", i)
TransitionPermit(i) == SafetyTransitioned("PERMIT", i)

\* full_clean wants the completion before the verification.
SafetyTransitionAction(i) ==
  SafetyTransitioned("ACTION", i) /\ ("verified" \in item'[i].stamps => "completed" \in item'[i].stamps)

SafetyResolveRisk(i) ==
  /\ Kind[i] = "RISK" /\ In(item, i, {"OPEN"})
  /\ item' = Moved(item, i, "RESOLVED")
  /\ UNCHANGED approval

SafetyRequestApproval(i, s, m, from) ==
  /\ MayRequest(approval, i, s, m, from)
  /\ approval' = approval \cup {Requested(i, s, m, from)}
  /\ UNCHANGED item

\* Mutant: whoever asked may decide as well, whomever was asked.
SafetyDecideByAnyone(x, m) ==
  /\ x.status = "PENDING"
  /\ \E verdict \in Verdicts : approval' = Decided(approval, x, verdict, m)
  /\ UNCHANGED item

\* Any member but the maker decides, the one who was asked or not.
SafetyDecideApproval(x, m) ==
  /\ x.status = "PENDING" /\ x.by # m
  /\ \E verdict \in Verdicts : approval' = Decided(approval, x, verdict, m)
  /\ UNCHANGED item

SafetyNext ==
  \/ \E i \in Item :
       \/ CreateObservation(i) \/ CreatePermit(i) \/ RecordToolboxTalk(i) \/ SafetyCreateAction(i)
       \/ SafetyCreateRisk(i) \/ ReportIncident(i) \/ SafetyRecordInspection(i)
       \/ TransitionObservation(i) \/ TransitionIncident(i) \/ TransitionPermit(i)
       \/ SafetyTransitionAction(i) \/ SafetyResolveRisk(i)
       \/ \E s \in Step, m, from \in Member : SafetyRequestApproval(i, s, m, from)
  \/ \E x \in approval, m \in Member : SafetyDecideApproval(x, m)

SafetySpec == SafetyInit /\ [][SafetyNext]_safetyVars

-----------------------------------------------------------------------------
SafetyRowOf(i) ==
  CASE Kind[i] = "OBSERVATION" -> ObservationRow [] Kind[i] = "INCIDENT" -> IncidentRow
    [] Kind[i] = "PERMIT" -> PermitRow [] Kind[i] = "INSPECTION" -> SafetyInspectionRow
    [] Kind[i] = "TALK" -> TalkRow [] Kind[i] = "ACTION" -> SafetyActionRow [] OTHER -> SafetyRiskRow

SafetyTypeOK ==
  /\ DOMAIN item = Item /\ \A i \in Item : item[i] \in SafetyRowOf(i) \cup {Absent}
  /\ approval \subseteq SafetyApprovalRow

\* Nothing that went wrong is without its follow-up: every critical incident
\* has its risk and every failed inspection its corrective action, in whatever
\* order rows with the same codes were inserted.
FailuresAreFollowedUp ==
  \A i \in Item : Has(item, i) =>
    /\ Kind[i] = "INCIDENT" /\ item[i].critical =>
         \E r \in Item : Kind[r] = "RISK" /\ Has(item, r) /\ item[r].source = i
    /\ Kind[i] = "INSPECTION" /\ In(item, i, {"FAILED"}) =>
         Has(item, AutoAction[i]) /\ item[AutoAction[i]].source = i

\* The approvals that a record's status required still stand, and nobody decided
\* on one that he had asked for, though whoever was asked need not decide.
SafetyIsReviewed ==
  \A i \in Item : Kind[i] \in {"OBSERVATION", "INCIDENT", "PERMIT", "ACTION"} =>
    Reviewed(Rules[Kind[i]], Initial[Kind[i]], item, approval, i)
=============================================================================
