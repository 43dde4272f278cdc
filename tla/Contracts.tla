------------------------------ MODULE Contracts -----------------------------
(* Documents (DocumentSpec) and contracts (CommercialSpec) of a project:   *)
(* two services with tables of their own, of one shape, under policies of  *)
(* the same form.                                                          *)
EXTENDS Governed, Integers, FiniteSetsExt

-----------------------------------------------------------------------------
(* Document control (modules/documentops, application/services.py):        *)
(* controlled documents and their revisions, transmittals, requests for    *)
(* information, submittals, distributions, risks and approvals, all under  *)
(* one policy.                                                             *)
(*                                                                         *)
(* transition_revision locks the revision and, by its joins, the policy    *)
(* and the document, and saves the document it has read, every column of   *)
(* it: two steps.  The other services write one row, which they lock.      *)

CONSTANTS
  Member,
  Record, Kind,    \* records, and the table each belongs to
  DocumentOf,      \* revision -> document, distribution -> revision
  Step,
  Rules, Initial,  \* by kind
  MaxOpen          \* bound: transactions open at once

DocumentKinds == {"DOCUMENT", "REVISION", "TRANSMITTAL", "RFI", "SUBMITTAL", "DISTRIBUTION", "RISK"}

DocumentPolicy == IsPolicy(DocumentKinds, Rules, Initial)

NoRevision == "none"

DocumentsAssumption ==
  /\ DocumentPolicy
  /\ Kind \in [Record -> DocumentKinds] /\ MaxOpen \in Nat /\ NoRevision \notin Record
  /\ \A i \in Record :
       /\ Kind[i] = "REVISION" => DocumentOf[i] \in Record /\ Kind[DocumentOf[i]] = "DOCUMENT"
       /\ Kind[i] = "DISTRIBUTION" => DocumentOf[i] \in Record /\ Kind[DocumentOf[i]] = "REVISION"

VARIABLES
  item,      \* Record -> row; a document also has its current revision
  approval,  \* set of approvals
  tx         \* transactions of transition_revision between checks and commit

documentVars == <<item, approval, tx>>

Status(k) == {Initial[k]} \cup {t.to : t \in Rules[k]}

PaperRow(k) == [status : Status(k),
                stamps : SUBSET ({"acknowledged"} \cup {t.milestone : t \in Rules[k]})]

DocumentRow == [status : Status("DOCUMENT"), current : Record \cup {NoRevision},
                stamps : SUBSET {t.milestone : t \in Rules["DOCUMENT"]}]
RevisionRow == PaperRow("REVISION")
TransmittalRow == PaperRow("TRANSMITTAL")
RfiRow == [status : Status("RFI"), response : BOOLEAN,
           stamps : SUBSET ({"responded"} \cup {t.milestone : t \in Rules["RFI"]})]
SubmittalRow == PaperRow("SUBMITTAL")
DistributionRow == [status : {"DISTRIBUTED", "ACKNOWLEDGED"}, stamps : {{}}]
DocumentRiskRow == [status : {"OPEN", "RESOLVED"}, stamps : {{}}]
DocumentApprovalRow == ApprovalRow(Record, Step, Member)

DocumentInit == item = [i \in Record |-> Absent] /\ approval = {} /\ tx = {}

-----------------------------------------------------------------------------
DocumentCreated(k, i, row) ==
  /\ Kind[i] = k /\ ~Has(item, i)
  /\ item' = [item EXCEPT ![i] = row]
  /\ UNCHANGED <<approval, tx>>

Fresh(k) == [status |-> Initial[k], stamps |-> {}]

CreateDocument(i) ==
  DocumentCreated("DOCUMENT", i, [status |-> Initial["DOCUMENT"], stamps |-> {}, current |-> NoRevision])
CreateRevision(i) ==
  Kind[i] = "REVISION" /\ Has(item, DocumentOf[i]) /\ DocumentCreated("REVISION", i, Fresh("REVISION"))
CreateTransmittal(i) == DocumentCreated("TRANSMITTAL", i, Fresh("TRANSMITTAL"))
CreateRfi(i) == DocumentCreated("RFI", i, [status |-> Initial["RFI"], stamps |-> {}, response |-> FALSE])
CreateSubmittal(i) == DocumentCreated("SUBMITTAL", i, Fresh("SUBMITTAL"))
DocumentCreateRisk(i) == DocumentCreated("RISK", i, [status |-> "OPEN", stamps |-> {}])

MayDistribute(r) ==
  Has(item, r) /\ "issued" \in item[r].stamps /\ "superseded" \notin item[r].stamps

RecordDistribution(i) ==
  /\ Kind[i] = "DISTRIBUTION" /\ MayDistribute(DocumentOf[i])
  /\ DocumentCreated("DISTRIBUTION", i, [status |-> "DISTRIBUTED", stamps |-> {}])

AcknowledgeDistribution(i) ==
  /\ Kind[i] = "DISTRIBUTION" /\ In(item, i, {"DISTRIBUTED"})
  /\ Unlocked(tx, {DocumentOf[i], DocumentOf[DocumentOf[i]]})
  /\ item' = Moved(item, i, "ACKNOWLEDGED")
  /\ UNCHANGED <<approval, tx>>

-----------------------------------------------------------------------------
(* Transitions.                                                            *)

\* Rules that apply to record i of kind k, whose locks a caller can have.
DocumentApplicable(k, i) ==
  {t \in Allowed(Rules[k], item, i) :
     Kind[i] = k /\ Met(approval, i, t) /\ Unlocked(tx, {i, "policy"})}

TransitionDocument(i) ==
  /\ \E t \in DocumentApplicable("DOCUMENT", i) : item' = Stepped(item, i, t)
  /\ UNCHANGED <<approval, tx>>

\* A transmittal that is closed is acknowledged with it.
TransitionTransmittal(i) ==
  /\ \E t \in DocumentApplicable("TRANSMITTAL", i) :
       item' = [Stepped(item, i, t) EXCEPT
         ![i].stamps = @ \cup IF t.milestone = "closed" THEN {"acknowledged"} ELSE {}]
  /\ UNCHANGED <<approval, tx>>

Answers(t) == t.milestone \in {"responded", "closed"}

\* An answer needs a text, of now or of before.
TransitionRfi(i) ==
  /\ \E t \in DocumentApplicable("RFI", i), text \in BOOLEAN :
       IF Answers(t)
       THEN /\ text \/ item[i].response
            /\ item' = [Stepped(item, i, t) EXCEPT
                 ![i].response = TRUE, ![i].stamps = @ \cup {"responded"}]
       ELSE item' = Stepped(item, i, t)
  /\ UNCHANGED <<approval, tx>>

TransitionSubmittal(i) ==
  /\ \E t \in DocumentApplicable("SUBMITTAL", i) : item' = Stepped(item, i, t)
  /\ UNCHANGED <<approval, tx>>

DocumentResolveRisk(i) ==
  /\ Kind[i] = "RISK" /\ In(item, i, {"OPEN"}) /\ Unlocked(tx, {"policy"})
  /\ item' = Moved(item, i, "RESOLVED")
  /\ UNCHANGED <<approval, tx>>

\* Mutant: of=("self",) leaves the document and the policy unlocked.
LocksOfRevisionAlone(i) == {i}

LocksOfRevision(i) == {i, DocumentOf[i], "policy"}

CheckRevision(i) ==
  /\ Kind[i] = "REVISION"
  /\ Cardinality(tx) < MaxOpen /\ Unlocked(tx, LocksOfRevision(i))
  /\ \E t \in Allowed(Rules["REVISION"], item, i) :
       /\ Met(approval, i, t)
       /\ t.milestone = "superseded" => "issued" \in item[i].stamps
       /\ tx' = tx \cup {[revision |-> i, rule |-> t, document |-> item[DocumentOf[i]],
                          locks |-> LocksOfRevision(i)]}
  /\ UNCHANGED <<item, approval>>

\* Issuing saves the document as it was read, with the new current revision.
CommitRevision(x) ==
  /\ LET after == Stepped(item, x.revision, x.rule) IN
     item' = IF x.rule.milestone = "issued"
             THEN [after EXCEPT ![DocumentOf[x.revision]] = [x.document EXCEPT !.current = x.revision]]
             ELSE after
  /\ tx' = tx \ {x}
  /\ UNCHANGED approval

RollbackRevision(x) == tx' = tx \ {x} /\ UNCHANGED <<item, approval>>

-----------------------------------------------------------------------------
DocumentRequestApproval(i, s, m, from) ==
  /\ MayRequest(approval, i, s, m, from)
  /\ approval' = approval \cup {Requested(i, s, m, from)}
  /\ UNCHANGED <<item, tx>>

DocumentDecideApproval(x, m) ==
  /\ x.status = "PENDING" /\ x.by # m /\ x.from = m /\ Unlocked(tx, {"policy"})
  /\ \E verdict \in Verdicts : approval' = Decided(approval, x, verdict, m)
  /\ UNCHANGED <<item, tx>>

DocumentNext ==
  \/ \E i \in Record :
       \/ CreateDocument(i) \/ CreateRevision(i) \/ CreateTransmittal(i) \/ CreateRfi(i)
       \/ CreateSubmittal(i) \/ DocumentCreateRisk(i) \/ RecordDistribution(i) \/ AcknowledgeDistribution(i)
       \/ TransitionDocument(i) \/ TransitionTransmittal(i) \/ TransitionRfi(i)
       \/ TransitionSubmittal(i) \/ DocumentResolveRisk(i) \/ CheckRevision(i)
       \/ \E s \in Step, m, from \in Member : DocumentRequestApproval(i, s, m, from)
  \/ \E x \in tx : CommitRevision(x) \/ RollbackRevision(x)
  \/ \E x \in approval, m \in Member : DocumentDecideApproval(x, m)

DocumentSpec == DocumentInit /\ [][DocumentNext]_documentVars

-----------------------------------------------------------------------------
DocumentRowOf(i) ==
  CASE Kind[i] = "DOCUMENT" -> DocumentRow [] Kind[i] = "REVISION" -> RevisionRow
    [] Kind[i] = "TRANSMITTAL" -> TransmittalRow [] Kind[i] = "RFI" -> RfiRow
    [] Kind[i] = "SUBMITTAL" -> SubmittalRow [] Kind[i] = "DISTRIBUTION" -> DistributionRow
    [] OTHER -> DocumentRiskRow

DocumentTypeOK ==
  /\ DOMAIN item = Record /\ \A i \in Record : item[i] \in DocumentRowOf(i) \cup {Absent}
  /\ approval \subseteq DocumentApprovalRow /\ Cardinality(tx) <= MaxOpen

\* The current revision of a document is one of its own that was issued with
\* its approvals, only such a revision was handed out, and no request for
\* information is closed without an answer.
OnlyIssuedIsCurrent ==
  \A i \in Record : Has(item, i) =>
    /\ Kind[i] = "DOCUMENT" /\ item[i].current # NoRevision =>
         DocumentOf[item[i].current] = i /\ "issued" \in item[item[i].current].stamps
    /\ Kind[i] = "DISTRIBUTION" => "issued" \in item[DocumentOf[i]].stamps
    /\ Kind[i] = "RFI" /\ "closed" \in item[i].stamps => item[i].response

\* A revision that is issued while its document changes status does not bring
\* the old status back: a document leaves its status by its own rules alone.
NoStatusIsLost ==
  \A i \in Record : Kind[i] = "DOCUMENT" /\ Has(item, i) /\ item'[i].status # item[i].status =>
    \E t \in Rules["DOCUMENT"] : t.from = item[i].status /\ t.to = item'[i].status

-----------------------------------------------------------------------------
(* Commercial management (modules/commercialops, application/services.py): *)
(* contracts, milestones, variations, payment applications, claims,        *)
(* extensions of time, approvals and risks under one policy.               *)
(*                                                                         *)
(* transition_record serves six tables.  It locks the record and, by the   *)
(* join, the policy; an approved variation then locks the contract and     *)
(* adds its value: two steps.                                              *)

CONSTANTS
  ContractOf,  \* contract of every record but contracts
  ClaimOf,     \* claim that an extension of time is linked to
  Values,      \* values of contracts and variations
  MaxApprovals \* bound: how often one variation is approved

CommercialKinds == {"CONTRACT", "MILESTONE", "VARIATION", "PAYMENT", "CLAIM", "EOT", "RISK"}

CommercialPolicy == IsPolicy(CommercialKinds, Rules, Initial)

CommercialAssumption ==
  /\ CommercialPolicy
  /\ IsFiniteSet(Record) /\ Kind \in [Record -> CommercialKinds] /\ Values \subseteq Nat
  /\ MaxOpen \in Nat /\ MaxApprovals \in Nat
  /\ \A i \in Record : Kind[i] \notin {"CONTRACT", "RISK"} =>
       ContractOf[i] \in Record /\ Kind[ContractOf[i]] = "CONTRACT"

\* No rule after an approval approves again or leads back (seed_commercial_policy
\* has no rule from APPROVED at all).  Neither clean() of a policy version nor
\* transition_record wants this: where it is not so, a value is added again.
ApprovedForGood ==
  \A t, u \in Rules["VARIATION"] : t.milestone = "approved" /\ u.from = t.to =>
    u.milestone # "approved" /\ u.to \notin {v.from : v \in Rules["VARIATION"]}

commercialVars == <<item, approval, tx>>

Unset == -1

Stamps(k) == SUBSET {t.milestone : t \in Rules[k]}

CommercialRow(k) == [status : Status(k), stamps : Stamps(k)]

ContractRow == [status : Status("CONTRACT"), stamps : Stamps("CONTRACT"),
                original : Values, varied : Nat, current : Nat]
MilestoneRow == CommercialRow("MILESTONE")
VariationRow == [status : Status("VARIATION"), stamps : Stamps("VARIATION"),
                 value : Values \cup {Unset},
                 times : Nat]  \* history: how often it was approved
CommercialPaymentRow == [status : Status("PAYMENT"), stamps : Stamps("PAYMENT"),
               certified : BOOLEAN, net : {"given", "computed", "unset"}]
ClaimRow == CommercialRow("CLAIM")
EotRow == CommercialRow("EOT")
CommercialRiskRow == [status : {"OPEN", "RESOLVED"}, stamps : {{}}]
CommercialApprovalRow == ApprovalRow(Record, Step, Member)

CommercialInit == item = [i \in Record |-> Absent] /\ approval = {} /\ tx = {}

-----------------------------------------------------------------------------
CommercialCreated(k, i, row) ==
  /\ Kind[i] = k /\ ~Has(item, i)
  /\ k \notin {"CONTRACT", "RISK"} => Has(item, ContractOf[i])
  /\ item' = [item EXCEPT ![i] = row]
  /\ UNCHANGED <<approval, tx>>

CreateContract(i) ==
  \E v \in Values : CommercialCreated("CONTRACT", i, [status |-> Initial["CONTRACT"], stamps |-> {},
                                                      original |-> v, varied |-> 0, current |-> v])
CreateMilestone(i) == CommercialCreated("MILESTONE", i, Fresh("MILESTONE"))
CreateVariation(i) ==
  \E v \in Values \cup {Unset} :
    CommercialCreated("VARIATION", i, [status |-> Initial["VARIATION"], stamps |-> {}, value |-> v, times |-> 0])

\* The net payable is the caller's, or computed from a certified amount.
CreateCommercialPayment(i) ==
  \E certified \in BOOLEAN, net \in {"given", "computed", "unset"} :
    /\ net = "computed" => certified
    /\ net = "unset" => ~certified
    /\ CommercialCreated("PAYMENT", i, [status |-> Initial["PAYMENT"], stamps |-> {},
                                        certified |-> certified, net |-> net])
CreateClaim(i) == CommercialCreated("CLAIM", i, Fresh("CLAIM"))
CreateEot(i) ==
  /\ Kind[i] = "EOT" /\ i \in DOMAIN ClaimOf =>
       Has(item, ClaimOf[i]) /\ ContractOf[ClaimOf[i]] = ContractOf[i]
  /\ CommercialCreated("EOT", i, Fresh("EOT"))
CommercialCreateRisk(i) == CommercialCreated("RISK", i, [status |-> "OPEN", stamps |-> {}])

-----------------------------------------------------------------------------
(* transition_record.                                                      *)

CommercialApplicable(i) == {t \in Allowed(Rules[Kind[i]], item, i) : Met(approval, i, t)}

\* Contracts, milestones, claims and extensions: the stamp is all there is.
TransitionPlain(i) ==
  /\ Kind[i] \in {"CONTRACT", "MILESTONE", "CLAIM", "EOT"} /\ Unlocked(tx, {i, "policy"})
  /\ \E t \in CommercialApplicable(i) : item' = Stepped(item, i, t)
  /\ UNCHANGED <<approval, tx>>

NetCertified(i) == "computed"

TransitionPayment(i) ==
  /\ Kind[i] = "PAYMENT" /\ Unlocked(tx, {i, "policy"})
  /\ \E t \in CommercialApplicable(i) :
       /\ t.milestone = "certified" => item[i].certified
       /\ item' = [Stepped(item, i, t) EXCEPT
            ![i].net = IF t.milestone = "certified" THEN NetCertified(i) ELSE @]
  /\ UNCHANGED <<approval, tx>>

\* Mutant: of=("self",), and the contract is read without a lock.
LocksOfVariationAlone(i) == {i}

LocksOfVariation(i) == {i, ContractOf[i], "policy"}

\* The contract is read under the locks that the transaction has by then.
CheckVariation(i) ==
  /\ Kind[i] = "VARIATION" /\ Cardinality(tx) < MaxOpen /\ Unlocked(tx, LocksOfVariation(i))
  /\ \E t \in CommercialApplicable(i) :
       /\ t.milestone = "approved" => item[i].value # Unset /\ item[i].times < MaxApprovals
       /\ tx' = tx \cup {[variation |-> i, rule |-> t, contract |-> item[ContractOf[i]],
                          locks |-> LocksOfVariation(i)]}
  /\ UNCHANGED <<item, approval>>

CommitVariation(x) ==
  /\ LET after == Stepped(item, x.variation, x.rule)
         varied == x.contract.varied + item[x.variation].value
     IN item' = IF x.rule.milestone = "approved"
                THEN [after EXCEPT ![x.variation].times = @ + 1, ![ContractOf[x.variation]] =
                       [x.contract EXCEPT !.varied = varied, !.current = x.contract.original + varied]]
                ELSE after
  /\ tx' = tx \ {x}
  /\ UNCHANGED approval

RollbackVariation(x) == tx' = tx \ {x} /\ UNCHANGED <<item, approval>>

CommercialResolveRisk(i) ==
  /\ Kind[i] = "RISK" /\ In(item, i, {"OPEN"}) /\ Unlocked(tx, {"policy"})
  /\ item' = Moved(item, i, "RESOLVED")
  /\ UNCHANGED <<approval, tx>>

-----------------------------------------------------------------------------
\* An approver need not be named, and any member but the requester decides.
CommercialRequestApproval(i, s, m, from) ==
  /\ MayRequest(approval, i, s, m, from)
  /\ approval' = approval \cup {Requested(i, s, m, from)}
  /\ UNCHANGED <<item, tx>>

CommercialDecideApproval(x, m) ==
  /\ x.status = "PENDING" /\ x.by # m /\ Unlocked(tx, {"policy"})
  /\ \E verdict \in Verdicts : approval' = Decided(approval, x, verdict, m)
  /\ UNCHANGED <<item, tx>>

CommercialNext ==
  \/ \E i \in Record :
       \/ CreateContract(i) \/ CreateMilestone(i) \/ CreateVariation(i) \/ CreateCommercialPayment(i)
       \/ CreateClaim(i) \/ CreateEot(i) \/ CommercialCreateRisk(i)
       \/ TransitionPlain(i) \/ TransitionPayment(i) \/ CheckVariation(i) \/ CommercialResolveRisk(i)
       \/ \E s \in Step, m \in Member, from \in Member \cup {Nobody} : CommercialRequestApproval(i, s, m, from)
  \/ \E x \in tx : CommitVariation(x) \/ RollbackVariation(x)
  \/ \E x \in approval, m \in Member : CommercialDecideApproval(x, m)

CommercialSpec == CommercialInit /\ [][CommercialNext]_commercialVars

-----------------------------------------------------------------------------
CommercialRowOf(i) ==
  CASE Kind[i] = "CONTRACT" -> ContractRow [] Kind[i] = "MILESTONE" -> MilestoneRow
    [] Kind[i] = "VARIATION" -> VariationRow [] Kind[i] = "PAYMENT" -> CommercialPaymentRow
    [] Kind[i] = "CLAIM" -> ClaimRow [] Kind[i] = "EOT" -> EotRow [] OTHER -> CommercialRiskRow

CommercialTypeOK ==
  /\ DOMAIN item = Record /\ \A i \in Record : item[i] \in CommercialRowOf(i) \cup {Absent}
  /\ approval \subseteq CommercialApprovalRow /\ Cardinality(tx) <= MaxOpen

\* What variation v has added to its contract.
Added(table, v) == IF Has(table, v) THEN table[v].times * table[v].value ELSE 0

VariationsOf(c) == {v \in Record : Kind[v] = "VARIATION" /\ ContractOf[v] = c}

\* A contract is worth what was agreed and the values of its variations, each as
\* often as it was approved, whoever approves which of them at the same time; that
\* is once where the policy approves for good.  What is stamped approved was
\* counted, and the net of a certified payment is computed from what was certified.
ContractValueAgrees ==
  \A i \in Record : Has(item, i) =>
    /\ Kind[i] = "CONTRACT" =>
         /\ item[i].current = item[i].original + item[i].varied
         /\ item[i].varied = MapThenSumSet(LAMBDA v : Added(item, v), VariationsOf(i))
    /\ Kind[i] = "VARIATION" =>
         /\ "approved" \in item[i].stamps <=> item[i].times > 0
         /\ ApprovedForGood => item[i].times <= 1
    /\ Kind[i] = "PAYMENT" /\ "certified" \in item[i].stamps => item[i].net = "computed"
=============================================================================
