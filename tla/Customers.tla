------------------------------ MODULE Customers -----------------------------
(* Leads and what they become (CrmSpec), the pipelines and fields they     *)
(* have (CrmSetupSpec), and their relations and activities (RelationSpec). *)
EXTENDS Rows, Sequences, FiniteSetsExt

-----------------------------------------------------------------------------
(* Leads and opportunities (modules/crm, application/services.py) with the *)
(* automation they set off (application/automation.py): enquiries of one   *)
(* contact, their pipeline, their conversion, and the rules that run       *)
(* inside the transaction of every change and may write the record again.  *)
(*                                                                         *)
(* convert_lead locks the lead alone, of=("self",), and writes the contact *)
(* as it read it.  A rule that fails undoes what it wrote in a savepoint,  *)
(* but the record in memory keeps its version, which a later rule stores.  *)

CONSTANTS
  CrmLead,
  Rules,        \* automation rules by priority: trigger, stop, and the writes of the record its actions make
  LeadNext, OpportunityNext,   \* the configured stages: code -> allowed_next_codes
  CrmMaxVersion    \* bound: version of a record

RuleShape == [trigger : {"created", "stage_changed"}, of : {"lead", "opportunity"}, bumps : 0..2, stop : BOOLEAN]

CrmAssumption ==
  /\ Rules \in Seq(RuleShape) /\ CrmMaxVersion \in Nat
  /\ {"new", "qualified", "converted", "disqualified"} \subseteq DOMAIN LeadNext /\ {"won", "lost"} \subseteq DOMAIN OpportunityNext
  /\ \A s \in DOMAIN LeadNext : LeadNext[s] \subseteq DOMAIN LeadNext
  /\ \A s \in DOMAIN OpportunityNext : OpportunityNext[s] \subseteq DOMAIN OpportunityNext

VARIABLES
  contact,      \* row: customer and version
  crmLead,         \* Lead -> row: its stage is its status; customer, version, when it was closed, how it came
  crmOpportunity,  \* Lead -> row: the opportunity the lead became
  history,      \* StageHistory
  snapshot,     \* Lead -> row: ConversionSnapshot
  converting,   \* Lead -> the contact as its open conversion read it
  execution     \* CrmAutomationExecution

crmVars == <<contact, crmLead, crmOpportunity, history, snapshot, converting, execution>>

NoCustomer == "no customer"
CrmIdle == [customer |-> NoCustomer, version |-> 0]

CrmInit ==
  /\ contact = [customer |-> NoCustomer, version |-> 1] /\ history = {} /\ execution = {}
  /\ crmLead = [l \in CrmLead |-> Absent] /\ crmOpportunity = crmLead /\ snapshot = crmLead
  /\ converting = [l \in CrmLead |-> CrmIdle]

-----------------------------------------------------------------------------
\* dispatch_automation_event.  What can become of the rules, in their order:
\* the conditions of a rule decide whether it is skipped, and any of its actions
\* may fail, after some of them wrote the record in memory.
NotRun == [status |-> "NOT_RUN", bumps |-> 0]

Considered(o, kind, trigger, r) ==
  /\ Rules[r].of = kind /\ Rules[r].trigger = trigger
  /\ ~ \E q \in 1..(r - 1) : Rules[q].stop /\ o[q].status = "SUCCEEDED"

Outcomes(kind, trigger) ==
  {o \in [DOMAIN Rules -> {NotRun} \cup [status : {"SKIPPED", "FAILED", "SUCCEEDED"}, bumps : 0..2]] :
     \A r \in DOMAIN Rules :
       IF Considered(o, kind, trigger, r)
       THEN \/ o[r].status = "SKIPPED" /\ o[r].bumps = 0
            \/ o[r].status = "FAILED" /\ o[r].bumps <= Rules[r].bumps
            \/ o[r].status = "SUCCEEDED" /\ o[r].bumps = Rules[r].bumps
       ELSE o[r] = NotRun}

\* The version in memory is stored whenever a rule that succeeds writes the record.
VersionStored(version, o) ==
  LET writes == {r \in DOMAIN Rules : o[r].status = "SUCCEEDED" /\ o[r].bumps > 0}
      Bumps(r) == o[r].bumps IN
  version + IF writes = {} THEN 0 ELSE MapThenSumSet(Bumps, 1..Max(writes))

Executions(kind, l, trigger, version, o) ==
  {[rule |-> r, of |-> <<kind, l>>, trigger |-> trigger, version |-> version, status |-> o[r].status] :
     r \in {q \in DOMAIN Rules : o[q] # NotRun}}

Step(kind, l, from, to, version) == [of |-> <<kind, l>>, from |-> from, to |-> to, version |-> version]

-----------------------------------------------------------------------------
\* create_lead, in the stage the caller names or the initial one.
CrmInsertLead(l, stage, via) ==
  \E o \in Outcomes("lead", "created") :
    /\ crmLead' = [crmLead EXCEPT ![l] =
         [status |-> stage, customer |-> contact.customer, version |-> VersionStored(1, o),
          disqualified |-> FALSE, converted |-> FALSE, via |-> via]]
    /\ history' = history \cup {Step("lead", l, "", stage, 1)}
    /\ execution' = execution \cup Executions("lead", l, "created", 1, o)

CrmCreateLead(l) ==
  /\ ~ Has(crmLead, l) /\ \E stage \in DOMAIN LeadNext : CrmInsertLead(l, stage, "form")
  /\ UNCHANGED <<contact, crmOpportunity, snapshot, converting>>

\* Open is what has neither been converted nor disqualified, whatever its stage.
OpenLeads == {l \in CrmLead : Has(crmLead, l) /\ ~ crmLead[l].converted /\ ~ crmLead[l].disqualified}

\* Under the contact's lock: an enquiry that is open is used again.
CreateOrReuseLeadFromContact(l) ==
  /\ ~ Has(crmLead, l) /\ OpenLeads = {} /\ CrmInsertLead(l, "new", "contact")
  /\ UNCHANGED <<contact, crmOpportunity, snapshot, converting>>

CrmTransitionLead(l) ==
  /\ converting[l] = CrmIdle
  /\ \E stage \in Offers(LeadNext, crmLead, l) \ {"converted"}, o \in Outcomes("lead", "stage_changed") :
       LET version == crmLead[l].version + 1 IN
       /\ VersionStored(version, o) <= CrmMaxVersion
       /\ crmLead' = [crmLead EXCEPT ![l].status = stage, ![l].version = VersionStored(version, o),
                                     ![l].disqualified = @ \/ stage = "disqualified"]
       /\ history' = history \cup {Step("lead", l, crmLead[l].status, stage, version)}
       /\ execution' = execution \cup Executions("lead", l, "stage_changed", version, o)
  /\ UNCHANGED <<contact, crmOpportunity, snapshot, converting>>

-----------------------------------------------------------------------------
\* convert_lead: lead, stage and contact are read, the lead locked ...
ReadForConversion(l) ==
  /\ In(crmLead, l, {"qualified"}) /\ ~ Has(snapshot, l) /\ converting[l] = CrmIdle
  /\ "converted" \in LeadNext[crmLead[l].status]
  /\ converting' = [converting EXCEPT ![l] = contact]
  /\ UNCHANGED <<contact, crmLead, crmOpportunity, history, snapshot, execution>>

\* ... and all of it is written: a customer where the lead had none, to which
\* the contact goes as well, the opportunity, the stage, the snapshot.
ConvertLead(l) ==
  LET customer == IF crmLead[l].customer = NoCustomer THEN l ELSE crmLead[l].customer
      first == CHOOSE s \in DOMAIN OpportunityNext : \A t \in DOMAIN OpportunityNext : s \notin OpportunityNext[t] IN
  /\ converting[l] # CrmIdle /\ converting' = [converting EXCEPT ![l] = CrmIdle]
  /\ crmLead[l].version < CrmMaxVersion /\ contact.version < CrmMaxVersion
  /\ contact' = IF crmLead[l].customer = NoCustomer
                THEN [customer |-> customer, version |-> converting[l].version + 1] ELSE contact
  /\ crmLead' = [crmLead EXCEPT ![l].status = "converted", ![l].customer = customer, ![l].converted = TRUE, ![l].version = @ + 1]
  /\ snapshot' = [snapshot EXCEPT ![l] = [status |-> "TAKEN", customer |-> customer, version |-> crmLead[l].version]]
  /\ \E o \in Outcomes("opportunity", "created") :
       /\ crmOpportunity' = [crmOpportunity EXCEPT ![l] =
            [status |-> first, customer |-> customer, version |-> VersionStored(1, o), won |-> FALSE, lost |-> FALSE]]
       /\ execution' = execution \cup Executions("opportunity", l, "created", 1, o)
  /\ history' = history \cup {Step("opportunity", l, "", first, 1),
                              Step("lead", l, crmLead[l].status, "converted", crmLead[l].version + 1)}

TransitionOpportunity(l) ==
  /\ \E stage \in Offers(OpportunityNext, crmOpportunity, l), o \in Outcomes("opportunity", "stage_changed") :
       LET version == crmOpportunity[l].version + 1 IN
       /\ VersionStored(version, o) <= CrmMaxVersion
       /\ crmOpportunity' = [crmOpportunity EXCEPT ![l].status = stage, ![l].version = VersionStored(version, o),
                                                   ![l].won = @ \/ stage = "won", ![l].lost = @ \/ stage = "lost"]
       /\ history' = history \cup {Step("opportunity", l, crmOpportunity[l].status, stage, version)}
       /\ execution' = execution \cup Executions("opportunity", l, "stage_changed", version, o)
  /\ UNCHANGED <<contact, crmLead, snapshot, converting>>

CrmNext == \E l \in CrmLead :
  \/ CrmCreateLead(l) \/ CreateOrReuseLeadFromContact(l) \/ CrmTransitionLead(l)
  \/ ReadForConversion(l) \/ ConvertLead(l) \/ TransitionOpportunity(l)

CrmSpec == CrmInit /\ [][CrmNext]_crmVars

-----------------------------------------------------------------------------
LeadRow ==
  [status : DOMAIN LeadNext, customer : CrmLead \cup {NoCustomer}, version : 1..CrmMaxVersion + 2,
   disqualified : BOOLEAN, converted : BOOLEAN, via : {"form", "contact"}]
OpportunityRow ==
  [status : DOMAIN OpportunityNext, customer : CrmLead, version : 1..CrmMaxVersion + 2, won : BOOLEAN, lost : BOOLEAN]
ConversionSnapshotRow == [status : {"TAKEN"}, customer : CrmLead, version : 1..CrmMaxVersion]
ContactRow == [customer : CrmLead \cup {NoCustomer}, version : 1..CrmMaxVersion]

CrmTypeOK ==
  /\ contact \in ContactRow /\ crmLead \in [CrmLead -> LeadRow \cup {Absent}]
  /\ crmOpportunity \in [CrmLead -> OpportunityRow \cup {Absent}] /\ snapshot \in [CrmLead -> ConversionSnapshotRow \cup {Absent}]
  /\ \A h \in history : h.of \in {"lead", "opportunity"} \X CrmLead
  /\ \A x \in execution : x.rule \in DOMAIN Rules /\ x.status \in {"SKIPPED", "FAILED", "SUCCEEDED"}

PathOf(kind, l) == {h \in history : h.of = <<kind, l>>}
LeadsTo(path, stage) ==
  /\ Cardinality({h.version : h \in path}) = Cardinality(path)
  /\ \A h \in path : LET earlier == {p \in path : p.version < h.version} IN
       IF earlier = {} THEN h.from = "" /\ h.version = 1
       ELSE \E p \in earlier : p.to = h.from /\ \A q \in earlier : q.version <= p.version
  /\ \E h \in path : h.to = stage /\ \A p \in path : p.version <= h.version
\* The history of a record, ordered by version, leads from its creation to the
\* stage it is in, each step from where the one before it went, although rules
\* raise the version in between and rolled back versions are used again; and
\* every rule that ran was set off by one of these steps.
HistoryIsAPath ==
  /\ \A l \in CrmLead : /\ Has(crmLead, l) => LeadsTo(PathOf("lead", l), crmLead[l].status)
                        /\ Has(crmOpportunity, l) => LeadsTo(PathOf("opportunity", l), crmOpportunity[l].status)
  /\ \A x \in execution : \E h \in history : h.of = x.of /\ h.version = x.version /\ (h.from = "") = (x.trigger = "created")

\* A lead is converted once and as a whole: the lead, its snapshot and its
\* opportunity are of one customer, and the snapshot of the version the lead had;
\* what was disqualified is not converted.  The contact's customer is one that
\* some conversion made.  Of the enquiries that came through the contact at most
\* one is open.
ConvertedOnce ==
  /\ \A l \in CrmLead : Has(crmLead, l) =>
       /\ crmLead[l].converted = Has(snapshot, l) /\ crmLead[l].converted = Has(crmOpportunity, l)
       /\ ~ (crmLead[l].converted /\ crmLead[l].disqualified)
       /\ crmLead[l].converted =>
            /\ snapshot[l].customer = crmLead[l].customer /\ crmOpportunity[l].customer = crmLead[l].customer
            /\ \E h \in PathOf("lead", l) : h.to = "converted" /\ h.version = snapshot[l].version + 1
  /\ contact.customer # NoCustomer => Has(snapshot, contact.customer) /\ snapshot[contact.customer].customer = contact.customer
  /\ \A l, k \in OpenLeads : crmLead[l].via = "contact" /\ crmLead[k].via = "contact" => l = k

-----------------------------------------------------------------------------
(* How a company sets its CRM up (modules/crm, application/                *)
(* configuration.py, initial_stage and _stage of services.py, the stage    *)
(* list of api/views.py): pipelines and their stages, and industry packs.  *)
(*                                                                         *)
(* Pipelines are those of one kind of record; which codes a stage leads to *)
(* is CONSTANT Leads.  A transaction that changes rows it found by a query *)
(* changes the rows that query found: one inserted meanwhile stays as it   *)
(* is, and a unique constraint speaks at the commit.                       *)
(*                                                                         *)
(* A stage made before there were pipelines is adopted by whoever uses it: *)
(* _stage reads it, then the default pipeline, neither locked, then        *)
(* updates the row if it still has no pipeline, and goes on with the stage *)
(* it has in memory, at the pipeline that it read.                         *)

CONSTANTS
  Admin, Makes,    \* Admin -> what an admin makes: pipelines, stages or both
  Pipeline,
  Stage, CodeOf,   \* stages, and Stage -> code
  Leads,           \* code -> codes it may lead to
  CrmSetupLead,
  Pack, Fields,    \* industry packs, and Pack -> codes of its fields
  FieldCode,       \* codes of custom fields
  CrmSetupMaxVersion       \* bound: version of the profile

General == "general"
NoPipeline == "no pipeline"

CrmSetupAssumption ==
  /\ Makes \in [Admin -> SUBSET {"PIPELINE", "STAGE"}]
  /\ DOMAIN CodeOf = Stage /\ \A s \in Stage : CodeOf[s] \in DOMAIN Leads
  /\ DOMAIN Fields = Pack /\ \A p \in Pack : Fields[p] \subseteq FieldCode
  /\ General \notin Pack /\ NoPipeline \notin Pipeline /\ CrmSetupMaxVersion \in Nat \ {0}

VARIABLES
  pipeline,  \* Pipeline -> row: whether it is the default
  crmSetupStage,     \* Stage -> row: pipeline, initial
  setting,   \* Admin -> the transaction in which a pipeline or a stage is being made
  adopting,          \* Adopter -> what its transaction has read, to adopt stages
  crmSetupLead,      \* Lead -> row: stage; history: the pipeline it was made in, whether
                     \* an adoption of it found its stage adopted by another
  profile,   \* the pack in force, the pack its labels are from, version
  field,     \* FieldCode -> row: pack it comes from (or the user), active
  applying   \* Admin -> the transaction in which a pack or labels are being changed

setupVars == <<pipeline, crmSetupStage, setting, adopting, crmSetupLead>>
packVars == <<profile, field, applying>>
crmSetupVars == <<setupVars, packVars>>

CrmSetupIdle == [status |-> "IDLE"]
Foundation == "ensure_foundation"
Adopter == CrmSetupLead \cup {Foundation}
ByUser == "by the user"

\* ensure_foundation has run, but stages made before there were pipelines have none.
CrmSetupInit ==
  /\ \E p \in Pipeline : pipeline = [q \in Pipeline |-> IF q = p THEN [status |-> "ACTIVE", default |-> TRUE] ELSE Absent]
  /\ \E old \in SUBSET Stage : crmSetupStage =
       [s \in Stage |-> IF s \in old THEN [status |-> "ACTIVE", pipeline |-> NoPipeline, initial |-> CodeOf[s] = "new"] ELSE Absent]
  /\ setting = [x \in Admin |-> CrmSetupIdle] /\ crmSetupLead = [l \in CrmSetupLead |-> Absent]
  /\ adopting = [x \in Adopter |-> CrmSetupIdle]
  /\ profile = [pack |-> General, labels |-> General, version |-> 1]
  /\ field = [c \in FieldCode |-> Absent] /\ applying = [x \in Admin |-> CrmSetupIdle]

-----------------------------------------------------------------------------
Defaults == {p \in Pipeline : Has(pipeline, p) /\ pipeline[p].default}

\* The default of the company; in these states there always is one.
DefaultPipeline == CHOOSE p \in Defaults : TRUE

OfPipeline(p) == {s \in Stage : Has(crmSetupStage, s) /\ crmSetupStage[s].pipeline = p}

\* Stages without a pipeline are given one; refused where it has such a code.
CodesAreUnique(table) ==
  \A s, t \in Stage : /\ Has(table, s) /\ Has(table, t) /\ s # t /\ CodeOf[s] = CodeOf[t]
                      => table[s].pipeline # table[t].pipeline \/ table[s].pipeline = NoPipeline
Adopted(S, p) ==
  [s \in Stage |-> IF s \in S /\ Has(crmSetupStage, s) /\ crmSetupStage[s].pipeline = NoPipeline
                   THEN [crmSetupStage[s] EXCEPT !.pipeline = p] ELSE crmSetupStage[s]]

\* The stage that is named for lead l is read, and has no pipeline ...
ReadStage(l, s) ==
  /\ adopting[l] = CrmSetupIdle /\ Has(crmSetupStage, s) /\ crmSetupStage[s].pipeline = NoPipeline
  /\ adopting' = [adopting EXCEPT ![l] = [status |-> "READ", stage |-> s]]
  /\ UNCHANGED <<pipeline, crmSetupStage, setting, crmSetupLead, packVars>>

\* ... then the default pipeline is.  ensure_foundation and initial_stage, which adopt
\* every stage, begin here.
ReadDefault(x) ==
  /\ \/ /\ adopting[x].status = "READ"
        /\ adopting' = [adopting EXCEPT
             ![x] = [status |-> "NAMED", stage |-> adopting[x].stage, pipeline |-> DefaultPipeline]]
     \/ /\ adopting[x] = CrmSetupIdle /\ (x \in CrmSetupLead => ~ Has(crmSetupLead, x))
        /\ adopting' = [adopting EXCEPT ![x] = [status |-> "ALL", pipeline |-> DefaultPipeline]]
  /\ UNCHANGED <<pipeline, crmSetupStage, setting, crmSetupLead, packVars>>

\* The transaction of x ends, with these rows or, if they may not be, without.
Ends(x, may, stages, leads) ==
  /\ adopting' = [adopting EXCEPT ![x] = CrmSetupIdle]
  /\ IF may /\ CodesAreUnique(stages) THEN crmSetupStage' = stages /\ crmSetupLead' = leads
     ELSE UNCHANGED <<crmSetupStage, crmSetupLead>>
  /\ UNCHANGED <<pipeline, setting, packVars>>

EnsureFoundation ==
  /\ adopting[Foundation].status = "ALL"
  /\ Ends(Foundation, TRUE, Adopted(Stage, adopting[Foundation].pipeline), crmSetupLead)

\* create_pipeline unsets the default it finds, and inserts.
BeginPipeline(x, p) ==
  /\ setting[x] = CrmSetupIdle /\ "PIPELINE" \in Makes[x] /\ ~ Has(pipeline, p)
  /\ \E default \in BOOLEAN :
       setting' = [setting EXCEPT ![x] = [status |-> "PIPELINE", row |-> p, default |-> default,
                                          unset |-> IF default THEN Defaults ELSE {}]]
  /\ UNCHANGED <<pipeline, crmSetupStage, adopting, crmSetupLead, packVars>>

CreatePipeline(x) ==
  /\ setting[x].status = "PIPELINE" /\ setting' = [setting EXCEPT ![x] = CrmSetupIdle]
  /\ LET t == setting[x] IN
     IF Has(pipeline, t.row) \/ (t.default /\ ~ Defaults \subseteq t.unset) THEN UNCHANGED pipeline
     ELSE pipeline' = [p \in Pipeline |-> IF p = t.row THEN [status |-> "ACTIVE", default |-> t.default]
                                          ELSE IF p \in t.unset THEN [pipeline[p] EXCEPT !.default = FALSE] ELSE pipeline[p]]
  /\ UNCHANGED <<crmSetupStage, adopting, crmSetupLead, packVars>>

\* A stage that is to be initial unsets those it finds initial, and is inserted.
BeginStage(x, s) ==
  /\ setting[x] = CrmSetupIdle /\ "STAGE" \in Makes[x] /\ ~ Has(crmSetupStage, s)
  /\ \E p \in {p \in Pipeline : Has(pipeline, p)}, initial \in BOOLEAN :
       setting' = [setting EXCEPT ![x] = [status |-> "STAGE", row |-> s, pipeline |-> p, initial |-> initial,
                                          unset |-> IF initial THEN {q \in OfPipeline(p) : crmSetupStage[q].initial} ELSE {}]]
  /\ UNCHANGED <<pipeline, crmSetupStage, adopting, crmSetupLead, packVars>>

CreateStage(x) ==
  /\ setting[x].status = "STAGE" /\ setting' = [setting EXCEPT ![x] = CrmSetupIdle]
  /\ LET t == setting[x]
         new == [q \in Stage |-> IF q = t.row THEN [status |-> "ACTIVE", pipeline |-> t.pipeline, initial |-> t.initial]
                                 ELSE IF q \in t.unset THEN [crmSetupStage[q] EXCEPT !.initial = FALSE] ELSE crmSetupStage[q]] IN
     crmSetupStage' = IF ~ Has(crmSetupStage, t.row) /\ CodesAreUnique(new) THEN new ELSE crmSetupStage
  /\ UNCHANGED <<pipeline, adopting, crmSetupLead, packVars>>

-----------------------------------------------------------------------------
WithLead(l, s, p, overtaken) ==
  [crmSetupLead EXCEPT ![l] = [status |-> "MADE", stage |-> s, pipeline |-> p, overtaken |-> overtaken]]

\* At an initial stage of the pipeline that was the default, once it has adopted the
\* rest; refused when it has none, as a default that was just made has not.
InitialStage(l) ==
  /\ adopting[l].status = "ALL"
  /\ LET p == adopting[l].pipeline
         stages == Adopted(Stage, p)
         initial == {s \in Stage : Has(stages, s) /\ stages[s].pipeline = p /\ stages[s].initial} IN
     IF initial = {} THEN Ends(l, FALSE, stages, crmSetupLead)
     ELSE \E s \in initial : Ends(l, TRUE, stages, WithLead(l, s, p, FALSE))

\* The stage that is named for lead l is s, and of pipeline Says(l, s) in memory; it is
\* Overtaken if another transaction has adopted it since it was read.
Named(l, s) ==
  \/ adopting[l] = CrmSetupIdle /\ Has(crmSetupStage, s) /\ crmSetupStage[s].pipeline # NoPipeline
  \/ adopting[l].status = "NAMED" /\ adopting[l].stage = s

Says(l, s) == IF adopting[l].status = "NAMED" THEN adopting[l].pipeline ELSE crmSetupStage[s].pipeline

Overtaken(l, s) == adopting[l].status = "NAMED" /\ crmSetupStage[s].pipeline # NoPipeline

\* At the stage that is named, whichever it is: only that one is adopted.
StageNamed(l, s) ==
  /\ Named(l, s) /\ ~ Has(crmSetupLead, l)
  /\ Ends(l, TRUE, Adopted({s}, Says(l, s)), WithLead(l, s, Says(l, s), Overtaken(l, s)))

\* Refused across pipelines: the target's is the one in memory.  The lead and its own
\* stage are locked; that stage has its pipeline for good.
CrmSetupTransitionLead(l, s) ==
  /\ Named(l, s) /\ Has(crmSetupLead, l)
  /\ LET from == crmSetupLead[l].stage
         may == Says(l, s) = crmSetupStage[from].pipeline /\ CodeOf[s] \in Leads[CodeOf[from]] IN
     Ends(l, may, Adopted({s}, Says(l, s)),
          [crmSetupLead EXCEPT ![l].stage = s, ![l].overtaken = @ \/ Overtaken(l, s)])

-----------------------------------------------------------------------------
\* A pack or labels are applied to the profile as it was read ...
ReadProfile(x) ==
  /\ applying[x] = CrmSetupIdle /\ applying' = [applying EXCEPT ![x] = [status |-> "READ", profile |-> profile]]
  /\ UNCHANGED <<setupVars, profile, field>>

\* ... and saved, which locks its row until the commit: that is why the fields
\* that follow are of one pack.  Fields of other packs are put away, the pack's
\* are made or taken over, also from the user.
ApplyIndustryPack(x, p) ==
  /\ applying[x].status = "READ" /\ applying[x].profile.version < CrmSetupMaxVersion
  /\ applying' = [applying EXCEPT ![x] = CrmSetupIdle]
  /\ profile' = [pack |-> p, labels |-> p, version |-> applying[x].profile.version + 1]
  /\ field' = [c \in FieldCode |->
       IF c \in Fields[p] THEN [status |-> "DEFINED", from |-> p, active |-> TRUE]
       ELSE IF Has(field, c) /\ field[c].from \notin {ByUser, General, p} THEN [field[c] EXCEPT !.active = FALSE]
       ELSE field[c]]
  /\ UNCHANGED setupVars

\* Saves the labels it merged into those it read, but not the pack.
UpdateTerminology(x) ==
  /\ applying[x].status = "READ" /\ applying[x].profile.version < CrmSetupMaxVersion
  /\ applying' = [applying EXCEPT ![x] = CrmSetupIdle]
  /\ profile' = [profile EXCEPT !.labels = applying[x].profile.labels, !.version = applying[x].profile.version + 1]
  /\ UNCHANGED <<setupVars, field>>

CreateCustomField(c) ==
  /\ ~ Has(field, c) /\ field' = [field EXCEPT ![c] = [status |-> "DEFINED", from |-> ByUser, active |-> TRUE]]
  /\ UNCHANGED <<setupVars, profile, applying>>

CrmSetupNext ==
  \/ EnsureFoundation \/ \E x \in Adopter : ReadDefault(x)
  \/ \E x \in Admin :
       \/ \E p \in Pipeline : BeginPipeline(x, p)
       \/ \E s \in Stage : BeginStage(x, s)
       \/ CreatePipeline(x) \/ CreateStage(x) \/ ReadProfile(x) \/ UpdateTerminology(x)
       \/ \E p \in Pack : ApplyIndustryPack(x, p)
  \/ \E l \in CrmSetupLead : InitialStage(l) \/ \E s \in Stage : ReadStage(l, s) \/ StageNamed(l, s) \/ CrmSetupTransitionLead(l, s)
  \/ \E c \in FieldCode : CreateCustomField(c)

CrmSetupSpec == CrmSetupInit /\ [][CrmSetupNext]_crmSetupVars

-----------------------------------------------------------------------------
CrmPipelineRow == [status : {"ACTIVE"}, default : BOOLEAN]
PipelineStageRow == [status : {"ACTIVE"}, pipeline : Pipeline \cup {NoPipeline}, initial : BOOLEAN]
CrmTenantProfileRow == [pack : Pack \cup {General}, labels : Pack \cup {General}, version : 1..CrmSetupMaxVersion]
CrmCustomFieldDefinitionRow == [status : {"DEFINED"}, from : Pack \cup {ByUser}, active : BOOLEAN]

CrmSetupTypeOK ==
  /\ pipeline \in [Pipeline -> CrmPipelineRow \cup {Absent}] /\ crmSetupStage \in [Stage -> PipelineStageRow \cup {Absent}]
  /\ profile \in CrmTenantProfileRow /\ field \in [FieldCode -> CrmCustomFieldDefinitionRow \cup {Absent}]

\* Whatever is made at the same time, there is one default pipeline, a code is
\* there once in a pipeline, and a lead is at a stage of the pipeline that it was
\* made in, unless a stage it was brought to was adopted by another transaction
\* between the reading of _stage and its update.
LeadsKeepTheirPipeline ==
  /\ Cardinality(Defaults) = 1 /\ CodesAreUnique(crmSetupStage)
  /\ \A l \in CrmSetupLead : Has(crmSetupLead, l) =>
       LET of == crmSetupStage[crmSetupLead[l].stage].pipeline IN
       of # NoPipeline /\ (~ crmSetupLead[l].overtaken => of = crmSetupLead[l].pipeline)

\* No transition takes a lead to a stage of another pipeline, whoever adopted either.
StaysInPipeline ==
  \A l \in CrmSetupLead : Has(crmSetupLead, l) =>
    crmSetupStage'[crmSetupLead'[l].stage].pipeline = crmSetupStage[crmSetupLead[l].stage].pipeline

\* However packs and labels are changed at the same time, the fields in use are
\* those of the pack in force and the user's: all of the pack's, none of another's.
PackIsWhole ==
  \A c \in FieldCode :
    /\ profile.pack \in Pack /\ c \in Fields[profile.pack] => Has(field, c) /\ field[c].active /\ field[c].from = profile.pack
    /\ Has(field, c) /\ field[c].active => field[c].from \in {ByUser, profile.pack}

-----------------------------------------------------------------------------
(* What the CRM shows of a relationship (modules/crm, application/         *)
(* relationship.py and logbook.py): the list of people, the workspace of   *)
(* one, a member's own work, accounts, and what is planned, each computed  *)
(* by a query of its own from leads, opportunities and activities.         *)
(*                                                                         *)
(* A time is a number of hours and Never stands for none; a viewer is the  *)
(* set of sections that are included for it.  Search, sorting and the page *)
(* that is asked for are left out: a view is the people it has before that.*)

CONSTANTS
  Person, CustomerOf,  \* people, and Person -> customer or Nobody
  RelationLead, Opportunity,
  Of,                  \* lead or opportunity -> its primary contact
  Value,               \* Opportunity -> amount
  Member, Customer,
  About,               \* what an activity may be about: [contact, lead, opportunity]
  Times,               \* times that are entered, Never among them
  Kinds,               \* kinds of activities: a communication, made by automation
  Day,                 \* hours of a day
  LastHour,            \* bound: the clock
  MaxActivities, RelationMaxVersion, \* bounds: activities, and versions of one
  Limit,               \* activities that a workspace reads
  Viewers              \* sets of sections

Never == 999
CrmRelationsAssumption ==
  /\ CustomerOf \in [Person -> Customer \cup {Nobody}] /\ Of \in [RelationLead \cup Opportunity -> Person]
  /\ Value \in [Opportunity -> Nat] /\ Never \in Times
  /\ About \subseteq [contact : Person \cup {Nobody}, lead : RelationLead \cup {Nobody}, opportunity : Opportunity \cup {Nobody}]
  /\ Kinds \subseteq SUBSET {"communication", "automation"}
  /\ {Day, LastHour, Limit} \subseteq Nat \ {0} /\ LastHour < Never

VARIABLES
  relationLead,         \* Lead -> row: customer, follow-up, owner
  relationOpportunity,  \* Opportunity -> row: OPEN, WON or LOST
  activity,     \* sequence of rows, the newest last
  now

relationVars == <<relationLead, relationOpportunity, activity, now>>

RelationInit ==
  /\ relationLead = [l \in RelationLead |-> Absent] /\ relationOpportunity = [o \in Opportunity |-> Absent]
  /\ activity = [n \in {} |-> Absent] /\ now = 0

Activity == DOMAIN activity
Due(t) == t < now
On(t, day) == t # Never /\ t \div Day = day
Today == now \div Day

-----------------------------------------------------------------------------
RelationCreateLead(l, c, t, m) ==
  /\ ~ Has(relationLead, l) /\ relationLead' = [relationLead EXCEPT ![l] = [status |-> "ACTIVE", customer |-> c, follow |-> t, owner |-> m]]
  /\ UNCHANGED <<relationOpportunity, activity, now>>

\* It keeps its follow-up.
EndLead(l, outcome) ==
  /\ In(relationLead, l, {"ACTIVE"}) /\ outcome \in {"CONVERTED", "DISQUALIFIED"} /\ relationLead' = Moved(relationLead, l, outcome)
  /\ UNCHANGED <<relationOpportunity, activity, now>>

CreateOpportunity(o) ==
  /\ ~ Has(relationOpportunity, o) /\ relationOpportunity' = [relationOpportunity EXCEPT ![o] = [status |-> "OPEN"]]
  /\ UNCHANGED <<relationLead, activity, now>>

CloseOpportunity(o, outcome) ==
  /\ In(relationOpportunity, o, {"OPEN"}) /\ outcome \in {"WON", "LOST"} /\ relationOpportunity' = Moved(relationOpportunity, o, outcome)
  /\ UNCHANGED <<relationLead, activity, now>>

\* A communication is also about the contact of the lead, else of the opportunity.
ContactOf(about, communication) ==
  IF about.contact = Nobody /\ communication
  THEN IF about.lead # Nobody THEN Of[about.lead] ELSE IF about.opportunity # Nobody THEN Of[about.opportunity] ELSE Nobody
  ELSE about.contact

\* told counts the automation that a completion is given to, save a completion
\* that automation itself made.
CreateActivity(about, kind, s, t, m, status) ==
  LET n == Cardinality(Activity) + 1
      generated == "automation" \in kind IN
  /\ n <= MaxActivities
  /\ about.lead # Nobody => Has(relationLead, about.lead)
  /\ about.opportunity # Nobody => Has(relationOpportunity, about.opportunity)
  /\ activity' = [i \in Activity \cup {n} |-> IF i # n THEN activity[i] ELSE
       [status |-> status, contact |-> ContactOf(about, "communication" \in kind), lead |-> about.lead, opportunity |-> about.opportunity,
        scheduled |-> s, follow |-> t, owner |-> m, version |-> 1, completed |-> status = "COMPLETED",
        generated |-> generated, told |-> IF status = "COMPLETED" /\ ~ generated THEN 1 ELSE 0]]
  /\ UNCHANGED <<relationLead, relationOpportunity, now>>

\* Of the version that was read; what is None is left as it is, and new metadata
\* takes the mark of automation away.
UpdateActivity(n, version, status, t, metadata) ==
  /\ n \in Activity /\ activity[n].version = version /\ version < RelationMaxVersion
  /\ LET old == activity[n]
         generated == old.generated /\ ~ metadata
         edge == status = "COMPLETED" /\ old.status # "COMPLETED" /\ ~ generated IN
     activity' = [activity EXCEPT ![n] = [old EXCEPT !.status = status, !.completed = status = "COMPLETED",
                    !.follow = IF t = Never THEN old.follow ELSE t, !.version = version + 1,
                    !.generated = generated, !.told = old.told + (IF edge THEN 1 ELSE 0)]]
  /\ UNCHANGED <<relationLead, relationOpportunity, now>>

Tick == now < LastHour /\ now' = now + 1 /\ UNCHANGED <<relationLead, relationOpportunity, activity>>

-----------------------------------------------------------------------------
\* Rows of a person, and the earliest of their times.
LeadsOf(p, stages) == {l \in RelationLead : In(relationLead, l, stages) /\ Of[l] = p}
OpportunitiesOf(p, stages) == {o \in Opportunity : In(relationOpportunity, o, stages) /\ Of[o] = p}
Ended == {"CONVERTED", "DISQUALIFIED"}
Earliest(T) == Min(T \cup {Never})

\* Coalesce(scheduled_for, follow_up_at).
ActionAt(n) == IF activity[n].scheduled # Never THEN activity[n].scheduled ELSE activity[n].follow
Planned(S) == {n \in S : activity[n].status = "PLANNED" /\ ActionAt(n) # Never}
AboutPerson(p) ==
  {n \in Activity : \/ activity[n].contact = p
                    \/ activity[n].lead # Nobody /\ Of[activity[n].lead] = p
                    \/ activity[n].opportunity # Nobody /\ Of[activity[n].opportunity] = p}

\* people_page: the annotations of one person.
NextFollowUp(p, v) == IF "leads" \in v THEN Earliest({relationLead[l].follow : l \in LeadsOf(p, {"ACTIVE"})}) ELSE Never
NextActivity(p, v) == IF "activities" \in v THEN Earliest({ActionAt(n) : n \in Planned(AboutPerson(p))}) ELSE Never
PeopleItem(p, v) ==
  LET followUp == NextFollowUp(p, v)
      planned == NextActivity(p, v)
      next == IF followUp <= planned THEN followUp ELSE planned
      active == "leads" \in v /\ LeadsOf(p, {"ACTIVE"}) # {}
      converted == "leads" \in v /\ LeadsOf(p, {"CONVERTED"}) # {}
      won == "opportunities" \in v /\ OpportunitiesOf(p, {"WON"}) # {} IN
  [active |-> active, converted |-> converted, won |-> won,
   anyLead |-> "leads" \in v /\ LeadsOf(p, {"ACTIVE"} \cup Ended) # {},
   open |-> "opportunities" \in v /\ OpportunitiesOf(p, {"OPEN"}) # {},
   relationship |-> IF active THEN "lead" ELSE IF converted \/ won THEN "converted" ELSE "contact",
   next |-> next, kind |-> IF next = Never THEN "none" ELSE IF next = followUp THEN "lead_follow_up" ELSE "activity",
   overdue |-> Due(next)]

Views == {"all", "overdue", "today", "tomorrow", "active_leads", "converted", "contact_only", "no_next_action"}

InView(p, view, v) ==
  LET i == PeopleItem(p, v)
      sees == v \cap {"leads", "activities"} # {} IN
  CASE view = "all" -> TRUE
    [] view = "overdue" -> sees /\ Due(i.next)
    [] view = "today" -> sees /\ On(i.next, Today)
    [] view = "tomorrow" -> sees /\ On(i.next, Today + 1)
    [] view = "active_leads" -> i.active
    [] view = "converted" -> i.converted \/ i.won
    [] view = "contact_only" -> "leads" \in v /\ ~ i.anyLead
    [] view = "no_next_action" -> /\ v \cap {"leads", "opportunities"} # {} /\ sees
                                  /\ i.active \/ i.open
                                  /\ i.next = Never

People(view, v) == {p \in Person : InView(p, view, v)}

-----------------------------------------------------------------------------
\* relationship_workspace: activities by the leads and opportunities that are
\* included, the newest Limit of them.
Newest(S, limit) == {n \in S : Cardinality({k \in S : k > n}) < limit}
Workspace(p, v) ==
  LET leads == IF "leads" \in v THEN LeadsOf(p, {"ACTIVE"} \cup Ended) ELSE {}
      opportunities == IF "opportunities" \in v THEN OpportunitiesOf(p, {"OPEN", "WON", "LOST"}) ELSE {}
      found == {n \in Activity : \/ activity[n].contact = p \/ activity[n].lead \in leads
                                 \/ activity[n].opportunity \in opportunities}
      activities == IF "activities" \in v THEN Newest(found, Limit) ELSE {}
      customers == {CustomerOf[p]} \cup {relationLead[l].customer : l \in leads}
      active == {l \in leads : relationLead[l].status = "ACTIVE"}
      next == Earliest({relationLead[l].follow : l \in active} \cup {ActionAt(n) : n \in Planned(activities)}) IN
  [leads |-> leads, opportunities |-> opportunities, activities |-> activities,
   company |-> IF "customers" \notin v THEN {}
               ELSE IF CustomerOf[p] # Nobody THEN {CustomerOf[p]} ELSE customers \ {Nobody},
   active |-> active # {}, converted |-> \E l \in leads : relationLead[l].status = "CONVERTED",
   open |-> \E o \in opportunities : relationOpportunity[o].status = "OPEN",
   won |-> \E o \in opportunities : relationOpportunity[o].status = "WON",
   value |-> MapThenSumSet(LAMBDA o : Value[o], {o \in opportunities : relationOpportunity[o].status = "OPEN"}),
   next |-> next, overdue |-> Due(next)]

\* my_work_payload: what is counted, and the queue, which has one item for a
\* person and a time; no Limit of it is reached in these states.
MyLeads(m, v) == {l \in RelationLead : "leads" \in v /\ In(relationLead, l, {"ACTIVE"}) /\ relationLead[l].owner = m}
MyPlanned(m, v) == {n \in Planned(Activity) : "activities" \in v /\ activity[n].owner = m}
PersonOfActivity(n) ==
  ContactOf([contact |-> activity[n].contact, lead |-> activity[n].lead, opportunity |-> activity[n].opportunity], TRUE)
Queue(m, v) ==
  {[person |-> PersonOfActivity(n), at |-> ActionAt(n)] : n \in MyPlanned(m, v)}
  \cup {[person |-> Of[l], at |-> relationLead[l].follow] : l \in {l \in MyLeads(m, v) : relationLead[l].follow # Never}}
CountOf(m, v, times) ==
  Cardinality({l \in MyLeads(m, v) : relationLead[l].follow \in times}) + Cardinality({n \in MyPlanned(m, v) : ActionAt(n) \in times})
MyWork(m, v) ==
  LET set == Times \ {Never} IN
  [overdue |-> CountOf(m, v, {t \in set : Due(t)}), today |-> CountOf(m, v, {t \in set : On(t, Today)}),
   tomorrow |-> CountOf(m, v, {t \in set : On(t, Today + 1)}),
   week |-> CountOf(m, v, {t \in set : t \div Day \in Today..(Today + 7)}),
   none |-> Cardinality({l \in MyLeads(m, v) : relationLead[l].follow = Never})]

\* account_page and account_workspace, of the leads that name the account.
OfAccount(c, v) ==
  [contacts |-> IF "contacts" \in v THEN {p \in Person : CustomerOf[p] = c} ELSE {},
   leads |-> IF "leads" \in v THEN {l \in RelationLead : Has(relationLead, l) /\ relationLead[l].customer = c} ELSE {}]
AccountPage(c, v) ==
  [contacts |-> Cardinality(OfAccount(c, v).contacts),
   leads |-> IF "leads" \in v THEN Cardinality({l \in RelationLead : In(relationLead, l, {"ACTIVE"}) /\ relationLead[l].customer = c}) ELSE 0]
AccountWorkspace(c, v) ==
  [contacts |-> Cardinality(OfAccount(c, v).contacts),
   leads |-> Cardinality({l \in OfAccount(c, v).leads : relationLead[l].status \notin Ended})]

\* activity_dashboard and the card of a lead: by scheduled_for alone.
Dashboard ==
  [overdue |-> Cardinality({n \in Activity : activity[n].status = "PLANNED" /\ Due(activity[n].scheduled)}),
   today |-> Cardinality({n \in Activity : activity[n].status = "PLANNED" /\ On(activity[n].scheduled, Today)})]
LeadCard(l) ==
  Earliest({activity[n].scheduled : n \in {n \in Activity : /\ activity[n].lead = l /\ activity[n].status = "PLANNED"
                                                            /\ activity[n].scheduled >= now}})

\* lead_timeline reads what is recorded of the lead alone.
LeadTimeline(l) == {n \in Activity : activity[n].lead = l}

RelationNext ==
  \/ \E l \in RelationLead, c \in Customer \cup {Nobody}, t \in Times, m \in Member : RelationCreateLead(l, c, t, m)
  \/ \E l \in RelationLead, outcome \in Ended : EndLead(l, outcome)
  \/ \E o \in Opportunity : CreateOpportunity(o) \/ \E outcome \in {"WON", "LOST"} : CloseOpportunity(o, outcome)
  \/ \E about \in About, kind \in Kinds, s, t \in Times, m \in Member,
       status \in {"PLANNED", "COMPLETED", "CANCELLED"} : CreateActivity(about, kind, s, t, m, status)
  \/ \E n \in Activity, version \in 1..RelationMaxVersion, status \in {"PLANNED", "COMPLETED", "CANCELLED"}, t \in Times,
       metadata \in BOOLEAN : UpdateActivity(n, version, status, t, metadata)
  \/ Tick

RelationSpec == RelationInit /\ [][RelationNext]_relationVars

-----------------------------------------------------------------------------
ActivityRow == [status : {"PLANNED", "COMPLETED", "CANCELLED"}, contact : Person \cup {Nobody}, lead : RelationLead \cup {Nobody},
                opportunity : Opportunity \cup {Nobody}, scheduled : Times, follow : Times, owner : Member,
                version : 1..RelationMaxVersion, completed : BOOLEAN, generated : BOOLEAN, told : 0..RelationMaxVersion]

RelationTypeOK == now \in 0..LastHour /\ \A n \in Activity : activity[n] \in ActivityRow

Everything == {"leads", "opportunities", "activities", "customers", "contacts"}

\* What the list of people says of a person is what that person's workspace says,
\* as long as the workspace reads every activity: the same next action, overdue in
\* both or in neither, and "no next action" for whom the workspace has none; a
\* member's work is among the people of the views, and the account's two pages agree.
RelationsAgree ==
  /\ \A p \in Person :
       LET item == PeopleItem(p, Everything)
           shown == Workspace(p, Everything) IN
       Cardinality(AboutPerson(p)) <= Limit =>
       /\ <<item.active, item.converted, item.open, item.won, item.next, item.overdue>>
          = <<shown.active, shown.converted, shown.open, shown.won, shown.next, shown.overdue>>
       /\ p \in People("no_next_action", Everything) <=> (shown.active \/ shown.open) /\ shown.next = Never
       /\ p \in People("overdue", Everything) <=> shown.overdue
  /\ \A m \in Member : \A q \in Queue(m, Everything) :
       q.person # Nobody => /\ PeopleItem(q.person, Everything).next <= q.at
                            /\ Due(q.at) => q.person \in People("overdue", Everything)
  /\ \A m \in Member : Cardinality({q \in Queue(m, Everything) : Due(q.at)}) <= MyWork(m, Everything).overdue
  /\ MapThenSumSet(LAMBDA m : MyWork(m, {"activities"}).overdue, Member) >= Dashboard.overdue
  /\ \A c \in Customer : AccountPage(c, Everything) = AccountWorkspace(c, Everything)

\* A viewer for whom leads are not included learns nothing of how a lead stands:
\* with every lead absent the views are the same, whatever the activities of leads.
LeadsStayClosed ==
  \A v \in Viewers : "leads" \notin v =>
    \A p \in Person :
      /\ Workspace(p, v).leads = {} /\ ~ PeopleItem(p, v).anyLead /\ PeopleItem(p, v).kind # "lead_follow_up"
      /\ \A n \in Workspace(p, v).activities : activity[n].contact = p \/ activity[n].opportunity \in Workspace(p, v).opportunities
      /\ \A c \in Workspace(p, v).company : c = CustomerOf[p]
      /\ p \notin People("active_leads", v) \cup People("contact_only", v)

\* A completion is given to automation once: two times only when the activity was
\* reopened in between, however updates and completions alternate.
CompletionsAreToldOnce ==
  \A n \in Activity : /\ activity[n].completed <=> activity[n].status = "COMPLETED"
                      /\ activity[n].told <= (activity[n].version + 1) \div 2
=============================================================================
