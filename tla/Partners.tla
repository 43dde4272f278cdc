------------------------------ MODULE Partners ------------------------------
(* Who works with a company and what he is shown: portal users             *)
(* (PortalSpec), partner companies (CollabSpec), the assistant with its    *)
(* policy, actions and signals (AssistantSpec), and the work items of a    *)
(* member (MyWorkSpec).                                                    *)
EXTENDS MakerChecker, TLC

-----------------------------------------------------------------------------
(* External users (modules/portal, application/services.py): invitations,  *)
(* the grants that accepting them or an administrator gives, and what is   *)
(* shared under a grant.                                                   *)
(*                                                                         *)
(* An acceptance holds its invitation, not the grant it finds; a share     *)
(* reads its grant without a lock.  Each is two steps.  The constraints    *)
(* keep one pending invitation and one active grant of a scope, unless the *)
(* scope is the company: it has no id, and no two rows without one clash.  *)

CONSTANTS
  User, PortalDay, Invitation, PortalGrant, Share,
  Scope, CompanyWide,   \* what may be granted, and those without an id
  To, On,               \* Invitation -> User, and -> Scope
  Allows,               \* Invitation -> permission codes
  Lasts,                \* Invitation -> days until it expires
  Entity, EntityOf,     \* Share -> Entity
  Needs, Within         \* Entity -> the permission it takes, and -> the scopes it lies in

PortalAssumption ==
  /\ PortalDay \subseteq Nat /\ CompanyWide \subseteq Scope
  /\ To \in [Invitation -> User] /\ On \in [Invitation -> Scope] /\ Lasts \in [Invitation -> Nat \ {0}]
  /\ DOMAIN Allows = Invitation /\ EntityOf \in [Share -> Entity]
  /\ DOMAIN Needs = Entity /\ Within \in [Entity -> SUBSET Scope]

VARIABLES
  portalToday,
  member,       \* User -> what the user is in the company
  invitation,   \* Invitation -> row; found: the grant its acceptance has found
  portalGrant,        \* Grant -> row
  share,        \* Share -> row
  queued        \* invitations a message was requested for

portalVars == <<portalToday, member, invitation, portalGrant, share, queued>>

NoGrant == "none"

PortalInit ==
  /\ portalToday \in PortalDay /\ \A n \in PortalDay : portalToday <= n
  /\ member = [u \in User |-> "none"] /\ queued = {}
  /\ invitation = [i \in Invitation |-> Absent] /\ portalGrant = [g \in PortalGrant |-> Absent] /\ share = [s \in Share |-> Absent]

PortalDayPasses ==
  /\ portalToday + 1 \in PortalDay /\ portalToday' = portalToday + 1
  /\ UNCHANGED <<member, invitation, portalGrant, share, queued>>

\* The company suspends a member, or takes it back.
SetMembershipStatus(u) ==
  /\ member[u] # "none"
  /\ member' = [member EXCEPT ![u] = IF @ = "active" THEN "suspended" ELSE "active"]
  /\ UNCHANGED <<portalToday, invitation, portalGrant, share, queued>>

-----------------------------------------------------------------------------
\* An invitation that has expired is still pending: the error that tells of it
\* rolls the status EXPIRED back, and its scope stays taken.
CreateInvitation(i) ==
  /\ ~Has(invitation, i)
  /\ On[i] \notin CompanyWide =>
       \A x \in Invitation : In(invitation, x, {"pending", "accepting"}) => To[x] # To[i] \/ On[x] # On[i]
  /\ invitation' = [invitation EXCEPT ![i] = [status |-> "pending", expires |-> portalToday + Lasts[i], by |-> NoGrant]]
  /\ UNCHANGED <<portalToday, member, portalGrant, share, queued>>

\* _validate_pending_invitation_for_user
PortalAcceptable(i) == In(invitation, i, {"pending"}) /\ portalToday < invitation[i].expires

\* The key names the invitation: a second message is the first one again.
QueueInvitationCommunication(i) ==
  /\ PortalAcceptable(i) /\ queued' = queued \cup {i}
  /\ UNCHANGED <<portalToday, member, invitation, portalGrant, share>>

ActiveGrants(u, scope) ==
  {g \in PortalGrant : In(portalGrant, g, {"active"}) /\ portalGrant[g].user = u /\ portalGrant[g].scope = scope}

\* The invitation is locked, the member made or found, a grant looked for ...
ReadForAcceptance(i) ==
  /\ PortalAcceptable(i) /\ member[To[i]] # "suspended"
  /\ \E g \in IF ActiveGrants(To[i], On[i]) = {} THEN {NoGrant} ELSE ActiveGrants(To[i], On[i]) :
       invitation' = [invitation EXCEPT ![i].status = "accepting", ![i].by = g]
  /\ UNCHANGED <<portalToday, member, portalGrant, share, queued>>

\* Only a scope with an id is granted to a user once at a time.
Free(u, scope) == scope \in CompanyWide \/ ActiveGrants(u, scope) = {}

Granted(g, u, scope, codes, until) ==
  [portalGrant EXCEPT ![g] = [status |-> "active", user |-> u, scope |-> scope, codes |-> codes, from |-> portalToday, until |-> until]]

\* ... and given, unless one was found, which may be revoked by now.
AcceptInvitation(i) ==
  /\ In(invitation, i, {"accepting"})
  /\ member' = [member EXCEPT ![To[i]] = IF @ = "none" THEN "active" ELSE @]
  /\ \/ /\ invitation[i].by # NoGrant /\ invitation' = Moved(invitation, i, "accepted") /\ UNCHANGED portalGrant
     \/ /\ invitation[i].by = NoGrant /\ Free(To[i], On[i])
        /\ \E g \in PortalGrant : /\ ~Has(portalGrant, g)
                                  /\ portalGrant' = Granted(g, To[i], On[i], Allows[i], 0)
                                  /\ invitation' = [invitation EXCEPT ![i].status = "accepted", ![i].by = g]
  /\ UNCHANGED <<portalToday, share, queued>>

RollbackAcceptance(i) ==
  /\ In(invitation, i, {"accepting"}) /\ invitation[i].by = NoGrant /\ ~Free(To[i], On[i])
  /\ invitation' = Moved(invitation, i, "pending") /\ UNCHANGED <<portalToday, member, portalGrant, share, queued>>

-----------------------------------------------------------------------------
CreateDirectGrant(g, u, scope) ==
  /\ ~Has(portalGrant, g) /\ Free(u, scope)
  /\ \E codes \in {Allows[i] : i \in Invitation}, until \in {0} \cup PortalDay :
       /\ until = 0 \/ until > portalToday
       /\ portalGrant' = Granted(g, u, scope, codes, until)
  /\ UNCHANGED <<portalToday, member, invitation, share, queued>>

\* With the shares that are committed.
RevokeGrant(g) ==
  /\ In(portalGrant, g, {"active"}) /\ portalGrant' = Moved(portalGrant, g, "revoked")
  /\ share' = [s \in Share |-> IF In(share, s, {"shared"}) /\ share[s].grant = g
                               THEN [share[s] EXCEPT !.status = "revoked"] ELSE share[s]]
  /\ UNCHANGED <<portalToday, member, invitation, queued>>

Effective(g) == In(portalGrant, g, {"active"}) /\ (portalGrant[g].until = 0 \/ portalToday < portalGrant[g].until)

\* validate_share_scope: what is shared lies in the scope of the grant.
ValidateShareScope(g, e) == portalGrant[g].scope \in Within[e] /\ Needs[e] \in portalGrant[g].codes

ReadGrant(s, g) ==
  /\ ~Has(share, s) /\ Effective(g) /\ ValidateShareScope(g, EntityOf[s])
  /\ share' = [share EXCEPT ![s] = [status |-> "sharing", grant |-> g, until |-> 0]]
  /\ UNCHANGED <<portalToday, member, invitation, portalGrant, queued>>

CreateShare(s) ==
  /\ In(share, s, {"sharing"})
  /\ \A x \in Share : In(share, x, {"shared"}) => share[x].grant # share[s].grant \/ EntityOf[x] # EntityOf[s]
  /\ \E until \in {0} \cup {n \in PortalDay : n > portalToday} :
       share' = [share EXCEPT ![s].status = "shared", ![s].until = until]
  /\ UNCHANGED <<portalToday, member, invitation, portalGrant, queued>>

\* shares_for_user
SharesForUser(u) ==
  {s \in Share : /\ In(share, s, {"shared"}) /\ (share[s].until = 0 \/ portalToday < share[s].until)
                 /\ Effective(share[s].grant) /\ portalGrant[share[s].grant].user = u}

PortalNext ==
  \/ PortalDayPasses
  \/ \E u \in User : SetMembershipStatus(u) \/ \E g \in PortalGrant, scope \in Scope : CreateDirectGrant(g, u, scope)
  \/ \E i \in Invitation : \/ CreateInvitation(i) \/ QueueInvitationCommunication(i)
                           \/ ReadForAcceptance(i) \/ AcceptInvitation(i) \/ RollbackAcceptance(i)
  \/ \E g \in PortalGrant : RevokeGrant(g) \/ \E s \in Share : ReadGrant(s, g)
  \/ \E s \in Share : CreateShare(s)

PortalSpec == PortalInit /\ [][PortalNext]_portalVars

-----------------------------------------------------------------------------
PortalInvitationRow ==
  [status : {"pending", "accepting", "accepted"}, expires : Nat, by : PortalGrant \cup {NoGrant}]
PortalAccessGrantRow ==
  [status : {"active", "revoked"}, user : User, scope : Scope, codes : {Allows[i] : i \in Invitation}, from : PortalDay,
   until : {0} \cup PortalDay]
PortalShareRow == [status : {"sharing", "shared", "revoked"}, grant : PortalGrant, until : {0} \cup PortalDay]

PortalTypeOK ==
  /\ portalToday \in PortalDay /\ member \in [User -> {"none", "active", "suspended"}] /\ queued \subseteq Invitation
  /\ invitation \in [Invitation -> PortalInvitationRow \cup {Absent}]
  /\ portalGrant \in [PortalGrant -> PortalAccessGrantRow \cup {Absent}] /\ share \in [Share -> PortalShareRow \cup {Absent}]

\* Whatever a user sees was shared under a grant of its own that nobody has
\* revoked, and lies in its scope, although a share may outlive its grant; an
\* invitation that was accepted led to a grant of the person and the scope it
\* names; a scope with an id is granted to a user once at a time.
SharedIsGranted ==
  /\ \A u \in User : \A s \in SharesForUser(u) :
       LET g == share[s].grant IN
       portalGrant[g].status = "active" /\ portalGrant[g].user = u /\ ValidateShareScope(g, EntityOf[s])
  /\ \A i \in Invitation : In(invitation, i, {"accepted"}) =>
       LET g == invitation[i].by IN
       Has(portalGrant, g) /\ portalGrant[g].user = To[i] /\ portalGrant[g].scope = On[i] /\ member[To[i]] # "none"
  /\ \A u \in User, scope \in Scope \ CompanyWide : Cardinality(ActiveGrants(u, scope)) <= 1

-----------------------------------------------------------------------------
(* Partners on the portal (modules/collabops, application/services.py and  *)
(* api/views.py): contacts who are invited, the grants that let them into  *)
(* a project, items they answer, decisions and messages.                   *)
(*                                                                         *)
(* Neither an answer nor a decision looks at the status of the item: both  *)
(* are accepted at any time and the last one names it.  Nothing withdraws  *)
(* a grant, it ends with its day.                                          *)

CONSTANTS
  Partner, Contact, CollabGrant, CollabItem, Submission, Decision, Message, CollabDay,
  OrgOf,       \* Contact, Item -> Partner
  Assigned,    \* Item -> the contact it is for, or Nobody
  Approver,    \* contacts who may decide
  GrantFor,    \* Grant -> the contact, the items of its project and site, its scopes and days
  OfItem,      \* Submission, Message -> Item
  Closing      \* decisions after which the item is closed

CollabAssumption ==
  /\ OrgOf \in [Contact \cup CollabItem -> Partner] /\ Assigned \in [CollabItem -> Contact \cup {Nobody}]
  /\ Approver \subseteq Contact /\ OfItem \in [Submission \cup Message -> CollabItem]
  /\ GrantFor \in [CollabGrant -> [contact : Contact, items : SUBSET CollabItem,
                                   scopes : SUBSET {"SUBMIT", "MESSAGE", "APPROVE", "ALL"}, days : SUBSET CollabDay]]

VARIABLES
  collabToday,
  partner,     \* organisations on record
  role,        \* external roles that have been created
  contact,     \* Contact -> row
  collabGrant,       \* grants made
  collabItem,        \* Item -> row
  submission,  \* Submission -> row
  collabDecision,    \* Decision -> row
  message      \* Message -> row

collabVars == <<collabToday, partner, role, contact, collabGrant, collabItem, submission, collabDecision, message>>

Roles == {"EXTERNAL_APPROVER", "EXTERNAL_COLLABORATOR"}
Codes == {"APPROVED", "REJECTED", "REVISION_REQUIRED", "ACKNOWLEDGED"}

CollabInit ==
  /\ collabToday \in CollabDay /\ \A n \in CollabDay : collabToday <= n
  /\ partner = {} /\ role = {} /\ collabGrant = {}
  /\ contact = [c \in Contact |-> Absent] /\ collabItem = [i \in CollabItem |-> Absent]
  /\ submission = [s \in Submission |-> Absent] /\ collabDecision = [n \in Decision |-> Absent]
  /\ message = [n \in Message |-> Absent]

CollabDayPasses ==
  /\ collabToday + 1 \in CollabDay /\ collabToday' = collabToday + 1
  /\ UNCHANGED <<partner, role, contact, collabGrant, collabItem, submission, collabDecision, message>>

CreatePartner(p) ==
  /\ p \notin partner /\ partner' = partner \cup {p}
  /\ UNCHANGED <<collabToday, role, contact, collabGrant, collabItem, submission, collabDecision, message>>

\* ensure_external_role: the role of a contact, made when the first needs it.
RoleOf(c) == IF c \in Approver THEN "EXTERNAL_APPROVER" ELSE "EXTERNAL_COLLABORATOR"

InvitePartnerContact(c) ==
  /\ OrgOf[c] \in partner /\ ~Has(contact, c)
  /\ role' = role \cup {RoleOf(c)} /\ contact' = [contact EXCEPT ![c] = [status |-> "INVITED"]]
  /\ UNCHANGED <<collabToday, partner, collabGrant, collabItem, submission, collabDecision, message>>

\* The first request of a login with the contact's address.
ResolvePartnerContact(c) ==
  /\ In(contact, c, {"INVITED"}) /\ contact' = Moved(contact, c, "ACTIVE")
  /\ UNCHANGED <<collabToday, partner, role, collabGrant, collabItem, submission, collabDecision, message>>

GrantProjectAccess(g) ==
  /\ g \notin collabGrant /\ Has(contact, GrantFor[g].contact) /\ collabGrant' = collabGrant \cup {g}
  /\ UNCHANGED <<collabToday, partner, role, contact, collabItem, submission, collabDecision, message>>

CreateCollaborationItem(i) ==
  /\ ~Has(collabItem, i) /\ OrgOf[i] \in partner
  /\ Assigned[i] # Nobody => Has(contact, Assigned[i]) /\ OrgOf[Assigned[i]] = OrgOf[i]
  /\ collabItem' = [collabItem EXCEPT ![i] = [status |-> "DRAFT", closed |-> FALSE]]
  /\ UNCHANGED <<collabToday, partner, role, contact, collabGrant, submission, collabDecision, message>>

-----------------------------------------------------------------------------
\* Grants of c for item i that are in force.
GrantsFor(c, i) ==
  {g \in collabGrant : GrantFor[g].contact = c /\ i \in GrantFor[g].items /\ collabToday \in GrantFor[g].days}

ActiveGrant(c, i, scope) == \E g \in GrantsFor(c, i) : GrantFor[g].scopes \cap {scope, "ALL"} # {}

\* The items that the portal shows to c.
PartnerItem(c, i) ==
  /\ In(contact, c, {"ACTIVE"}) /\ Has(collabItem, i) /\ OrgOf[i] = OrgOf[c]
  /\ Assigned[i] \in {Nobody, c} /\ GrantsFor(c, i) # {}

Revisions(i) == {submission[s].revision : s \in {x \in Submission : Has(submission, x) /\ OfItem[x] = i}}

\* A revision somebody else inserted meanwhile violates the unique constraint:
\* the answer is refused and may be sent again.
SubmitPartnerResponse(c, s) ==
  LET i == OfItem[s] IN
  /\ ~Has(submission, s) /\ PartnerItem(c, i) /\ ActiveGrant(c, i, "SUBMIT")
  /\ submission' = [submission EXCEPT ![s] =
       [status |-> "SUBMITTED", contact |-> c, on |-> collabToday, revision |-> Cardinality(Revisions(i)) + 1]]
  /\ collabItem' = Moved(collabItem, i, "SUBMITTED")
  /\ UNCHANGED <<collabToday, partner, role, contact, collabGrant, collabDecision, message>>

\* What a decision writes; about says which submission it names, if any.
DecideCollaborationItem(n, i, about, code, by) ==
  /\ ~Has(collabDecision, n) /\ Has(collabItem, i)
  /\ \A s \in about : Has(submission, s) /\ OfItem[s] = i
  /\ collabDecision' = [collabDecision EXCEPT ![n] = [status |-> code, item |-> i, about |-> about, by |-> by, on |-> collabToday]]
  /\ collabItem' = [collabItem EXCEPT ![i] = [status |-> code, closed |-> @.closed \/ code \in Closing]]
  /\ submission' = [s \in Submission |-> IF s \in about THEN [submission[s] EXCEPT !.status = code] ELSE submission[s]]
  /\ UNCHANGED <<collabToday, partner, role, contact, collabGrant, message>>

InternalDecision(n, i) ==
  \E code \in Codes, about \in {{}} \cup {{s} : s \in Submission} : DecideCollaborationItem(n, i, about, code, Nobody)

PartnerDecision(c, n, i) ==
  /\ c \in Approver /\ PartnerItem(c, i) /\ ActiveGrant(c, i, "APPROVE")
  /\ \E code \in Codes, about \in {{}} \cup {{s} : s \in Submission} : DecideCollaborationItem(n, i, about, code, c)

PostCollaborationMessage(n) ==
  /\ ~Has(message, n) /\ Has(collabItem, OfItem[n])
  /\ \/ \E internal \in BOOLEAN :
          message' = [message EXCEPT ![n] = [status |-> "SENT", from |-> Nobody, internal |-> internal, on |-> collabToday]]
     \/ \E c \in Contact :
          /\ PartnerItem(c, OfItem[n]) /\ ActiveGrant(c, OfItem[n], "MESSAGE")
          /\ message' = [message EXCEPT ![n] = [status |-> "SENT", from |-> c, internal |-> FALSE, on |-> collabToday]]
  /\ UNCHANGED <<collabToday, partner, role, contact, collabGrant, collabItem, submission, collabDecision>>

CollabNext ==
  \/ CollabDayPasses
  \/ \E p \in Partner : CreatePartner(p)
  \/ \E c \in Contact : InvitePartnerContact(c) \/ ResolvePartnerContact(c)
  \/ \E g \in CollabGrant : GrantProjectAccess(g)
  \/ \E i \in CollabItem : CreateCollaborationItem(i)
  \/ \E c \in Contact, s \in Submission : SubmitPartnerResponse(c, s)
  \/ \E n \in Decision, i \in CollabItem : InternalDecision(n, i)
  \/ \E c \in Contact, n \in Decision, i \in CollabItem : PartnerDecision(c, n, i)
  \/ \E n \in Message : PostCollaborationMessage(n)

CollabSpec == CollabInit /\ [][CollabNext]_collabVars

-----------------------------------------------------------------------------
PartnerContactRow == [status : {"INVITED", "ACTIVE"}]
CollaborationItemRow == [status : {"DRAFT", "SUBMITTED"} \cup Codes, closed : BOOLEAN]
CollaborationSubmissionRow ==
  [status : {"SUBMITTED"} \cup Codes, contact : Contact, on : CollabDay, revision : 1..Cardinality(Submission)]
CollaborationDecisionRow ==
  [status : Codes, item : CollabItem, about : SUBSET Submission, by : Contact \cup {Nobody}, on : CollabDay]
CollaborationMessageRow == [status : {"SENT"}, from : Contact \cup {Nobody}, internal : BOOLEAN, on : CollabDay]

CollabTypeOK ==
  /\ collabToday \in CollabDay /\ partner \subseteq Partner /\ role \subseteq Roles /\ collabGrant \subseteq CollabGrant
  /\ contact \in [Contact -> PartnerContactRow \cup {Absent}]
  /\ collabItem \in [CollabItem -> CollaborationItemRow \cup {Absent}]
  /\ submission \in [Submission -> CollaborationSubmissionRow \cup {Absent}]
  /\ collabDecision \in [Decision -> CollaborationDecisionRow \cup {Absent}]
  /\ message \in [Message -> CollaborationMessageRow \cup {Absent}]

\* What a partner did on an item was covered, on that day, by a grant of that
\* very contact for that very thing.
Covered(c, i, scope, on) ==
  \E g \in collabGrant : /\ GrantFor[g].contact = c /\ i \in GrantFor[g].items /\ on \in GrantFor[g].days
                         /\ GrantFor[g].scopes \cap {scope, "ALL"} # {}

\* Every answer, decision and message of a partner was covered by a grant and
\* concerns an item of his organisation; the revisions of an item are numbered
\* without a gap; a reviewed submission has a decision with its verdict; an item
\* that claims a verdict or an answer has one; a partner's message is never
\* marked internal.
PartnersStayInside ==
  /\ \A s \in Submission : Has(submission, s) =>
       /\ OrgOf[submission[s].contact] = OrgOf[OfItem[s]]
       /\ Covered(submission[s].contact, OfItem[s], "SUBMIT", submission[s].on)
       /\ ~In(submission, s, {"SUBMITTED"}) =>
            \E n \in Decision : collabDecision[n].status = submission[s].status /\ s \in collabDecision[n].about
  /\ \A n \in Decision : Has(collabDecision, n) /\ collabDecision[n].by # Nobody =>
       collabDecision[n].by \in Approver /\ Covered(collabDecision[n].by, collabDecision[n].item, "APPROVE", collabDecision[n].on)
  /\ \A n \in Message : Has(message, n) /\ message[n].from # Nobody =>
       ~message[n].internal /\ Covered(message[n].from, OfItem[n], "MESSAGE", message[n].on)
  /\ \A i \in CollabItem :
       /\ Revisions(i) = 1..Cardinality({s \in Submission : Has(submission, s) /\ OfItem[s] = i})
       /\ In(collabItem, i, {"SUBMITTED"}) => Revisions(i) # {}
       /\ In(collabItem, i, Codes) => \E n \in Decision : collabDecision[n].status = collabItem[i].status /\ collabDecision[n].item = i

-----------------------------------------------------------------------------
(* Governed use of a model (modules/ai, application/services.py): answers  *)
(* and extractions that a person reviews, actions an answer proposes and   *)
(* another person confirms, and the risk signals that a scan raises.       *)
(*                                                                         *)
(* An answer is computed from the metrics it cites; a metric is its value  *)
(* here, and only values at hand when it is asked for.                     *)

CONSTANTS
  Person,
  Request,     \* requests for an answer or an extraction
  By,          \* Request -> the person who asks
  Key,         \* Request -> idempotency key
  Extraction,  \* the requests for extractions
  Reviewed,    \* versions of the policy that ask for human review
  Action,      \* requests to propose an action
  OfAnswer,    \* Action -> the request whose answer proposes it
  Metric,
  Slot,        \* rows a signal may be inserted as
  MetricOf,    \* Slot -> metric of its fingerprint
  MaxPolicy, MaxReviews, MaxDecisions, LastDay  \* bounds

AssistantAssumption ==
  /\ By \in [Request -> Person] /\ DOMAIN Key = Request /\ Extraction \subseteq Request /\ OfAnswer \in [Action -> Request \ Extraction]
  /\ MetricOf \in [Slot -> Metric] /\ Reviewed \subseteq Nat
  /\ MaxPolicy \in Nat \ {0} /\ MaxReviews \in Nat /\ MaxDecisions \in Nat /\ LastDay \in Nat \ {0}

VARIABLES
  policy,    \* version of the policy that is active
  asking,    \* requests that have looked their key up and found nothing
  answer,    \* Request -> row: an AIInteraction or an AIExtractionJob
  given,     \* Request -> the row it was answered with
  assistantAction,    \* Action -> row of an AIToolAction
  metric,    \* Metric -> whether its value is above zero
  signal,    \* Slot -> row of an AIRiskSignal
  scan,      \* the scan under way: metrics it has found above zero
  assistantToday

assistantVars == <<policy, asking, answer, given, assistantAction, metric, signal, scan, assistantToday>>

NoScan == [status |-> "NONE", found |-> {}]

AssistantInit ==
  /\ policy = 1 /\ asking = {} /\ assistantToday = 1
  /\ answer = [r \in Request |-> Absent] /\ given = << >>
  /\ assistantAction = [x \in Action |-> Absent] /\ signal = [s \in Slot |-> Absent]
  /\ metric \in [Metric -> BOOLEAN] /\ scan = NoScan

-----------------------------------------------------------------------------
\* A new version of the policy becomes the active one of its code.
PublishPolicy ==
  /\ policy < MaxPolicy /\ policy' = policy + 1
  /\ UNCHANGED <<asking, answer, given, assistantAction, metric, signal, scan, assistantToday>>

SameKey(r) ==
  {q \in Request : Has(answer, q) /\ Key[q] = Key[r] /\ (q \in Extraction <=> r \in Extraction)}

\* A key that was used is answered with the row it made, whoever asks.
FindByKey(r) ==
  /\ r \notin asking \cup DOMAIN given
  /\ \/ SameKey(r) = {} /\ asking' = asking \cup {r} /\ UNCHANGED given
     \/ \E q \in SameKey(r) : given' = (r :> q) @@ given /\ UNCHANGED asking
  /\ UNCHANGED <<policy, answer, assistantAction, metric, signal, scan, assistantToday>>

\* Under the active policy; refused when the key has been used meanwhile.
CreateGroundedInteraction(r) ==
  /\ r \in asking /\ asking' = asking \ {r}
  /\ IF SameKey(r) = {}
     THEN /\ answer' = [answer EXCEPT ![r] =
               [status |-> IF r \in Extraction THEN "extracted" ELSE "completed", policy |-> policy,
                review |-> "not_reviewed", reviewer |-> By[r], corrector |-> By[r], version |-> 0]]
          /\ given' = (r :> r) @@ given
     ELSE UNCHANGED <<answer, given>>
  /\ UNCHANGED <<policy, assistantAction, metric, signal, scan, assistantToday>>

\* In any status and any number of times.  Under a policy that asks for review
\* the reviewer is not who asked; a correction becomes the text.
Review(r, p, decision) ==
  /\ Has(answer, r) /\ answer[r].version < MaxReviews
  /\ answer[r].policy \in Reviewed => p # By[r]
  /\ answer' = [answer EXCEPT ![r].review = decision, ![r].reviewer = p, ![r].version = @ + 1,
                              ![r].corrector = IF decision = "correct" THEN p ELSE @]
  /\ UNCHANGED <<policy, asking, given, assistantAction, metric, signal, scan, assistantToday>>
ReviewInteraction(r, p) == r \notin Extraction /\ \E d \in {"approve", "reject", "correct"} : Review(r, p, d)
ReviewExtraction(r, p) == r \in Extraction /\ \E d \in {"approve", "reject", "correct"} : Review(r, p, d)

-----------------------------------------------------------------------------
\* Whatever the answer's review says; the row refuses a policy without review.
ProposeToolAction(x, p) ==
  /\ ~ Has(assistantAction, x) /\ Has(answer, OfAnswer[x]) /\ answer[OfAnswer[x]].policy \in Reviewed
  /\ assistantAction' = [assistantAction EXCEPT ![x] = [status |-> "proposed", by |-> p, decider |-> p, until |-> assistantToday + 1, on |-> 0, version |-> 1]]
  /\ UNCHANGED <<policy, asking, answer, given, metric, signal, scan, assistantToday>>

\* A proposal that is out of time is marked expired, and the refusal that
\* follows takes the mark back: it stays proposed.
DecideToolAction(x, p) ==
  /\ In(assistantAction, x, {"proposed"}) /\ assistantToday < assistantAction[x].until /\ p # assistantAction[x].by
  /\ \E s \in {"confirmed", "rejected"} :
       assistantAction' = [assistantAction EXCEPT ![x].status = s, ![x].decider = p, ![x].on = assistantToday, ![x].version = @ + 1]
  /\ UNCHANGED <<policy, asking, answer, given, metric, signal, scan, assistantToday>>

-----------------------------------------------------------------------------
Alive == {"open", "acknowledged"}
AliveOf(m) == {s \in Slot : MetricOf[s] = m /\ In(signal, s, Alive)}

\* A scan computes the metrics it may read ...
ReadMetrics ==
  /\ scan = NoScan /\ scan' = [status |-> "READ", found |-> {m \in Metric : metric[m]}]
  /\ UNCHANGED <<policy, asking, answer, given, assistantAction, metric, signal, assistantToday>>

\* ... and for each above zero gets the signal that is alive or creates one.
ScanRisks ==
  /\ scan.status = "READ" /\ scan' = NoScan
  /\ LET new == {m \in scan.found : AliveOf(m) = {}} IN
     \E rows \in SUBSET {s \in Slot : ~ Has(signal, s)} :
       /\ \A m \in Metric : Cardinality({s \in rows : MetricOf[s] = m}) = IF m \in new THEN 1 ELSE 0
       /\ signal' = [s \in Slot |-> IF s \in rows THEN [status |-> "open", closed |-> FALSE, version |-> 1] ELSE signal[s]]
  /\ UNCHANGED <<policy, asking, answer, given, assistantAction, metric, assistantToday>>

\* From any status, so that one that was closed comes back; refused by the
\* unique constraint when another of its fingerprint is alive.
DecideRisk(s) ==
  /\ Has(signal, s) /\ signal[s].version <= MaxDecisions
  /\ \E d \in {"acknowledged", "resolved", "dismissed"} :
       /\ d \in Alive => AliveOf(MetricOf[s]) \subseteq {s}
       /\ signal' = [signal EXCEPT ![s].status = d, ![s].version = @ + 1, ![s].closed = @ \/ d \notin Alive]
  /\ UNCHANGED <<policy, asking, answer, given, assistantAction, metric, scan, assistantToday>>

Measure ==
  /\ \E m \in Metric : metric' = [metric EXCEPT ![m] = ~ @]
  /\ UNCHANGED <<policy, asking, answer, given, assistantAction, signal, scan, assistantToday>>

AssistantDayPasses ==
  /\ assistantToday < LastDay /\ assistantToday' = assistantToday + 1
  /\ UNCHANGED <<policy, asking, answer, given, assistantAction, metric, signal, scan>>

AssistantNext ==
  \/ PublishPolicy \/ ReadMetrics \/ ScanRisks \/ Measure \/ AssistantDayPasses
  \/ \E r \in Request : FindByKey(r) \/ CreateGroundedInteraction(r) \/ \E p \in Person : ReviewInteraction(r, p) \/ ReviewExtraction(r, p)
  \/ \E x \in Action, p \in Person : ProposeToolAction(x, p) \/ DecideToolAction(x, p)
  \/ \E s \in Slot : DecideRisk(s)

AssistantSpec == AssistantInit /\ [][AssistantNext]_assistantVars

-----------------------------------------------------------------------------
AIInteractionRow ==
  [status : {"completed", "extracted"}, policy : 1..MaxPolicy, review : {"not_reviewed", "approve", "reject", "correct"},
   reviewer : Person, corrector : Person, version : 0..MaxReviews]
AIToolActionRow ==
  [status : {"proposed", "confirmed", "rejected"}, by : Person, decider : Person, until : 2..(LastDay + 1),
   on : 0..LastDay, version : 1..2]
AIRiskSignalRow ==
  [status : Alive \cup {"resolved", "dismissed"}, closed : BOOLEAN, version : 1..(MaxDecisions + 1)]

AssistantTypeOK ==
  /\ policy \in 1..MaxPolicy /\ asking \subseteq Request /\ assistantToday \in 1..LastDay
  /\ answer \in [Request -> AIInteractionRow \cup {Absent}]
  /\ assistantAction \in [Action -> AIToolActionRow \cup {Absent}]
  /\ signal \in [Slot -> AIRiskSignalRow \cup {Absent}]

\* Two persons stand behind everything that leaves the assistant: an answer or
\* an extraction whose policy asks for review was reviewed, however often and
\* under whichever policy is active meanwhile, by another than who asked; an
\* action that was confirmed, by another than who proposed it, in its time, for
\* an answer under review.  Requests with one key share one answer.
TwoStandBehind ==
  /\ \A r \in Request : Has(answer, r) /\ answer[r].version > 0 /\ answer[r].policy \in Reviewed => answer[r].reviewer # By[r]
  /\ \A x \in Action : In(assistantAction, x, {"confirmed"}) =>
       /\ assistantAction[x].decider # assistantAction[x].by /\ assistantAction[x].on < assistantAction[x].until
       /\ answer[OfAnswer[x]].policy \in Reviewed
  /\ \A q, r \in DOMAIN given : Key[q] = Key[r] /\ (q \in Extraction <=> r \in Extraction) => given[q] = given[r]

\* Of one fingerprint at most one signal is alive, whatever is scanned twice,
\* closed and brought back; a signal that is closed was decided.
OneSignalAlive ==
  /\ \A m \in Metric : Cardinality(AliveOf(m)) <= 1
  /\ \A s \in Slot : Has(signal, s) /\ ~ In(signal, s, Alive) => signal[s].closed /\ signal[s].version > 1

-----------------------------------------------------------------------------
(* An employee's own work (modules/myworkops, application/services.py and  *)
(* selectors.py): the moves of work items that employees may make, drafts  *)
(* written offline and synced later, and the notices of what waits.        *)
(*                                                                         *)
(* The services of workops that these wrap are modelled in WorkOps: here   *)
(* an item is its status and version, and a progress, a timesheet or a     *)
(* note is a record of a draft.  sync_offline_draft locks the draft with   *)
(* its item, an outer join: PostgreSQL refuses that, whatever the draft.   *)

CONSTANTS
  MyWorkItem, Draft,
  About,        \* Draft -> the item it is about, or NoItem
  Kind,         \* Draft -> PROGRESS, TIMESHEET or NOTE
  Stamp,        \* times a client may have written a draft at
  MaxVersion,   \* bound: version of an item or a notice
  MaxUploads,   \* bound: uploads of a draft, and how often it is discarded
  OuterLocks    \* the database locks the nullable side of an outer join

NoItem == "no item"

MyWorkAssumption ==
  /\ About \in [Draft -> MyWorkItem \cup {NoItem}] /\ Kind \in [Draft -> {"PROGRESS", "TIMESHEET", "NOTE"}]
  /\ Stamp \subseteq Nat /\ MaxVersion \in Nat /\ MaxUploads \in Nat /\ OuterLocks \in BOOLEAN

VARIABLES
  myWorkItem,       \* Item -> row: status and version
  assigned,   \* items assigned to the employee
  moving,     \* Item -> the move its owner has been allowed: to, and the version it expects
  draft,      \* Draft -> row: status, client_updated_at, version of the item it names
  uploads,    \* Draft -> number of its uploads, and the latest time of one
  discards,   \* Draft -> how often it was discarded
  recorded,   \* Draft -> records made of it
  notice      \* Item -> row: the notice that it is blocked

myWorkVars == <<myWorkItem, assigned, moving, draft, uploads, discards, recorded, notice>>

EMPLOYEE_TRANSITIONS ==
  [READY |-> {"IN_PROGRESS", "BLOCKED"}, ASSIGNED |-> {"IN_PROGRESS", "BLOCKED"},
   IN_PROGRESS |-> {"BLOCKED", "REVIEW"}, BLOCKED |-> {"IN_PROGRESS"}, APPROVED |-> {"DONE"}]
Nowhere == [to |-> "nowhere", version |-> 0]

MyWorkInit ==
  /\ myWorkItem = [i \in MyWorkItem |-> [status |-> "READY", version |-> 1]] /\ assigned \in SUBSET MyWorkItem
  /\ moving = [i \in MyWorkItem |-> Nowhere] /\ notice = [i \in MyWorkItem |-> Absent]
  /\ draft = [d \in Draft |-> Absent] /\ recorded = [d \in Draft |-> 0] /\ discards = [d \in Draft |-> 0] /\ uploads = [d \in Draft |-> [count |-> 0, latest |-> 0]]

Written(i, s) == [myWorkItem EXCEPT ![i].status = s, ![i].version = @ + 1]

\* A manager assigns the item to somebody else, or sends it on.
Reassign(i) ==
  /\ assigned' = IF i \in assigned THEN assigned \ {i} ELSE assigned \cup {i}
  /\ UNCHANGED <<myWorkItem, moving, draft, uploads, discards, recorded, notice>>

TransitionWorkItem(i) ==
  /\ myWorkItem[i].version < MaxVersion /\ \E s \in {"READY", "BLOCKED", "APPROVED", "DONE"} : myWorkItem' = Written(i, s)
  /\ UNCHANGED <<assigned, moving, draft, uploads, discards, recorded, notice>>

\* The item is read, found assigned, and the move found in the table ...
CheckOwnWorkItem(i) ==
  /\ i \in assigned /\ moving[i] = Nowhere
  /\ \E s \in Offers(EMPLOYEE_TRANSITIONS, myWorkItem, i) :
       moving' = [moving EXCEPT ![i] = [to |-> s, version |-> myWorkItem[i].version]]
  /\ UNCHANGED <<myWorkItem, assigned, draft, uploads, discards, recorded, notice>>

\* ... and made by workops, which locks it and refuses another version.
TransitionOwnWorkItem(i) ==
  /\ moving[i] # Nowhere /\ moving' = [moving EXCEPT ![i] = Nowhere]
  /\ myWorkItem[i].version < MaxVersion
  /\ myWorkItem' = IF myWorkItem[i].version = moving[i].version THEN Written(i, moving[i].to) ELSE myWorkItem
  /\ UNCHANGED <<assigned, draft, uploads, discards, recorded, notice>>

-----------------------------------------------------------------------------
Uploaded(d, t) ==
  uploads' = [uploads EXCEPT ![d] = [count |-> @.count + 1, latest |-> IF t > @.latest THEN t ELSE @.latest]]

\* An upload that is older than what is stored only marks the conflict; any
\* other makes a draft of it again, also of one that was synced or discarded.
UpsertOfflineDraft(d) ==
  /\ uploads[d].count < MaxUploads /\ (About[d] # NoItem => About[d] \in assigned)
  /\ \E t \in Stamp :
       /\ Uploaded(d, t)
       /\ draft' = [draft EXCEPT ![d] =
            IF Has(draft, d) /\ t < @.at THEN [@ EXCEPT !.status = "CONFLICT"]
            ELSE [status |-> "DRAFT", at |-> t, names |-> IF About[d] = NoItem THEN 0 ELSE myWorkItem[About[d]].version]]
  /\ UNCHANGED <<myWorkItem, assigned, moving, discards, recorded, notice>>

\* What the record asks for; anything else is a conflict, kept in the draft.
MyWorkAcceptable(d) ==
  /\ Kind[d] = "PROGRESS" => About[d] # NoItem /\ myWorkItem[About[d]].version = draft[d].names
  /\ Kind[d] # "NOTE" /\ About[d] # NoItem => About[d] \in assigned

SyncOfflineDraft(d) ==
  /\ OuterLocks /\ In(draft, d, {"DRAFT", "CONFLICT", "DISCARDED"})
  /\ IF MyWorkAcceptable(d) THEN draft' = Moved(draft, d, "SYNCED") /\ recorded' = [recorded EXCEPT ![d] = @ + 1]
     ELSE draft' = Moved(draft, d, "CONFLICT") /\ UNCHANGED recorded
  /\ UNCHANGED <<myWorkItem, assigned, moving, uploads, discards, notice>>

\* In any status: a draft that was synced may be discarded, and synced again.
DiscardOfflineDraft(d) ==
  /\ Has(draft, d) /\ draft' = Moved(draft, d, "DISCARDED")
  /\ discards[d] < MaxUploads /\ discards' = [discards EXCEPT ![d] = @ + 1]
  /\ UNCHANGED <<myWorkItem, assigned, moving, uploads, recorded, notice>>

-----------------------------------------------------------------------------
\* _refresh_operational_notifications, whenever the employee looks: a notice is
\* made when an item is found blocked, dismissed when it is not, and never
\* brought back.
RefreshOperationalNotifications ==
  /\ notice' = [i \in MyWorkItem |->
       IF i \in assigned /\ myWorkItem[i].status = "BLOCKED"
       THEN IF Has(notice, i) THEN notice[i] ELSE [status |-> "UNREAD", dismissed |-> FALSE, version |-> 1]
       ELSE IF Has(notice, i) THEN [notice[i] EXCEPT !.dismissed = TRUE] ELSE Absent]
  /\ UNCHANGED <<myWorkItem, assigned, moving, draft, uploads, discards, recorded>>

UpdateNotificationState(i) ==
  /\ Has(notice, i) /\ notice[i].version < MaxVersion
  /\ \E action \in {"READ", "UNREAD", "DISMISS"} :
       notice' = [notice EXCEPT ![i].status = IF action = "UNREAD" THEN "UNREAD" ELSE "READ",
                                ![i].dismissed = @ \/ action = "DISMISS", ![i].version = @ + 1]
  /\ UNCHANGED <<myWorkItem, assigned, moving, draft, uploads, discards, recorded>>

MyWorkNext ==
  \/ RefreshOperationalNotifications
  \/ \E i \in MyWorkItem : \/ Reassign(i) \/ TransitionWorkItem(i) \/ CheckOwnWorkItem(i) \/ TransitionOwnWorkItem(i)
                           \/ UpdateNotificationState(i)
  \/ \E d \in Draft : UpsertOfflineDraft(d) \/ SyncOfflineDraft(d) \/ DiscardOfflineDraft(d)

MyWorkSpec == MyWorkInit /\ [][MyWorkNext]_myWorkVars

-----------------------------------------------------------------------------
OfflineDraftRow ==
  [status : {"DRAFT", "CONFLICT", "SYNCED", "DISCARDED"}, at : Stamp, names : 0..MaxVersion]
PersonalNotificationRow == [status : {"UNREAD", "READ"}, dismissed : BOOLEAN, version : 1..MaxVersion]

MyWorkTypeOK ==
  /\ assigned \subseteq MyWorkItem /\ recorded \in [Draft -> 0..(2 * MaxUploads)] /\ discards \in [Draft -> 0..MaxUploads]
  /\ draft \in [Draft -> OfflineDraftRow \cup {Absent}] /\ notice \in [MyWorkItem -> PersonalNotificationRow \cup {Absent}]
  /\ \A i \in MyWorkItem : myWorkItem[i].version \in 1..MaxVersion
  /\ uploads \in [Draft -> [count : 0..MaxUploads, latest : {0} \cup Stamp]]

\* However often a draft is uploaded, synced, discarded and synced again, no
\* record of it is made twice unless the employee had opened it again, by an
\* upload or by discarding it; what is stored
\* is the latest that was uploaded, in whatever order uploads arrive; a draft
\* that says it was synced was recorded.
RecordedByUpload ==
  \A d \in Draft : Has(draft, d) =>
    /\ recorded[d] <= uploads[d].count + discards[d]
    /\ draft[d].at = uploads[d].latest
    /\ In(draft, d, {"SYNCED"}) => recorded[d] > 0
=============================================================================
