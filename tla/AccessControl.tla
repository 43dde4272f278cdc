---------------------------- MODULE AccessControl ---------------------------
(* Who may do what: roles, overrides and invitations (AccessSpec), levels  *)
(* per area (LevelSpec), and what a company sets up for itself: its        *)
(* domains and brand (DomainSpec), and its configuration in versions       *)
(* (ConfigSpec).                                                           *)
EXTENDS Rows, Sequences

-----------------------------------------------------------------------------
(* Who may do what in a company (modules/accessops, application/services.py *)
(* and managed_access.py): roles in versions, the members who hold them,    *)
(* invitations that bring roles with them, and the features of the company, *)
(* from which its standard roles are derived.                               *)
(*                                                                         *)
(* The row of the company is locked by whoever changes a member: a member   *)
(* or an invitation is locked together with its company.  Other steps hold  *)
(* nothing, and each is a step of its own: a feature is overridden before   *)
(* the company is locked; an administrator's choice of roles ends those it  *)
(* finds before it waits for the company; an invitation is made of roles    *)
(* that were in force when they were looked for.  A new row that refers to  *)
(* the company waits for whoever has locked it, and until its transaction   *)
(* ends nobody else locks the company.                                      *)

CONSTANTS
  Person, AccessFeature, Override, Invitation,
  AccessArea,        \* the features of an area that access is managed for
  Changes,     \* Override -> the feature and whether it is switched on
  For,         \* Invitation -> Person
  AccessMaxVersion,  \* bound: versions of a role
  MaxSwaps     \* bound: changes to the roles or status of a member by hand

AccessAssumption ==
  /\ Nobody \notin Override \cup Invitation /\ Override \cap Invitation = {}
  /\ AccessArea \subseteq AccessFeature /\ Changes \in [Override -> [feature : AccessFeature, on : BOOLEAN]]
  /\ For \in [Invitation -> Person] /\ AccessMaxVersion \in Nat \ {0} /\ MaxSwaps \in Nat

AccessFree == [for |-> Nobody]
AccessCode == {"ADMIN", "USER", "MANAGED", "NONE", "LEGACY"}
Administering == {"ADMIN", "LEGACY"}

VARIABLES
  override,    \* Override -> row: its place in the order of effect
  accessRole,        \* Code -> the permissions of its versions; a role is retired by the next
  retired,     \* codes without a version in force
  accessMember,      \* Person -> row: status and roles held, as <<code, version>>
  invitation,  \* Invitation -> row
  primary,     \* the primary administrator
  company,     \* the reconciliation that holds the company
  replacing,   \* the choice of roles under way, or AccessIdle (bound: one at a time)
  swaps

accessVars == <<override, accessRole, retired, accessMember, invitation, primary, company, replacing, swaps>>

AccessIdle == [status |-> "IDLE"]

Latest(c) == <<c, Len(accessRole[c])>>
AccessInForce(c) == accessRole[c] # <<>> /\ c \notin retired
Current(held) == held[1] \in AccessCode \ retired /\ held[2] = Len(accessRole[held[1]])

\* feature_matrix: the override that took effect last; features are on at first.
Features(table) ==
  {f \in AccessFeature : \A o \in Override :
     (/\ Has(table, o) /\ Changes[o].feature = f
      /\ \A x \in Override : Has(table, x) /\ Changes[x].feature = f => table[x].at <= table[o].at)
     => Changes[o].on}
Committed == [o \in Override |-> IF In(override, o, {"SET"}) THEN override[o] ELSE Absent]
OwnAnd(o) == [x \in Override |-> IF x = o \/ In(override, x, {"SET"}) THEN override[x] ELSE Absent]

\* What the standard roles permit, and those of managed access.
AccessPermits(c, features) ==
  CASE c = "USER" -> features \cup {"shared"} [] c = "MANAGED" -> (features \cap AccessArea) \cup {"shared"}
    [] c = "NONE" -> {} [] OTHER -> {"admin"}

AccessInit ==
  /\ override = [o \in Override |-> Absent] /\ retired = {}
  /\ accessRole = [c \in AccessCode |-> IF c \in {"ADMIN", "USER", "LEGACY"} THEN <<AccessPermits(c, AccessFeature)>> ELSE <<>>]
  /\ primary \in Person /\ company = AccessFree /\ replacing = AccessIdle /\ swaps = 0
  /\ accessMember = [p \in Person |-> IF p = primary THEN [status |-> "ACTIVE", holds |-> {<<"LEGACY", 1>>}] ELSE Absent]
  /\ invitation = [i \in Invitation |-> Absent]

-----------------------------------------------------------------------------
\* Nobody has locked the company: neither a reconciliation nor an acceptance.
Unlockable == company.for = Nobody /\ \A i \in Invitation : Has(invitation, i) => invitation[i].reading = {}

\* Nor is a switch open, whose row keeps others from locking the company.
Appended == {o \in Override : In(override, o, {"OPEN"})}
CompanyFree == Unlockable /\ Appended = {}

\* append_feature_override: a row of the company.
AppendFeatureOverride(o) ==
  /\ ~Has(override, o) /\ Unlockable
  /\ override' = [override EXCEPT ![o] = [status |-> "OPEN",
       at |-> Cardinality({x \in Override : Has(override, x)}) + 1]]
  /\ UNCHANGED <<accessRole, retired, accessMember, invitation, primary, company, replacing, swaps>>

\* Each of two switches that have appended waits for the other: one is undone.
UndoSwitch(o) ==
  /\ o \in Appended /\ Appended # {o} /\ override' = Moved(override, o, "LOST")
  /\ UNCHANGED <<accessRole, retired, accessMember, invitation, primary, company, replacing, swaps>>

AccessActive == {p \in Person : In(accessMember, p, {"ACTIVE"})}
Held(p) == {held[1] : held \in accessMember[p].holds}
Admins == {p \in AccessActive : p = primary \/ Held(p) \cap Administering # {}}

\* reconcile_standard_company_access takes the company and reads its members:
\* for a switch, or before the primary administrator is invited again.
LockCompany(x) ==
  /\ Unlockable
  /\ \/ Appended = {x}
     \/ Appended = {} /\ x \in Invitation /\ ~Has(invitation, x) /\ For[x] = primary /\ primary \notin AccessActive
  /\ company' = [for |-> x, holds |-> [p \in Person |-> IF Has(accessMember, p) THEN accessMember[p].holds ELSE {}],
                 active |-> AccessActive, admins |-> Admins]
  /\ UNCHANGED <<override, accessRole, retired, accessMember, invitation, primary, replacing, swaps>>

\* The versions after role c is brought in line with the features.
Synced(c, features) ==
  IF AccessInForce(c) /\ accessRole[c][Len(accessRole[c])] = AccessPermits(c, features) THEN accessRole[c] ELSE Append(accessRole[c], AccessPermits(c, features))

\* create_role: those who held the version that is replaced hold the next.
Renamed(held, now) == IF Current(held) THEN <<held[1], Len(now[held[1]])>> ELSE held

\* _align_pending_standard_invitations and its counterpart for managed roles.
Aligned(i, now) ==
  LET user == <<"USER", Len(now["USER"])>> IN
  IF invitation[i].kind = "COMPANY_ADMIN" THEN {<<"ADMIN", Len(now["ADMIN"])>>, user}
  ELSE IF {held[1] : held \in invitation[i].roles} \subseteq {"USER"} \cup Administering THEN {user}
  ELSE {Renamed(held, now) : held \in invitation[i].roles}

Pending(i) == In(invitation, i, {"OPEN"})

\* What a member holds afterwards: what was read of it is renamed, administrators
\* hold both standard roles, and who held nothing becomes a user.
Reconciled(p, now) ==
  LET was == company.holds[p]
      given == CASE p \in company.admins -> {"ADMIN", "USER"} [] p \in company.active /\ was = {} -> {"USER"} [] OTHER -> {}
  IN {held \in (accessMember[p].holds \ was) \cup {Renamed(x, now) : x \in was} : held[1] # "LEGACY"}
     \cup {<<c, Len(now[c])>> : c \in given}

\* The versions of the roles afterwards.
Republished(x) ==
  [c \in AccessCode |-> IF c \in {"ADMIN", "USER"} \/ (c \in {"MANAGED", "NONE"} /\ AccessInForce(c))
                        THEN Synced(c, Features(OwnAnd(x))) ELSE accessRole[c]]
AlignedWith(now) ==
  [i \in Invitation |-> IF Pending(i) THEN [invitation[i] EXCEPT !.roles = Aligned(i, now)] ELSE invitation[i]]

Reconcile(x) ==
  LET now == Republished(x) IN
  /\ company.for = x /\ company' = AccessFree
  /\ \A c \in AccessCode : Len(now[c]) <= AccessMaxVersion
  /\ accessRole' = now /\ retired' = retired \cup {"LEGACY"}
  /\ accessMember' = [p \in Person |-> IF Has(accessMember, p) THEN [accessMember[p] EXCEPT !.holds = Reconciled(p, now)] ELSE accessMember[p]]
  /\ UNCHANGED <<primary, replacing, swaps>>

ReconcileStandardCompanyAccess(o) ==
  Reconcile(o) /\ override' = Moved(override, o, "SET") /\ invitation' = AlignedWith(Republished(o))

-----------------------------------------------------------------------------
\* create_invitation withdraws those of the same person that are not accepted.
Issued(table, i, kind, roles) ==
  [x \in Invitation |->
     IF x = i THEN [status |-> "OPEN", kind |-> kind, roles |-> roles, reading |-> {}, accepted |-> FALSE, revoked |-> FALSE]
     ELSE IF Has(table, x) /\ For[x] = For[i] /\ ~table[x].accepted
     THEN [table[x] EXCEPT !.status = "DONE", !.revoked = TRUE] ELSE table[x]]

CreateInvitation(i, c, v) ==
  /\ ~Has(invitation, i) /\ Unlockable /\ invitation' = Issued(invitation, i, "EMPLOYEE", {<<c, v>>})
  /\ UNCHANGED <<override, accessRole, retired, accessMember, primary, company, replacing, swaps>>

\* The role was in force when it was looked for, and may have been replaced since.
InviteEmployee(i) == \E c \in {"USER", "MANAGED", "NONE"} : \E v \in DOMAIN accessRole[c] : CreateInvitation(i, c, v)

\* Anew for the same address: a user's invitation, open, withdrawn or expired.
RegenerateCompanyUserInvitation(i) ==
  /\ \E x \in Invitation : For[x] = For[i] /\ Has(invitation, x) /\ ~invitation[x].accepted /\ invitation[x].kind = "EMPLOYEE"
  /\ CompanyFree /\ AccessInForce("USER") /\ CreateInvitation(i, "USER", Len(accessRole["USER"]))

\* The company is reconciled first.
RegeneratePrimaryAdminInvitation(i) ==
  LET now == Republished(i) IN
  /\ Reconcile(i) /\ UNCHANGED override
  /\ invitation' = Issued(AlignedWith(now), i, "COMPANY_ADMIN", {<<"ADMIN", Len(now["ADMIN"])>>, <<"USER", Len(now["USER"])>>})

RevokeInvitation(i) ==
  /\ Has(invitation, i) /\ CompanyFree /\ ~invitation[i].accepted /\ ~invitation[i].revoked
  /\ invitation' = [invitation EXCEPT ![i].status = "DONE", ![i].revoked = TRUE]
  /\ UNCHANGED <<override, accessRole, retired, accessMember, primary, company, replacing, swaps>>

ExpireInvitation(i) ==
  /\ Pending(i) /\ invitation[i].reading = {} /\ invitation' = Moved(invitation, i, "DONE")
  /\ UNCHANGED <<override, accessRole, retired, accessMember, primary, company, replacing, swaps>>

\* accept_invitation: the company is locked and the roles are found in force ...
ReadInvitation(i) ==
  /\ Pending(i) /\ CompanyFree /\ \A held \in invitation[i].roles : Current(held)
  /\ invitation' = [invitation EXCEPT ![i].reading = invitation[i].roles]
  /\ UNCHANGED <<override, accessRole, retired, accessMember, primary, company, replacing, swaps>>

\* ... and given to the member, who is back even if suspended or terminated.
AcceptInvitation(i) ==
  LET p == For[i] IN
  /\ Pending(i) /\ invitation[i].reading # {}
  /\ invitation' = [invitation EXCEPT ![i].status = "DONE", ![i].reading = {}, ![i].accepted = TRUE]
  /\ accessMember' = [accessMember EXCEPT ![p] =
       [status |-> "ACTIVE", holds |-> (IF Has(accessMember, p) THEN @.holds ELSE {}) \cup invitation[i].reading]]
  /\ UNCHANGED <<override, accessRole, retired, primary, company, replacing, swaps>>

-----------------------------------------------------------------------------
Swap == swaps < MaxSwaps /\ swaps' = swaps + 1

\* replace_membership_roles: the roles are found in force and what the member
\* holds is ended ...  Nobody gives up the administration of access himself.
EndRoles(p, actor, codes) ==
  /\ Swap /\ replacing = AccessIdle /\ actor \in Admins /\ Has(accessMember, p) /\ \A c \in codes : AccessInForce(c)
  /\ p = actor => codes \cap Administering # {}
  /\ replacing' = [status |-> "ENDED", for |-> p, was |-> accessMember[p].holds, roles |-> {Latest(c) : c \in codes}]
  /\ UNCHANGED <<override, accessRole, retired, accessMember, invitation, primary, company>>

\* ... and, with the company locked, the roles are given, beside what others gave.
ReplaceMembershipRoles ==
  /\ replacing # AccessIdle /\ replacing' = AccessIdle /\ (replacing.roles # {} => CompanyFree)
  /\ accessMember' = [accessMember EXCEPT ![replacing.for].holds = (@ \ replacing.was) \cup replacing.roles]
  /\ UNCHANGED <<override, accessRole, retired, invitation, primary, company, swaps>>

\* Access to one area or to none, by a role that is made or brought in line.
SetMembershipManagedAccess(p) ==
  /\ Swap /\ CompanyFree /\ Has(accessMember, p) /\ ~In(accessMember, p, {"TERMINATED"}) /\ p \notin Admins
  /\ Held(p) \subseteq {"USER", "MANAGED", "NONE"}
  /\ \E c \in {"MANAGED", "NONE"} :
       LET now == [accessRole EXCEPT ![c] = Synced(c, Features(Committed))] IN
       /\ c = "MANAGED" => AccessArea \cap Features(Committed) # {}
       /\ Len(now[c]) <= AccessMaxVersion /\ accessRole' = now
       /\ accessMember' = [x \in Person |->
            IF x = p THEN [accessMember[p] EXCEPT !.holds = {<<c, Len(now[c])>>}]
            ELSE IF Has(accessMember, x) THEN [accessMember[x] EXCEPT !.holds = {Renamed(held, now) : held \in @}] ELSE accessMember[x]]
  /\ UNCHANGED <<override, retired, invitation, primary, company, replacing>>

SetMembershipStatus(p, actor) ==
  /\ Swap /\ CompanyFree /\ actor \in Admins /\ Has(accessMember, p)
  /\ \E to \in {"ACTIVE", "SUSPENDED", "TERMINATED"} :
       /\ p = actor => to = "ACTIVE"
       /\ In(accessMember, p, {"TERMINATED"}) => to = "TERMINATED"
       /\ accessMember' = Moved(accessMember, p, to)
  /\ UNCHANGED <<override, accessRole, retired, invitation, primary, company, replacing>>

\* The next primary administrator holds the standard roles, the last one not the
\* first of them.  An invitation as administrator that is still open stays open.
TransferPrimaryCompanyAdmin(p) ==
  /\ Swap /\ CompanyFree /\ p \in AccessActive /\ p # primary /\ AccessInForce("ADMIN") /\ AccessInForce("USER")
  /\ primary' = p
  /\ accessMember' = [x \in Person |->
       IF x = p THEN [accessMember[p] EXCEPT !.holds = @ \cup {Latest("ADMIN"), Latest("USER")}]
       ELSE IF x = primary /\ Has(accessMember, x)
       THEN [accessMember[x] EXCEPT !.holds = {held \in @ : held[1] \notin Administering}] ELSE accessMember[x]]
  /\ UNCHANGED <<override, accessRole, retired, invitation, company, replacing>>

AccessNext ==
  \/ \E o \in Override : AppendFeatureOverride(o) \/ UndoSwitch(o) \/ ReconcileStandardCompanyAccess(o)
  \/ \E x \in Override \cup Invitation : LockCompany(x)
  \/ \E i \in Invitation :
       \/ InviteEmployee(i) \/ RegenerateCompanyUserInvitation(i) \/ RegeneratePrimaryAdminInvitation(i)
       \/ RevokeInvitation(i) \/ ExpireInvitation(i) \/ ReadInvitation(i) \/ AcceptInvitation(i)
  \/ \E p \in Person :
       \/ SetMembershipManagedAccess(p) \/ TransferPrimaryCompanyAdmin(p)
       \/ \E actor \in Person : \/ SetMembershipStatus(p, actor)
                                \/ \E codes \in SUBSET {"ADMIN", "USER"} : EndRoles(p, actor, codes)
  \/ ReplaceMembershipRoles

AccessSpec == AccessInit /\ [][AccessNext]_accessVars

-----------------------------------------------------------------------------
Holding == SUBSET (AccessCode \X (1..AccessMaxVersion))
MembershipRow == [status : {"ACTIVE", "SUSPENDED", "TERMINATED"}, holds : Holding]
AccessInvitationRow ==
  [status : {"OPEN", "DONE"}, kind : {"EMPLOYEE", "COMPANY_ADMIN"}, roles : Holding, reading : Holding,
   accepted : BOOLEAN, revoked : BOOLEAN]

AccessTypeOK ==
  /\ \A o \in Override : override[o] \in [status : {"OPEN", "SET", "LOST"}, at : 1..Cardinality(Override)] \cup {Absent}
  /\ \A c \in AccessCode : Len(accessRole[c]) <= AccessMaxVersion /\ \A v \in DOMAIN accessRole[c] : accessRole[c][v] \subseteq AccessFeature \cup {"shared", "admin"}
  /\ retired \subseteq AccessCode /\ primary \in Person /\ swaps \in 0..MaxSwaps
  /\ \A p \in Person : accessMember[p] \in MembershipRow \cup {Absent}
  /\ \A i \in Invitation : invitation[i] \in AccessInvitationRow \cup {Absent}
  /\ company.for = Nobody \/ company.for \in Override \cup Invitation
  /\ replacing = AccessIdle \/ replacing.for \in Person

\* Once a feature has been switched, the role of every user permits what the
\* company has and nothing else, in whatever order two switches were made,
\* and whichever of them was undone; an invitation is accepted or withdrawn, never both; no
\* member holds a version that does not exist; nobody is left of the old
\* administrators' role once it is retired.
RolesFollowFeatures ==
  /\ accessRole["USER"][Len(accessRole["USER"])] = AccessPermits("USER", Features(Committed))
  /\ \A i \in Invitation : Has(invitation, i) => ~(invitation[i].accepted /\ invitation[i].revoked)
  /\ \A p \in Person : Has(accessMember, p) => \A held \in accessMember[p].holds : held[2] \in 1..Len(accessRole[held[1]])
  /\ "LEGACY" \in retired => \A p \in Person : Has(accessMember, p) => "LEGACY" \notin Held(p)

-----------------------------------------------------------------------------
(* The matrix of a company's members and areas (modules/accessops,         *)
(* application/managed_access.py), each cell a level, kept as roles: one   *)
(* of each area and level in use, one shared, one for nobody's access.     *)
(*                                                                         *)
(* A change locks the member and with it the company, so that changes,     *)
(* feature switches (see AccessSpec) and roles given by hand follow each   *)
(* other.  An invitation with levels makes the roles it needs one by one,  *)
(* and locks the company only to move members to a role's next version:    *)
(* what it found before may be out of date by then.  (What it gives when   *)
(* it is accepted is in AccessSpec.)                                       *)

CONSTANTS
  LevelArea, LevelFeature,
  LevelCode,       \* permissions
  Of,         \* Code -> area, or Shared
  Opens,      \* Code -> the feature that brings it into the package, or Shared
  Kind,       \* Code -> "READ", "EDIT" or "RISK"
  Level,      \* of "NONE", "VIEW", "EDIT", "FULL"
  Member, LevelCaller,   \* bound: requests under way
  LevelMaxVersion  \* bound: versions of a role

Shared == "SHARED"

ManagedAccessAssumption ==
  /\ Of \in [LevelCode -> LevelArea \cup {Shared}] /\ Opens \in [LevelCode -> LevelFeature \cup {Shared}] /\ Kind \in [LevelCode -> {"READ", "EDIT", "RISK"}]
  /\ LevelArea \cap {Shared, "NONE", "USER", "CUSTOM"} = {}
  /\ Level \subseteq {"NONE", "VIEW", "EDIT", "FULL"} /\ {"NONE", "FULL"} \subseteq Level /\ LevelMaxVersion \in Nat

VARIABLES
  levelEnabled,  \* features of the company
  levelRole,     \* key -> the permissions of its versions; the last is in force
  levelMember,   \* Member -> row: roles held, levels as set last
  call,     \* Caller -> the request under way: what it has read, or Idle
  overtaken \* what changed before an invitation's role was made of it

levelVars == <<levelEnabled, levelRole, levelMember, call, overtaken>>

LevelIdle == [status |-> "IDLE"]

\* Keys of roles, as <<area or SHARED, level>>; those of no access, of the full
\* package and of a role made by hand have none of either.
NoAccess == <<"NONE", "NONE">>
User == <<"USER", "FULL">>
LevelCustom == <<"CUSTOM", "NONE">>
Keys == ((LevelArea \cup {Shared}) \X (Level \ {"NONE"})) \cup {NoAccess, User, LevelCustom}

\* filter_permission_codes_for_level: a code with a term of risk is not for EDIT.
Filtered(codes, level) ==
  {p \in codes : Kind[p] \in (CASE level = "NONE" -> {} [] level = "VIEW" -> {"READ"}
                               [] level = "EDIT" -> {"READ", "EDIT"} [] level = "FULL" -> {"READ", "EDIT", "RISK"})}

\* company_user_permission_codes, access_area_catalog, and what a key permits.
Package(features) == {p \in LevelCode : Opens[p] \in features \cup {Shared}}
Catalog(features) == {Of[p] : p \in Package(features)} \ {Shared}
LevelPermits(key, features) ==
  IF key = User THEN Package(features)
  ELSE IF key \in {NoAccess, LevelCustom} THEN {}
  ELSE Filtered({p \in Package(features) : Of[p] = key[1]}, key[2])

Rank(level) == CASE level = "NONE" -> 0 [] level = "VIEW" -> 1 [] level = "EDIT" -> 2 [] level = "FULL" -> 3
Highest(levels) == CHOOSE l \in {levels[x] : x \in DOMAIN levels} : \A x \in DOMAIN levels : Rank(levels[x]) <= Rank(l)

\* managed_role_public_ids_for_levels: the keys of the roles for levels.
KeysFor(levels, features) ==
  LET top == Highest(levels)  shared == <<Shared, top>> IN
  IF top = "NONE" THEN {NoAccess}
  ELSE {<<x, levels[x]>> : x \in {y \in DOMAIN levels : levels[y] # "NONE"}}
       \cup (IF LevelPermits(shared, features) # {} THEN {shared} ELSE {})

LevelNewest(key) == <<key, Len(levelRole[key])>>
LevelInForce(held) == held[2] = Len(levelRole[held[1]])
LevelActive(m) == {held \in levelMember[m].holds : LevelInForce(held)}
ActiveKeys(m) == {held[1] : held \in LevelActive(m)}

LevelInit ==
  /\ levelEnabled = LevelFeature /\ overtaken = {}
  /\ levelRole = [k \in Keys |-> IF k \in {User, LevelCustom} THEN <<LevelPermits(k, LevelFeature)>> ELSE <<>>]
  /\ levelMember = [m \in Member |-> [status |-> "ACTIVE", holds |-> {<<User, 1>>}, set |-> [x \in LevelArea |-> "FULL"]]]
  /\ call = [c \in LevelCaller |-> LevelIdle]

\* _access_profile_for_membership: the level shown, of a member without other roles.
LevelShown(m, x) ==
  IF User \in ActiveKeys(m) THEN "FULL"
  ELSE IF \E l \in Level : <<x, l>> \in ActiveKeys(m) THEN CHOOSE l \in Level : <<x, l>> \in ActiveKeys(m) ELSE "NONE"

\* A change holds the company until it ends.
Unheld == \A c \in LevelCaller : call[c].status # "CHANGE"

\* The newest version of a role does not permit these codes, or there is none.
OutOfLine(key, codes) == ~ \E n \in DOMAIN levelRole[key] : n = Len(levelRole[key]) /\ levelRole[key][n] = codes

\* The roles of keys in their next version, given to those who hold the newest.
NextVersion(keys, features) ==
  [k \in Keys |-> IF k \in keys THEN Append(levelRole[k], LevelPermits(k, features)) ELSE levelRole[k]]
MovedOn(keys, m) == {IF h[1] \in keys /\ LevelInForce(h) THEN <<h[1], h[2] + 1>> ELSE h : h \in levelMember[m].holds}

\* set_membership_managed_access, with the company locked, finds the roles ...
BeginChange(c, m, levels) ==
  LET areas == Catalog(levelEnabled)
      keys == KeysFor([x \in areas |-> levels[x]], levelEnabled)
  IN
  /\ call[c] = LevelIdle /\ Unheld /\ areas # {} /\ LevelCustom \notin ActiveKeys(m)
  /\ call' = [call EXCEPT ![c] =
       [status |-> "CHANGE", member |-> m, levels |-> [x \in LevelArea |-> IF x \in areas THEN levels[x] ELSE "NONE"],
        keys |-> keys, stale |-> {k \in keys : OutOfLine(k, LevelPermits(k, levelEnabled))},
        at |-> [k \in keys |-> Len(levelRole[k])]]]
  /\ UNCHANGED <<levelEnabled, levelRole, levelMember, overtaken>>

\* ... makes those that are missing or out of line, and gives the member all of
\* them: if those it found are still in force.
CommitChange(c) ==
  LET t == call[c] IN
  /\ t.status = "CHANGE" /\ \A k \in t.keys \ t.stale : Len(levelRole[k]) = t.at[k]
  /\ \A k \in t.stale : Len(levelRole[k]) < LevelMaxVersion
  /\ call' = [call EXCEPT ![c] = LevelIdle] /\ levelRole' = NextVersion(t.stale, levelEnabled)
  /\ levelMember' = [x \in Member |->
       IF x = t.member
       THEN [levelMember[x] EXCEPT !.holds = {<<k, Len(levelRole[k]) + (IF k \in t.stale THEN 1 ELSE 0)>> : k \in t.keys}, !.set = t.levels]
       ELSE [levelMember[x] EXCEPT !.holds = MovedOn(t.stale, x)]]
  /\ UNCHANGED <<levelEnabled, overtaken>>

\* Another made a version meanwhile: a role has been retired, or a number taken.
RefuseChange(c) ==
  /\ call[c].status = "CHANGE" /\ \E k \in call[c].keys : Len(levelRole[k]) # call[c].at[k]
  /\ call' = [call EXCEPT ![c] = LevelIdle] /\ UNCHANGED <<levelEnabled, levelRole, levelMember, overtaken>>

\* _sync_role for an invitation with levels: the role is missing or out of line, ...
BeginSync(c, k) ==
  LET codes == LevelPermits(k, levelEnabled) IN
  /\ call[c] = LevelIdle /\ k \notin {User, LevelCustom} /\ OutOfLine(k, codes)
  /\ k[1] \in LevelArea => k[1] \in Catalog(levelEnabled)
  /\ k[1] = Shared => codes # {}
  /\ call' = [call EXCEPT ![c] = [status |-> "SYNC", key |-> k, codes |-> codes]]
  /\ UNCHANGED <<levelEnabled, levelRole, levelMember, overtaken>>

\* ... create_role finds its version in force and who holds it, ...
FindHolders(c) ==
  LET k == call[c].key IN
  /\ call[c].status = "SYNC"
  /\ call' = [call EXCEPT ![c] = [status |-> "FOUND", key |-> k, codes |-> call[c].codes, at |-> Len(levelRole[k]),
                                 holders |-> {x \in Member : LevelNewest(k) \in levelMember[x].holds}]]
  /\ UNCHANGED <<levelEnabled, levelRole, levelMember, overtaken>>

\* ... makes the next and, with the company locked, gives it to them, who may
\* not hold the last one any more; the number is unique.
CommitSync(c) ==
  LET t == call[c]  k == t.key  old == <<k, t.at>> IN
  /\ t.status = "FOUND" /\ call' = [call EXCEPT ![c] = LevelIdle] /\ UNCHANGED levelEnabled
  /\ IF Len(levelRole[k]) # t.at THEN UNCHANGED <<levelRole, levelMember, overtaken>>
     ELSE /\ t.at < LevelMaxVersion /\ (t.holders # {} => Unheld)
          /\ levelRole' = [levelRole EXCEPT ![k] = Append(@, t.codes)]
          /\ levelMember' = [x \in Member |->
               IF x \in t.holders THEN [levelMember[x] EXCEPT !.holds = (@ \ {old}) \cup {<<k, t.at + 1>>}] ELSE levelMember[x]]
          /\ overtaken' = overtaken \cup (IF \E x \in t.holders : old \notin levelMember[x].holds THEN {"HOLDERS"} ELSE {})
                                   \cup (IF t.codes # LevelPermits(k, levelEnabled) THEN {"FEATURES"} ELSE {})

\* A feature is switched: reconcile_managed_access_roles and the standard role.
SwitchFeature(x) ==
  LET features == IF x \in levelEnabled THEN levelEnabled \ {x} ELSE levelEnabled \cup {x}
      old == {k \in Keys \ {LevelCustom} : levelRole[k] # <<>> /\ OutOfLine(k, LevelPermits(k, features))}
  IN
  /\ Unheld /\ \A k \in old : Len(levelRole[k]) < LevelMaxVersion
  /\ levelEnabled' = features /\ levelRole' = NextVersion(old, features)
  /\ levelMember' = [m \in Member |-> [levelMember[m] EXCEPT !.holds = MovedOn(old, m)]]
  /\ UNCHANGED <<call, overtaken>>

\* A role made by hand takes the member out of the matrix: what the member holds
\* is ended, and the role given when the company is free.
EndLevels(c, m) ==
  /\ call[c] = LevelIdle /\ call' = [call EXCEPT ![c] = [status |-> "CUSTOM", member |-> m, was |-> levelMember[m].holds]]
  /\ UNCHANGED <<levelEnabled, levelRole, levelMember, overtaken>>

GiveCustomRole(c) ==
  /\ call[c].status = "CUSTOM" /\ Unheld /\ call' = [call EXCEPT ![c] = LevelIdle]
  /\ levelMember' = [levelMember EXCEPT ![call[c].member].holds = (@ \ call[c].was) \cup {LevelNewest(LevelCustom)}]
  /\ UNCHANGED <<levelEnabled, levelRole, overtaken>>

LevelNext ==
  \/ \E c \in LevelCaller :
       \/ CommitChange(c) \/ RefuseChange(c) \/ FindHolders(c) \/ CommitSync(c) \/ GiveCustomRole(c)
       \/ \E k \in Keys : BeginSync(c, k)
       \/ \E m \in Member : EndLevels(c, m) \/ \E levels \in [LevelArea -> Level] : BeginChange(c, m, levels)
  \/ \E x \in LevelFeature : SwitchFeature(x)

LevelSpec == LevelInit /\ [][LevelNext]_levelVars

-----------------------------------------------------------------------------
LevelTypeOK ==
  /\ levelEnabled \subseteq LevelFeature /\ overtaken \subseteq {"HOLDERS", "FEATURES"} /\ \A k \in Keys : \A n \in DOMAIN levelRole[k] : levelRole[k][n] \subseteq LevelCode
  /\ \A m \in Member : levelMember[m].status = "ACTIVE" /\ levelMember[m].set \in [LevelArea -> Level]
       /\ \A h \in levelMember[m].holds : h[1] \in Keys /\ h[2] \in 1..Len(levelRole[h[1]])

InMatrix(m) == LevelCustom \notin ActiveKeys(m)
Granted(m) == UNION {levelRole[h[1]][h[2]] : h \in LevelActive(m)}

\* A member is shown the level that was set last or none, and has no permission
\* that this level does not give: whatever the levels of others, which roles are
\* made anew by two requests at once, and which features go on and off; as long
\* as no invitation has given back, in its next version, a role that a member
\* lost after it was found.  (None is shown if the role was replaced meanwhile.)
NobodyGetsMore ==
  "HOLDERS" \notin overtaken => \A m \in Member : InMatrix(m) =>
    /\ \A x \in LevelArea : LevelShown(m, x) \in {levelMember[m].set[x], "NONE"}
    /\ \A p \in Granted(m) : Of[p] = Shared \/ p \in Filtered({p}, levelMember[m].set[Of[p]])

\* A member all of whose roles are in force has exactly what the package offers
\* at the levels set, and shows it, unless an invitation's role was overtaken.
LevelsAreGiven ==
  \A m \in Member : InMatrix(m) /\ levelMember[m].holds = LevelActive(m) /\ overtaken = {} =>
    \A x \in Catalog(levelEnabled) :
      /\ LevelShown(m, x) = levelMember[m].set[x]
      /\ {p \in Granted(m) : Of[p] = x} = Filtered({p \in Package(levelEnabled) : Of[p] = x}, levelMember[m].set[x])

-----------------------------------------------------------------------------
(* The domains of a company and the assets of its brand (modules/tenant:   *)
(* api/branding_views.py, the command activate_tenant_domain).             *)
(*                                                                         *)
(* A domain becomes primary in a transaction: its row is locked, the other *)
(* primary rows are updated, and it is written.  The update sees the rows  *)
(* that were primary when it began, waits for those another transaction    *)
(* holds, and leaves alone what has changed by then.  An asset's file is   *)
(* looked at before the profile is locked.                                 *)

CONSTANTS
  Subdomain, DomainCustom,  \* domains of the company
  Admin,
  Slot, File,
  Purpose,            \* File -> the slot it was uploaded for
  DomainMaxVersion          \* bound: version of a domain and of the profile

Domain == Subdomain \cup DomainCustom
NoFile == "none"

DomainsAssumption ==
  Subdomain \cap DomainCustom = {} /\ Purpose \in [File -> Slot] /\ DomainMaxVersion \in Nat /\ NoFile \notin File

VARIABLES
  domain,     \* Domain -> row: primary, ssl, version
  crowning,   \* Admin -> the transaction that makes a domain primary, or Idle
  crowned,    \* some domain has been primary
  profile,    \* Slot -> file, and the version
  scan,       \* File -> what the scanner said
  attaching,  \* Admin -> what was looked at for a slot, or Idle
  domainEnabled     \* the company may have custom domains

domainVars == <<domain, crowning, crowned, profile, scan, attaching, domainEnabled>>

DomainIdle == [status |-> "IDLE", locks |-> {}]
Registered == {d \in Domain : Has(domain, d)}
Primary == {d \in Registered : domain[d].primary}

DomainInit ==
  /\ domain = [d \in Domain |-> Absent] /\ crowning = [a \in Admin |-> DomainIdle] /\ crowned = FALSE
  /\ profile = [file |-> [s \in Slot |-> NoFile], version |-> 1]
  /\ scan = [f \in File |-> "PENDING"] /\ attaching = [a \in Admin |-> DomainIdle] /\ domainEnabled = TRUE

DomainFree(d) == Unlocked({crowning[a] : a \in Admin}, {d})

New(status) == [status |-> status, primary |-> FALSE, ssl |-> "PENDING", version |-> 1]

\* A custom domain never starts as primary, whatever the caller asks.
CreateDomain(d) ==
  /\ domainEnabled /\ ~ Has(domain, d)
  /\ domain' = [domain EXCEPT ![d] = New(IF d \in Subdomain THEN "ACTIVE" ELSE "PENDING")]
  /\ UNCHANGED <<crowning, crowned, profile, scan, attaching, domainEnabled>>

\* The three ways a transaction comes to make a domain primary.
MayCrown(d, way) ==
  \/ way = "CREATE" /\ domainEnabled /\ d \in Subdomain /\ ~ Has(domain, d)
  \/ way = "PRIMARY" /\ domainEnabled /\ In(domain, d, {"ACTIVE"})
  \/ way = "COMMAND" /\ d \in DomainCustom /\ Has(domain, d)

Begin(a, d, way) ==
  /\ crowning[a] = DomainIdle /\ DomainFree(d) /\ MayCrown(d, way)
  /\ Has(domain, d) => domain[d].version < DomainMaxVersion
  /\ crowning' = [crowning EXCEPT ![a] = [status |-> way, domain |-> d, locks |-> IF way = "CREATE" THEN {} ELSE {d},
                                                     seen |-> Primary \ (IF way = "PRIMARY" THEN {d} ELSE {})]]
  /\ UNCHANGED <<domain, crowned, profile, scan, attaching, domainEnabled>>

\* The domain as the transaction found it, or as it makes it.
Base(d, way) == IF way = "CREATE" THEN [New("ACTIVE") EXCEPT !.version = 0] ELSE domain[d]

\* Another primary that appeared meanwhile refuses the write: one of a company.
MakePrimary(a) ==
  /\ crowning[a] # DomainIdle /\ crowning' = [crowning EXCEPT ![a] = DomainIdle]
  /\ LET t == crowning[a]  d == t.domain  unset == t.seen \cap Primary IN
     /\ Unlocked({crowning[b] : b \in Admin \ {a}}, t.seen)
     /\ \A e \in unset : domain[e].version < DomainMaxVersion
     /\ IF Primary \ (unset \cup {d}) # {} \/ (t.status = "CREATE" /\ Has(domain, d)) THEN UNCHANGED <<domain, crowned>>
        ELSE /\ domain' = [e \in Domain |->
                  IF e = d THEN [Base(d, t.status) EXCEPT !.primary = TRUE, !.version = @ + 1,
                                   !.status = IF t.status = "COMMAND" THEN "ACTIVE" ELSE @,
                                   !.ssl = IF t.status = "COMMAND" THEN "PENDING" ELSE @]
                  ELSE IF e \in unset THEN [domain[e] EXCEPT !.primary = FALSE, !.version = @ + 1] ELSE domain[e]]
             /\ crowned' = TRUE
  /\ UNCHANGED <<profile, scan, attaching, domainEnabled>>

\* A custom domain is left to the operator's command.
VerifyDomain(d, version) ==
  /\ domainEnabled /\ Has(domain, d) /\ DomainFree(d) /\ domain[d].version = version /\ version < DomainMaxVersion
  /\ domain' = IF d \in Subdomain THEN [domain EXCEPT ![d].status = "ACTIVE", ![d].version = version + 1] ELSE domain
  /\ UNCHANGED <<crowning, crowned, profile, scan, attaching, domainEnabled>>

ActivateTenantDomain(d) ==
  /\ d \in DomainCustom /\ Has(domain, d) /\ DomainFree(d) /\ domain[d].version < DomainMaxVersion
  /\ domain' = [domain EXCEPT ![d].status = "ACTIVE", ![d].ssl = "PENDING", ![d].version = @ + 1]
  /\ UNCHANGED <<crowning, crowned, profile, scan, attaching, domainEnabled>>

Provision(d) ==
  /\ In(domain, d, {"ACTIVE"}) /\ domain' = [domain EXCEPT ![d].ssl = "ACTIVE"]
  /\ UNCHANGED <<crowning, crowned, profile, scan, attaching, domainEnabled>>

\* PublicDomainResolveView and _active_company_web_url: who answers a host, and
\* the domain that letters link to (none: the platform's).
Resolves(d) == In(domain, d, {"ACTIVE"}) /\ (d \in DomainCustom => domainEnabled)
Linked ==
  LET able == {d \in Registered : Resolves(d) /\ domain[d].ssl = "ACTIVE"}
  IN  IF able \cap Primary # {} THEN able \cap Primary ELSE able

\* PublicBrandAssetView: the file a host shows in a slot; a custom domain shows
\* it also when the feature is off.
DomainShown(d, s) ==
  LET f == profile.file[s]
  IN  IF In(domain, d, {"ACTIVE"}) /\ f # NoFile /\ scan[f] = "CLEAN" THEN f ELSE NoFile

-----------------------------------------------------------------------------
ScanFile(f) ==
  /\ scan[f] = "PENDING" /\ \E r \in {"CLEAN", "INFECTED"} : scan' = [scan EXCEPT ![f] = r]
  /\ UNCHANGED <<domain, crowning, crowned, profile, attaching, domainEnabled>>

LookAtAsset(a, s, f, version) ==
  /\ attaching[a] = DomainIdle /\ Purpose[f] = s /\ scan[f] = "CLEAN"
  /\ attaching' = [attaching EXCEPT ![a] = [status |-> "FOUND", locks |-> {}, slot |-> s, file |-> f, version |-> version]]
  /\ UNCHANGED <<domain, crowning, crowned, profile, scan, domainEnabled>>

AttachAsset(a) ==
  /\ attaching[a] # DomainIdle /\ attaching' = [attaching EXCEPT ![a] = DomainIdle]
  /\ LET t == attaching[a] IN
     profile' = IF profile.version = t.version /\ t.version < DomainMaxVersion
                THEN [file |-> [profile.file EXCEPT ![t.slot] = t.file], version |-> t.version + 1] ELSE profile
  /\ UNCHANGED <<domain, crowning, crowned, scan, domainEnabled>>

\* Names and colours: every column is written, the slots as they were locked.
UpdateBranding(version) ==
  /\ profile.version = version /\ version < DomainMaxVersion
  /\ profile' = [profile EXCEPT !.version = version + 1]
  /\ UNCHANGED <<domain, crowning, crowned, scan, attaching, domainEnabled>>

ChangeFeature ==
  /\ domainEnabled' = ~ domainEnabled /\ UNCHANGED <<domain, crowning, crowned, profile, scan, attaching>>

DomainNext ==
  \/ \E d \in Domain :
       \/ CreateDomain(d) \/ ActivateTenantDomain(d) \/ Provision(d)
       \/ \E v \in 1..DomainMaxVersion : VerifyDomain(d, v)
       \/ \E a \in Admin, way \in {"CREATE", "PRIMARY", "COMMAND"} : Begin(a, d, way)
  \/ \E a \in Admin :
       \/ MakePrimary(a) \/ AttachAsset(a)
       \/ \E s \in Slot, f \in File, v \in 1..DomainMaxVersion : LookAtAsset(a, s, f, v)
  \/ \E f \in File : ScanFile(f)
  \/ \E v \in 1..DomainMaxVersion : UpdateBranding(v)
  \/ ChangeFeature

DomainSpec == DomainInit /\ [][DomainNext]_domainVars

-----------------------------------------------------------------------------
TenantDomainRow == [status : {"PENDING", "ACTIVE"}, primary : BOOLEAN, ssl : {"PENDING", "ACTIVE"}, version : 1..DomainMaxVersion]

DomainTypeOK ==
  /\ domain \in [Domain -> TenantDomainRow \cup {Absent}] /\ crowned \in BOOLEAN /\ domainEnabled \in BOOLEAN
  /\ profile \in [file : [Slot -> File \cup {NoFile}], version : 1..DomainMaxVersion] /\ scan \in [File -> {"PENDING", "CLEAN", "INFECTED"}]

\* A company that ever had a primary domain has exactly one, an active one, and
\* its letters link to no more than one domain when that one is provisioned:
\* whoever makes another primary at the same time, and whichever is refused.
OnePrimaryDomain ==
  /\ Cardinality(Primary) = IF crowned THEN 1 ELSE 0
  /\ \A d \in Primary : domain[d].status = "ACTIVE"
  /\ (\E d \in Primary : Resolves(d) /\ domain[d].ssl = "ACTIVE") => Cardinality(Linked) = 1

\* What was put into a slot was uploaded for it, and every host of the company
\* shows it: whatever the scanner says, and whoever attaches another, meanwhile.
AssetsAreShown ==
  \A s \in Slot : profile.file[s] # NoFile =>
    Purpose[profile.file[s]] = s /\ \A d \in Domain : Resolves(d) => DomainShown(d, s) = profile.file[s]

-----------------------------------------------------------------------------
(* The versions of one definition of a company's configuration (modules/   *)
(* configuration, application/services.py), its bootstrap (modules/tenant, *)
(* bootstrap_experience_foundation), and its reader in modules/projects    *)
(* (application/experience.py).                                            *)
(*                                                                         *)
(* A draft takes the number after the newest version's, which is locked if *)
(* there is one: a caller that waited for it still inserts after the row   *)
(* it waited for, and the number is unique.                                *)

CONSTANTS
  ConfigCaller, Payload,
  Moment,      \* positive
  MaxVersions  \* bound: versions

ConfigurationAssumption == Moment \subseteq Nat \ {0} /\ MaxVersions \in Nat

VARIABLES
  configVersion,   \* 1..MaxVersions -> row: payload, from, to, checksum
  drafting,  \* Caller -> the transaction that has read the newest version, or Idle
  fits,      \* payloads the definition's schema accepts
  first      \* 1..MaxVersions -> the payload inserted first, or NoPayload

configVars == <<configVersion, drafting, fits, first>>

Numbers == 1..MaxVersions
ConfigIdle == [status |-> "IDLE"]
NoPayload == "none"
Forever == 0  \* no end: moments are positive

ConfigInit ==
  /\ configVersion = [n \in Numbers |-> Absent] /\ drafting = [c \in ConfigCaller |-> ConfigIdle]
  /\ fits = Payload /\ first = [n \in Numbers |-> NoPayload]

Versions == {n \in Numbers : Has(configVersion, n)}
ConfigNewest == IF Versions = {} THEN 0 ELSE CHOOSE n \in Versions : \A k \in Versions : k <= n
Published == {n \in Numbers : In(configVersion, n, {"PUBLISHED"})}

BeginDraft(c, p, from, to) ==
  /\ drafting[c] = ConfigIdle /\ p \in fits
  /\ to # Forever => to > from
  /\ drafting' = [drafting EXCEPT ![c] = [status |-> "DRAFT", number |-> ConfigNewest + 1, payload |-> p, from |-> from, to |-> to]]
  /\ UNCHANGED <<configVersion, fits, first>>

\* The command publishes its version at once, when it has read that none is.
BeginBootstrap(c, p, now) ==
  /\ drafting[c] = ConfigIdle /\ Published = {}
  /\ drafting' = [drafting EXCEPT ![c] = [status |-> "PUBLISHED", number |-> 1, payload |-> p, from |-> now, to |-> Forever]]
  /\ UNCHANGED <<configVersion, fits, first>>

Row(t) == [status |-> t.status, payload |-> t.payload, from |-> t.from, to |-> t.to,
           checksum |-> IF t.status = "PUBLISHED" THEN t.payload ELSE NoPayload]

\* The unique number refuses the later of two.
Insert(c) ==
  /\ drafting[c] # ConfigIdle /\ drafting' = [drafting EXCEPT ![c] = ConfigIdle] /\ UNCHANGED fits
  /\ LET t == drafting[c] IN
     IF t.number \notin Numbers \/ t.number \in Versions THEN UNCHANGED <<configVersion, first>>
     ELSE /\ configVersion' = [configVersion EXCEPT ![t.number] = Row(t)]
          /\ first' = [first EXCEPT ![t.number] = IF @ = NoPayload THEN t.payload ELSE @]

\* Validated again: the schema may have changed since the draft.
PublishConfigurationVersion(n) ==
  /\ In(configVersion, n, {"DRAFT"}) /\ configVersion[n].payload \in fits
  /\ configVersion' = [configVersion EXCEPT ![n].status = "PUBLISHED", ![n].checksum = configVersion[n].payload]
  /\ UNCHANGED <<drafting, fits, first>>

ChangeSchema == \E s \in SUBSET Payload : fits' = s /\ UNCHANGED <<configVersion, drafting, first>>

ConfigNext ==
  \/ \E c \in ConfigCaller :
       \/ Insert(c)
       \/ \E p \in Payload, t \in Moment :
            \/ BeginBootstrap(c, p, t)
            \/ \E u \in Moment \cup {Forever} : BeginDraft(c, p, t, u)
  \/ \E n \in Numbers : PublishConfigurationVersion(n)
  \/ ChangeSchema

ConfigSpec == ConfigInit /\ [][ConfigNext]_configVars

-----------------------------------------------------------------------------
InWindow(n, t) == configVersion[n].from <= t /\ (configVersion[n].to = Forever \/ configVersion[n].to > t)
Candidates(t) == {n \in Published : InWindow(n, t)}

\* get_active_configuration: the one that came into force last, the newer of two.
ActiveAt(t) ==
  LET before(k, n) == configVersion[k].from < configVersion[n].from \/ (configVersion[k].from = configVersion[n].from /\ k < n)
  IN  {n \in Candidates(t) : \A k \in Candidates(t) \ {n} : before(k, n)}

\* _published_lifecycle: the newest.
LifecycleAt(t) == {n \in Candidates(t) : \A k \in Candidates(t) : k <= n}

-----------------------------------------------------------------------------
ConfigurationVersionRow ==
  [status : {"DRAFT", "PUBLISHED"}, payload : Payload, from : Moment, to : Moment \cup {Forever}, checksum : Payload \cup {NoPayload}]

ConfigTypeOK ==
  /\ configVersion \in [Numbers -> ConfigurationVersionRow \cup {Absent}] /\ fits \subseteq Payload
  /\ first \in [Numbers -> Payload \cup {NoPayload}]

\* Versions are numbered without a gap, a version keeps what it was made with,
\* and what was published is what its checksum is of; whoever drafts, publishes
\* and bootstraps at the same time.
VersionsAreKept ==
  /\ Versions = 1..Cardinality(Versions)
  /\ \A n \in Versions : configVersion[n].payload = first[n]
  /\ \A n \in Published : configVersion[n].checksum = first[n]

\* At every moment at most one version is in force, one if any is in its window,
\* and the two readers agree on it as long as no version starts before an older one.
ReadersAgree ==
  \A t \in Moment :
    /\ Cardinality(ActiveAt(t)) = (IF Candidates(t) = {} THEN 0 ELSE 1)
    /\ (\A k, n \in Published : k < n => configVersion[k].from <= configVersion[n].from) => ActiveAt(t) = LifecycleAt(t)
=============================================================================
