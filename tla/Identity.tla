------------------------------ MODULE Identity ------------------------------
(***************************************************************************)
(* Sessions, refresh tokens, password resets and the lifecycle of one user *)
(* of modules/identity (application/tokens.py, password_reset.py,          *)
(* lifecycle.py, api/views.py).                                            *)
(*                                                                         *)
(* A service is one transaction that locks the user row or the session row *)
(* first, and inserting a session needs a key-share lock on the user row,  *)
(* so a service call is one step.  LoginView is two: it checks is_active   *)
(* and the password before its transaction begins.  A transaction whose    *)
(* event violates outbox_unique_aggregate_fact rolls back as a whole.      *)
(***************************************************************************)
EXTENDS Integers, Sequences, FiniteSets

CONSTANTS
  User,         \* the user
  Session,      \* rows of identity_auth_session, one per login
  MaxTokens,    \* bound: refresh tokens issued for one session
  MaxPassword,  \* bound: password resets completed
  MaxLinks      \* bound: password reset links issued

ASSUME IdentityAssumption ==
  User \notin Session /\ MaxTokens \in Nat \ {0} /\ MaxPassword \in Nat /\ MaxLinks \in Nat

VARIABLES
  active,      \* is_active
  terminated,  \* terminated_at IS NOT NULL
  password,    \* which password is set: 0, 1, ... in the order they were set
  secured,     \* last_security_event_at, as the number of such events
  login,       \* last_login, as the number of logins
  session,     \* "none", "checked" (no row yet: a login has passed its check),
               \* "open", "revoked"
  expired,     \* expires_at has passed, of the session and of all its tokens
  family,      \* Session -> sequence of [used, revoked, from], one per jti,
               \* from being the token it was rotated from
  links,       \* sequence of what the hash of a reset token covers
  spent,       \* history: how often a link completed a reset
  facts,       \* <<event, aggregate>> of the events always recorded as version 1
  sweeps,      \* history: transactions that revoke all sessions of the user
  checkedAt,   \* history: sweeps when the login of the session was checked
  openedAt,    \* history: sweeps when the session was created
  command      \* history: the last lifecycle command given, and whether
               \* its transaction failed

userVars    == <<active, terminated, password, secured, login>>
sessionVars == <<session, expired, family>>
linkVars    == <<links, spent>>
sweepVars   == <<sweeps, checkedAt, openedAt>>
vars == <<userVars, sessionVars, linkVars, facts, sweepVars, command>>

Init ==
  /\ active = TRUE /\ terminated = FALSE
  /\ password = 0 /\ secured = 0 /\ login = 0
  /\ session = [s \in Session |-> "none"]
  /\ expired = [s \in Session |-> FALSE]
  /\ family = [s \in Session |-> <<>>]
  /\ links = <<>> /\ spent = <<>>
  /\ facts = {}
  /\ sweeps = 0
  /\ checkedAt = [s \in Session |-> 0]
  /\ openedAt = [s \in Session |-> 0]
  /\ command = <<"none", "done">>

FreshToken(n) == [used |-> FALSE, revoked |-> FALSE, from |-> n]

\* The UPDATE that sets revoked_at on the tokens of a session.
RevokeTokens(f) == [n \in DOMAIN f |-> [f[n] EXCEPT !.revoked = TRUE]]

-----------------------------------------------------------------------------
(* Login.                                                                  *)

\* LoginView reads the user: active, and the password given is the one set.
CheckCredentials(s) ==
  /\ session[s] = "none"
  /\ active
  /\ session' = [session EXCEPT ![s] = "checked"]
  /\ checkedAt' = [checkedAt EXCEPT ![s] = sweeps]
  /\ UNCHANGED <<userVars, expired, family, linkVars, facts, sweeps, openedAt, command>>

\* issue_session and the update of last_login.
IssueSession(s) ==
  /\ session[s] = "checked"
  /\ session' = [session EXCEPT ![s] = "open"]
  /\ family' = [family EXCEPT ![s] = <<FreshToken(0)>>]
  /\ login' = login + 1
  /\ openedAt' = [openedAt EXCEPT ![s] = sweeps]
  /\ UNCHANGED <<active, terminated, password, secured, expired, linkVars, facts,
                 sweeps, checkedAt, command>>

-----------------------------------------------------------------------------
(* Refresh tokens.                                                         *)

\* What rotate_refresh_token requires of the session and its user.
Usable(s) == session[s] = "open" /\ ~expired[s] /\ active

\* Mutant: used_at is not set.
RotateLeavesUnused(s, n) ==
  /\ Usable(s) /\ n \in DOMAIN family[s]
  /\ Len(family[s]) < MaxTokens
  /\ ~family[s][n].used /\ ~family[s][n].revoked
  /\ family' = [family EXCEPT ![s] = Append(family[s], FreshToken(n))]
  /\ UNCHANGED <<userVars, session, expired, linkVars, facts, sweepVars, command>>

Rotate(s, n) ==
  /\ Usable(s) /\ n \in DOMAIN family[s]
  /\ Len(family[s]) < MaxTokens
  /\ ~family[s][n].used /\ ~family[s][n].revoked
  /\ family' = [family EXCEPT ![s] =
       Append([family[s] EXCEPT ![n].used = TRUE], FreshToken(n))]
  /\ UNCHANGED <<userVars, session, expired, linkVars, facts, sweepVars, command>>

\* _revoke_session_locked.
RevokeLocked(s) ==
  /\ session' = [session EXCEPT ![s] = "revoked"]
  /\ family' = [family EXCEPT ![s] = RevokeTokens(family[s])]

\* A used token is presented again: the revocation commits, then the call
\* raises.
DetectReuse(s, n) ==
  /\ Usable(s) /\ n \in DOMAIN family[s]
  /\ family[s][n].used \/ family[s][n].revoked
  /\ <<"reuse", s>> \notin facts
  /\ facts' = facts \cup {<<"reuse", s>>}
  /\ RevokeLocked(s)
  /\ UNCHANGED <<userVars, expired, linkVars, sweepVars, command>>

\* revoke_session, by logout or from the session list: the list also offers
\* sessions that are revoked already.
RevokeSession(s) ==
  /\ session[s] \in {"open", "revoked"} /\ <<"revoked", s>> \notin facts
  /\ facts' = facts \cup {<<"revoked", s>>}
  /\ RevokeLocked(s)
  /\ UNCHANGED <<userVars, expired, linkVars, sweepVars, command>>

Expire(s) ==
  /\ session[s] \in {"open", "revoked"} /\ ~expired[s]
  /\ expired' = [expired EXCEPT ![s] = TRUE]
  /\ UNCHANGED <<userVars, session, family, linkVars, facts, sweepVars, command>>

\* Mutant: only the tokens are revoked.
SweepTokensOnly ==
  /\ family' = [s \in Session |->
       IF session[s] = "open" THEN RevokeTokens(family[s]) ELSE family[s]]
  /\ sweeps' = sweeps + 1
  /\ UNCHANGED <<session, expired, checkedAt, openedAt>>

\* Mutant: the tokens of the sessions are not revoked.
SweepSessionsOnly ==
  /\ session' = [s \in Session |->
       IF session[s] = "open" THEN "revoked" ELSE session[s]]
  /\ sweeps' = sweeps + 1
  /\ UNCHANGED <<family, expired, checkedAt, openedAt>>

\* _revoke_all_sessions, and the same statements in complete_password_reset.
SweepSessions ==
  /\ session' = [s \in Session |->
       IF session[s] = "open" THEN "revoked" ELSE session[s]]
  /\ family' = [s \in Session |->
       IF session[s] = "open" THEN RevokeTokens(family[s]) ELSE family[s]]
  /\ sweeps' = sweeps + 1
  /\ UNCHANGED <<expired, checkedAt, openedAt>>

-----------------------------------------------------------------------------
(* Password reset.                                                         *)

\* Mutant: Django's hash, without last_security_event_at.
HashWithoutEvent(event) ==
  [password |-> password, login |-> login, active |-> active, secured |-> 0]

\* What LatestOnlyPasswordResetTokenGenerator hashes when event is the value
\* of last_security_event_at.  The age limit of a link is left out: a link
\* that is too old is one nobody uses.
HashValue(event) ==
  [password |-> password, login |-> login, active |-> active, secured |-> event]

\* issue_password_reset_token; the view has looked for an active user before
\* the row was locked, the user may be inactive by now.
IssueResetLink ==
  /\ Len(links) < MaxLinks
  /\ secured' = secured + 1
  /\ links' = Append(links, HashValue(secured + 1))
  /\ spent' = Append(spent, 0)
  /\ UNCHANGED <<active, terminated, password, login, sessionVars, facts,
                 sweepVars, command>>

LinkValid(n) == active /\ links[n] = HashValue(secured)

CompletePasswordReset(n) ==
  /\ password < MaxPassword
  /\ LinkValid(n)
  /\ password' = password + 1
  /\ secured' = secured + 1
  /\ spent' = [spent EXCEPT ![n] = @ + 1]
  /\ SweepSessions
  /\ UNCHANGED <<active, terminated, login, links, facts, command>>

-----------------------------------------------------------------------------
(* Lifecycle.                                                              *)

\* _record_user_change always records version 1 of the user.
Record(kind) ==
  /\ <<kind, User>> \notin facts
  /\ facts' = facts \cup {<<kind, User>>}
  /\ command' = <<kind, "done">>

SuspendUser ==
  /\ Record("suspended")
  /\ active' = FALSE
  /\ SweepSessions
  /\ UNCHANGED <<terminated, password, secured, login, linkVars>>

ReactivateUser ==
  /\ ~terminated
  /\ Record("reactivated")
  /\ active' = TRUE
  /\ UNCHANGED <<terminated, password, secured, login, sessionVars, linkVars,
                 sweepVars>>

TerminateUser ==
  /\ Record("terminated")
  /\ active' = FALSE
  /\ terminated' = TRUE
  /\ SweepSessions
  /\ UNCHANGED <<password, secured, login, linkVars>>

\* The fact is there already: IntegrityError, and nothing of the command stays.
CommandFails(kind) ==
  /\ <<kind, User>> \in facts
  /\ kind = "reactivated" => ~terminated
  /\ command' = <<kind, "failed">>
  /\ UNCHANGED <<userVars, sessionVars, linkVars, facts, sweepVars>>

-----------------------------------------------------------------------------
Next ==
  \/ \E s \in Session : \/ CheckCredentials(s) \/ IssueSession(s)
                        \/ RevokeSession(s) \/ Expire(s)
  \/ \E s \in Session, n \in 1..MaxTokens : Rotate(s, n) \/ DetectReuse(s, n)
  \/ IssueResetLink
  \/ \E n \in DOMAIN links : CompletePasswordReset(n)
  \/ SuspendUser \/ ReactivateUser \/ TerminateUser
  \/ \E kind \in {"suspended", "reactivated", "terminated"} : CommandFails(kind)

Spec == Init /\ [][Next]_vars

-----------------------------------------------------------------------------
(* Properties.                                                             *)

TypeOK ==
  /\ active \in BOOLEAN /\ terminated \in BOOLEAN
  /\ password \in Nat /\ secured \in Nat /\ login \in Nat
  /\ session \in [Session -> {"none", "checked", "open", "revoked"}]
  /\ expired \in [Session -> BOOLEAN]
  /\ family \in [Session -> Seq([used : BOOLEAN, revoked : BOOLEAN, from : Nat])]
  /\ links \in Seq([password : Nat, login : Nat, active : BOOLEAN, secured : Nat])
  /\ spent \in Seq(Nat)
  /\ facts \subseteq ({"suspended", "reactivated", "terminated"} \X {User})
                       \cup ({"reuse", "revoked"} \X Session)
  /\ sweeps \in Nat
  /\ checkedAt \in [Session -> Nat] /\ openedAt \in [Session -> Nat]
  /\ command \in {"none", "suspended", "reactivated", "terminated"} \X {"done", "failed"}

\* Refresh tokens are single-use: each is rotated from the one before it, so
\* that two clients never both continue a family, and only the newest token of
\* an open session is unused.
LinearFamily ==
  \A s \in Session : \A n \in 1..Len(family[s]) :
    /\ family[s][n].from = n - 1
    /\ n < Len(family[s]) => family[s][n].used
    /\ n = Len(family[s]) => ~family[s][n].used

\* Once a session is revoked, for whatever reason and by whichever path, every
\* token of its family is, and while it is open none is.
RevokedWithFamily ==
  \A s \in Session : \A n \in 1..Len(family[s]) :
    family[s][n].revoked <=> session[s] = "revoked"

\* A suspension, termination or password reset leaves no session open that was
\* created before it.  The only session an inactive user can have open is one
\* whose login passed its check before the sweep and was created after it.
SweepIsComplete ==
  \A s \in Session : session[s] = "open" => /\ openedAt[s] = sweeps
                                            /\ ~active => checkedAt[s] < sweeps

\* Reset links are latest-only and one-time: a valid link is the newest one
\* issued and has not been spent, whatever logins, resets, suspensions and
\* reactivations came in between.
OnlyNewestLink ==
  \A n \in 1..Len(links) : /\ LinkValid(n) => n = Len(links) /\ spent[n] = 0
                           /\ spent[n] <= 1
=============================================================================
