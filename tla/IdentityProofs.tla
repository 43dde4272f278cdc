--------------------------- MODULE IdentityProofs ---------------------------
(***************************************************************************)
(* Safety of sessions, refresh tokens and reset links for every set of     *)
(* sessions and every bound on tokens, resets and links; then of what a    *)
(* company is assured of: its evidence, its cover and its data, for every  *)
(* set of the records of each.                                             *)
(***************************************************************************)
EXTENDS Identity, Assurance, SequenceTheorems, FiniteSetTheorems, TLAPS

Token == [used : BOOLEAN, revoked : BOOLEAN, from : Nat]

Link == [password : Nat, login : Nat, active : BOOLEAN, secured : Nat]

\* A rotation marks one token as used and appends one that is not.
LEMMA RotatedFamily ==
  ASSUME NEW f \in Seq(Token), NEW n \in 1..Len(f),
         NEW g, g = Append([f EXCEPT ![n].used = TRUE], FreshToken(n))
  PROVE  /\ g \in Seq(Token) /\ Len(g) = Len(f) + 1
         /\ \A i \in 1..Len(f) : g[i] = IF i = n THEN [f[n] EXCEPT !.used = TRUE] ELSE f[i]
         /\ g[Len(f) + 1] = FreshToken(n)
<1> DEFINE t == [f[n] EXCEPT !.used = TRUE]
           h == [f EXCEPT ![n] = t]
<1>1. f[n] \in Token
  BY ElementOfSeq
<1>2. t \in Token /\ FreshToken(n) \in Token
  <2>1. n \in Nat
    BY LenProperties
  <2>2. FreshToken(n) \in Token
    BY <2>1 DEF Token, FreshToken
  <2>3. t \in Token
    BY <1>1 DEF Token
  <2>4. QED BY <2>2, <2>3
<1>3. [f EXCEPT ![n].used = TRUE] = h
  OBVIOUS
<1> HIDE DEF t
<1>4. /\ h \in Seq(Token) /\ Len(h) = Len(f)
      /\ \A i \in 1..Len(f) : h[i] = IF i = n THEN t ELSE f[i]
  BY <1>2, ExceptSeq
<1> HIDE DEF h
<1>5. g = Append(h, FreshToken(n))
  BY <1>3
<1>6. /\ Append(h, FreshToken(n)) \in Seq(Token)
      /\ Len(Append(h, FreshToken(n))) = Len(h) + 1
      /\ \A i \in 1..Len(h) : Append(h, FreshToken(n))[i] = h[i]
      /\ Append(h, FreshToken(n))[Len(h) + 1] = FreshToken(n)
  BY <1>2, <1>4, AppendProperties
<1>7. QED BY <1>4, <1>5, <1>6 DEF t

\* Revoking a family changes nothing but the mark.
LEMMA RevokedFamily ==
  ASSUME NEW f \in Seq(Token)
  PROVE  /\ RevokeTokens(f) \in Seq(Token) /\ Len(RevokeTokens(f)) = Len(f)
         /\ \A i \in 1..Len(f) : RevokeTokens(f)[i] = [f[i] EXCEPT !.revoked = TRUE]
<1>1. DOMAIN f = 1..Len(f) /\ Len(f) \in Nat
  BY LenProperties
<1>2. \A i \in 1..Len(f) : f[i] \in Token
  BY ElementOfSeq
<1>3. \A i \in 1..Len(f) : [f[i] EXCEPT !.revoked = TRUE] \in Token
  BY <1>2 DEF Token
<1>4. RevokeTokens(f) = [i \in 1..Len(f) |-> [f[i] EXCEPT !.revoked = TRUE]]
  BY <1>1 DEF RevokeTokens
<1> DEFINE g == [i \in 1..Len(f) |-> [f[i] EXCEPT !.revoked = TRUE]]
<1>5. g \in [1..Len(f) -> Token]
  BY <1>3
<1>6. g \in Seq(Token) /\ Len(g) = Len(f)
  BY <1>1, <1>5, SeqDef, LenProperties
<1>7. QED BY <1>4, <1>6

-----------------------------------------------------------------------------
(* Types.                                                                  *)

\* A sweep revokes the open sessions, and their families with them.
LEMMA SweepStep ==
  ASSUME TypeOK, SweepSessions
  PROVE  /\ session' \in [Session -> {"none", "checked", "open", "revoked"}]
         /\ family' \in [Session -> Seq(Token)]
         /\ sweeps' = sweeps + 1 /\ UNCHANGED <<expired, checkedAt, openedAt>>
         /\ \A s \in Session : /\ session'[s] # "open"
                               /\ session'[s] = "checked" => session[s] = "checked"
         /\ \A s \in Session : \/ session'[s] = session[s] /\ family'[s] = family[s]
                               \/ session'[s] = "revoked" /\ family'[s] = RevokeTokens(family[s])
<1>1. \A s \in Session : family[s] \in Seq(Token)
  BY DEF TypeOK, Token
<1>2. \A s \in Session : RevokeTokens(family[s]) \in Seq(Token)
  BY <1>1, RevokedFamily
<1>3. QED BY <1>1, <1>2 DEF TypeOK, SweepSessions

\* Every step keeps every column and history variable in its range.
LEMMA TypeStep == TypeOK /\ [Next]_vars => TypeOK'
<1> SUFFICES ASSUME TypeOK, [Next]_vars PROVE TypeOK'
  OBVIOUS
<1> USE IdentityAssumption
    DEF TypeOK, userVars, sessionVars, linkVars, sweepVars, Token, Link
<1>1. ASSUME NEW s \in Session, CheckCredentials(s) PROVE TypeOK'
  BY <1>1 DEF CheckCredentials
<1>2. ASSUME NEW s \in Session, IssueSession(s) PROVE TypeOK'
  <2>1. FreshToken(0) \in Token
    BY DEF FreshToken
  <2>2. <<FreshToken(0)>> \in Seq(Token)
    BY <2>1
  <2>3. QED BY <1>2, <2>2 DEF IssueSession
<1>3. ASSUME NEW s \in Session, RevokeSession(s) \/ \E n \in 1..MaxTokens : DetectReuse(s, n)
      PROVE  TypeOK'
  <2>1. RevokeTokens(family[s]) \in Seq(Token)
    BY RevokedFamily
  <2>2. /\ session' = [session EXCEPT ![s] = "revoked"]
        /\ family' = [family EXCEPT ![s] = RevokeTokens(family[s])]
        /\ UNCHANGED <<userVars, expired, linkVars, sweepVars, command>>
    BY <1>3 DEF RevokeSession, DetectReuse, RevokeLocked
  <2>3. facts' = facts \cup {<<"revoked", s>>} \/ facts' = facts \cup {<<"reuse", s>>}
    BY <1>3 DEF RevokeSession, DetectReuse
  <2>4. facts' \subseteq ({"suspended", "reactivated", "terminated"} \X {User})
                            \cup ({"reuse", "revoked"} \X Session)
    BY <2>3
  <2>5. family' \in [Session -> Seq(Token)]
    BY <2>1, <2>2
  <2>6. QED BY <2>2, <2>4, <2>5
<1>4. ASSUME NEW s \in Session, Expire(s) PROVE TypeOK'
  BY <1>4 DEF Expire
<1>5. ASSUME NEW s \in Session, NEW n \in 1..MaxTokens, Rotate(s, n) PROVE TypeOK'
  <2>1. n \in 1..Len(family[s])
    BY <1>5, LenProperties DEF Rotate
  <2>2. family'[s] \in Seq(Token)
    BY <1>5, <2>1, RotatedFamily DEF Rotate
  <2>3. family' = [family EXCEPT ![s] = family'[s]]
    BY <1>5 DEF Rotate
  <2>4. family' \in [Session -> Seq(Token)]
    BY <2>2, <2>3
  <2>5. QED BY <1>5, <2>4 DEF Rotate
<1>6. CASE IssueResetLink
  <2>1. HashValue(secured + 1) \in Link
    BY DEF HashValue
  <2>2. Append(links, HashValue(secured + 1)) \in Seq(Link) /\ Append(spent, 0) \in Seq(Nat)
    BY <2>1, AppendProperties
  <2>3. QED BY <1>6, <2>2 DEF IssueResetLink
<1>7. ASSUME NEW n \in DOMAIN links, CompletePasswordReset(n) PROVE TypeOK'
  <2>1. [spent EXCEPT ![n] = @ + 1] \in Seq(Nat)
    <3>1. CASE n \in 1..Len(spent)
      <4>1. spent[n] \in Nat
        BY <3>1, ElementOfSeq
      <4>2. [spent EXCEPT ![n] = spent[n] + 1] \in Seq(Nat)
        BY <3>1, <4>1, ExceptSeq
      <4>3. QED BY <4>2
    <3>2. CASE n \notin 1..Len(spent)
      <4>1. DOMAIN spent = 1..Len(spent)
        BY LenProperties
      <4>2. [spent EXCEPT ![n] = @ + 1] = spent
        BY <3>2, <4>1
      <4>3. QED BY <4>2
    <3>3. QED BY <3>1, <3>2
  <2>2. /\ password' = password + 1 /\ secured' = secured + 1
        /\ spent' = [spent EXCEPT ![n] = @ + 1] /\ SweepSessions
        /\ UNCHANGED <<active, terminated, login, links, facts, command>>
    BY <1>7 DEF CompletePasswordReset
  <2>3. /\ session' \in [Session -> {"none", "checked", "open", "revoked"}]
        /\ family' \in [Session -> Seq(Token)] /\ sweeps' = sweeps + 1
        /\ UNCHANGED <<expired, checkedAt, openedAt>>
    BY <2>2, SweepStep
  <2>4. QED BY <2>1, <2>2, <2>3
<1>8. CASE SuspendUser \/ TerminateUser
  <2>1. /\ active' = FALSE /\ terminated' \in BOOLEAN /\ SweepSessions
        /\ UNCHANGED <<password, secured, login, linkVars>>
        /\ \E kind \in {"suspended", "terminated"} :
             /\ facts' = facts \cup {<<kind, User>>}
             /\ command' = <<kind, "done">>
    BY <1>8 DEF SuspendUser, TerminateUser, Record
  <2>2. /\ facts' \subseteq ({"suspended", "reactivated", "terminated"} \X {User})
                               \cup ({"reuse", "revoked"} \X Session)
        /\ command' \in {"none", "suspended", "reactivated", "terminated"} \X {"done", "failed"}
    BY <2>1
  <2>3. /\ session' \in [Session -> {"none", "checked", "open", "revoked"}]
        /\ family' \in [Session -> Seq(Token)] /\ sweeps' = sweeps + 1
        /\ UNCHANGED <<expired, checkedAt, openedAt>>
    BY <2>1, SweepStep
  <2>4. /\ active' \in BOOLEAN /\ terminated' \in BOOLEAN
        /\ UNCHANGED <<password, secured, login, links, spent>>
    BY <2>1
  <2>5. QED BY <2>2, <2>3, <2>4
<1>9. CASE ReactivateUser
  BY <1>9 DEF ReactivateUser, Record
<1>10. ASSUME NEW kind \in {"suspended", "reactivated", "terminated"}, CommandFails(kind)
       PROVE  TypeOK'
  BY <1>10 DEF CommandFails
<1>11. CASE UNCHANGED vars
  BY <1>11 DEF vars
<1>12. QED
  BY <1>1, <1>2, <1>3, <1>4, <1>5, <1>6, <1>7, <1>8, <1>9, <1>10, <1>11 DEF Next

\* Type correctness of the identity component.
THEOREM IdentityTypeCorrect == Spec => []TypeOK
<1>1. Init => TypeOK
  <2>1. <<>> \in Seq(Token) /\ <<>> \in Seq(Link) /\ <<>> \in Seq(Nat)
    BY EmptySeq
  <2> SUFFICES ASSUME Init PROVE TypeOK
    OBVIOUS
  <2>2. family \in [Session -> Seq(Token)]
    BY <2>1 DEF Init
  <2>3. links \in Seq(Link) /\ spent \in Seq(Nat)
    BY <2>1 DEF Init
  <2>4. QED BY <2>2, <2>3, IdentityAssumption DEF Init, TypeOK, Token, Link
<1>2. QED BY <1>1, TypeStep, PTL DEF Spec

-----------------------------------------------------------------------------
(* Sessions and their families.                                            *)

\* A login that passed its check did so no later than now, and before the last
\* sweep if the user has been deactivated since.
LoginInv(s) ==
  /\ checkedAt[s] <= sweeps
  /\ session[s] = "checked" /\ ~active => checkedAt[s] < sweeps

SessionInv ==
  /\ LinearFamily /\ RevokedWithFamily /\ SweepIsComplete
  /\ \A s \in Session : LoginInv(s)

\* The newest token of a family is the only one that is unused.
LinearTokens(f) ==
  \A n \in 1..Len(f) : /\ f[n].from = n - 1
                       /\ n < Len(f) => f[n].used
                       /\ n = Len(f) => ~f[n].used

RevokedTokens(f, st) == \A n \in 1..Len(f) : f[n].revoked <=> st = "revoked"

LEMMA SessionInit == Init => SessionInv
  BY EmptySeq
  DEF Init, SessionInv, LinearFamily, RevokedWithFamily, SweepIsComplete, LoginInv

\* A rotation is of the newest token, the only one that is neither used nor
\* revoked, and leaves a family that is linear.
LEMMA RotationIsLinear ==
  ASSUME NEW f \in Seq(Token), NEW n \in 1..Len(f), LinearTokens(f), ~f[n].used,
         NEW g, g = Append([f EXCEPT ![n].used = TRUE], FreshToken(n)),
         NEW st, st # "revoked", RevokedTokens(f, st)
  PROVE  LinearTokens(g) /\ RevokedTokens(g, st)
<1>1. /\ Len(g) = Len(f) + 1 /\ g[Len(f) + 1] = FreshToken(n)
      /\ \A i \in 1..Len(f) : g[i] = IF i = n THEN [f[n] EXCEPT !.used = TRUE] ELSE f[i]
  BY RotatedFamily
<1>2. Len(f) \in Nat /\ n = Len(f)
  BY LenProperties DEF LinearTokens
<1>3. f[n] \in Token
  BY ElementOfSeq
<1>4. \A i \in 1..Len(f) : /\ g[i].from = i - 1 /\ g[i].used
                           /\ g[i].revoked <=> st = "revoked"
  BY <1>1, <1>2, <1>3 DEF LinearTokens, RevokedTokens, Token
<1>5. /\ g[Len(f) + 1].from = Len(f) /\ ~g[Len(f) + 1].used
      /\ ~g[Len(f) + 1].revoked
  BY <1>1, <1>2 DEF FreshToken
<1>6. QED BY <1>1, <1>2, <1>4, <1>5 DEF LinearTokens, RevokedTokens

LEMMA RevocationIsLinear ==
  ASSUME NEW f \in Seq(Token), LinearTokens(f)
  PROVE  LinearTokens(RevokeTokens(f)) /\ RevokedTokens(RevokeTokens(f), "revoked")
<1>1. \A i \in 1..Len(f) : f[i] \in Token
  BY ElementOfSeq
<1>2. /\ Len(RevokeTokens(f)) = Len(f)
      /\ \A i \in 1..Len(f) : RevokeTokens(f)[i] = [f[i] EXCEPT !.revoked = TRUE]
  BY RevokedFamily
<1>3. \A i \in 1..Len(f) : /\ RevokeTokens(f)[i].from = f[i].from
                           /\ RevokeTokens(f)[i].used = f[i].used
                           /\ RevokeTokens(f)[i].revoked
  BY <1>1, <1>2 DEF Token
<1>4. QED BY <1>2, <1>3 DEF LinearTokens, RevokedTokens

\* The families of the sessions, which is what LinearFamily and
\* RevokedWithFamily say.
FamilyInv == \A s \in Session : LinearTokens(family[s]) /\ RevokedTokens(family[s], session[s])

LEMMA FamilyInvIs == FamilyInv <=> LinearFamily /\ RevokedWithFamily
  BY DEF FamilyInv, LinearFamily, RevokedWithFamily, LinearTokens, RevokedTokens

LEMMA FamilyStep == TypeOK /\ FamilyInv /\ [Next]_vars => FamilyInv'
<1> SUFFICES ASSUME TypeOK, FamilyInv, [Next]_vars PROVE FamilyInv'
  OBVIOUS
<1> USE DEF FamilyInv
<1>a. \A s \in Session : family[s] \in Seq(Token)
  BY DEF TypeOK, Token
<1>b. /\ family \in [Session -> Seq(Token)]
      /\ session \in [Session -> {"none", "checked", "open", "revoked"}]
  BY DEF TypeOK, Token
<1>1. ASSUME NEW s \in Session, CheckCredentials(s) PROVE FamilyInv'
  BY <1>1, <1>b DEF CheckCredentials, RevokedTokens
<1>2. ASSUME NEW s \in Session, IssueSession(s) PROVE FamilyInv'
  <2> DEFINE f == <<FreshToken(0)>>
  <2>1. LinearTokens(f) /\ RevokedTokens(f, "open")
    BY DEF LinearTokens, RevokedTokens, FreshToken
  <2>2. session' = [session EXCEPT ![s] = "open"] /\ family' = [family EXCEPT ![s] = f]
    BY <1>2 DEF IssueSession
  <2> HIDE DEF f
  <2>3. QED BY <2>1, <2>2, <1>b
<1>3. ASSUME NEW s \in Session, RevokeLocked(s) PROVE FamilyInv'
  BY <1>3, <1>a, <1>b, RevocationIsLinear DEF RevokeLocked
<1>4. ASSUME NEW s \in Session, NEW n \in 1..MaxTokens, Rotate(s, n) PROVE FamilyInv'
  <2>1. n \in 1..Len(family[s])
    BY <1>4, <1>a, LenProperties DEF Rotate
  <2>2. session[s] = "open" /\ ~family[s][n].used /\ session' = session
    BY <1>4 DEF Rotate, Usable
  <2>3. family' = [family EXCEPT ![s] =
          Append([family[s] EXCEPT ![n].used = TRUE], FreshToken(n))]
    BY <1>4 DEF Rotate
  <2> DEFINE g == Append([family[s] EXCEPT ![n].used = TRUE], FreshToken(n))
  <2>4. LinearTokens(g) /\ RevokedTokens(g, session[s])
    BY <2>1, <2>2, <1>a, RotationIsLinear
  <2> HIDE DEF g
  <2>5. family' = [family EXCEPT ![s] = g]
    BY <2>3 DEF g
  <2>6. QED BY <2>2, <2>4, <2>5, <1>b
<1>5. CASE SweepSessions
  <2>1. \A s \in Session : \/ session'[s] = session[s] /\ family'[s] = family[s]
                           \/ session'[s] = "revoked" /\ family'[s] = RevokeTokens(family[s])
    BY <1>5, SweepStep
  <2>2. QED BY <2>1, <1>a, RevocationIsLinear
<1>6. CASE UNCHANGED <<session, family>>
  BY <1>6
<1>7. QED
  BY <1>1, <1>2, <1>3, <1>4, <1>5, <1>6
  DEF Next, vars, sessionVars, RevokeSession, DetectReuse, Expire, IssueResetLink,
      CompletePasswordReset, SuspendUser, ReactivateUser, TerminateUser, CommandFails

\* No sweep leaves a session open, and one that opens after it was checked
\* before it if the user is inactive.
LEMMA SweepInvStep ==
  TypeOK /\ SweepIsComplete /\ (\A s \in Session : LoginInv(s)) /\ [Next]_vars
    => SweepIsComplete' /\ (\A s \in Session : LoginInv(s)')
<1> SUFFICES ASSUME TypeOK, SweepIsComplete, \A s \in Session : LoginInv(s), [Next]_vars
             PROVE  SweepIsComplete' /\ (\A s \in Session : LoginInv(s)')
  OBVIOUS
<1> DEFINE Goal == SweepIsComplete' /\ (\A s \in Session : LoginInv(s)')
<1> USE DEF SweepIsComplete, LoginInv
<1>a. /\ session \in [Session -> {"none", "checked", "open", "revoked"}]
      /\ checkedAt \in [Session -> Nat] /\ openedAt \in [Session -> Nat] /\ sweeps \in Nat
      /\ active \in BOOLEAN
  BY DEF TypeOK
<1>1. ASSUME NEW s \in Session, CheckCredentials(s) PROVE Goal
  BY <1>1, <1>a DEF CheckCredentials, userVars
<1>2. ASSUME NEW s \in Session, IssueSession(s) PROVE Goal
  BY <1>2, <1>a DEF IssueSession
<1>3. ASSUME NEW s \in Session, RevokeSession(s) \/ \E n \in 1..MaxTokens : DetectReuse(s, n)
      PROVE  Goal
  <2>1. session' = [session EXCEPT ![s] = "revoked"]
        /\ UNCHANGED <<active, sweeps, checkedAt, openedAt>>
    BY <1>3 DEF RevokeSession, DetectReuse, RevokeLocked, userVars, sweepVars
  <2>2. QED BY <2>1, <1>a
<1>4. CASE SweepSessions
  <2>1. /\ sweeps' = sweeps + 1 /\ UNCHANGED <<checkedAt, openedAt>>
        /\ \A s \in Session : session'[s] # "open"
    BY <1>4, SweepStep
  <2>2. QED BY <2>1, <1>a
<1>5. CASE active' = TRUE /\ UNCHANGED <<session, sweeps, checkedAt, openedAt>>
  BY <1>5
<1>6. CASE UNCHANGED <<active, session, sweeps, checkedAt, openedAt>>
  BY <1>6
<1>7. QED
  BY <1>1, <1>2, <1>3, <1>4, <1>5, <1>6
  DEF Next, vars, userVars, sessionVars, sweepVars, Rotate, Expire, IssueResetLink,
      CompletePasswordReset, SuspendUser, ReactivateUser, TerminateUser, CommandFails

\* The inductive invariant of sessions holds in every reachable state.
LEMMA SessionInvHolds == Spec => [](TypeOK /\ SessionInv)
<1>1. TypeOK /\ SessionInv /\ [Next]_vars => SessionInv'
  <2> SUFFICES ASSUME TypeOK, SessionInv, [Next]_vars PROVE SessionInv'
    OBVIOUS
  <2>1. FamilyInv'
    BY FamilyInvIs, FamilyStep DEF SessionInv
  <2>2. LinearFamily' /\ RevokedWithFamily'
    BY <2>1 DEF FamilyInv, LinearFamily, RevokedWithFamily, LinearTokens, RevokedTokens
  <2>3. SweepIsComplete' /\ (\A s \in Session : LoginInv(s)')
    BY SweepInvStep DEF SessionInv
  <2>4. QED BY <2>2, <2>3 DEF SessionInv
<1>2. QED BY <1>1, IdentityTypeCorrect, SessionInit, PTL DEF Spec

\* Two clients never both continue a family of refresh tokens, however many
\* sessions there are and however long a family grows.
THEOREM IdentityLinearFamily == Spec => []LinearFamily
<1>1. SessionInv => LinearFamily
  BY DEF SessionInv
<1>2. QED BY <1>1, SessionInvHolds, PTL

\* A session and the tokens of its family are revoked together, by logout, by
\* the detection of reuse and by every sweep.
THEOREM IdentityRevokedWithFamily == Spec => []RevokedWithFamily
<1>1. SessionInv => RevokedWithFamily
  BY DEF SessionInv
<1>2. QED BY <1>1, SessionInvHolds, PTL

\* No session outlives a suspension, termination or password reset, for any
\* number of sessions and sweeps.
THEOREM IdentitySweepIsComplete == Spec => []SweepIsComplete
<1>1. SessionInv => SweepIsComplete
  BY DEF SessionInv
<1>2. QED BY <1>1, SessionInvHolds, PTL

-----------------------------------------------------------------------------
(* Reset links.                                                            *)

\* Every link was issued at a security event of its own, in order; one that is
\* spent is older than the last event.
LinkInv ==
  /\ Len(spent) = Len(links)
  /\ \A n \in 1..Len(links) : /\ links[n].secured <= secured
                              /\ spent[n] <= 1
                              /\ spent[n] = 1 => links[n].secured < secured
  /\ \A m, n \in 1..Len(links) : m < n => links[m].secured < links[n].secured

LEMMA LinkInit == Init => LinkInv
  BY EmptySeq DEF Init, LinkInv

LEMMA LinkStep == TypeOK /\ LinkInv /\ [Next]_vars => LinkInv'
<1> SUFFICES ASSUME TypeOK, LinkInv, [Next]_vars PROVE LinkInv'
  OBVIOUS
<1> USE DEF LinkInv
<1>a. links \in Seq(Link) /\ spent \in Seq(Nat) /\ secured \in Nat
  BY DEF TypeOK, Link
<1>b. \A n \in 1..Len(links) : links[n].secured \in Nat /\ spent[n] \in Nat
  <2>1. \A n \in 1..Len(links) : links[n] \in Link
    BY <1>a, ElementOfSeq
  <2>2. \A n \in 1..Len(spent) : spent[n] \in Nat
    BY <1>a, ElementOfSeq
  <2>3. QED BY <2>1, <2>2 DEF Link
<1>c. Len(links) \in Nat /\ DOMAIN links = 1..Len(links)
  BY <1>a, LenProperties
<1>1. CASE IssueResetLink
  <2> DEFINE k == HashValue(secured + 1)
  <2>1. k \in Link /\ k.secured = secured + 1
    BY DEF TypeOK, HashValue, Link
  <2>2. secured' = secured + 1 /\ links' = Append(links, k) /\ spent' = Append(spent, 0)
    BY <1>1 DEF IssueResetLink
  <2> HIDE DEF k
  <2>3. /\ Len(links') = Len(links) + 1 /\ links'[Len(links) + 1] = k
        /\ \A n \in 1..Len(links) : links'[n] = links[n]
    BY <2>1, <2>2, <1>a, AppendProperties
  <2>4. /\ Len(spent') = Len(links) + 1 /\ spent'[Len(links) + 1] = 0
        /\ \A n \in 1..Len(links) : spent'[n] = spent[n]
    BY <2>2, <1>a, AppendProperties
  <2>5. QED BY <2>1, <2>2, <2>3, <2>4, <1>a, <1>b, <1>c
<1>2. ASSUME NEW n \in DOMAIN links, CompletePasswordReset(n) PROVE LinkInv'
  <2>1. /\ secured' = secured + 1 /\ links' = links
        /\ spent' = [spent EXCEPT ![n] = spent[n] + 1]
        /\ links[n].secured = secured
    BY <1>2 DEF CompletePasswordReset, LinkValid, HashValue
  <2>2. spent[n] = 0
    BY <2>1, <1>b, <1>c
  <2>3. /\ Len(spent') = Len(spent)
        /\ \A m \in 1..Len(spent) : spent'[m] = IF m = n THEN 1 ELSE spent[m]
    BY <2>1, <2>2, <1>a, <1>c, ExceptSeq
  <2>4. QED BY <2>1, <2>3, <1>a, <1>b, <1>c
<1>3. CASE UNCHANGED <<secured, links, spent>>
  BY <1>3
<1>4. QED
  BY <1>1, <1>2, <1>3
  DEF Next, vars, userVars, linkVars, CheckCredentials, IssueSession, Rotate, DetectReuse,
      RevokeSession, Expire, SuspendUser, ReactivateUser, TerminateUser, CommandFails

\* Only the newest reset link works, and only once, for any number of links,
\* logins, suspensions and reactivations.
THEOREM IdentityOnlyNewestLink == Spec => []OnlyNewestLink
<1>1. TypeOK /\ LinkInv => OnlyNewestLink
  <2> SUFFICES ASSUME TypeOK, LinkInv, NEW n \in 1..Len(links)
               PROVE  (LinkValid(n) => n = Len(links) /\ spent[n] = 0) /\ spent[n] <= 1
    BY DEF OnlyNewestLink
  <2>1. links \in Seq(Link) /\ spent \in Seq(Nat) /\ secured \in Nat
    BY DEF TypeOK, Link
  <2>2. /\ Len(links) \in Nat
        /\ \A m \in 1..Len(links) : links[m].secured \in Nat /\ spent[m] \in Nat
    <3>1. Len(links) \in Nat /\ \A m \in 1..Len(links) : links[m] \in Link
      BY <2>1, ElementOfSeq, LenProperties
    <3>2. \A m \in 1..Len(spent) : spent[m] \in Nat
      BY <2>1, ElementOfSeq
    <3>3. QED BY <3>1, <3>2 DEF Link, LinkInv
  <2>3. LinkValid(n) => links[n].secured = secured
    BY DEF LinkValid, HashValue
  <2>4. QED BY <2>1, <2>2, <2>3 DEF LinkInv
<1>2. QED BY <1>1, IdentityTypeCorrect, LinkInit, LinkStep, PTL DEF Spec

-----------------------------------------------------------------------------
(* Compliance.                                                             *)

\* An open evaluation holds its assessment, which is still being worked on.
EvalTxOK(t) ==
  /\ t.of \in Assessment /\ t.control \in Control /\ t.result \in Results
  /\ <<t.of>> \in t.locks
  /\ In(assessment, t.of, {"draft", "in_progress"})

\* What is sealed of assessment a, of campaign k and of exception x.
AssessmentSealed(a) ==
  In(assessment, a, {"submitted", "approved", "rejected"}) =>
    /\ assessment[a].sealed = evaluation[a]
    /\ \A c \in Control : evaluation[a][c] # "pending"
    /\ assessment[a].status # "submitted" => assessment[a].reviewer # assessment[a].assessor

CampaignSealed(k) ==
  Has(campaign, k) =>
    /\ campaign[k].reviewer # campaign[k].owner
    /\ campaign[k].status # "active" => \A x \in Access : decision[k][x] # "pending"

ExceptionSealed(x) == Has(exception, x) => exception[x].reviewer # exception[x].by

SealedInv ==
  /\ ComplianceTypeOK
  /\ \A t \in evalTx : EvalTxOK(t)
  /\ \A a \in Assessment : AssessmentSealed(a)
  /\ \A k \in Campaign : CampaignSealed(k)
  /\ \A x \in Exception : ExceptionSealed(x)

LEMMA SealedInit == ComplianceInit => SealedInv
<1> SUFFICES ASSUME ComplianceInit PROVE SealedInv
  OBVIOUS
<1>1. ComplianceTypeOK
  BY DEF ComplianceInit, ComplianceTypeOK, Results, Absent
<1>2. QED
  BY <1>1 DEF ComplianceInit, SealedInv, AssessmentSealed, CampaignSealed, ExceptionSealed, Has, In, Absent

\* An assessment is made, or moves while nobody evaluates it.
LEMMA AssessmentMoved ==
  ASSUME SealedInv, NEW a \in Assessment, NEW row \in ComplianceAssessmentRow,
         assessment' = [assessment EXCEPT ![a] = row], \A t \in evalTx : t.of # a,
         row.status \in {"submitted", "approved", "rejected"} =>
           /\ row.sealed = evaluation[a]
           /\ \A c \in Control : evaluation[a][c] # "pending"
           /\ row.status # "submitted" => row.reviewer # row.assessor,
         UNCHANGED <<evaluation, campaign, decision, exception, risk, evalTx>>
  PROVE  SealedInv'
<1>1. assessment \in [Assessment -> ComplianceAssessmentRow \cup {Absent}]
  BY DEF SealedInv, ComplianceTypeOK
<1>2. assessment' \in [Assessment -> ComplianceAssessmentRow \cup {Absent}]
  BY <1>1
<1>3. assessment'[a] = row /\ \A b \in Assessment : b # a => assessment'[b] = assessment[b]
  BY <1>1
<1>4. ComplianceTypeOK'
  BY <1>2 DEF SealedInv, ComplianceTypeOK
<1>5. ASSUME NEW t \in evalTx PROVE EvalTxOK(t)'
  BY <1>3, <1>5 DEF SealedInv, EvalTxOK, In
<1>6. ASSUME NEW b \in Assessment PROVE AssessmentSealed(b)'
  <2>1. CASE b = a
    BY <1>3, <2>1 DEF AssessmentSealed, In
  <2>2. CASE b # a
    BY <1>3, <2>2 DEF SealedInv, AssessmentSealed, In
  <2>3. QED BY <2>1, <2>2
<1>7. QED BY <1>4, <1>5, <1>6 DEF SealedInv, CampaignSealed, ExceptionSealed, Has

LEMMA AssessmentCreated ==
  ASSUME SealedInv, NEW a \in Assessment, NEW m \in Member, CreateAssessment(a, m)
  PROVE  SealedInv'
<1> DEFINE row == [status |-> "in_progress", assessor |-> m, reviewer |-> Nobody, sealed |-> Nothing]
<1>1. row \in ComplianceAssessmentRow
  BY DEF ComplianceAssessmentRow
<1>2. \A t \in evalTx : t.of # a
  BY DEF SealedInv, EvalTxOK, CreateAssessment, Has, In
<1>3. row.status = "in_progress"
  OBVIOUS
<1>4. assessment' = [assessment EXCEPT ![a] = row] /\ UNCHANGED <<evaluation, campaign, decision, exception, risk, evalTx>>
  BY DEF CreateAssessment
<1> HIDE DEF row
<1>5. QED BY <1>1, <1>2, <1>3, <1>4, AssessmentMoved

LEMMA AssessmentTransitioned ==
  ASSUME SealedInv, NEW a \in Assessment, NEW m \in Member, TransitionAssessment(a, m)
  PROVE  SealedInv'
<1>1. PICK stage \in Offers(AssessmentStages, assessment, a) :
       /\ stage = "submitted" => \A c \in Control : evaluation[a][c] # "pending"
       /\ stage \in {"approved", "rejected"} => assessment[a].assessor # m
       /\ assessment' = [assessment EXCEPT ![a].status = stage,
            ![a].sealed = IF stage = "submitted" THEN evaluation[a] ELSE @,
            ![a].reviewer = IF stage \in {"approved", "rejected"} THEN m ELSE @]
  BY DEF TransitionAssessment
<1> DEFINE row == [assessment[a] EXCEPT !.status = stage,
                     !.sealed = IF stage = "submitted" THEN evaluation[a] ELSE @,
                     !.reviewer = IF stage \in {"approved", "rejected"} THEN m ELSE @]
<1>2. /\ assessment \in [Assessment -> ComplianceAssessmentRow \cup {Absent}]
      /\ evaluation[a] \in [Control -> Results]
  BY DEF SealedInv, ComplianceTypeOK
<1>3. assessment[a].status \in DOMAIN AssessmentStages /\ stage \in AssessmentStages[assessment[a].status]
  BY <1>1 DEF Offers
<1>4. assessment[a] \in ComplianceAssessmentRow
  BY <1>2, <1>3 DEF AssessmentStages, Absent
<1>5. \/ assessment[a].status \in {"draft", "rejected"} /\ stage = "in_progress"
      \/ assessment[a].status = "in_progress" /\ stage = "submitted"
      \/ assessment[a].status = "submitted" /\ stage \in {"approved", "rejected"}
  BY <1>3 DEF AssessmentStages
<1>6. row \in ComplianceAssessmentRow
  BY <1>2, <1>4, <1>5 DEF ComplianceAssessmentRow
<1>7. /\ row.status = stage /\ row.assessor = assessment[a].assessor
      /\ row.sealed = IF stage = "submitted" THEN evaluation[a] ELSE assessment[a].sealed
      /\ row.reviewer = IF stage \in {"approved", "rejected"} THEN m ELSE assessment[a].reviewer
  BY <1>4 DEF ComplianceAssessmentRow
<1>8. assessment' = [assessment EXCEPT ![a] = row]
  BY <1>1, <1>2
<1>9. \A t \in evalTx : t.of # a
  BY DEF SealedInv, EvalTxOK, TransitionAssessment, Unlocked
<1>10. AssessmentSealed(a)
  BY DEF SealedInv
<1> HIDE DEF row
<1>11. row.status \in {"submitted", "approved", "rejected"} =>
        /\ row.sealed = evaluation[a]
        /\ \A c \in Control : evaluation[a][c] # "pending"
        /\ row.status # "submitted" => row.reviewer # row.assessor
  BY <1>1, <1>5, <1>7, <1>10 DEF AssessmentSealed, In
<1>12. UNCHANGED <<evaluation, campaign, decision, exception, risk, evalTx>>
  BY DEF TransitionAssessment
<1>13. QED BY <1>6, <1>8, <1>9, <1>11, <1>12, AssessmentMoved

LEMMA EvaluationChecked ==
  ASSUME SealedInv, NEW a \in Assessment, NEW c \in Control, CheckEvaluation(a, c)
  PROVE  SealedInv'
<1>1. PICK result \in Results :
        evalTx' = evalTx \cup {[of |-> a, control |-> c, result |-> result, locks |-> LocksOfEvaluation(a, c)]}
  BY DEF CheckEvaluation
<1> DEFINE new == [of |-> a, control |-> c, result |-> result, locks |-> LocksOfEvaluation(a, c)]
<1>2. UNCHANGED <<assessment, evaluation, campaign, decision, exception, risk>>
  BY DEF CheckEvaluation
<1>3. EvalTxOK(new)
  BY DEF EvalTxOK, CheckEvaluation, LocksOfEvaluation
<1> HIDE DEF new
<1>4. \A t \in evalTx' : EvalTxOK(t)
  BY <1>1, <1>3 DEF SealedInv, new
<1>5. QED
  BY <1>2, <1>4 DEF SealedInv, ComplianceTypeOK, EvalTxOK, AssessmentSealed, CampaignSealed, ExceptionSealed, In, Has

LEMMA EvaluationCommitted ==
  ASSUME SealedInv, NEW t \in evalTx, CommitEvaluation(t)
  PROVE  SealedInv'
<1>1. t.of \in Assessment /\ t.control \in Control /\ t.result \in Results /\ In(assessment, t.of, {"draft", "in_progress"})
  BY DEF SealedInv, EvalTxOK
<1>2. evaluation \in [Assessment -> [Control -> Results]]
  BY DEF SealedInv, ComplianceTypeOK
<1>3. evaluation' \in [Assessment -> [Control -> Results]]
  BY <1>1, <1>2 DEF CommitEvaluation
<1>4. \A a \in Assessment : a # t.of => evaluation'[a] = evaluation[a]
  BY <1>2 DEF CommitEvaluation
<1>5. UNCHANGED <<assessment, campaign, decision, exception, risk>> /\ evalTx' \subseteq evalTx
  BY DEF CommitEvaluation
<1>6. ComplianceTypeOK'
  BY <1>3, <1>5 DEF SealedInv, ComplianceTypeOK
<1>7. ASSUME NEW a \in Assessment PROVE AssessmentSealed(a)'
  BY <1>1, <1>4, <1>5 DEF SealedInv, AssessmentSealed, In
<1>8. \A x \in evalTx' : EvalTxOK(x)'
  BY <1>5 DEF SealedInv, EvalTxOK, In
<1>9. QED BY <1>5, <1>6, <1>7, <1>8 DEF SealedInv, CampaignSealed, ExceptionSealed, Has

\* A campaign is made or moves; its decisions stay.
LEMMA CampaignMoved ==
  ASSUME SealedInv, NEW k \in Campaign, NEW row \in AccessReviewCampaignRow,
         campaign' = [campaign EXCEPT ![k] = row],
         row.reviewer # row.owner,
         row.status # "active" => \A x \in Access : decision[k][x] # "pending",
         UNCHANGED <<assessment, evaluation, decision, exception, risk, evalTx>>
  PROVE  SealedInv'
<1>1. campaign \in [Campaign -> AccessReviewCampaignRow \cup {Absent}]
  BY DEF SealedInv, ComplianceTypeOK
<1>2. campaign' \in [Campaign -> AccessReviewCampaignRow \cup {Absent}]
  BY <1>1
<1>3. campaign'[k] = row /\ \A b \in Campaign : b # k => campaign'[b] = campaign[b]
  BY <1>1
<1>4. ComplianceTypeOK'
  BY <1>2 DEF SealedInv, ComplianceTypeOK
<1>5. ASSUME NEW b \in Campaign PROVE CampaignSealed(b)'
  BY <1>3 DEF SealedInv, CampaignSealed, Has
<1>6. QED BY <1>4, <1>5 DEF SealedInv, EvalTxOK, AssessmentSealed, ExceptionSealed, In, Has

LEMMA CampaignCreated ==
  ASSUME ComplianceAssumption, SealedInv, NEW k \in Campaign, NEW m \in Member, CreateAccessReview(k, m)
  PROVE  SealedInv'
<1> DEFINE row == [status |-> "active", owner |-> m, reviewer |-> Nobody]
<1>1. row \in AccessReviewCampaignRow /\ row.reviewer # row.owner /\ row.status = "active"
  BY DEF AccessReviewCampaignRow, ComplianceAssumption
<1>2. campaign' = [campaign EXCEPT ![k] = row] /\ UNCHANGED <<assessment, evaluation, decision, exception, risk, evalTx>>
  BY DEF CreateAccessReview
<1> HIDE DEF row
<1>3. QED BY <1>1, <1>2, CampaignMoved

LEMMA CampaignTransitioned ==
  ASSUME SealedInv, NEW k \in Campaign, NEW m \in Member, TransitionAccessReview(k, m)
  PROVE  SealedInv'
<1>1. PICK stage \in Offers(CampaignStages, campaign, k) :
       /\ stage = "submitted" => \A x \in Access : decision[k][x] # "pending"
       /\ stage = "approved" => campaign[k].owner # m
       /\ campaign' = [campaign EXCEPT ![k].status = stage,
            ![k].reviewer = IF stage = "approved" THEN m ELSE @]
  BY DEF TransitionAccessReview
<1> DEFINE row == [campaign[k] EXCEPT !.status = stage, !.reviewer = IF stage = "approved" THEN m ELSE @]
<1>2. campaign \in [Campaign -> AccessReviewCampaignRow \cup {Absent}]
  BY DEF SealedInv, ComplianceTypeOK
<1>3. campaign[k].status \in DOMAIN CampaignStages /\ stage \in CampaignStages[campaign[k].status]
  BY <1>1 DEF Offers
<1>4. campaign[k] \in AccessReviewCampaignRow
  BY <1>2, <1>3 DEF CampaignStages, Absent
<1>5. \/ campaign[k].status = "active" /\ stage = "submitted"
      \/ campaign[k].status = "submitted" /\ stage = "approved"
      \/ campaign[k].status = "approved" /\ stage = "closed"
  BY <1>3, <1>4 DEF CampaignStages, AccessReviewCampaignRow
<1>6. row \in AccessReviewCampaignRow
  BY <1>4, <1>5 DEF AccessReviewCampaignRow
<1>7. row.owner = campaign[k].owner /\ row.reviewer = (IF stage = "approved" THEN m ELSE campaign[k].reviewer)
  BY <1>4 DEF AccessReviewCampaignRow
<1>8. campaign' = [campaign EXCEPT ![k] = row]
  BY <1>1, <1>2
<1>9. CampaignSealed(k)
  BY DEF SealedInv
<1> HIDE DEF row
<1>10. row.reviewer # row.owner /\ \A x \in Access : decision[k][x] # "pending"
  BY <1>1, <1>5, <1>7, <1>9 DEF CampaignSealed, Has
<1>11. UNCHANGED <<assessment, evaluation, decision, exception, risk, evalTx>>
  BY DEF TransitionAccessReview
<1>12. QED BY <1>6, <1>8, <1>10, <1>11, CampaignMoved

LEMMA ReviewItemDecided ==
  ASSUME SealedInv, NEW k \in Campaign, NEW x \in Access, DecideAccessReviewItem(k, x)
  PROVE  SealedInv'
<1>1. PICK d \in Decisions : decision' = [decision EXCEPT ![k][x] = d]
  BY DEF DecideAccessReviewItem
<1>2. decision \in [Campaign -> [Access -> Decisions \cup {"pending"}]]
  BY DEF SealedInv, ComplianceTypeOK
<1>3. /\ decision' \in [Campaign -> [Access -> Decisions \cup {"pending"}]]
      /\ \A b \in Campaign : b # k => decision'[b] = decision[b]
  BY <1>1, <1>2
<1>4. UNCHANGED <<assessment, evaluation, campaign, exception, risk, evalTx>> /\ campaign[k].status = "active"
  BY DEF DecideAccessReviewItem, In
<1>5. ComplianceTypeOK'
  BY <1>3, <1>4 DEF SealedInv, ComplianceTypeOK
<1>6. ASSUME NEW b \in Campaign PROVE CampaignSealed(b)'
  BY <1>3, <1>4 DEF SealedInv, CampaignSealed, Has
<1>7. QED BY <1>4, <1>5, <1>6 DEF SealedInv, EvalTxOK, AssessmentSealed, ExceptionSealed, In, Has

\* An exception is requested, or decided by another than who asked.
LEMMA ExceptionMoved ==
  ASSUME SealedInv, NEW x \in Exception, NEW row \in SecurityExceptionRow,
         exception' = [exception EXCEPT ![x] = row], row.reviewer # row.by,
         UNCHANGED <<assessment, evaluation, campaign, decision, risk, evalTx>>
  PROVE  SealedInv'
<1>1. exception \in [Exception -> SecurityExceptionRow \cup {Absent}]
  BY DEF SealedInv, ComplianceTypeOK
<1>2. /\ exception' \in [Exception -> SecurityExceptionRow \cup {Absent}]
      /\ exception'[x] = row /\ \A y \in Exception : y # x => exception'[y] = exception[y]
  BY <1>1
<1>3. ComplianceTypeOK'
  BY <1>2 DEF SealedInv, ComplianceTypeOK
<1>4. ASSUME NEW y \in Exception PROVE ExceptionSealed(y)'
  BY <1>2 DEF SealedInv, ExceptionSealed, Has
<1>5. QED BY <1>3, <1>4 DEF SealedInv, EvalTxOK, AssessmentSealed, CampaignSealed, In, Has

LEMMA ExceptionRequested ==
  ASSUME ComplianceAssumption, SealedInv, NEW x \in Exception, NEW m \in Member, RequestException(x, m)
  PROVE  SealedInv'
<1> DEFINE row == [status |-> "requested", by |-> m, reviewer |-> Nobody]
<1>1. row \in SecurityExceptionRow /\ row.reviewer # row.by
  BY DEF SecurityExceptionRow, ComplianceAssumption
<1>2. exception' = [exception EXCEPT ![x] = row] /\ UNCHANGED <<assessment, evaluation, campaign, decision, risk, evalTx>>
  BY DEF RequestException
<1> HIDE DEF row
<1>3. QED BY <1>1, <1>2, ExceptionMoved

LEMMA ExceptionDecided ==
  ASSUME SealedInv, NEW x \in Exception, NEW m \in Member, DecideException(x, m)
  PROVE  SealedInv'
<1>1. PICK stage \in Offers(ExceptionStages, exception, x) :
        exception[x].by # m /\ exception' = [exception EXCEPT ![x].status = stage, ![x].reviewer = m]
  BY DEF DecideException
<1> DEFINE row == [exception[x] EXCEPT !.status = stage, !.reviewer = m]
<1>2. exception \in [Exception -> SecurityExceptionRow \cup {Absent}]
  BY DEF SealedInv, ComplianceTypeOK
<1>3. exception[x].status \in DOMAIN ExceptionStages /\ stage \in ExceptionStages[exception[x].status]
  BY <1>1 DEF Offers
<1>4. exception[x] \in SecurityExceptionRow /\ stage \in {"approved", "rejected", "revoked", "expired"}
  BY <1>2, <1>3 DEF ExceptionStages, Absent
<1>5. row \in SecurityExceptionRow /\ row.reviewer # row.by
  BY <1>1, <1>4 DEF SecurityExceptionRow
<1>6. exception' = [exception EXCEPT ![x] = row] /\ UNCHANGED <<assessment, evaluation, campaign, decision, risk, evalTx>>
  BY <1>1, <1>2 DEF DecideException
<1> HIDE DEF row
<1>7. QED BY <1>5, <1>6, ExceptionMoved

LEMMA SecurityRiskMoved ==
  ASSUME SealedInv, NEW r \in Risk, CreateRisk(r) \/ TransitionRisk(r)
  PROVE  SealedInv'
<1>1. risk \in [Risk -> RiskRegisterItemRow \cup {Absent}]
  BY DEF SealedInv, ComplianceTypeOK
<1>2. risk' \in [Risk -> RiskRegisterItemRow \cup {Absent}]
  <2>1. CASE CreateRisk(r)
    BY <1>1, <2>1 DEF CreateRisk, RiskRegisterItemRow, RiskStages
  <2>2. CASE TransitionRisk(r)
    <3>1. PICK stage \in Offers(RiskStages, risk, r) : risk' = [risk EXCEPT ![r].status = stage]
      BY <2>2 DEF TransitionRisk, Moved
    <3>2. risk[r].status \in DOMAIN RiskStages /\ stage \in RiskStages[risk[r].status]
      BY <3>1 DEF Offers
    <3>3. risk[r] \in RiskRegisterItemRow /\ stage \in DOMAIN RiskStages
      BY <1>1, <3>2 DEF RiskStages, Absent
    <3>4. [risk[r] EXCEPT !.status = stage] \in RiskRegisterItemRow
      BY <3>3 DEF RiskRegisterItemRow
    <3>5. QED BY <1>1, <3>1, <3>4
  <2>3. QED BY <2>1, <2>2
<1>3. UNCHANGED <<assessment, evaluation, campaign, decision, exception, evalTx>>
  BY DEF CreateRisk, TransitionRisk
<1>4. QED
  BY <1>2, <1>3 DEF SealedInv, ComplianceTypeOK, EvalTxOK, AssessmentSealed, CampaignSealed, ExceptionSealed, In, Has

LEMMA SealedStep ==
  ASSUME ComplianceAssumption, SealedInv, [ComplianceNext]_complianceVars
  PROVE  SealedInv'
<1>1. CASE ComplianceNext
  <2>1. ASSUME NEW a \in Assessment, NEW m \in Member, CreateAssessment(a, m) \/ TransitionAssessment(a, m)
        PROVE  SealedInv'
    BY <2>1, AssessmentCreated, AssessmentTransitioned
  <2>2. ASSUME NEW a \in Assessment, NEW c \in Control, CheckEvaluation(a, c) PROVE SealedInv'
    BY <2>2, EvaluationChecked
  <2>3. ASSUME NEW t \in evalTx, CommitEvaluation(t) PROVE SealedInv'
    BY <2>3, EvaluationCommitted
  <2>4. ASSUME NEW t \in evalTx, RollbackEvaluation(t) PROVE SealedInv'
    BY <2>4 DEF RollbackEvaluation, SealedInv, ComplianceTypeOK, EvalTxOK, AssessmentSealed, CampaignSealed,
                ExceptionSealed, In, Has
  <2>5. ASSUME NEW k \in Campaign, NEW m \in Member, CreateAccessReview(k, m) \/ TransitionAccessReview(k, m)
        PROVE  SealedInv'
    BY <2>5, CampaignCreated, CampaignTransitioned
  <2>6. ASSUME NEW k \in Campaign, NEW x \in Access, DecideAccessReviewItem(k, x) PROVE SealedInv'
    BY <2>6, ReviewItemDecided
  <2>7. ASSUME NEW x \in Exception, NEW m \in Member, RequestException(x, m) \/ DecideException(x, m)
        PROVE  SealedInv'
    BY <2>7, ExceptionRequested, ExceptionDecided
  <2>8. ASSUME NEW r \in Risk, CreateRisk(r) \/ TransitionRisk(r) PROVE SealedInv'
    BY <2>8, SecurityRiskMoved
  <2>9. QED BY <1>1, <2>1, <2>2, <2>3, <2>4, <2>5, <2>6, <2>7, <2>8 DEF ComplianceNext
<1>2. CASE UNCHANGED complianceVars
  BY <1>2 DEF complianceVars, SealedInv, ComplianceTypeOK, EvalTxOK, AssessmentSealed, CampaignSealed,
              ExceptionSealed, In, Has
<1>3. QED BY <1>1, <1>2

LEMMA SealedInvariance == ASSUME ComplianceAssumption PROVE ComplianceSpec => []SealedInv
<1>1. QED BY SealedInit, SealedStep, PTL DEF ComplianceSpec

\* Rows of compliance keep their types, for any number of assessments and reviews.
THEOREM ComplianceTypeCorrect == ASSUME ComplianceAssumption PROVE ComplianceSpec => []ComplianceTypeOK
<1>1. SealedInv => ComplianceTypeOK
  BY DEF SealedInv
<1>2. QED BY <1>1, SealedInvariance, PTL

\* What an assessment sealed is what its evaluations say, although evaluations are
\* checked before they are written; submitted reviews have no open item; and nobody
\* approved what is his own.
THEOREM ComplianceEvidenceIsSealed ==
  ASSUME ComplianceAssumption
  PROVE  ComplianceSpec => []EvidenceIsSealed
<1>1. SealedInv => EvidenceIsSealed
  BY DEF SealedInv, AssessmentSealed, CampaignSealed, ExceptionSealed, EvidenceIsSealed, In, Has
<1>2. QED BY <1>1, SealedInvariance, PTL

-----------------------------------------------------------------------------
(* Insurance and guarantees.                                               *)

Reviewed == {"PARTY", "PROGRAM", "COVERAGE", "INSTRUMENT"}

\* The stages that no stage after an approval leads back to.
Early == {"ABSENT", "PENDING", "DRAFT", "SUBMITTED", "REJECTED"}

\* Row r was approved by another than its maker, and stays so.
Standing(r) == ~In(coverRow, r, Early) /\ Independently(coverRow, r)

\* A record and the parent p that its creation has checked.
Leans(i, p) ==
  \/ Kind[i] \in {"CLAIM", "CALL"} /\ Kind[p] \in {"COVERAGE", "INSTRUMENT"}
  \/ Kind[i] \in {"COVERAGE", "INSTRUMENT"} /\ Kind[p] = "PARTY"

Rooted(i) == \A p \in Parents[i] : Leans(i, p) => Standing(p)

\* What the stage of a row stands on.
Backed(i) ==
  /\ Kind[i] \in Reviewed /\ In(coverRow, i, {"VERIFIED", "APPROVED", "ACTIVE", "SUSPENDED", "EXPIRED", "RENEWED"}) =>
       Independently(coverRow, i)
  /\ Kind[i] = "CLAIM" /\ In(coverRow, i, {"ADMITTED", "SETTLED", "PARTIALLY_SETTLED"}) => Independently(coverRow, i)
  /\ Kind[i] = "CLAIM" /\ In(coverRow, i, {"SETTLED", "PARTIALLY_SETTLED"}) => coverRow[i].recovered \in 1..Amount[i]
  /\ Kind[i] = "CALL" /\ In(coverRow, i, {"APPROVED", "SETTLED", "DISPUTED", "CLOSED"}) => Independently(coverRow, i)
  /\ Kind[i] = "PREMIUM" /\ In(coverRow, i, {"PAID"}) => coverRow[i].paid = Amount[i]

CoverInv ==
  /\ CoverTypeOK
  /\ \A t \in opening : t.row \in Item /\ t.by \in Member /\ Rooted(t.row)
  /\ \A i \in Item : Has(coverRow, i) => Rooted(i) /\ Backed(i)

LEMMA CoverInitially == CoverInit => CoverInv
BY DEF CoverInit, CoverInv, CoverTypeOK, Has, Absent

LEMMA CoverRowsOfKind ==
  ASSUME NEW i \in Item
  PROVE  /\ Kind[i] = "PARTY" => RowOf(i) = Judgeable(PartyStages, Member)
         /\ Kind[i] = "PROGRAM" => RowOf(i) = Judgeable(ProgramStages, Member)
         /\ Kind[i] \in {"COVERAGE", "INSTRUMENT"} => RowOf(i) = Judgeable(GenericStages, Member)
         /\ Kind[i] = "PREMIUM" => RowOf(i) = PremiumScheduleRow
         /\ Kind[i] = "LOSS" => RowOf(i) = LossEventRow
         /\ Kind[i] = "CLAIM" => RowOf(i) = InsuranceClaimRow
         /\ Kind[i] = "CALL" => RowOf(i) = Judgeable(CallStages, Member)
BY DEF RowOf, RiskCounterpartyRow, InsuranceProgramRow, InsuranceCoverageRow, GuaranteeInstrumentRow, InstrumentCallRow

LEMMA OfferedIsReached ==
  ASSUME NEW stages, NEW table, NEW r, NEW stage \in Offers(stages, table, r)
  PROVE  /\ table[r].status \in DOMAIN stages /\ stage \in stages[table[r].status]
         /\ stage \in Reached(stages)
BY DEF Offers, Reached

\* Row i is written, and what leaned on it still may.
LEMMA CoverRowWritten ==
  ASSUME RiskTransferAssumption, CoverInv, NEW i \in Item, NEW row \in RowOf(i),
         coverRow' = [coverRow EXCEPT ![i] = row],
         Kind[i] \in Reviewed /\ Standing(i) => row.status \notin Early /\ row.approver \notin {Nobody, row.by},
         Rooted(i), Backed(i)', opening' \subseteq opening
  PROVE  CoverInv'
<1>1. DOMAIN coverRow = Item /\ \A j \in Item : coverRow[j] \in RowOf(j) \cup {Absent}
  BY DEF CoverInv, CoverTypeOK
<1>2. /\ DOMAIN coverRow' = Item /\ coverRow'[i] = row
      /\ \A j \in Item : j # i => coverRow'[j] = coverRow[j]
  BY <1>1
<1>3. CoverTypeOK'
  BY <1>1, <1>2 DEF CoverTypeOK, RowOf
<1>4. ASSUME NEW p \in Item, Kind[p] \in Reviewed, Standing(p) PROVE Standing(p)'
  BY <1>2, <1>4 DEF Standing, In, Independently
<1>5. ASSUME NEW j \in Item, Rooted(j) PROVE Rooted(j)'
  <2>1. \A p \in Parents[j] : p \in Item /\ (Leans(j, p) => Kind[p] \in Reviewed)
    BY DEF RiskTransferAssumption, Leans, Reviewed
  <2>2. QED BY <1>4, <1>5, <2>1 DEF Rooted, Leans
<1>6. ASSUME NEW j \in Item, Has(coverRow', j) PROVE Rooted(j)' /\ Backed(j)'
  <2>1. CASE j = i
    BY <1>5, <2>1
  <2>2. CASE j # i
    BY <1>2, <1>5, <1>6, <2>2 DEF CoverInv, Backed, Has, In, Independently
  <2>3. QED BY <2>1, <2>2
<1>7. \A t \in opening' : (t.row \in Item /\ t.by \in Member /\ Rooted(t.row))'
  BY <1>5 DEF CoverInv
<1>8. QED BY <1>3, <1>6, <1>7 DEF CoverInv, Has

\* A parent that suits stands, whatever becomes of it before the insertion.
LEMMA SuitedStands ==
  ASSUME RiskTransferAssumption, CoverInv, NEW i \in Item, NEW p \in Parents[i], Suits(i, p), Leans(i, p)
  PROVE  Standing(p)
<1>1. p \in Item /\ (Kind[i] = "CLAIM" => Kind[p] \in {"COVERAGE", "LOSS"})
  BY DEF RiskTransferAssumption
<1>2. Has(coverRow, p) /\ Backed(p)
  BY <1>1 DEF CoverInv, Suits
<1>3. CASE Kind[i] \in {"COVERAGE", "INSTRUMENT"}
  BY <1>2, <1>3 DEF Suits, Leans, CreateCoverage, CreateInstrument, Standing, Backed, Reviewed, In, Early
<1>4. CASE Kind[i] = "CLAIM"
  BY <1>1, <1>2, <1>4 DEF Suits, Leans, CreateClaim, Standing, Backed, Reviewed, In, Early
<1>5. CASE Kind[i] = "CALL"
  BY <1>2, <1>5 DEF Suits, Leans, CreateCall, Standing, Backed, Reviewed, In, Early
<1>6. QED BY <1>3, <1>4, <1>5 DEF Leans

LEMMA CreationChecked ==
  ASSUME RiskTransferAssumption, CoverInv, NEW i \in Item, NEW m \in Member, CheckCreation(i, m)
  PROVE  CoverInv'
<1>1. Rooted(i)
  BY SuitedStands DEF CheckCreation, Rooted
<1>2. opening' = opening \cup {[row |-> i, by |-> m]} /\ UNCHANGED coverRow
  BY DEF CheckCreation
<1>3. QED BY <1>1, <1>2 DEF CoverInv, CoverTypeOK, Rooted, Standing, Backed, Has, In, Independently

LEMMA CreationCommitted ==
  ASSUME RiskTransferAssumption, CoverInv, NEW t \in opening, CommitCreation(t)
  PROVE  CoverInv'
<1> DEFINE i == t.row
<1> DEFINE row == Drawn(i, t.by)
<1>1. i \in Item /\ t.by \in Member /\ Rooted(i) /\ Kind[i] \in Kinds
  BY DEF CoverInv, RiskTransferAssumption
<1>2. coverRow' = [coverRow EXCEPT ![i] = row] /\ opening' \subseteq opening /\ ~Has(coverRow, i)
  BY DEF CommitCreation
<1>3. row \in RowOf(i) /\ row.status \in {"PENDING", "DUE", "OPEN", "DRAFT"}
  <2>1. CASE Kind[i] = "PARTY"
    BY <1>1, <2>1, CoverRowsOfKind DEF Drawn, Drafted, Judgeable, Reached, PartyStages
  <2>2. CASE Kind[i] = "PROGRAM"
    BY <1>1, <2>2, CoverRowsOfKind DEF Drawn, Drafted, Judgeable, Reached, ProgramStages
  <2>3. CASE Kind[i] \in {"COVERAGE", "INSTRUMENT"}
    BY <1>1, <2>3, CoverRowsOfKind DEF Drawn, Drafted, Judgeable, Reached, GenericStages
  <2>4. CASE Kind[i] = "PREMIUM"
    BY <1>1, <2>4, CoverRowsOfKind DEF Drawn, PremiumScheduleRow, Reached, PremiumStages
  <2>5. CASE Kind[i] = "LOSS"
    BY <1>1, <2>5, CoverRowsOfKind DEF Drawn, LossEventRow, Reached, LossStages
  <2>6. CASE Kind[i] = "CLAIM"
    BY <1>1, <2>6, CoverRowsOfKind DEF Drawn, InsuranceClaimRow, Reached, ClaimStages
  <2>7. CASE Kind[i] = "CALL"
    BY <1>1, <2>7, CoverRowsOfKind DEF Drawn, Drafted, Judgeable, Reached, CallStages
  <2>8. QED BY <1>1, <2>1, <2>2, <2>3, <2>4, <2>5, <2>6, <2>7 DEF Kinds
<1> HIDE DEF row
<1>4. coverRow'[i] = row
  BY <1>1, <1>2 DEF CoverInv, CoverTypeOK
<1>5. Backed(i)'
  BY <1>3, <1>4 DEF Backed, In
<1>6. ~Standing(i)
  BY <1>2 DEF Standing, Has, In, Early
<1> HIDE DEF i
<1>7. QED BY <1>1, <1>2, <1>3, <1>5, <1>6, CoverRowWritten

-----------------------------------------------------------------------------
\* The row that a transition leaves.
JudgedRow(i, stage, m, approving, forgetting) ==
  [coverRow[i] EXCEPT !.status = stage,
                      !.approver = IF stage \in approving THEN m ELSE IF stage \in forgetting THEN Nobody ELSE @]

LEMMA JudgedIsRow ==
  ASSUME NEW i \in DOMAIN coverRow, NEW stage, NEW m, NEW approving, NEW forgetting
  PROVE  Judged(coverRow, i, stage, m, approving, forgetting)
           = [coverRow EXCEPT ![i] = JudgedRow(i, stage, m, approving, forgetting)]
BY DEF Judged, JudgedRow

LEMMA JudgedFields ==
  ASSUME NEW i, NEW stages, coverRow[i] \in Judgeable(stages, Member), NEW m \in Member,
         NEW stage \in Reached(stages), NEW approving, NEW forgetting
  PROVE  /\ JudgedRow(i, stage, m, approving, forgetting) \in Judgeable(stages, Member)
         /\ JudgedRow(i, stage, m, approving, forgetting).status = stage
         /\ JudgedRow(i, stage, m, approving, forgetting).by = coverRow[i].by
         /\ JudgedRow(i, stage, m, approving, forgetting).approver =
              IF stage \in approving THEN m ELSE IF stage \in forgetting THEN Nobody ELSE coverRow[i].approver
BY DEF JudgedRow, Judgeable

\* Programs, parties, coverages and instruments: the facts of their stages.
LEMMA ReviewedMoved ==
  ASSUME RiskTransferAssumption, CoverInv, NEW i \in Item, NEW m \in Member, NEW stages, NEW approving,
         Kind[i] \in Reviewed, RowOf(i) = Judgeable(stages, Member), "ABSENT" \notin DOMAIN stages,
         NEW stage \in Offers(stages, coverRow, i), stage \in approving => coverRow[i].by # m,
         coverRow' = Judged(coverRow, i, stage, m, approving, {"DRAFT", "PENDING", "REJECTED"}),
         UNCHANGED opening,
         approving \in {{"VERIFIED"}, {"APPROVED"}},
         coverRow[i].status \notin Early => stage \notin Early,
         stage \in {"VERIFIED", "APPROVED", "ACTIVE", "SUSPENDED", "EXPIRED", "RENEWED"} \ approving =>
           coverRow[i].status \in {"VERIFIED", "APPROVED", "ACTIVE", "SUSPENDED", "EXPIRED", "RENEWED"}
  PROVE  CoverInv'
<1> DEFINE row == JudgedRow(i, stage, m, approving, {"DRAFT", "PENDING", "REJECTED"})
<1>1. i \in DOMAIN coverRow /\ coverRow[i] \in RowOf(i) \cup {Absent}
  BY DEF CoverInv, CoverTypeOK
<1>2. coverRow[i].status \in DOMAIN stages /\ stage \in Reached(stages)
  BY OfferedIsReached
<1>3. coverRow[i] \in Judgeable(stages, Member) /\ Has(coverRow, i)
  BY <1>1, <1>2 DEF Absent, Has
<1>4. /\ row \in RowOf(i) /\ row.status = stage /\ row.by = coverRow[i].by
      /\ row.approver = IF stage \in approving THEN m
                        ELSE IF stage \in {"DRAFT", "PENDING", "REJECTED"} THEN Nobody ELSE coverRow[i].approver
  BY <1>2, <1>3, JudgedFields
<1>5. coverRow' = [coverRow EXCEPT ![i] = row]
  BY <1>1, JudgedIsRow
<1>6. Rooted(i) /\ Backed(i)
  BY <1>3 DEF CoverInv
<1> HIDE DEF row
<1>7. Nobody \notin Member
  BY DEF RiskTransferAssumption
<1>8. Standing(i) => row.status \notin Early /\ row.approver \notin {Nobody, row.by}
  BY <1>4, <1>7 DEF Standing, Independently, In, Early
<1>9. row.status \in {"VERIFIED", "APPROVED", "ACTIVE", "SUSPENDED", "EXPIRED", "RENEWED"} =>
        row.approver \notin {Nobody, row.by}
  BY <1>4, <1>6, <1>7 DEF Backed, Independently, In
<1>10. coverRow'[i] = row
  BY <1>1, <1>5
<1>11. Backed(i)'
  BY <1>9, <1>10 DEF Backed, Independently, In, Reviewed
<1>12. QED BY <1>4, <1>5, <1>6, <1>8, <1>11, CoverRowWritten

LEMMA ReviewedTransitioned ==
  ASSUME RiskTransferAssumption, CoverInv, NEW i \in Item, NEW m \in Member,
         \/ TransitionCounterparty(i, m) \/ TransitionProgram(i, m)
         \/ TransitionCoverage(i, m) \/ TransitionInstrument(i, m)
  PROVE  CoverInv'
<1> DEFINE Moves(k, stages, approving) ==
      /\ Kind[i] = k /\ UNCHANGED opening
      /\ \E stage \in Offers(stages, coverRow, i) :
           /\ stage \in approving => coverRow[i].by # m
           /\ coverRow' = Judged(coverRow, i, stage, m, approving, {"DRAFT", "PENDING", "REJECTED"})
<1>1. ASSUME NEW k, NEW stages, NEW approving, Transition(k, stages, approving, i, m)
      PROVE  Moves(k, stages, approving)
  BY <1>1 DEF Transition, Open, Independent
<1>2. CASE TransitionCounterparty(i, m)
  <2>1. Moves("PARTY", PartyStages, {"VERIFIED"})
    BY <1>1, <1>2 DEF TransitionCounterparty
  <2>2. PICK stage \in Offers(PartyStages, coverRow, i) :
           /\ stage \in {"VERIFIED"} => coverRow[i].by # m
           /\ coverRow' = Judged(coverRow, i, stage, m, {"VERIFIED"}, {"DRAFT", "PENDING", "REJECTED"})
    BY <2>1
  <2>3. coverRow[i].status \in DOMAIN PartyStages /\ stage \in PartyStages[coverRow[i].status]
    BY OfferedIsReached
  <2>4. /\ coverRow[i].status \notin Early => stage \notin Early
        /\ stage \in {"VERIFIED", "APPROVED", "ACTIVE", "SUSPENDED", "EXPIRED", "RENEWED"} \ {"VERIFIED"} =>
             coverRow[i].status \in {"VERIFIED", "APPROVED", "ACTIVE", "SUSPENDED", "EXPIRED", "RENEWED"}
    BY <2>3 DEF PartyStages, Early
  <2>5. RowOf(i) = Judgeable(PartyStages, Member) /\ "ABSENT" \notin DOMAIN PartyStages /\ Kind[i] \in Reviewed
    BY <2>1, CoverRowsOfKind DEF PartyStages, Reviewed
  <2>6. QED BY <2>1, <2>2, <2>4, <2>5, ReviewedMoved
<1>3. CASE TransitionProgram(i, m)
  <2>1. Moves("PROGRAM", ProgramStages, {"APPROVED"})
    BY <1>1, <1>3 DEF TransitionProgram
  <2>2. PICK stage \in Offers(ProgramStages, coverRow, i) :
           /\ stage \in {"APPROVED"} => coverRow[i].by # m
           /\ coverRow' = Judged(coverRow, i, stage, m, {"APPROVED"}, {"DRAFT", "PENDING", "REJECTED"})
    BY <2>1
  <2>3. coverRow[i].status \in DOMAIN ProgramStages /\ stage \in ProgramStages[coverRow[i].status]
    BY OfferedIsReached
  <2>4. /\ coverRow[i].status \notin Early => stage \notin Early
        /\ stage \in {"VERIFIED", "APPROVED", "ACTIVE", "SUSPENDED", "EXPIRED", "RENEWED"} \ {"APPROVED"} =>
             coverRow[i].status \in {"VERIFIED", "APPROVED", "ACTIVE", "SUSPENDED", "EXPIRED", "RENEWED"}
    BY <2>3 DEF ProgramStages, Early
  <2>5. RowOf(i) = Judgeable(ProgramStages, Member) /\ "ABSENT" \notin DOMAIN ProgramStages /\ Kind[i] \in Reviewed
    BY <2>1, CoverRowsOfKind DEF ProgramStages, Reviewed
  <2>6. QED BY <2>1, <2>2, <2>4, <2>5, ReviewedMoved
<1>4. CASE TransitionCoverage(i, m) \/ TransitionInstrument(i, m)
  <2>1. Moves("COVERAGE", GenericStages, {"APPROVED"}) \/ Moves("INSTRUMENT", GenericStages, {"APPROVED"})
    BY <1>1, <1>4 DEF TransitionCoverage, TransitionInstrument
  <2>2. PICK stage \in Offers(GenericStages, coverRow, i) :
           /\ stage \in {"APPROVED"} => coverRow[i].by # m
           /\ coverRow' = Judged(coverRow, i, stage, m, {"APPROVED"}, {"DRAFT", "PENDING", "REJECTED"})
    BY <2>1
  <2>3. coverRow[i].status \in DOMAIN GenericStages /\ stage \in GenericStages[coverRow[i].status]
    BY OfferedIsReached
  <2>4. /\ coverRow[i].status \notin Early => stage \notin Early
        /\ stage \in {"VERIFIED", "APPROVED", "ACTIVE", "SUSPENDED", "EXPIRED", "RENEWED"} \ {"APPROVED"} =>
             coverRow[i].status \in {"VERIFIED", "APPROVED", "ACTIVE", "SUSPENDED", "EXPIRED", "RENEWED"}
    BY <2>3 DEF GenericStages, Early
  <2>5. RowOf(i) = Judgeable(GenericStages, Member) /\ "ABSENT" \notin DOMAIN GenericStages /\ Kind[i] \in Reviewed
    BY <2>1, CoverRowsOfKind DEF GenericStages, Reviewed
  <2>6. QED BY <2>1, <2>2, <2>4, <2>5, ReviewedMoved
<1>5. QED BY <1>2, <1>3, <1>4

LEMMA CallTransitioned ==
  ASSUME RiskTransferAssumption, CoverInv, NEW i \in Item, NEW m \in Member, TransitionCall(i, m)
  PROVE  CoverInv'
<1>1. PICK stage \in Offers(CallStages, coverRow, i) :
         /\ stage = "APPROVED" => coverRow[i].by # m
         /\ coverRow' = Judged(coverRow, i, stage, m, {"APPROVED"}, {})
  BY DEF TransitionCall, Open, Independent
<1> DEFINE row == JudgedRow(i, stage, m, {"APPROVED"}, {})
<1>2. Kind[i] = "CALL" /\ UNCHANGED opening
  BY DEF TransitionCall, Open
<1>3. RowOf(i) = Judgeable(CallStages, Member)
  BY <1>2, CoverRowsOfKind
<1>4. i \in DOMAIN coverRow /\ coverRow[i] \in RowOf(i) \cup {Absent}
  BY DEF CoverInv, CoverTypeOK
<1>5. coverRow[i].status \in DOMAIN CallStages /\ stage \in CallStages[coverRow[i].status] /\ stage \in Reached(CallStages)
  BY OfferedIsReached
<1>6. coverRow[i] \in Judgeable(CallStages, Member) /\ Has(coverRow, i)
  BY <1>3, <1>4, <1>5 DEF Absent, Has, CallStages
<1>7. stage \in {"SETTLED", "DISPUTED", "CLOSED"} => coverRow[i].status \in {"APPROVED", "SETTLED", "DISPUTED"}
  BY <1>5 DEF CallStages
<1>8. /\ row \in RowOf(i) /\ row.status = stage /\ row.by = coverRow[i].by
      /\ row.approver = IF stage = "APPROVED" THEN m ELSE coverRow[i].approver
  BY <1>3, <1>5, <1>6, JudgedFields
<1>9. coverRow' = [coverRow EXCEPT ![i] = row]
  BY <1>1, <1>4, JudgedIsRow
<1>10. Rooted(i) /\ Backed(i)
  BY <1>6 DEF CoverInv
<1> HIDE DEF row
<1>11. coverRow'[i] = row
  BY <1>4, <1>9
<1>12. Backed(i)'
  BY <1>1, <1>2, <1>7, <1>8, <1>10, <1>11 DEF Backed, Independently, In, Reviewed, RiskTransferAssumption
<1>13. QED BY <1>2, <1>8, <1>9, <1>10, <1>12, CoverRowWritten DEF Reviewed

LEMMA ClaimTransitioned ==
  ASSUME RiskTransferAssumption, CoverInv, NEW i \in Item, NEW m \in Member, TransitionClaim(i, m)
  PROVE  CoverInv'
<1>1. PICK stage \in Offers(ClaimStages, coverRow, i), sent \in 0..Amount[i] :
         /\ stage = "ADMITTED" => coverRow[i].by # m
         /\ stage \in {"SETTLED", "PARTIALLY_SETTLED"} => sent > 0
         /\ coverRow' = [Judged(coverRow, i, stage, m, {"ADMITTED"}, {}) EXCEPT ![i].recovered = sent]
  BY DEF TransitionClaim, Open, Independent
<1> DEFINE row == [coverRow[i] EXCEPT !.status = stage, !.approver = IF stage = "ADMITTED" THEN m ELSE @,
                                      !.recovered = sent]
<1>2. Kind[i] = "CLAIM" /\ UNCHANGED opening /\ Amount[i] \in Nat
  BY DEF TransitionClaim, RiskTransferAssumption
<1>3. RowOf(i) = InsuranceClaimRow
  BY <1>2, CoverRowsOfKind
<1>4. i \in DOMAIN coverRow /\ coverRow[i] \in RowOf(i) \cup {Absent}
  BY DEF CoverInv, CoverTypeOK
<1>5. coverRow[i].status \in DOMAIN ClaimStages /\ stage \in ClaimStages[coverRow[i].status] /\ stage \in Reached(ClaimStages)
  BY OfferedIsReached
<1>6. coverRow[i] \in InsuranceClaimRow /\ Has(coverRow, i)
  BY <1>3, <1>4, <1>5 DEF Absent, Has, ClaimStages
<1>7. stage \in {"SETTLED", "PARTIALLY_SETTLED"} => coverRow[i].status \in {"ADMITTED", "PARTIALLY_SETTLED"}
  BY <1>5 DEF ClaimStages
<1>8. sent \in Nat
  BY <1>1, <1>2
<1>9. /\ row \in InsuranceClaimRow /\ row.status = stage /\ row.by = coverRow[i].by /\ row.recovered = sent
      /\ row.approver = IF stage = "ADMITTED" THEN m ELSE coverRow[i].approver
  BY <1>5, <1>6, <1>8 DEF InsuranceClaimRow
<1>10. coverRow' = [coverRow EXCEPT ![i] = row]
  BY <1>1, <1>4 DEF Judged
<1>11. Rooted(i) /\ Backed(i)
  BY <1>6 DEF CoverInv
<1> HIDE DEF row
<1>12. coverRow'[i] = row
  BY <1>4, <1>10
<1>13. row.status \in {"SETTLED", "PARTIALLY_SETTLED"} => row.recovered \in 1..Amount[i]
  BY <1>1, <1>2, <1>8, <1>9
<1>14. row.status \in {"ADMITTED", "SETTLED", "PARTIALLY_SETTLED"} => row.approver \notin {Nobody, row.by}
  BY <1>1, <1>2, <1>7, <1>9, <1>11 DEF Backed, Independently, In, RiskTransferAssumption
<1>15. Backed(i)'
  BY <1>2, <1>12, <1>13, <1>14 DEF Backed, Independently, In, Reviewed
<1>16. QED BY <1>2, <1>3, <1>9, <1>10, <1>11, <1>15, CoverRowWritten DEF Reviewed

LEMMA PremiumTransitioned ==
  ASSUME RiskTransferAssumption, CoverInv, NEW i \in Item, TransitionPremium(i)
  PROVE  CoverInv'
<1>1. PICK stage \in Offers(PremiumStages, coverRow, i), sent \in 0..Amount[i] :
        coverRow' = [coverRow EXCEPT ![i] =
          [status |-> stage, paid |-> IF stage = "PAID" THEN Amount[i] ELSE sent]]
  BY DEF TransitionPremium
<1> DEFINE row == [status |-> stage, paid |-> IF stage = "PAID" THEN Amount[i] ELSE sent]
<1>2. Kind[i] = "PREMIUM" /\ UNCHANGED opening /\ Amount[i] \in Nat
  BY DEF TransitionPremium, RiskTransferAssumption
<1>3. RowOf(i) = PremiumScheduleRow
  BY <1>2, CoverRowsOfKind
<1>4. i \in DOMAIN coverRow /\ coverRow[i] \in RowOf(i) \cup {Absent}
  BY DEF CoverInv, CoverTypeOK
<1>5. coverRow[i].status \in DOMAIN PremiumStages /\ stage \in Reached(PremiumStages)
  BY OfferedIsReached
<1>6. Rooted(i)
  BY <1>5 DEF CoverInv, Has, PremiumStages
<1>7. row \in PremiumScheduleRow /\ (row.status = "PAID" => row.paid = Amount[i])
  BY <1>1, <1>2, <1>5 DEF PremiumScheduleRow
<1>8. coverRow' = [coverRow EXCEPT ![i] = row] /\ coverRow'[i] = row
  BY <1>1, <1>4
<1> HIDE DEF row
<1>9. Backed(i)'
  BY <1>2, <1>7, <1>8 DEF Backed, In, Reviewed
<1>10. QED BY <1>2, <1>3, <1>6, <1>7, <1>8, <1>9, CoverRowWritten DEF Reviewed

LEMMA LossTransitioned ==
  ASSUME RiskTransferAssumption, CoverInv, NEW i \in Item, TransitionLoss(i)
  PROVE  CoverInv'
<1>1. PICK stage \in Offers(LossStages, coverRow, i) : coverRow' = [coverRow EXCEPT ![i].status = stage]
  BY DEF TransitionLoss, Moved
<1> DEFINE row == [coverRow[i] EXCEPT !.status = stage]
<1>2. Kind[i] = "LOSS" /\ UNCHANGED opening
  BY DEF TransitionLoss
<1>3. RowOf(i) = LossEventRow
  BY <1>2, CoverRowsOfKind
<1>4. i \in DOMAIN coverRow /\ coverRow[i] \in RowOf(i) \cup {Absent}
  BY DEF CoverInv, CoverTypeOK
<1>5. coverRow[i].status \in DOMAIN LossStages /\ stage \in Reached(LossStages)
  BY OfferedIsReached
<1>6. Rooted(i) /\ coverRow[i] \in LossEventRow
  BY <1>3, <1>4, <1>5 DEF CoverInv, Has, LossStages, Absent
<1>7. row \in LossEventRow
  BY <1>5, <1>6 DEF LossEventRow
<1>8. coverRow' = [coverRow EXCEPT ![i] = row]
  BY <1>1, <1>4
<1> HIDE DEF row
<1>9. Backed(i)'
  BY <1>2 DEF Backed, Reviewed
<1>10. QED BY <1>2, <1>3, <1>6, <1>7, <1>8, <1>9, CoverRowWritten DEF Reviewed

LEMMA CoverStep ==
  ASSUME RiskTransferAssumption, CoverInv, [CoverNext]_coverVars
  PROVE  CoverInv'
<1>1. ASSUME NEW t \in opening, RollbackCreation(t) PROVE CoverInv'
  BY <1>1 DEF RollbackCreation, CoverInv, CoverTypeOK, Rooted, Standing, Backed, Has, In, Independently
<1>2. CASE UNCHANGED coverVars
  BY <1>2 DEF coverVars, CoverInv, CoverTypeOK, Rooted, Standing, Backed, Has, In, Independently
<1>3. QED
  BY <1>1, <1>2, CreationChecked, CreationCommitted, ReviewedTransitioned, CallTransitioned, ClaimTransitioned,
     PremiumTransitioned, LossTransitioned DEF CoverNext

LEMMA CoverInvariance == ASSUME RiskTransferAssumption PROVE CoverSpec => []CoverInv
<1>1. QED BY CoverInitially, CoverStep, PTL DEF CoverSpec

\* Claims are on coverages, and calls on instruments, that another than their maker
\* approved, with a party that another verified, although parents are checked unlocked
\* and before the insertion; what was settled was admitted or approved by another.
THEOREM CoverAlwaysStands == ASSUME RiskTransferAssumption PROVE CoverSpec => []CoverStands
<1>1. ASSUME CoverInv PROVE CoverStands
  <2> SUFFICES ASSUME NEW i \in Item, Has(coverRow, i)
               PROVE  /\ \A p \in Parents[i] :
                           /\ Kind[i] \in {"CLAIM", "CALL"} /\ Kind[p] \in {"COVERAGE", "INSTRUMENT"} =>
                                Independently(coverRow, p)
                           /\ Kind[i] \in {"COVERAGE", "INSTRUMENT"} /\ Kind[p] = "PARTY" => Independently(coverRow, p)
                      /\ Kind[i] = "CLAIM" /\ In(coverRow, i, {"SETTLED", "PARTIALLY_SETTLED"}) =>
                           Independently(coverRow, i) /\ coverRow[i].recovered \in 1..Amount[i]
                      /\ Kind[i] = "CALL" /\ In(coverRow, i, {"SETTLED", "DISPUTED", "CLOSED"}) =>
                           Independently(coverRow, i)
                      /\ Kind[i] = "PREMIUM" /\ In(coverRow, i, {"PAID"}) => coverRow[i].paid = Amount[i]
    BY DEF CoverStands
  <2>1. Rooted(i) /\ Backed(i)
    BY <1>1 DEF CoverInv
  <2>2. QED BY <2>1 DEF Rooted, Leans, Standing, Backed, In
<1>2. QED BY <1>1, CoverInvariance, PTL

-----------------------------------------------------------------------------
(* Imports and retention policies.                                         *)

\* The rows of a job that have a status, in any table of rows.
Those(table, j, status) == {r \in RowsOf[j] : table[r].status = status}

\* What a job says of its rows.
Tallied(j) ==
  Has(job, j) =>
    /\ \A r \in RowsOf[j] : dataRow[r].status \in {"VALID", "ERROR", "COMMITTED"}
    /\ job[j].errors = Cardinality(Those(dataRow, j, "ERROR"))
    /\ job[j].committed = Cardinality(Those(dataRow, j, "COMMITTED"))
    /\ In(job, j, {"COMMITTED", "PARTIAL"}) => Those(dataRow, j, "VALID") = {}
    /\ In(job, j, {"COMMITTED"}) => Those(dataRow, j, "COMMITTED") = RowsOf[j]

\* What a committed row has created, nobody else did.
Created ==
  /\ \A r \in Row : In(dataRow, r, {"COMMITTED"}) => CodeOf[r] \in target
  /\ \A r, x \in Row : In(dataRow, r, {"COMMITTED"}) /\ In(dataRow, x, {"COMMITTED"}) /\ CodeOf[r] = CodeOf[x] => r = x

ImportInv ==
  /\ DOMAIN job = Job /\ DOMAIN dataRow = Row
  /\ \A j \in Job : Tallied(j)
  /\ Created

LEMMA ImportInit == DataInit => ImportInv
BY DEF DataInit, ImportInv, Tallied, Created, Has, In, Absent

LEMMA ThoseFinite ==
  ASSUME DataOpsAssumption, NEW j \in Job, NEW table, NEW status
  PROVE  IsFiniteSet(RowsOf[j]) /\ RowsOf[j] \subseteq Row /\ IsFiniteSet(Those(table, j, status))
<1>1. RowsOf[j] \in SUBSET Row /\ IsFiniteSet(Row)
  BY DEF DataOpsAssumption
<1>2. IsFiniteSet(RowsOf[j])
  BY <1>1, FS_Subset
<1>3. Those(table, j, status) \in SUBSET RowsOf[j]
  BY DEF Those
<1>4. QED BY <1>1, <1>2, <1>3, FS_Subset

\* Where neither a job nor its rows change, its tallies stand.
LEMMA TalliedStays ==
  ASSUME NEW j \in Job, Tallied(j), job'[j] = job[j], \A r \in RowsOf[j] : dataRow'[r] = dataRow[r]
  PROVE  Tallied(j)'
<1>1. \A s : Those(dataRow', j, s) = Those(dataRow, j, s)
  BY DEF Those
<1>2. QED BY <1>1 DEF Tallied, Has, In

LEMMA ImportCreated ==
  ASSUME DataOpsAssumption, ImportInv, NEW j \in Job, CreateImportJob(j)
  PROVE  ImportInv'
<1> DEFINE bad == RowsOf[j] \cap Invalid
<1> DEFINE row == [status |-> IF bad = {} THEN "VALIDATED" ELSE "INVALID", errors |-> Cardinality(bad), committed |-> 0]
<1>1. /\ job' = [job EXCEPT ![j] = row] /\ ~Has(job, j)
      /\ dataRow' = [r \in Row |-> IF r \in RowsOf[j]
                                   THEN [status |-> IF r \in bad THEN "ERROR" ELSE "VALID"] ELSE dataRow[r]]
      /\ UNCHANGED target
  BY DEF CreateImportJob
<1>2. /\ row.errors = Cardinality(bad) /\ row.committed = 0 /\ row.status \in {"VALIDATED", "INVALID"}
  OBVIOUS
<1> HIDE DEF row
<1>3. RowsOf[j] \subseteq Row
  BY DEF DataOpsAssumption
<1>4. /\ \A r \in RowsOf[j] : dataRow'[r].status = IF r \in bad THEN "ERROR" ELSE "VALID"
      /\ \A r \in Row : r \notin RowsOf[j] => dataRow'[r] = dataRow[r]
  BY <1>1, <1>3
<1>5. DOMAIN job' = Job /\ DOMAIN dataRow' = Row /\ job'[j] = row /\ \A k \in Job : k # j => job'[k] = job[k]
  BY <1>1 DEF ImportInv
<1>6. Tallied(j)'
  <2>1. Those(dataRow', j, "ERROR") = bad /\ Those(dataRow', j, "COMMITTED") = {}
    BY <1>4 DEF Those
  <2>2. Cardinality({}) = 0
    BY FS_EmptySet
  <2>3. \A r \in RowsOf[j] : dataRow'[r].status \in {"VALID", "ERROR", "COMMITTED"}
    BY <1>4
  <2>4. /\ job'[j].errors = Cardinality(Those(dataRow', j, "ERROR"))
        /\ job'[j].committed = Cardinality(Those(dataRow', j, "COMMITTED"))
        /\ job'[j].status \notin {"COMMITTED", "PARTIAL"}
    BY <1>2, <1>5, <2>1, <2>2
  <2>5. QED BY <2>3, <2>4 DEF Tallied, In
<1>7. ASSUME NEW k \in Job, k # j PROVE Tallied(k)'
  <2>1. Tallied(k) /\ \A r \in RowsOf[k] : r \in Row /\ r \notin RowsOf[j]
    BY <1>7 DEF ImportInv, DataOpsAssumption
  <2>2. job'[k] = job[k] /\ \A r \in RowsOf[k] : dataRow'[r] = dataRow[r]
    BY <1>4, <1>5, <1>7, <2>1
  <2>3. QED BY <2>1, <2>2, TalliedStays
<1>8. \A r \in Row : In(dataRow', r, {"COMMITTED"}) => In(dataRow, r, {"COMMITTED"})
  BY <1>4 DEF In
<1>9. Created'
  BY <1>1, <1>8 DEF ImportInv, Created
<1>10. QED BY <1>5, <1>6, <1>7, <1>9 DEF ImportInv

LEMMA ImportCommitted ==
  ASSUME DataOpsAssumption, ImportInv, NEW j \in Job, CommitImportJob(j)
  PROVE  ImportInv'
<1> DEFINE valid == {r \in RowsOf[j] : In(dataRow, r, {"VALID"})}
<1> DEFINE done == Accepted(valid)
<1> DEFINE errors == Errors(job[j].errors, Cardinality(valid \ done))
<1> DEFINE row == [status |-> IF errors = 0 THEN "COMMITTED" ELSE "PARTIAL",
                   errors |-> errors, committed |-> job[j].committed + Cardinality(done)]
<1>1. /\ dataRow' = [r \in Row |-> IF r \in done THEN [status |-> "COMMITTED"]
                                   ELSE IF r \in valid THEN [status |-> "ERROR"] ELSE dataRow[r]]
      /\ target' = target \cup {CodeOf[r] : r \in done}
      /\ job' = [job EXCEPT ![j] = row]
      /\ In(job, j, {"VALIDATED", "INVALID"})
  BY DEF CommitImportJob, ImportInv
<1>2. /\ done \subseteq valid /\ valid = Those(dataRow, j, "VALID")
      /\ \A r \in done : CodeOf[r] \notin target
      /\ \A r, x \in done : CodeOf[r] = CodeOf[x] => r <= x /\ x <= r
  BY DEF Accepted, Those, In
<1>3. RowsOf[j] \subseteq Row /\ valid \subseteq RowsOf[j] /\ Row \subseteq Nat
  BY DEF DataOpsAssumption
<1>4. row.status = (IF errors = 0 THEN "COMMITTED" ELSE "PARTIAL") /\ row.errors = errors
      /\ row.committed = job[j].committed + Cardinality(done)
  OBVIOUS
<1>5. errors = job[j].errors + Cardinality(valid \ done)
  BY DEF Errors
<1> HIDE DEF valid, done, errors, row
<1>6. /\ \A r \in done : dataRow'[r].status = "COMMITTED"
      /\ \A r \in valid \ done : dataRow'[r].status = "ERROR"
      /\ \A r \in Row : r \notin valid => dataRow'[r] = dataRow[r]
  BY <1>1, <1>2, <1>3
<1>7. DOMAIN job' = Job /\ DOMAIN dataRow' = Row /\ job'[j] = row /\ \A k \in Job : k # j => job'[k] = job[k]
  BY <1>1 DEF ImportInv
<1>8. Tallied(j) /\ Has(job, j)
  BY <1>1 DEF ImportInv, In, Has
<1>9. /\ Those(dataRow', j, "ERROR") = Those(dataRow, j, "ERROR") \cup (valid \ done)
      /\ Those(dataRow', j, "COMMITTED") = Those(dataRow, j, "COMMITTED") \cup done
      /\ Those(dataRow', j, "VALID") = {}
      /\ Those(dataRow, j, "ERROR") \cap (valid \ done) = {} /\ Those(dataRow, j, "COMMITTED") \cap done = {}
  BY <1>2, <1>3, <1>6 DEF Those
<1>10. \A r \in RowsOf[j] : dataRow'[r].status \in {"VALID", "ERROR", "COMMITTED"}
  BY <1>2, <1>3, <1>6, <1>8 DEF Tallied, Those
<1>11. /\ IsFiniteSet(Those(dataRow, j, "ERROR")) /\ IsFiniteSet(Those(dataRow, j, "COMMITTED"))
       /\ IsFiniteSet(valid) /\ IsFiniteSet(done) /\ IsFiniteSet(valid \ done) /\ IsFiniteSet(Those(dataRow', j, "ERROR"))
  <2>1. \A table, s : IsFiniteSet(Those(table, j, s))
    BY ThoseFinite
  <2>2. done \in SUBSET valid /\ (valid \ done) \in SUBSET valid /\ IsFiniteSet(valid)
    BY <1>2, <2>1
  <2>3. QED BY <2>1, <2>2, FS_Subset
<1>12. /\ Cardinality(Those(dataRow', j, "ERROR")) = Cardinality(Those(dataRow, j, "ERROR")) + Cardinality(valid \ done)
       /\ Cardinality(Those(dataRow', j, "COMMITTED")) = Cardinality(Those(dataRow, j, "COMMITTED")) + Cardinality(done)
  <2>1. Cardinality({}) = 0
    BY FS_EmptySet
  <2>2. ASSUME NEW S, NEW T, IsFiniteSet(S), IsFiniteSet(T), S \cap T = {}
        PROVE  Cardinality(S \cup T) = Cardinality(S) + Cardinality(T)
    <3>1. Cardinality(S) \in Nat /\ Cardinality(T) \in Nat
      BY <2>2, FS_CardinalityType
    <3>2. Cardinality(S \cup T) = Cardinality(S) + Cardinality(T) - Cardinality(S \cap T)
      BY <2>2, FS_Union
    <3>3. Cardinality(S \cap T) = 0
      BY <2>1, <2>2
    <3> HIDE <2>2
    <3>4. QED BY <3>1, <3>2, <3>3
  <2>3. QED BY <1>9, <1>11, <2>2
<1>13. /\ row.errors = Cardinality(Those(dataRow', j, "ERROR"))
       /\ row.committed = Cardinality(Those(dataRow', j, "COMMITTED"))
  BY <1>4, <1>5, <1>8, <1>12 DEF Tallied
<1>14. row.status = "COMMITTED" => Those(dataRow', j, "COMMITTED") = RowsOf[j]
  <2> SUFFICES ASSUME row.status = "COMMITTED" PROVE Those(dataRow', j, "COMMITTED") = RowsOf[j]
    OBVIOUS
  <2>1. Cardinality(Those(dataRow', j, "ERROR")) = 0
    BY <1>4, <1>13
  <2>2. Those(dataRow', j, "ERROR") = {}
    BY <1>11, <2>1, FS_EmptySet
  <2>3. QED BY <1>9, <1>10, <2>2 DEF Those
<1>15. Tallied(j)'
  BY <1>7, <1>9, <1>10, <1>13, <1>14 DEF Tallied, In
<1>16. ASSUME NEW k \in Job, k # j PROVE Tallied(k)'
  <2>1. Tallied(k) /\ \A r \in RowsOf[k] : r \in Row /\ r \notin RowsOf[j]
    BY <1>16 DEF ImportInv, DataOpsAssumption
  <2>2. job'[k] = job[k] /\ \A r \in RowsOf[k] : dataRow'[r] = dataRow[r]
    BY <1>3, <1>6, <1>7, <1>16, <2>1
  <2>3. QED BY <2>1, <2>2, TalliedStays
<1>17. \A r \in Row : In(dataRow', r, {"COMMITTED"}) => r \in done \/ In(dataRow, r, {"COMMITTED"})
  BY <1>6 DEF In
<1>18. Created'
  <2>1. \A r \in Row : In(dataRow', r, {"COMMITTED"}) => CodeOf[r] \in target'
    BY <1>1, <1>17 DEF ImportInv, Created
  <2>2. ASSUME NEW r \in Row, NEW x \in Row, In(dataRow', r, {"COMMITTED"}), In(dataRow', x, {"COMMITTED"}),
               CodeOf[r] = CodeOf[x]
        PROVE  r = x
    <3>1. CASE r \in done /\ x \in done
      <4>1. r <= x /\ x <= r /\ r \in Nat /\ x \in Nat
        BY <1>2, <1>3, <2>2, <3>1
      <4>2. QED BY <4>1
    <3>2. CASE r \notin done /\ x \notin done
      BY <1>17, <2>2, <3>2 DEF ImportInv, Created
    <3>3. CASE r \in done /\ x \notin done
      BY <1>2, <1>17, <2>2, <3>3 DEF ImportInv, Created
    <3>4. CASE r \notin done /\ x \in done
      BY <1>2, <1>17, <2>2, <3>4 DEF ImportInv, Created
    <3>5. QED BY <3>1, <3>2, <3>3, <3>4
  <2>3. QED BY <2>1, <2>2 DEF Created
<1>19. QED BY <1>7, <1>15, <1>16, <1>18 DEF ImportInv

LEMMA ImportStep ==
  ASSUME DataOpsAssumption, ImportInv, [DataNext]_dataVars
  PROVE  ImportInv'
<1>1. ASSUME UNCHANGED <<job, dataRow>>, target \subseteq target' PROVE ImportInv'
  BY <1>1, TalliedStays DEF ImportInv, Created, In
<1>2. ASSUME NEW r \in Row, CreateElsewhere(CodeOf[r]) PROVE ImportInv'
  BY <1>1, <1>2 DEF CreateElsewhere
<1>3. ASSUME NEW q \in Request, CreatePrivacyRequest(q) \/ ResolvePrivacyRequest(q) PROVE ImportInv'
  BY <1>1, <1>3 DEF CreatePrivacyRequest, ResolvePrivacyRequest
<1>4. ASSUME NEW p \in Policy, CreateRetentionPolicy(p) PROVE ImportInv'
  BY <1>1, <1>4 DEF CreateRetentionPolicy
<1>5. ASSUME NEW e \in Exercise, CreateRecoveryVerification(e) \/ CompleteRecoveryVerification(e) PROVE ImportInv'
  BY <1>1, <1>5 DEF CreateRecoveryVerification, CompleteRecoveryVerification
<1>6. CASE UNCHANGED dataVars
  BY <1>1, <1>6 DEF dataVars
<1>7. QED BY <1>2, <1>3, <1>4, <1>5, <1>6, ImportCreated, ImportCommitted DEF DataNext

\* What a job says of its rows is what became of them, and a target was created by
\* one row, for any number of jobs and rows, whatever else is created meanwhile.
THEOREM DataImportsAddUp == ASSUME DataOpsAssumption PROVE DataSpec => []ImportsAddUp
<1>1. DataSpec => []ImportInv
  BY ImportInit, ImportStep, PTL DEF DataSpec
<1>2. ASSUME ImportInv PROVE ImportsAddUp
  <2>1. \A j \in Job : Count(j, "VALID") = Cardinality(Those(dataRow, j, "VALID"))
                       /\ Count(j, "ERROR") = Cardinality(Those(dataRow, j, "ERROR"))
                       /\ Count(j, "COMMITTED") = Cardinality(Those(dataRow, j, "COMMITTED"))
    <3>1. \A j \in Job : \A s : {r \in RowsOf[j] : In(dataRow, r, {s})} = Those(dataRow, j, s)
      BY DEF Those, In
    <3>2. QED BY <3>1 DEF Count
  <2>2. Cardinality({}) = 0
    BY FS_EmptySet
  <2>3. ASSUME NEW j \in Job, Has(job, j)
        PROVE  /\ job[j].errors = Count(j, "ERROR") /\ job[j].committed = Count(j, "COMMITTED")
               /\ In(job, j, {"COMMITTED", "PARTIAL"}) => Count(j, "VALID") = 0
               /\ In(job, j, {"COMMITTED"}) => Count(j, "COMMITTED") = Cardinality(RowsOf[j])
    BY <1>2, <2>1, <2>2, <2>3 DEF ImportInv, Tallied
  <2>4. QED BY <1>2, <2>3 DEF ImportInv, Created, ImportsAddUp
<1>3. QED BY <1>1, <1>2, PTL

\* The versions of a type of record run without a gap; the last is in force.
Versioned ==
  /\ DOMAIN policy = Policy
  /\ \A p \in Policy : policy[p] = Absent \/ policy[p] \in [status : {"ACTIVE", "ENDED"}, version : Nat]
  /\ \A p \in Policy : \E n \in Nat : Versions(p) = 1..n

PolicyInv == Versioned /\ OnePolicyInForce

LEMMA PolicyInit == DataInit => PolicyInv
<1> SUFFICES ASSUME DataInit PROVE PolicyInv
  OBVIOUS
<1>1. policy = [p \in Policy |-> Absent]
  BY DEF DataInit
<1>2. \A p \in Policy : ~Has(policy, p)
  BY <1>1 DEF Has, Absent
<1>3. \A p \in Policy : Versions(p) = 1..0
  <2>1. 1..0 = {}
    OBVIOUS
  <2>2. QED BY <1>2, <2>1 DEF Versions
<1>4. QED BY <1>1, <1>2, <1>3 DEF PolicyInv, Versioned, OnePolicyInForce, In

\* The policy that starts takes the number after the last of its type, and ends
\* the one in force.
LEMMA PolicyStarted ==
  ASSUME PolicyInv, NEW p \in Policy, CreateRetentionPolicy(p)
  PROVE  PolicyInv'
<1>1. PICK n \in Nat : Versions(p) = 1..n
  BY DEF PolicyInv, Versioned
<1>2. Cardinality(Versions(p)) = n
  BY <1>1, FS_Interval
<1>3. ~Has(policy, p)
  BY DEF CreateRetentionPolicy
<1>4. /\ DOMAIN policy' = Policy
      /\ policy'[p] = [status |-> "ACTIVE", version |-> n + 1]
      /\ \A x \in Policy : x # p => policy'[x] = IF Has(policy, x) /\ RecordType[x] = RecordType[p]
                                                 THEN [policy[x] EXCEPT !.status = "ENDED"] ELSE policy[x]
  BY <1>2 DEF CreateRetentionPolicy
<1>5. Has(policy', p) /\ policy'[p].version = n + 1 /\ policy'[p].status = "ACTIVE"
  BY <1>4 DEF Has, Absent
<1>6. ASSUME NEW x \in Policy, x # p
      PROVE  /\ policy'[x] = Absent \/ policy'[x] \in [status : {"ACTIVE", "ENDED"}, version : Nat]
             /\ Has(policy', x) <=> Has(policy, x)
             /\ Has(policy, x) => policy'[x].version = policy[x].version
             /\ RecordType[x] = RecordType[p] => ~In(policy', x, {"ACTIVE"}) /\ (Has(policy, x) => In(policy', x, {"ENDED"}))
             /\ RecordType[x] # RecordType[p] => policy'[x] = policy[x]
  <2>1. CASE Has(policy, x) /\ RecordType[x] = RecordType[p]
    <3>1. policy'[x] = [policy[x] EXCEPT !.status = "ENDED"]
      BY <1>4, <1>6, <2>1
    <3>2. policy[x] = Absent \/ policy[x] \in [status : {"ACTIVE", "ENDED"}, version : Nat]
      BY <1>6 DEF PolicyInv, Versioned
    <3>3. policy'[x].status = "ENDED" /\ policy'[x].version = policy[x].version
      BY <2>1, <3>1, <3>2 DEF Has, Absent
    <3>4. policy'[x] \in [status : {"ACTIVE", "ENDED"}, version : Nat]
      BY <2>1, <3>1, <3>2 DEF Has, Absent
    <3>5. QED BY <2>1, <3>3, <3>4 DEF Has, In
  <2>2. CASE ~(Has(policy, x) /\ RecordType[x] = RecordType[p])
    <3>1. policy'[x] = policy[x]
      BY <1>4, <1>6, <2>2
    <3>2. QED BY <2>2, <3>1, <1>6 DEF PolicyInv, Versioned, Has, In
  <2>3. QED BY <2>1, <2>2
<1>7. ASSUME NEW q \in Policy PROVE \E m \in Nat : Versions(q)' = 1..m
  <2>1. PICK m \in Nat : Versions(q) = 1..m
    BY DEF PolicyInv, Versioned
  <2>2. CASE RecordType[q] # RecordType[p]
    BY <1>6, <2>1, <2>2 DEF Versions
  <2>3. CASE RecordType[q] = RecordType[p]
    <3>1. Versions(q)' = Versions(p) \cup {n + 1}
      BY <1>3, <1>5, <1>6, <2>3 DEF Versions
    <3>2. (1..n) \cup {n + 1} = 1..(n + 1) /\ n + 1 \in Nat
      BY <1>1
    <3>3. QED BY <1>1, <3>1, <3>2
  <2>4. QED BY <2>2, <2>3
<1>8. \A x \in Policy : policy'[x] = Absent \/ policy'[x] \in [status : {"ACTIVE", "ENDED"}, version : Nat]
  BY <1>1, <1>4, <1>6
<1>9. ASSUME NEW x \in Policy, NEW q \in Policy, In(policy', x, {"ACTIVE"}), Has(policy', q),
             RecordType[x] = RecordType[q], x # q
      PROVE  In(policy', q, {"ENDED"}) /\ policy'[q].version < policy'[x].version
  <2>1. CASE x = p
    <3>1. Has(policy, q) /\ In(policy', q, {"ENDED"}) /\ policy'[q].version = policy[q].version
      BY <1>6, <1>9, <2>1
    <3>2. policy[q].version \in Versions(p)
      BY <1>9, <2>1, <3>1 DEF Versions
    <3>3. policy[q].version \in Nat /\ policy[q].version <= n
      BY <1>1, <3>2
    <3>4. QED BY <1>1, <1>5, <2>1, <3>1, <3>3
  <2>2. CASE x # p
    <3>1. RecordType[x] # RecordType[p]
      BY <1>6, <1>9, <2>2
    <3>2. policy'[x] = policy[x] /\ policy'[q] = policy[q] /\ Has(policy, q) /\ In(policy, x, {"ACTIVE"})
      BY <1>6, <1>9, <2>2, <3>1 DEF In, Has
    <3>3. QED BY <1>9, <3>2 DEF PolicyInv, OnePolicyInForce, In
  <2>3. QED BY <2>1, <2>2
<1>10. Versioned'
  BY <1>4, <1>7, <1>8 DEF Versioned
<1>11. OnePolicyInForce'
  BY <1>9 DEF OnePolicyInForce
<1>12. QED BY <1>10, <1>11 DEF PolicyInv

LEMMA PolicyStep ==
  ASSUME PolicyInv, [DataNext]_dataVars
  PROVE  PolicyInv'
<1>1. ASSUME UNCHANGED policy PROVE PolicyInv'
  BY <1>1 DEF PolicyInv, Versioned, OnePolicyInForce, Versions, Has, In
<1>2. ASSUME NEW j \in Job, CreateImportJob(j) \/ CommitImportJob(j) PROVE PolicyInv'
  BY <1>1, <1>2 DEF CreateImportJob, CommitImportJob
<1>3. ASSUME NEW r \in Row, CreateElsewhere(CodeOf[r]) PROVE PolicyInv'
  BY <1>1, <1>3 DEF CreateElsewhere
<1>4. ASSUME NEW q \in Request, CreatePrivacyRequest(q) \/ ResolvePrivacyRequest(q) PROVE PolicyInv'
  BY <1>1, <1>4 DEF CreatePrivacyRequest, ResolvePrivacyRequest
<1>5. ASSUME NEW e \in Exercise, CreateRecoveryVerification(e) \/ CompleteRecoveryVerification(e) PROVE PolicyInv'
  BY <1>1, <1>5 DEF CreateRecoveryVerification, CompleteRecoveryVerification
<1>6. CASE UNCHANGED dataVars
  BY <1>1, <1>6 DEF dataVars
<1>7. QED BY <1>2, <1>3, <1>4, <1>5, <1>6, PolicyStarted DEF DataNext

\* At most one retention policy of each type of record is in force, and every
\* other one has ended and has a lower version, however many were made.
THEOREM DataOnePolicyInForce == DataSpec => []OnePolicyInForce
<1>1. DataSpec => []PolicyInv
  BY PolicyInit, PolicyStep, PTL DEF DataSpec
<1>2. PolicyInv => OnePolicyInForce
  BY DEF PolicyInv
<1>3. QED BY <1>1, <1>2, PTL
=============================================================================
