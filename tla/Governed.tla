------------------------------ MODULE Governed ------------------------------
(* Records under a retained policy: the services of qualityops, safetyops, *)
(* documentops and their like look a transition up in the configuration of *)
(* the record's policy, ask for the approvals it requires, and stamp the   *)
(* milestone it names.                                                     *)
(*                                                                         *)
(* A rule is a record [from, to, needs, milestone]: the steps it needs and *)
(* the milestone, or "none".  The rows of a table have a status and the    *)
(* stamps of the milestones they reached; an approval is a record [of,     *)
(* step, by, from, status, decider].  select_for_update joins the policy,  *)
(* so that two transitions under one policy never overlap; approvals are   *)
(* not locked by them, but a decided one is final.                         *)
EXTENDS Rows

\* clean() of a policy version: every table it governs has a first status and
\* its rules, and no configured code is empty.
IsPolicy(kinds, rules, first) ==
  /\ kinds \subseteq DOMAIN rules \cap DOMAIN first
  /\ \A k \in kinds : "ABSENT" \notin {first[k]} \cup {t.to : t \in rules[k]}

\* _transition: the rules that lead from the status of r.
Allowed(rules, table, r) == {t \in rules : Has(table, r) /\ t.from = table[r].status}

\* _approvals_met: every required step has an approval in an accepted status.
Met(approval, r, t) ==
  \A s \in t.needs : \E x \in approval : x.of = r /\ x.step = s /\ x.status = "ACCEPTED"

\* The transition itself: status, version and the stamp of the milestone.
Stepped(table, r, t) ==
  [table EXCEPT ![r].status = t.to, ![r].stamps = @ \cup ({t.milestone} \ {"none"})]

\* A step is asked for once a record, of somebody else; the record is not
\* looked up, and the initial status of an approval is no accepted one.
MayRequest(approval, r, s, by, from) == by # from /\ ~\E x \in approval : x.of = r /\ x.step = s

Requested(r, s, by, from) ==
  [of |-> r, step |-> s, by |-> by, from |-> from, status |-> "PENDING", decider |-> Nobody]

Verdicts == {"ACCEPTED", "REFUSED"}

\* The decision and who took it (decided_by_membership_public_id).
Decided(approval, x, verdict, m) ==
  (approval \ {x}) \cup {[x EXCEPT !.status = verdict, !.decider = m]}

ApprovalRow(records, steps, members) ==
  [of : records, step : steps, by : members, from : members \cup {Nobody},
   status : Verdicts \cup {"PENDING"}, decider : members \cup {Nobody}]

\* The status of a record is its first one, or one that a rule leads to whose
\* approvals it still has, each asked for by one member and decided by another,
\* whoever was asked.
Reviewed(rules, first, table, approval, r) ==
  Has(table, r) => \/ table[r].status = first
                   \/ \E t \in rules : t.to = table[r].status /\
                        \A s \in t.needs : \E x \in approval :
                          x.of = r /\ x.step = s /\ x.status = "ACCEPTED" /\ x.decider \notin {Nobody, x.by}
=============================================================================
