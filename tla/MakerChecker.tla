---------------------------- MODULE MakerChecker ----------------------------
(* Rows with a maker and an approver.  The services of capitalops,         *)
(* facilityops, cloudops and their like lock the row, compare its version  *)
(* with the caller's, look the stage up, and keep maker and approver of a  *)
(* record apart; an approval that is taken back forgets its approver.      *)
EXTENDS Rows

\* A row as its maker inserts it.
Drafted(stage, m) == [status |-> stage, by |-> m, approver |-> Nobody]

\* The stages of a table of transitions, and the rows that move through it.
Reached(stages) == DOMAIN stages \cup UNION {stages[s] : s \in DOMAIN stages}
Judgeable(stages, members) ==
  [status : Reached(stages), by : members, approver : members \cup {Nobody}]

\* Somebody else than its maker has approved the row.
Independently(table, r) == table[r].approver \notin {Nobody, table[r].by}

\* _maker_checker: the maker of a record does not approve it.
Independent(table, r, m) == table[r].by # m

\* The stages that m may move record r to, of the kind the caller looks for.
Open(here, table, r, stages, approving, m) ==
  IF here THEN {s \in Offers(stages, table, r) : s \in approving => Independent(table, r, m)} ELSE {}

\* The transition: status, and the approver of the stages named.
Judged(table, r, stage, m, approving, forgetting) ==
  [table EXCEPT ![r].status = stage,
                ![r].approver = IF stage \in approving THEN m
                                ELSE IF stage \in forgetting THEN Nobody ELSE @]
=============================================================================
