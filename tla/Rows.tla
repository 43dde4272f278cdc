-------------------------------- MODULE Rows --------------------------------
(* The vocabulary of modules whose services share one shape: lock a row,   *)
(* look the requested stage up in a table, write.  A table of rows is a    *)
(* function whose rows are records with a field status; a transaction that *)
(* is open is a record with a field locks, the rows it holds FOR UPDATE.   *)
(*                                                                         *)
(* SELECT ... FOR UPDATE also locks the rows joined by select_related,     *)
(* unless of=("self",) is given.  A check that follows in the transaction  *)
(* sees what was committed before it (READ COMMITTED), so that a service   *)
(* which decides on rows it has not locked is two steps: the lock and the  *)
(* checks, then the writes and the commit.                                 *)
EXTENDS Naturals, FiniteSets

Absent == [status |-> "ABSENT"]

\* A column for a member that is not set.
Nobody == "nobody"

Has(table, r) == table[r].status # "ABSENT"

In(table, r, stages) == table[r].status \in stages

\* The stages that a table of allowed transitions offers to row r.
Offers(stages, table, r) ==
  IF table[r].status \in DOMAIN stages THEN stages[table[r].status] ELSE {}

Moved(table, r, stage) == [table EXCEPT ![r].status = stage]

\* No open transaction of tx holds one of the rows.
Unlocked(tx, rows) == \A t \in tx : t.locks \cap rows = {}
=============================================================================
