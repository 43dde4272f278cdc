----------------------------- MODULE MCFinance -----------------------------
(***************************************************************************)
(* Finance on a small instance: every line of the invoice is worth one.    *)
(***************************************************************************)
EXTENDS Finance

MCCharged == [l \in InvoiceLine |-> 1]
=============================================================================
