-------------------------- MODULE MCPurchaseToPay --------------------------
(***************************************************************************)
(* Procurement and finance on small instances.  Neither service writes a   *)
(* row of the other (an invoice names its order and takes nothing from     *)
(* it), so that each runs by itself: side is the one whose turn it is.     *)
(***************************************************************************)
EXTENDS MCFinance, MCProcurement

VARIABLE side

sideVars == <<side, vars, procurementVars>>

SideInit == side \in {"buying", "paying"} /\ ProcurementInit /\ Init

SideNext ==
  /\ UNCHANGED side
  /\ \/ side = "buying" /\ ProcurementNext /\ UNCHANGED vars
     \/ side = "paying" /\ Next /\ UNCHANGED procurementVars

SideSpec == SideInit /\ [][SideNext]_sideVars
=============================================================================
