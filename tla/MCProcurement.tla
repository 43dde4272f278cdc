--------------------------- MODULE MCProcurement ---------------------------
(* Instances of Procurement for TLC.                                       *)
EXTENDS Procurement, TLC

CONSTANTS i1, g1, g2, hand

\* Two lines of one item at different rates, so that averages may not end
\* within what a balance can store, and one line that is not stocked.
MCLine == <<[item |-> i1, quantity |-> 1, rate |-> 3],
            [item |-> NoItem, quantity |-> 1, rate |-> 1],
            [item |-> i1, quantity |-> 1, rate |-> 6]>>

MCReceipt == {g1, g2}

\* One movement by hand names the line of a receipt as its source.
MCManual == {hand, <<g1, 1>>}
MCSource == MCManual \cup (MCReceipt \X (1..3))
MCQuantity == {-1, 1}
MCCost == {0, 3}
=============================================================================
