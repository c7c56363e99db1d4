------------------------- MODULE MCInventoryEscrow --------------------------
(* Instances of InventoryEscrow for TLC. *)
EXTENDS InventoryEscrow, TLC

\* Two slots and the offhand; the first slot and the offhand are full, the
\* second is free. An order of three takes both stacks and leaves an excess;
\* a delivery of three fits only in part.
ThreeSlots == 1 .. 3
FullStacks == <<2, 0, 2>>

\* A smaller stack in the offhand: an order of two takes both.
TwoStacks == <<2, 0, 1>>

=============================================================================
