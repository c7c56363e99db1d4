-------------------------- MODULE MCExchangeOrders --------------------------
(* Small instances of ExchangeOrders for TLC. *)
EXTENDS ExchangeOrders, TLC

PlayerSymmetry == Permutations(Players)
FullSymmetry == Permutations(Players) \cup Permutations(Targets) \cup Permutations(Items)
NoDeltas == {}
AdminDeltas == {2, -1}

=============================================================================
