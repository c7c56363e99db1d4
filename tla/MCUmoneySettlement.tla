------------------------- MODULE MCUmoneySettlement -------------------------
(* Instances of UmoneySettlement for TLC. *)
EXTENDS UmoneySettlement, TLC

\* Players are interchangeable; sound for the invariants, not used with
\* liveness.
PlayerSymmetry == Permutations(Players)

NoDeltas == {}
OtherPlugins == {1, -1}

=============================================================================
