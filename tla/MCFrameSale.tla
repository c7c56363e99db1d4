----------------------------- MODULE MCFrameSale -----------------------------
(***************************************************************************)
(* Instances of FrameSale for TLC: a seller and an operator who may buy,   *)
(* one item, two listings of it after each other.                          *)
(***************************************************************************)
EXTENDS FrameSale

=============================================================================
