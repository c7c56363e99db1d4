---------------------------- MODULE MCTradeForms ----------------------------
(* An instance of TradeForms for TLC. Prices are in cents; a unit has two. *)
EXTENDS TradeForms

Limits(min, max, step, quantity) ==
    [min |-> min, max |-> max, step |-> step, quantity |-> quantity]

\* The prices 2 and 6, with a maximum off the grid; up to two items. Of the
\* numbers 2 and 3 one is a quantity and the other one a price.
OneConfig == {Limits(2, 8, 4, 2)}

BookOf(bid, ask, last) == [bid |-> bid, ask |-> ask, last |-> last]

\* A best bid and no ask; an ask that an earlier configuration allowed.
TwoBooks == {BookOf(3, 0, 0), BookOf(0, 12, 0)}

=============================================================================
