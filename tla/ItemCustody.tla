----------------------------- MODULE ItemCustody -----------------------------
(***************************************************************************)
(* What the sell escrow and the delivery claims promise, without marks,    *)
(* rows, receipts, failures or recovery: a player's items are in the       *)
(* player's hands, in the custody of a sell escrow, due to the player, or  *)
(* with the rest of the market, and they change hands in one step.         *)
(***************************************************************************)
EXTENDS Integers

CONSTANTS Escrows,  \* the sell escrows there may be
          Size      \* how many items there are

VARIABLES held,     \* items the player can use
          custody,  \* items each escrow holds for the order it will place
          placed,   \* escrows that have become an order
          due,      \* items the exchange owes the player
          others,   \* items of the rest of the market
          gone      \* items a crash took out of the player's hands

custodyVars == <<held, custody, placed, due, others, gone>>

Init ==
    /\ held \in 0 .. Size
    /\ custody = [i \in Escrows |-> 0]
    /\ placed = {}
    /\ due = 0
    /\ others = Size - held
    /\ gone = 0

\* An escrow takes items out of the player's hands, once.
take(i, q) ==
    /\ i \notin placed
    /\ custody[i] = 0
    /\ held' = held - q
    /\ custody' = [custody EXCEPT ![i] = q]
    /\ UNCHANGED <<placed, due, others, gone>>

\* It becomes an order: everything it held goes to the market or is due back.
place(i, back) ==
    /\ custody[i] > 0
    /\ custody' = [custody EXCEPT ![i] = 0]
    /\ placed' = placed \cup {i}
    /\ due' = due + back
    /\ others' = others + custody[i] - back
    /\ UNCHANGED <<held, gone>>

\* The market owes the player items, of a purchase or of a canceled order.
owe(q) ==
    /\ due' = due + q
    /\ others' = others - q
    /\ UNCHANGED <<held, custody, placed, gone>>

\* Items that are due are in the player's hands.
handOut(q) ==
    /\ held' = held + q
    /\ due' = due - q
    /\ UNCHANGED <<custody, placed, others, gone>>

\* The player uses items up.
spend(q) ==
    /\ held' = held - q
    /\ others' = others + q
    /\ UNCHANGED <<custody, placed, due, gone>>

\* A crash while items in the player's hands are rewritten.
lose(q) ==
    /\ held' = held - q
    /\ gone' = gone + q
    /\ UNCHANGED <<custody, placed, due, others>>

Next ==
    \/ \E i \in Escrows :
          \/ \E q \in 1 .. held : take(i, q)
          \/ \E back \in 0 .. custody[i] : place(i, back)
    \/ \E q \in 1 .. others : owe(q)
    \/ \E q \in 1 .. due : handOut(q)
    \/ \E q \in 1 .. held : spend(q) \/ lose(q)

Spec == Init /\ [][Next]_custodyVars

=============================================================================
