------------------------ MODULE InventoryEscrowProofs ------------------------
(***************************************************************************)
(* What InventoryEscrow promises, proved for every inventory, all          *)
(* quantities and any number of orders, deliveries, failing calls and      *)
(* kills: the types, that reservations are exact, that a cleaned row has   *)
(* left no mark, that no item is made and a kill costs at most one stack,  *)
(* and that the marks and rows implement ItemCustody.                      *)
(***************************************************************************)
EXTENDS InventoryEscrow, FiniteSums, SequenceTheorems, TLAPS

-----------------------------------------------------------------------------
(* Types of the tables, the inventory and the control state *)

\* A row is only cleaned when its order is placed or it was canceled; what is
\* tagged is enough for the order.
GoodEscrow(e) ==
    /\ e \in SellEscrow
    /\ e.requested > 0
    /\ e.status \in {"TAGGED", "ORDERED"} => e.tagged >= e.requested
    /\ e.cleaned => e.status \in {"ORDERED", "CANCELED"}
    /\ e.status = "CANCELED" => e.cleaned

\* A claim is for some of a delivery that is there.
GoodClaim(c, n) ==
    /\ c \in DeliveryClaim
    /\ c.delivery \in 1 .. n
    /\ c.quantity > 0
    /\ c.applied <= c.quantity
    /\ c.status = "PREPARED" => ~c.cleaned
    /\ c.status = "CANCELED" => c.cleaned

\* What is reserved is known not to be negative only by ReservationExact.
LooseDelivery == [quantity: Nat, claimed: Nat, reserved: Int]

EscrowsType ==
    /\ escrows \in Seq(SellEscrow)
    /\ \A i \in DOMAIN escrows : GoodEscrow(escrows[i])
DeliveriesType == deliveries \in Seq(LooseDelivery)
ClaimsType ==
    /\ claims \in Seq(DeliveryClaim)
    /\ \A c \in DOMAIN claims : GoodClaim(claims[c], Len(deliveries))
RowsType == EscrowsType /\ DeliveriesType /\ ClaimsType /\ outside \in Nat

\* A mark names a row, and a receipt a row whose items were tagged.
GoodStack(stack, es, cs) ==
    /\ stack \in Stack
    /\ stack.kind = "none" => stack = Empty
    /\ stack.n <= StackSize
    /\ stack.kind # "none" => stack.n > 0
    /\ stack.kind = "plain" => stack.id = 0
    /\ stack.kind = "sell" => stack.id \in DOMAIN es
    /\ stack.kind = "receipt" =>
            /\ stack.id \in DOMAIN es
            /\ es[stack.id].status \in {"TAGGED", "ORDERED"}
    /\ stack.kind = "claim" => stack.id \in DOMAIN cs

Stacks(i) == /\ i \in [Slots -> Stack]
             /\ \A s \in Slots : GoodStack(i[s], escrows, claims)
InventoryType == Stacks(inv) /\ (Durable \/ Stacks(saved))

\* What each stage knows of its row, and of the rows its list names.
Lists ==
    /\ run.stage \in {"escrows", "sellMarkers"} => run.todo \subseteq DOMAIN escrows
    /\ run.stage \in {"claimMarkers", "claims"} => run.todo \subseteq DOMAIN claims
    /\ run.stage \in {"deliveries", "add", "clear"} =>
            \A d \in run.todo : d \in DOMAIN deliveries
                                /\ Unreserved(deliveries[d]) > 0
Current ==
    /\ run.mode \in {"submit", "rescue"} \/ run.stage \in {"tag", "retry", "rescue"}
            => run.id \in DOMAIN escrows
    /\ Stage("tag") => escrows[run.id].status = "PREPARED"
    /\ run.stage \in {"claimMarkers", "sellMarkers", "claims", "deliveries",
                     "add", "clear"} => run.mode = "claim"
    /\ Stage("add") => /\ run.id \in DOMAIN claims
                       /\ claims[run.id].status = "PREPARED"
    /\ Stage("clear") => /\ run.id \in DOMAIN claims
                         /\ claims[run.id].status = "APPLIED"
RunType ==
    run \in [stage: Stages, mode: {"submit", "rescue", "claim"}, id: Nat,
             todo: SUBSET Nat]
Counters == [{"escrows", "events", "faults", "kills", "toggles"} -> Nat]

TypeInv ==
    /\ RowsType
    /\ InventoryType
    /\ RunType /\ Lists /\ Current
    /\ active \in BOOLEAN
    /\ used \in Counters

LEMMA BoundsAreNat ==
    /\ StackSize \in Nat /\ StackSize > 0 /\ MarketStock \in Nat
    /\ \A q \in Quantities : q \in Nat /\ q > 0
    /\ MaxEscrows \in Nat /\ MaxEvents \in Nat /\ MaxFaults \in Nat
    /\ MaxKills \in Nat /\ MaxToggles \in Nat
    /\ IsFiniteSet(Slots) /\ Slots \subseteq Nat /\ <<>> \notin [Slots -> Stack]
    <1>1. Cardinality(Slots) \in Nat
        BY ConstantsAssumption, FS_CardinalityType
    <1>2. Slots \subseteq Nat
        BY <1>1, ConstantsAssumption
    <1>3. <<>> \notin [Slots -> Stack]
        BY ConstantsAssumption
    <1> QED BY <1>2, <1>3, ConstantsAssumption

\* The list a loop runs over is taken from its front.
LEMMA FirstFacts ==
    ASSUME RunType, run.todo # {}
    PROVE  First \in run.todo
    <1>1. run.todo \subseteq Nat
        BY DEF RunType
    <1>2. \E i \in run.todo : \A j \in run.todo : i <= j
        BY <1>1, NatMinimum
    <1> QED BY <1>2 DEF First

\* The new row of an insert is a new one or an inert one.
LEMMA NewClaimFacts ==
    ASSUME ClaimsType
    PROVE  /\ NewClaim \in Nat /\ NewClaim > 0
           /\ \/ NewClaim = Len(claims) + 1
              \/ /\ NewClaim \in DOMAIN claims
                 /\ claims[NewClaim].status = "CANCELED"
                 /\ SlotsOf("claim", NewClaim) = {}
    <1>1. Len(claims) \in Nat /\ DOMAIN claims = 1 .. Len(claims)
        BY DEF ClaimsType
    <1> DEFINE inert == {c \in DOMAIN claims : /\ claims[c].status = "CANCELED"
                                               /\ SlotsOf("claim", c) = {}}
    <1>2. CASE inert = {}
        BY <1>1, <1>2 DEF NewClaim
    <1>3. CASE inert # {}
        <2>1. NewClaim = CHOOSE c \in inert : TRUE
            BY <1>3 DEF NewClaim
        <2>2. NewClaim \in inert
            BY <1>3, <2>1
        <2> QED BY <1>1, <2>2
    <1> QED BY <1>2, <1>3

-----------------------------------------------------------------------------
(* What a step can do to the tables *)

Prepares == \E type \in {"LIMIT", "MARKET"}, q \in Quantities :
                prepareSellEscrow(type, q)
Tags(i) == \E t \in [quantity: Nat, stacks: Nat] :
              /\ t.quantity >= escrows[i].requested
              /\ markSellEscrowTagged(i, t)
EscrowIs(i, st) == i \in DOMAIN escrows /\ escrows[i].status = st

\* The player uses up a stack.
UsesUp == \E s \in Slots : /\ inv[s].kind = "plain"
                           /\ inv' = [inv EXCEPT ![s] = Empty]
                           /\ UNCHANGED <<rows, saved, run>>
                           /\ outside' = outside + inv[s].n

SameRows == UNCHANGED <<escrows, deliveries, claims, outside>>
EscrowsOnly == UNCHANGED <<deliveries, claims, outside>>
RowEffect ==
    \/ SameRows
    \/ Prepares /\ EscrowsOnly
    \/ \E i \in DOMAIN escrows :
          \/ EscrowIs(i, "PREPARED") /\ Tags(i) /\ EscrowsOnly
          \/ EscrowIs(i, "PREPARED") /\ cancelSellEscrow(i) /\ EscrowsOnly
          \/ EscrowIs(i, "TAGGED") /\ executeSellEscrow(i) /\ UNCHANGED claims
          \/ EscrowIs(i, "ORDERED") /\ markSellEscrowCleaned(i) /\ EscrowsOnly
    \/ \E d \in DOMAIN deliveries :
          /\ Unreserved(deliveries[d]) > 0
          /\ prepareDeliveryClaim(d, Unreserved(deliveries[d]))
          /\ UNCHANGED <<escrows, outside>>
    \/ \E c \in DOMAIN claims :
          /\ claims[c].status = "PREPARED"
          /\ \E n \in 0 .. claims[c].quantity : completeDeliveryClaim(c, n)
          /\ UNCHANGED <<escrows, outside>>
    \/ \E c \in DOMAIN claims :
          /\ claims[c].status = "APPLIED"
          /\ markDeliveryClaimCleaned(c)
          /\ UNCHANGED <<escrows, deliveries, outside>>
    \/ \E q \in Quantities : /\ q <= outside
                             /\ deliveries' = addDelivery(deliveries, q)
                             /\ outside' = outside - q
                             /\ UNCHANGED <<escrows, claims>>
    \/ UsesUp

\* A sum over slots is a number.
LEMMA AmountNat ==
    ASSUME Stacks(inv), NEW S \in SUBSET Slots
    PROVE  Amount(S) \in Nat
    <1> DEFINE f == [s \in Slots |-> inv[s].n]
    <1>1. IsFiniteSet(S) /\ \A s \in S : f[s] \in Nat
        BY BoundsAreNat, FS_Subset DEF Stacks, Stack
    <1> HIDE DEF f
    <1>2. SumFunctionOnSet(f, S) \in Nat
        BY <1>1, SumNat
    <1> QED BY <1>2 DEF f, Amount

\* What is counted in the inventory can be written into a row.
LEMMA TaggedFacts ==
    ASSUME Stacks(inv), NEW i
    PROVE  /\ taggedSellItems(i) \in [quantity: Nat, stacks: Nat]
           /\ taggedItemCount(i) \in Nat
    <1>1. SlotsOf("sell", i) \in SUBSET Slots /\ SlotsOf("claim", i) \in SUBSET Slots
        BY DEF SlotsOf
    <1>2. Cardinality(SlotsOf("sell", i)) \in Nat
        BY <1>1, BoundsAreNat, FS_Subset, FS_CardinalityType
    <1> QED BY <1>1, <1>2, AmountNat DEF taggedSellItems, taggedItemCount

LEMMA LesserFacts ==
    ASSUME NEW a \in Nat, NEW b \in Nat
    PROVE  lesser(a, b) \in 0 .. a /\ lesser(a, b) \in 0 .. b
    BY DEF lesser

LEMMA DeliveredFacts ==
    ASSUME NEW q \in Nat
    PROVE  Delivered(q) \in 0 .. q
    <1>1. Cardinality(EmptySlots) \in Nat
        BY BoundsAreNat, FS_Subset, FS_CardinalityType DEF EmptySlots
    <1>2. StackSize * Cardinality(EmptySlots) \in Nat
        BY <1>1, BoundsAreNat
    <1> QED BY <1>2, LesserFacts DEF Delivered

LEMMA RowEffects == TypeInv /\ [Next]_vars => RowEffect
    <1> SUFFICES ASSUME TypeInv, [Next]_vars PROVE RowEffect
        OBVIOUS
    <1>t. Stacks(inv) /\ RunType /\ Lists /\ Current /\ RowsType
        BY DEF TypeInv, InventoryType
    <1>f. run.todo # {} => First \in run.todo
        BY <1>t, FirstFacts
    <1>1. CASE \E type \in {"LIMIT", "MARKET"}, q \in Quantities : submitSellEscrow(type, q)
        BY <1>1 DEF submitSellEscrow, RowEffect, Prepares, EscrowsOnly
    <1>2. CASE tagItems
        <2>1. PICK S \in TagChoices(run.id) :
                 \/ markSellEscrowTagged(run.id, [quantity |-> Amount(S),
                                                  stacks |-> Cardinality(S)])
                 \/ UNCHANGED escrows
            BY <1>2 DEF tagItems, Call
        <2>2. /\ S \in SUBSET Slots /\ Amount(S) >= escrows[run.id].requested
              /\ Amount(S) \in Nat /\ Cardinality(S) \in Nat
            <3>1. S \in SUBSET Slots /\ Amount(S) >= escrows[run.id].requested
                BY DEF TagChoices, PlainSlots
            <3>2. Amount(S) \in Nat /\ Cardinality(S) \in Nat
                BY <1>t, <3>1, AmountNat, BoundsAreNat, FS_Subset, FS_CardinalityType
            <3> QED BY <3>1, <3>2
        <2>3. [quantity |-> Amount(S), stacks |-> Cardinality(S)]
                 \in [quantity: Nat, stacks: Nat]
            BY <2>2
        <2>4. EscrowIs(run.id, "PREPARED")
            BY <1>t, <1>2 DEF tagItems, Current, EscrowIs, Stage
        <2>5. EscrowsOnly
            BY <1>2 DEF tagItems, EscrowsOnly
        <2>6. UNCHANGED escrows \/ Tags(run.id)
            BY <2>1, <2>2, <2>3 DEF Tags
        <2> QED BY <2>4, <2>5, <2>6 DEF RowEffect, SameRows, EscrowsOnly, EscrowIs
    <1>3. CASE cancelShort
        <2>1. /\ EscrowIs(First, "PREPARED") /\ EscrowsOnly
              /\ cancelSellEscrow(First) \/ UNCHANGED escrows
            BY <1>3, <1>t, <1>f DEF cancelShort, Working, Call, Lists, Stage, EscrowIs, EscrowsOnly
        <2> QED BY <2>1 DEF RowEffect, SameRows, EscrowsOnly, EscrowIs
    <1>4. CASE markTagged
        <2>1. /\ EscrowIs(First, "PREPARED") /\ EscrowsOnly
              /\ UNCHANGED escrows
                   \/ markSellEscrowTagged(First, taggedSellItems(First))
              /\ ~Short(First)
            BY <1>4, <1>t, <1>f DEF markTagged, Working, Call, Lists, Stage, EscrowIs, EscrowsOnly
        <2>2. taggedSellItems(First) \in [quantity: Nat, stacks: Nat]
            BY <1>t, TaggedFacts
        <2>3. escrows[First].requested \in Nat
            BY <2>1, <1>t DEF EscrowIs, RowsType, EscrowsType, GoodEscrow, SellEscrow
        <2>4. taggedSellItems(First).quantity >= escrows[First].requested
            BY <2>1, <2>2, <2>3 DEF Short
        <2>5. UNCHANGED escrows \/ Tags(First)
            BY <2>1, <2>2, <2>4 DEF Tags
        <2> QED BY <2>1, <2>5 DEF RowEffect, SameRows, EscrowsOnly, EscrowIs
    <1>5. CASE placeOrder
        <2>1. /\ EscrowIs(First, "TAGGED") /\ UNCHANGED claims
              /\ executeSellEscrow(First) \/ UNCHANGED <<escrows, deliveries, outside>>
            BY <1>5, <1>t, <1>f DEF placeOrder, Working, Call, Lists, Stage, EscrowIs
        <2> QED BY <2>1 DEF RowEffect, SameRows, EscrowIs
    <1>6. CASE cleanUp \/ removeOrdered
        <2>1. /\ EscrowIs(First, "ORDERED") /\ EscrowsOnly
              /\ markSellEscrowCleaned(First) \/ UNCHANGED escrows
            BY <1>6, <1>t, <1>f DEF cleanUp, removeOrdered, Working, MarkedEscrow, Call,
               Lists, Stage, EscrowIs, EscrowsOnly
        <2> QED BY <2>1 DEF RowEffect, SameRows, EscrowsOnly, EscrowIs
    <1>7. CASE clearApplied \/ cleanClaim
        <2>1. /\ First \in DOMAIN claims /\ claims[First].status = "APPLIED"
              /\ UNCHANGED <<escrows, deliveries, outside>>
              /\ markDeliveryClaimCleaned(First) \/ UNCHANGED claims
            BY <1>7, <1>t, <1>f DEF clearApplied, cleanClaim, MarkedClaim, Call, Lists, Stage
        <2> QED BY <2>1 DEF RowEffect, SameRows
    <1>8. CASE finishClaim
        <2>1. /\ First \in DOMAIN claims /\ claims[First].status = "PREPARED"
              /\ UNCHANGED <<escrows, outside>>
              /\ \/ completeDeliveryClaim(First,
                        lesser(taggedItemCount(First), claims[First].quantity))
                 \/ UNCHANGED <<claims, deliveries>>
            BY <1>8, <1>t, <1>f DEF finishClaim, Call, Lists, Stage
        <2>2. claims[First].quantity \in Nat /\ taggedItemCount(First) \in Nat
            BY <2>1, <1>t, TaggedFacts DEF RowsType, ClaimsType, GoodClaim, DeliveryClaim
        <2>3. lesser(taggedItemCount(First), claims[First].quantity)
                 \in 0 .. claims[First].quantity
            BY <2>2, LesserFacts
        <2> QED BY <2>1, <2>3 DEF RowEffect, SameRows
    <1>9. CASE reserveDelivery
        <2>1. /\ First \in DOMAIN deliveries /\ Unreserved(deliveries[First]) > 0
              /\ UNCHANGED <<escrows, outside>>
              /\ \/ prepareDeliveryClaim(First, Unreserved(deliveries[First]))
                 \/ UNCHANGED <<claims, deliveries>>
            BY <1>9, <1>t, <1>f DEF reserveDelivery, Call, Lists, Stage
        <2> QED BY <2>1 DEF RowEffect, SameRows
    <1>10. CASE addDelivered
        <2>1. /\ run.id \in DOMAIN claims /\ claims[run.id].status = "PREPARED"
              /\ UNCHANGED <<escrows, outside>>
              /\ \/ completeDeliveryClaim(run.id, Delivered(claims[run.id].quantity))
                 \/ UNCHANGED <<claims, deliveries>>
            BY <1>10, <1>t DEF addDelivered, Call, Current, Stage
        <2>2. claims[run.id].quantity \in Nat
            BY <2>1, <1>t DEF RowsType, ClaimsType, GoodClaim, DeliveryClaim
        <2>3. Delivered(claims[run.id].quantity) \in 0 .. claims[run.id].quantity
            BY <2>2, DeliveredFacts
        <2> QED BY <2>1, <2>3 DEF RowEffect, SameRows
    <1>11. CASE clearDelivered
        <2>1. /\ run.id \in DOMAIN claims /\ claims[run.id].status = "APPLIED"
              /\ UNCHANGED <<escrows, deliveries, outside>>
              /\ markDeliveryClaimCleaned(run.id) \/ UNCHANGED claims
            BY <1>11, <1>t DEF clearDelivered, Call, Current, Stage
        <2> QED BY <2>1 DEF RowEffect, SameRows
    <1>12. CASE \E q \in Quantities : deliveryArrives(q)
        BY <1>12 DEF deliveryArrives, RowEffect
    <1>13. CASE \E s \in Slots : useStack(s)
        BY <1>13 DEF useStack, RowEffect, UsesUp, rows
    <1>14. CASE inventoryInsufficient \/ retryExecute \/ placeOrderThrows
                \/ otherClaimMarker \/ otherSellMarker \/ nextLoop \/ queryFails
                \/ claimDeliveries \/ onPlayerJoin \/ kill \/ save \/ toggleMarket
                \/ UNCHANGED vars
        BY <1>14 DEF inventoryInsufficient, retryExecute, placeOrderThrows,
           otherClaimMarker, otherSellMarker, nextLoop, queryFails, claimDeliveries,
           onPlayerJoin, kill, save, toggleMarket, vars, rows, RowEffect, SameRows
    <1> QED BY <1>1, <1>2, <1>3, <1>4, <1>5, <1>6, <1>7, <1>8, <1>9, <1>10, <1>11,
               <1>12, <1>13, <1>14 DEF Next, work

-----------------------------------------------------------------------------
(* The tables keep their types *)

\* An update of an existing escrow or claim row.
EscrowUpdate(i, row) ==
    escrows' = [escrows EXCEPT ![i] = row]

LEMMA EscrowUpdated ==
    ASSUME EscrowsType, NEW i \in DOMAIN escrows, NEW row, GoodEscrow(row),
           EscrowUpdate(i, row)
    PROVE  EscrowsType' /\ DOMAIN escrows' = DOMAIN escrows
    <1>1. /\ DOMAIN escrows' = DOMAIN escrows
          /\ \A j \in DOMAIN escrows : escrows'[j] = IF j = i THEN row ELSE escrows[j]
        BY DEF EscrowUpdate
    <1>2. escrows' \in Seq(SellEscrow)
        BY DEF EscrowUpdate, EscrowsType, GoodEscrow
    <1>3. \A j \in DOMAIN escrows' : GoodEscrow(escrows'[j])
        BY <1>1 DEF EscrowsType
    <1> QED BY <1>1, <1>2, <1>3 DEF EscrowsType, GoodEscrow

\* The four updates write these rows.
TaggedRow(e, t) == [e EXCEPT !.status = "TAGGED", !.tagged = t.quantity,
                             !.receipts = t.stacks]
CanceledRow(e) == [e EXCEPT !.status = "CANCELED", !.cleaned = TRUE]
OrderedRow(e) == [e EXCEPT !.status = "ORDERED"]
CleanedRow(e) == [e EXCEPT !.cleaned = TRUE]

LEMMA EscrowRows ==
    ASSUME EscrowsType, NEW i \in DOMAIN escrows
    PROVE  /\ \A t \in [quantity: Nat, stacks: Nat] :
                 markSellEscrowTagged(i, t) => EscrowUpdate(i, TaggedRow(escrows[i], t))
           /\ cancelSellEscrow(i) => EscrowUpdate(i, CanceledRow(escrows[i]))
           /\ executeSellEscrow(i) => EscrowUpdate(i, OrderedRow(escrows[i]))
           /\ markSellEscrowCleaned(i) => EscrowUpdate(i, CleanedRow(escrows[i]))
    <1>1. escrows[i] \in SellEscrow
        BY DEF EscrowsType, GoodEscrow
    <1>2. \A t \in [quantity: Nat, stacks: Nat] :
             markSellEscrowTagged(i, t) => EscrowUpdate(i, TaggedRow(escrows[i], t))
        BY <1>1 DEF markSellEscrowTagged, EscrowUpdate, TaggedRow, SellEscrow
    <1>3. cancelSellEscrow(i) => EscrowUpdate(i, CanceledRow(escrows[i]))
        BY <1>1 DEF cancelSellEscrow, EscrowUpdate, CanceledRow, SellEscrow
    <1>4. executeSellEscrow(i) => EscrowUpdate(i, OrderedRow(escrows[i]))
        BY <1>1 DEF executeSellEscrow, EscrowUpdate, OrderedRow, SellEscrow
    <1>5. markSellEscrowCleaned(i) => EscrowUpdate(i, CleanedRow(escrows[i]))
        BY <1>1 DEF markSellEscrowCleaned, EscrowUpdate, CleanedRow, SellEscrow
    <1> QED BY <1>2, <1>3, <1>4, <1>5

LEMMA EscrowRowsGood ==
    ASSUME NEW e, GoodEscrow(e)
    PROVE  /\ \A t \in [quantity: Nat, stacks: Nat] :
                 e.status = "PREPARED" /\ t.quantity >= e.requested
                    => GoodEscrow(TaggedRow(e, t))
           /\ e.status = "PREPARED" => GoodEscrow(CanceledRow(e))
           /\ e.status = "TAGGED" => GoodEscrow(OrderedRow(e))
           /\ e.status = "ORDERED" => GoodEscrow(CleanedRow(e))
    BY DEF GoodEscrow, SellEscrow, TaggedRow, CanceledRow, OrderedRow, CleanedRow

\* Escrows only move forward.
Forward(old, new) ==
    /\ new.requested = old.requested /\ new.type = old.type
    /\ old.cleaned => new.cleaned
    /\ \/ new.status = old.status
       \/ old.status = "PREPARED" /\ new.status \in {"TAGGED", "CANCELED"}
       \/ old.status = "TAGGED" /\ new.status = "ORDERED"

LEMMA EscrowRowsForward ==
    ASSUME NEW e \in SellEscrow
    PROVE  /\ \A t \in [quantity: Nat, stacks: Nat] :
                 e.status = "PREPARED" => Forward(e, TaggedRow(e, t))
           /\ e.status = "PREPARED" => Forward(e, CanceledRow(e))
           /\ e.status = "TAGGED" => Forward(e, OrderedRow(e))
           /\ Forward(e, CleanedRow(e)) /\ Forward(e, e)
    BY DEF SellEscrow, TaggedRow, CanceledRow, OrderedRow, CleanedRow, Forward

\* What a step does to the escrows, whatever it does to the rest.
EscrowEffect ==
    /\ EscrowsType'
    /\ DOMAIN escrows \subseteq DOMAIN escrows'
    /\ \A i \in DOMAIN escrows : Forward(escrows[i], escrows'[i])

LEMMA EscrowAdded ==
    ASSUME EscrowsType, Prepares
    PROVE  /\ Len(escrows) \in Nat /\ DOMAIN escrows = 1 .. Len(escrows)
           /\ DOMAIN escrows' = 1 .. Len(escrows) + 1
           /\ \A i \in DOMAIN escrows : escrows'[i] = escrows[i]
           /\ EscrowsType'
           /\ LET n == escrows'[Len(escrows) + 1]
              IN  n.status = "PREPARED" /\ ~n.cleaned
    <1>1. PICK type \in {"LIMIT", "MARKET"}, q \in Quantities :
             prepareSellEscrow(type, q)
        BY DEF Prepares
    <1> DEFINE row == [type |-> type, requested |-> q, tagged |-> 0, receipts |-> 0,
                       cleaned |-> FALSE, status |-> "PREPARED"]
    <1>2. GoodEscrow(row) /\ row \in SellEscrow
        BY BoundsAreNat DEF GoodEscrow, SellEscrow
    <1>3. escrows' = Append(escrows, row) /\ escrows \in Seq(SellEscrow)
        BY <1>1 DEF prepareSellEscrow, EscrowsType
    <1>4. /\ Len(escrows) \in Nat /\ DOMAIN escrows = 1 .. Len(escrows)
          /\ escrows' \in Seq(SellEscrow)
          /\ Len(escrows') = Len(escrows) + 1
          /\ DOMAIN escrows' = 1 .. Len(escrows) + 1
          /\ \A i \in DOMAIN escrows : escrows'[i] = escrows[i]
          /\ escrows'[Len(escrows) + 1] = row
        <2> HIDE DEF row
        <2> QED BY <1>2, <1>3
    <1>5. \A i \in DOMAIN escrows' : GoodEscrow(escrows'[i])
        <2> HIDE DEF row
        <2> QED BY <1>2, <1>4 DEF EscrowsType
    <1> QED BY <1>4, <1>5 DEF EscrowsType, GoodEscrow

LEMMA EscrowEffects == RowsType /\ RowEffect => EscrowEffect
    <1> SUFFICES ASSUME RowsType, RowEffect PROVE EscrowEffect
        OBVIOUS
    <1>t. EscrowsType /\ \A i \in DOMAIN escrows :
                            GoodEscrow(escrows[i]) /\ escrows[i] \in SellEscrow
        BY DEF RowsType, EscrowsType, GoodEscrow
    <1>1. CASE UNCHANGED escrows
        BY <1>1, <1>t DEF EscrowEffect, EscrowsType, GoodEscrow, Forward
    <1>2. CASE Prepares
        BY <1>2, <1>t, EscrowAdded, EscrowRowsForward DEF EscrowEffect
    <1>3. ASSUME NEW i \in DOMAIN escrows, NEW row, GoodEscrow(row),
                 Forward(escrows[i], row), EscrowUpdate(i, row)
          PROVE  EscrowEffect
        <2>1. EscrowsType' /\ DOMAIN escrows' = DOMAIN escrows
            BY <1>3, <1>t, EscrowUpdated
        <2>2. \A j \in DOMAIN escrows : escrows'[j] = IF j = i THEN row ELSE escrows[j]
            BY <1>3 DEF EscrowUpdate
        <2>3. \A j \in DOMAIN escrows : Forward(escrows[j], escrows[j])
            BY <1>t DEF Forward
        <2> QED BY <1>3, <2>1, <2>2, <2>3 DEF EscrowEffect
    <1>4. ASSUME NEW i \in DOMAIN escrows, EscrowIs(i, "PREPARED") /\ Tags(i)
          PROVE  EscrowEffect
        <2>1. PICK t \in [quantity: Nat, stacks: Nat] :
                 t.quantity >= escrows[i].requested /\ markSellEscrowTagged(i, t)
            BY <1>4 DEF Tags
        <2>2. EscrowUpdate(i, TaggedRow(escrows[i], t))
            BY <2>1, <1>t, EscrowRows
        <2>3. GoodEscrow(TaggedRow(escrows[i], t)) /\ Forward(escrows[i], TaggedRow(escrows[i], t))
            BY <2>1, <1>4, <1>t, EscrowRowsGood, EscrowRowsForward DEF EscrowIs
        <2> QED BY <1>3, <2>2, <2>3
    <1>5. ASSUME NEW i \in DOMAIN escrows, EscrowIs(i, "PREPARED") /\ cancelSellEscrow(i)
          PROVE  EscrowEffect
        <2>1. EscrowUpdate(i, CanceledRow(escrows[i]))
            BY <1>5, <1>t, EscrowRows
        <2>2. GoodEscrow(CanceledRow(escrows[i])) /\ Forward(escrows[i], CanceledRow(escrows[i]))
            BY <1>5, <1>t, EscrowRowsGood, EscrowRowsForward DEF EscrowIs
        <2> QED BY <1>3, <2>1, <2>2
    <1>6. ASSUME NEW i \in DOMAIN escrows, EscrowIs(i, "TAGGED") /\ executeSellEscrow(i)
          PROVE  EscrowEffect
        <2>1. EscrowUpdate(i, OrderedRow(escrows[i]))
            BY <1>6, <1>t, EscrowRows
        <2>2. GoodEscrow(OrderedRow(escrows[i])) /\ Forward(escrows[i], OrderedRow(escrows[i]))
            BY <1>6, <1>t, EscrowRowsGood, EscrowRowsForward DEF EscrowIs
        <2> QED BY <1>3, <2>1, <2>2
    <1>7. ASSUME NEW i \in DOMAIN escrows, EscrowIs(i, "ORDERED") /\ markSellEscrowCleaned(i)
          PROVE  EscrowEffect
        <2>1. EscrowUpdate(i, CleanedRow(escrows[i]))
            BY <1>7, <1>t, EscrowRows
        <2>2. GoodEscrow(CleanedRow(escrows[i])) /\ Forward(escrows[i], CleanedRow(escrows[i]))
            BY <1>7, <1>t, EscrowRowsGood, EscrowRowsForward DEF EscrowIs
        <2> QED BY <1>3, <2>1, <2>2
    <1> QED BY <1>1, <1>2, <1>4, <1>5, <1>6, <1>7
        DEF RowEffect, SameRows, EscrowsOnly, UsesUp, rows

\* addDelivery keeps the rows there are.
LEMMA DeliveryAdded ==
    ASSUME NEW ds \in Seq(LooseDelivery), NEW q \in Int
    PROVE  /\ addDelivery(ds, q) \in Seq(LooseDelivery)
           /\ Len(ds) \in Nat /\ DOMAIN ds = 1 .. Len(ds)
           /\ DOMAIN ds \subseteq DOMAIN addDelivery(ds, q)
           /\ Len(addDelivery(ds, q)) >= Len(ds)
           /\ \A d \in DOMAIN ds : addDelivery(ds, q)[d] = ds[d]
    <1> DEFINE row == [quantity |-> q, claimed |-> 0, reserved |-> 0]
    <1>1. CASE q > 0
        <2>1. row \in LooseDelivery
            BY <1>1 DEF LooseDelivery
        <2>2. addDelivery(ds, q) = Append(ds, row)
            BY <1>1 DEF addDelivery
        <2> HIDE DEF row
        <2> QED BY <2>1, <2>2
    <1>2. CASE ~(q > 0)
        BY <1>2 DEF addDelivery
    <1> QED BY <1>1, <1>2

DeliveriesKept ==
    /\ DeliveriesType'
    /\ Len(deliveries) \in Nat /\ Len(deliveries') \in Nat
    /\ Len(deliveries) <= Len(deliveries')
    /\ DOMAIN deliveries = 1 .. Len(deliveries)
    /\ DOMAIN deliveries' = 1 .. Len(deliveries')

DeliveryEffect ==
    /\ DeliveriesKept
    /\ \/ \A d \in DOMAIN deliveries :
             Unreserved(deliveries'[d]) >= Unreserved(deliveries[d])
       \/ \E d \in DOMAIN deliveries :
             prepareDeliveryClaim(d, Unreserved(deliveries[d]))

\* Both quantities are of the row.
LEMMA ExecuteFacts ==
    ASSUME EscrowsType, NEW i \in DOMAIN escrows, EscrowIs(i, "TAGGED"),
           executeSellEscrow(i)
    PROVE  \E rest \in 0 .. escrows[i].requested :
              /\ deliveries' = addDelivery(addDelivery(deliveries, rest), Excess(i))
              /\ outside' = outside + escrows[i].requested - rest
              /\ rest \in Nat /\ Excess(i) \in Nat
              /\ escrows[i].requested \in Nat /\ escrows[i].requested > 0
              /\ escrows[i].tagged \in Nat
              /\ escrows[i].tagged = escrows[i].requested + Excess(i)
    <1>1. GoodEscrow(escrows[i]) /\ escrows[i].requested \in Nat
          /\ escrows[i].tagged \in Nat /\ escrows[i].tagged >= escrows[i].requested
          /\ escrows[i].requested > 0
        BY DEF EscrowsType, GoodEscrow, SellEscrow, EscrowIs
    <1>2. PICK rest \in IF escrows[i].type = "MARKET"
                        THEN 0 .. escrows[i].requested ELSE {0} :
              /\ deliveries' = addDelivery(addDelivery(deliveries, rest), Excess(i))
              /\ outside' = outside + escrows[i].requested - rest
        BY DEF executeSellEscrow
    <1>3. rest \in 0 .. escrows[i].requested
        BY <1>1, <1>2
    <1>4. Excess(i) \in Nat /\ escrows[i].tagged = escrows[i].requested + Excess(i)
        BY <1>1 DEF Excess
    <1> QED BY <1>1, <1>2, <1>3, <1>4

LEMMA LooseFacts ==
    ASSUME NEW x \in LooseDelivery
    PROVE  /\ x.quantity \in Nat /\ x.claimed \in Nat /\ x.reserved \in Int
           /\ Unreserved(x) \in Int
           /\ \A k \in Nat, r \in Int :
                 LET y == [x EXCEPT !.claimed = @ + k, !.reserved = @ + r]
                 IN  y \in LooseDelivery /\ Unreserved(y) = Unreserved(x) - k - r
    <1>1. x.quantity \in Nat /\ x.claimed \in Nat /\ x.reserved \in Int
        BY DEF LooseDelivery
    <1>2. Unreserved(x) \in Int
        BY <1>1 DEF Unreserved
    <1>3. ASSUME NEW k \in Nat, NEW r \in Int
          PROVE  LET y == [x EXCEPT !.claimed = @ + k, !.reserved = @ + r]
                 IN  y \in LooseDelivery /\ Unreserved(y) = Unreserved(x) - k - r
        <2> DEFINE a == x.claimed + k
                   b == x.reserved + r
                   z == [x EXCEPT !.claimed = a]
                   y == [z EXCEPT !.reserved = b]
        <2>1. a \in Nat /\ b \in Int
            BY <1>1
        <2>2. /\ z \in LooseDelivery /\ z.quantity = x.quantity
              /\ z.claimed = a /\ z.reserved = x.reserved
            <3> HIDE DEF a
            <3> QED BY <2>1 DEF LooseDelivery
        <2>3. y \in LooseDelivery /\ y.quantity = x.quantity /\ y.claimed = a /\ y.reserved = b
            <3> HIDE DEF a, b, z
            <3> QED BY <2>1, <2>2 DEF LooseDelivery
        <2>4. Unreserved(y) = Unreserved(x) - k - r
            <3>1. /\ Unreserved(y) = y.quantity - y.claimed - y.reserved
                  /\ Unreserved(x) = x.quantity - x.claimed - x.reserved
                BY DEF Unreserved
            <3> HIDE DEF y
            <3> QED BY <1>1, <2>3, <3>1
        <2> QED BY <2>3, <2>4
    <1> QED BY <1>1, <1>2, <1>3

\* The types of the tables, with what follows for a delivery.
LEMMA DeliveryTypes ==
    ASSUME RowsType
    PROVE  /\ deliveries \in Seq(LooseDelivery) /\ EscrowsType /\ ClaimsType
           /\ Len(deliveries) \in Nat /\ DOMAIN deliveries = 1 .. Len(deliveries)
           /\ \A d \in DOMAIN deliveries :
                 deliveries[d] \in LooseDelivery /\ Unreserved(deliveries[d]) \in Int
    <1>1. \A d \in DOMAIN deliveries : deliveries[d] \in LooseDelivery
        BY DEF RowsType, DeliveriesType
    <1>2. \A d \in DOMAIN deliveries : Unreserved(deliveries[d]) \in Int
        <2> TAKE d \in DOMAIN deliveries
        <2> DEFINE x == deliveries[d]
        <2>1. x \in LooseDelivery
            BY <1>1
        <2> HIDE DEF x
        <2>2. Unreserved(x) \in Int
            BY <2>1, LooseFacts
        <2> QED BY <2>2 DEF x
    <1>3. /\ deliveries \in Seq(LooseDelivery)
          /\ Len(deliveries) \in Nat /\ DOMAIN deliveries = 1 .. Len(deliveries)
        BY DEF RowsType, DeliveriesType
    <1> QED BY <1>1, <1>2, <1>3 DEF RowsType

UnreservedInts == \A d \in DOMAIN deliveries : Unreserved(deliveries[d]) \in Int

LEMMA UnreservedAreInts == RowsType => UnreservedInts
    BY DeliveryTypes DEF UnreservedInts

\* Two fields of a delivery change.
LEMMA DeliveryChanged ==
    ASSUME RowsType, NEW d \in DOMAIN deliveries, NEW r \in Int, NEW k \in Nat,
           deliveries' = [deliveries EXCEPT ![d].claimed = @ + k, ![d].reserved = @ + r]
    PROVE  /\ DeliveriesKept
           /\ \A e \in DOMAIN deliveries : e # d => deliveries'[e] = deliveries[e]
           /\ Unreserved(deliveries'[d]) = Unreserved(deliveries[d]) - k - r
    <1>t. /\ deliveries \in Seq(LooseDelivery) /\ EscrowsType /\ ClaimsType
          /\ Len(deliveries) \in Nat /\ DOMAIN deliveries = 1 .. Len(deliveries)
          /\ \A e \in DOMAIN deliveries :
                deliveries[e] \in LooseDelivery /\ Unreserved(deliveries[e]) \in Int
        BY DeliveryTypes
    <1> DEFINE row == [deliveries[d] EXCEPT !.claimed = @ + k, !.reserved = @ + r]
    <1>1. deliveries' = [deliveries EXCEPT ![d] = row]
        OBVIOUS
    <1>2. row \in LooseDelivery
        BY <1>t, LooseFacts
    <1>3. Unreserved(row) = Unreserved(deliveries[d]) - k - r
        BY <1>t, LooseFacts
    <1> HIDE DEF row
    <1>4. /\ deliveries' \in Seq(LooseDelivery) /\ Len(deliveries') = Len(deliveries)
          /\ DOMAIN deliveries' = DOMAIN deliveries
          /\ deliveries'[d] = row
          /\ \A e \in DOMAIN deliveries : e # d => deliveries'[e] = deliveries[e]
        <2>1. d \in DOMAIN deliveries
            OBVIOUS
        <2> QED BY ONLY <1>1, <1>2, <1>t, <2>1
    <1> QED BY <1>3, <1>4, <1>t DEF DeliveriesKept, DeliveriesType

\* Completing a claim frees what it does not hand out.
LEMMA DeliveryCompleted ==
    ASSUME RowsType, NEW c \in DOMAIN claims, NEW n \in 0 .. claims[c].quantity,
           completeDeliveryClaim(c, n)
    PROVE  /\ DeliveriesKept
           /\ \A d \in DOMAIN deliveries :
                 Unreserved(deliveries'[d]) >= Unreserved(deliveries[d])
    <1>t. /\ deliveries \in Seq(LooseDelivery) /\ EscrowsType /\ ClaimsType
          /\ Len(deliveries) \in Nat /\ DOMAIN deliveries = 1 .. Len(deliveries)
          /\ \A d \in DOMAIN deliveries :
                deliveries[d] \in LooseDelivery /\ Unreserved(deliveries[d]) \in Int
        BY DeliveryTypes
    <1>1. /\ claims[c].quantity \in Nat /\ claims[c].delivery \in DOMAIN deliveries
          /\ n \in Nat /\ n <= claims[c].quantity
        BY <1>t DEF ClaimsType, GoodClaim, DeliveryClaim
    <1> DEFINE d == claims[c].delivery
               r == 0 - claims[c].quantity
    <1>2. deliveries' = [deliveries EXCEPT ![d].claimed = @ + n, ![d].reserved = @ + r]
        <2>1. deliveries' = [deliveries EXCEPT ![d].claimed = @ + n,
                                               ![d].reserved = @ - claims[c].quantity]
            BY DEF completeDeliveryClaim
        <2>2. deliveries[d].reserved - claims[c].quantity = deliveries[d].reserved + r
            BY <1>1, <1>t DEF LooseDelivery
        <2>3. deliveries[d] \in LooseDelivery
            BY <1>t, <1>1
        <2> HIDE DEF r, d
        <2> QED BY <2>1, <2>2, <2>3 DEF LooseDelivery
    <1>3. r \in Int /\ d \in DOMAIN deliveries /\ n + r <= 0
        BY <1>1
    <1> HIDE DEF r, d
    <1>4. /\ DeliveriesKept
          /\ \A e \in DOMAIN deliveries : e # d => deliveries'[e] = deliveries[e]
          /\ Unreserved(deliveries'[d]) = Unreserved(deliveries[d]) - n - r
        BY DeliveryChanged, <1>1, <1>2, <1>3
    <1>5. Unreserved(deliveries'[d]) >= Unreserved(deliveries[d])
        BY <1>1, <1>3, <1>4, <1>t
    <1> QED BY <1>4, <1>5, <1>t

LEMMA DeliveryEffects == RowsType /\ RowEffect => DeliveryEffect
    <1> SUFFICES ASSUME RowsType, RowEffect PROVE DeliveryEffect
        OBVIOUS
    <1>t. /\ deliveries \in Seq(LooseDelivery) /\ EscrowsType /\ ClaimsType
          /\ Len(deliveries) \in Nat /\ DOMAIN deliveries = 1 .. Len(deliveries)
          /\ \A d \in DOMAIN deliveries :
                deliveries[d] \in LooseDelivery /\ Unreserved(deliveries[d]) \in Int
        BY DeliveryTypes
    <1>1. CASE UNCHANGED deliveries
        BY <1>1, <1>t DEF DeliveryEffect, DeliveriesKept, DeliveriesType
    <1>2. ASSUME NEW q \in Int, deliveries' = addDelivery(deliveries, q)
          PROVE  DeliveryEffect
        BY <1>2, <1>t, DeliveryAdded DEF DeliveryEffect, DeliveriesKept, DeliveriesType
    <1>3. ASSUME NEW i \in DOMAIN escrows, EscrowIs(i, "TAGGED"), executeSellEscrow(i)
          PROVE  DeliveryEffect
        <2>1. PICK rest \in Nat :
                 deliveries' = addDelivery(addDelivery(deliveries, rest), Excess(i))
                 /\ Excess(i) \in Nat
            BY <1>3, <1>t, ExecuteFacts
        <2> DEFINE mid == addDelivery(deliveries, rest)
        <2>2. /\ mid \in Seq(LooseDelivery) /\ DOMAIN deliveries \subseteq DOMAIN mid
              /\ Len(mid) >= Len(deliveries) /\ Len(mid) \in Nat
              /\ \A d \in DOMAIN deliveries : mid[d] = deliveries[d]
            BY <1>t, DeliveryAdded
        <2>3. deliveries' = addDelivery(mid, Excess(i))
            BY <2>1
        <2> HIDE DEF mid
        <2>4. /\ deliveries' \in Seq(LooseDelivery)
              /\ Len(deliveries') >= Len(deliveries) /\ Len(deliveries') \in Nat
              /\ DOMAIN deliveries' = 1 .. Len(deliveries')
              /\ \A d \in DOMAIN deliveries : deliveries'[d] = deliveries[d]
            BY <2>1, <2>2, <2>3, DeliveryAdded
        <2> QED BY <2>4, <1>t DEF DeliveryEffect, DeliveriesKept, DeliveriesType
    <1>5. ASSUME NEW d \in DOMAIN deliveries,
                 prepareDeliveryClaim(d, Unreserved(deliveries[d]))
          PROVE  DeliveryEffect
        <2> DEFINE r == Unreserved(deliveries[d])
        <2>1. r \in Int
            BY <1>t
        <2>2. deliveries' = [deliveries EXCEPT ![d].claimed = @ + 0, ![d].reserved = @ + r]
            <3>1. deliveries' = [deliveries EXCEPT ![d].reserved = @ + r]
                BY <1>5 DEF prepareDeliveryClaim
            <3>2. deliveries[d].claimed + 0 = deliveries[d].claimed
                BY <1>t DEF LooseDelivery
            <3>3. deliveries[d] \in LooseDelivery
                BY <1>t
            <3> HIDE DEF r
            <3> QED BY <3>1, <3>2, <3>3 DEF LooseDelivery
        <2> HIDE DEF r
        <2>3. DeliveriesKept
            BY DeliveryChanged, <2>1, <2>2
        <2> QED BY <2>3, <1>5 DEF DeliveryEffect
    <1>6. ASSUME NEW c \in DOMAIN claims, NEW n \in 0 .. claims[c].quantity,
                 completeDeliveryClaim(c, n)
          PROVE  DeliveryEffect
        BY <1>6, DeliveryCompleted DEF DeliveryEffect
    <1>7. CASE \E q \in Quantities : deliveries' = addDelivery(deliveries, q)
        BY <1>2, <1>7, BoundsAreNat
    <1> QED BY <1>1, <1>3, <1>5, <1>6, <1>7
        DEF RowEffect, SameRows, EscrowsOnly, UsesUp, rows

\* Claims are completed, cleaned, or made anew out of an inert one.
ClaimMove(old, new) ==
    /\ new.delivery = old.delivery /\ new.quantity = old.quantity
    /\ old.cleaned => new.cleaned
    /\ \/ new.status = old.status /\ new.applied = old.applied
       \/ old.status = "PREPARED" /\ new.status \in {"APPLIED", "CANCELED"}

ClaimsKept ==
    /\ ClaimsType'
    /\ Len(claims) \in Nat /\ DOMAIN claims = 1 .. Len(claims)
    /\ DOMAIN claims \subseteq DOMAIN claims'

ClaimEffect ==
    /\ ClaimsKept
    /\ \A c \in DOMAIN claims :
          \/ ClaimMove(claims[c], claims'[c])
          \/ /\ c = NewClaim /\ SlotsOf("claim", c) = {}
             /\ claims'[c].status = "PREPARED"

NewRow(d, q) == [delivery |-> d, quantity |-> q, applied |-> 0,
                 status |-> "PREPARED", cleaned |-> FALSE]
CompletedRow(c, n) ==
    [c EXCEPT !.applied = n, !.status = IF n = 0 THEN "CANCELED" ELSE "APPLIED",
              !.cleaned = n = 0]
ClaimUpdate(c, row) == claims' = [claims EXCEPT ![c] = row]

LEMMA ClaimRows ==
    ASSUME NEW c \in DeliveryClaim, NEW m \in Nat, GoodClaim(c, m)
    PROVE  /\ GoodClaim(c, m) /\ ClaimMove(c, c)
           /\ c.status = "PREPARED" => \A n \in 0 .. c.quantity :
                 GoodClaim(CompletedRow(c, n), m) /\ ClaimMove(c, CompletedRow(c, n))
           /\ c.status = "APPLIED" =>
                 LET r == [c EXCEPT !.cleaned = TRUE]
                 IN  GoodClaim(r, m) /\ ClaimMove(c, r)
    <1>1. ClaimMove(c, c)
        BY DEF ClaimMove
    <1>2. ASSUME c.status = "PREPARED", NEW n \in 0 .. c.quantity
          PROVE  GoodClaim(CompletedRow(c, n), m) /\ ClaimMove(c, CompletedRow(c, n))
        <2> DEFINE st == IF n = 0 THEN "CANCELED" ELSE "APPLIED"
                   b == n = 0
                   x == [c EXCEPT !.applied = n]
                   y == [x EXCEPT !.status = st]
                   z == [y EXCEPT !.cleaned = b]
        <2>0. c.quantity \in Nat /\ n \in Nat /\ n <= c.quantity /\ c.quantity > 0
              /\ c.delivery \in 1 .. m /\ st \in {"CANCELED", "APPLIED"} /\ b \in BOOLEAN
              /\ ~c.cleaned /\ c.delivery \in Nat
            BY <1>2 DEF GoodClaim, DeliveryClaim
        <2>1. /\ x \in DeliveryClaim /\ x.applied = n /\ x.delivery = c.delivery
              /\ x.quantity = c.quantity
            BY <2>0 DEF DeliveryClaim
        <2>2. /\ y \in DeliveryClaim /\ y.applied = n /\ y.delivery = c.delivery
              /\ y.quantity = c.quantity /\ y.status = st
            <3> HIDE DEF x, st
            <3> QED BY <2>0, <2>1 DEF DeliveryClaim
        <2>3. /\ z \in DeliveryClaim /\ z.applied = n /\ z.delivery = c.delivery
              /\ z.quantity = c.quantity /\ z.status = st /\ z.cleaned = b
            <3> HIDE DEF x, y, st, b
            <3> QED BY <2>0, <2>2 DEF DeliveryClaim
        <2>4. CompletedRow(c, n) = z
            BY DEF CompletedRow
        <2>5. st = "CANCELED" => b
            OBVIOUS
        <2> HIDE DEF z, st, b
        <2>6. GoodClaim(z, m)
            BY <2>0, <2>3, <2>5 DEF GoodClaim
        <2>7. ClaimMove(c, z)
            BY <1>2, <2>0, <2>3 DEF ClaimMove
        <2> QED BY <2>4, <2>6, <2>7
    <1>3. ASSUME c.status = "APPLIED"
          PROVE  LET r == [c EXCEPT !.cleaned = TRUE]
                 IN  GoodClaim(r, m) /\ ClaimMove(c, r)
        <2> DEFINE r == [c EXCEPT !.cleaned = TRUE]
        <2>1. /\ r \in DeliveryClaim /\ r.applied = c.applied /\ r.delivery = c.delivery
              /\ r.quantity = c.quantity /\ r.status = c.status /\ r.cleaned
            BY DEF DeliveryClaim
        <2> HIDE DEF r
        <2>2. GoodClaim(r, m)
            BY <1>3, <2>1 DEF GoodClaim
        <2>3. ClaimMove(c, r)
            BY <1>3, <2>1 DEF ClaimMove
        <2> QED BY <2>2, <2>3 DEF r
    <1> QED BY <1>1, <1>2, <1>3

LEMMA GoodClaimGrows ==
    ASSUME NEW c, NEW m \in Nat, NEW n \in Nat, m <= n, GoodClaim(c, m)
    PROVE  GoodClaim(c, n)
    BY DEF GoodClaim

LEMMA ClaimEffects == RowsType /\ RowEffect => ClaimEffect
    <1> SUFFICES ASSUME RowsType, RowEffect PROVE ClaimEffect
        OBVIOUS
    <1>d. /\ Len(deliveries) \in Nat /\ Len(deliveries') \in Nat
          /\ Len(deliveries) <= Len(deliveries')
        BY DeliveryEffects DEF DeliveryEffect, DeliveriesKept
    <1>t. /\ claims \in Seq(DeliveryClaim) /\ Len(claims) \in Nat
          /\ DOMAIN claims = 1 .. Len(claims)
          /\ \A c \in DOMAIN claims : /\ claims[c] \in DeliveryClaim
                                      /\ GoodClaim(claims[c], Len(deliveries))
                                      /\ GoodClaim(claims[c], Len(deliveries'))
        <2>1. /\ claims \in Seq(DeliveryClaim)
              /\ \A c \in DOMAIN claims : GoodClaim(claims[c], Len(deliveries))
            BY DEF RowsType, ClaimsType
        <2>2. \A c \in DOMAIN claims : GoodClaim(claims[c], Len(deliveries'))
            BY <2>1, <1>d, GoodClaimGrows
        <2>3. Len(claims) \in Nat /\ DOMAIN claims = 1 .. Len(claims)
            BY <2>1
        <2>4. \A c \in DOMAIN claims : claims[c] \in DeliveryClaim
            BY <2>1
        <2> QED BY <2>1, <2>2, <2>3, <2>4
    <1>s. \A c \in DOMAIN claims : ClaimMove(claims[c], claims[c])
        BY DEF ClaimMove
    <1>1. CASE UNCHANGED claims
        BY <1>1, <1>t, <1>s DEF ClaimEffect, ClaimsKept, ClaimsType
    <1>2. ASSUME NEW c \in DOMAIN claims, NEW row,
                 GoodClaim(row, Len(deliveries')), ClaimMove(claims[c], row),
                 ClaimUpdate(c, row)
          PROVE  ClaimEffect
        <2>1. /\ DOMAIN claims' = DOMAIN claims
              /\ \A e \in DOMAIN claims : claims'[e] = IF e = c THEN row ELSE claims[e]
            BY <1>2 DEF ClaimUpdate
        <2>2. claims' \in Seq(DeliveryClaim)
            BY <1>2, <1>t DEF ClaimUpdate, GoodClaim
        <2>3. \A e \in DOMAIN claims' : GoodClaim(claims'[e], Len(deliveries'))
            BY <1>2, <1>t, <2>1
        <2> QED BY <1>2, <1>t, <1>s, <2>1, <2>2, <2>3 DEF ClaimEffect, ClaimsKept, ClaimsType
    <1>3. ASSUME NEW c \in DOMAIN claims, claims[c].status = "PREPARED",
                 NEW n \in 0 .. claims[c].quantity, completeDeliveryClaim(c, n)
          PROVE  ClaimEffect
        <2> DEFINE x == claims[c]
        <2>1. x \in DeliveryClaim /\ GoodClaim(x, Len(deliveries'))
              /\ x.status = "PREPARED" /\ n \in 0 .. x.quantity
            BY <1>3, <1>t
        <2>2. ClaimUpdate(c, CompletedRow(x, n))
            BY <1>3 DEF completeDeliveryClaim, ClaimUpdate, CompletedRow
        <2> HIDE DEF x
        <2>3. GoodClaim(CompletedRow(x, n), Len(deliveries')) /\ ClaimMove(x, CompletedRow(x, n))
            BY <2>1, <1>d, ClaimRows
        <2> QED BY <1>2, <2>2, <2>3 DEF x
    <1>4. ASSUME NEW c \in DOMAIN claims, claims[c].status = "APPLIED",
                 markDeliveryClaimCleaned(c)
          PROVE  ClaimEffect
        <2> DEFINE x == claims[c]
                   r == [x EXCEPT !.cleaned = TRUE]
        <2>1. x \in DeliveryClaim /\ GoodClaim(x, Len(deliveries')) /\ x.status = "APPLIED"
            BY <1>4, <1>t
        <2>2. ClaimUpdate(c, r)
            BY <1>4 DEF markDeliveryClaimCleaned, ClaimUpdate
        <2>3. GoodClaim(r, Len(deliveries')) /\ ClaimMove(x, r)
            <3> HIDE DEF x
            <3> QED BY <2>1, <1>d, ClaimRows
        <2> HIDE DEF r
        <2> QED BY <1>2, <2>2, <2>3 DEF x
    <1>5. ASSUME NEW d \in DOMAIN deliveries, Unreserved(deliveries[d]) > 0,
                 prepareDeliveryClaim(d, Unreserved(deliveries[d]))
          PROVE  ClaimEffect
        <2> DEFINE q == Unreserved(deliveries[d])
                   row == NewRow(d, q)
        <2>1. q \in Int /\ q > 0
            <3>1. deliveries[d] \in LooseDelivery
                BY DEF RowsType, DeliveriesType
            <3> DEFINE x == deliveries[d]
            <3> HIDE DEF x
            <3>2. x \in LooseDelivery
                BY <3>1 DEF x
            <3>3. Unreserved(x) \in Int
                BY <3>2, LooseFacts
            <3> QED BY <3>3, <1>5 DEF x
        <2>2. d \in 1 .. Len(deliveries') /\ d \in Nat
            <3>1. DOMAIN deliveries = 1 .. Len(deliveries)
                BY DEF RowsType, DeliveriesType
            <3> QED BY <3>1, <1>d
        <2> HIDE DEF q
        <2>3. GoodClaim(row, Len(deliveries')) /\ row \in DeliveryClaim
            BY <2>1, <2>2 DEF GoodClaim, DeliveryClaim, NewRow
        <2>4. claims' = [c \in DOMAIN claims \cup {NewClaim} |->
                            IF c = NewClaim THEN row ELSE claims[c]]
            BY <1>5 DEF prepareDeliveryClaim, insertClaim, NewRow, q
        <2>5. row.status = "PREPARED"
            BY DEF NewRow
        <2>6. /\ NewClaim \in Nat
              /\ \/ NewClaim = Len(claims) + 1
                 \/ NewClaim \in DOMAIN claims /\ SlotsOf("claim", NewClaim) = {}
            BY NewClaimFacts DEF RowsType
        <2> DEFINE k == NewClaim
                   n == IF k \in DOMAIN claims THEN Len(claims) ELSE Len(claims) + 1
        <2>7. /\ n \in Nat /\ DOMAIN claims \cup {k} = 1 .. n
              /\ DOMAIN claims \subseteq 1 .. n
            <3> HIDE DEF k
            <3>1. k = Len(claims) + 1 \/ k \in DOMAIN claims
                BY <2>6 DEF k
            <3> QED BY <3>1, <1>t
        <2>8. /\ DOMAIN claims' = 1 .. n /\ claims' \in Seq(DeliveryClaim)
              /\ \A c \in DOMAIN claims' : claims'[c] = IF c = k THEN row ELSE claims[c]
            <3>1. claims' = [c \in 1 .. n |-> IF c = k THEN row ELSE claims[c]]
                BY <2>4, <2>7
            <3>2. \A c \in 1 .. n : (IF c = k THEN row ELSE claims[c]) \in DeliveryClaim
                <4> HIDE DEF k, n, row
                <4> QED BY <2>3, <2>7, <1>t
            <3> HIDE DEF k, n, row
            <3>3. claims' \in [1 .. n -> DeliveryClaim]
                BY <3>1, <3>2
            <3> QED BY <3>1, <3>3, <2>7
        <2>9. \A c \in DOMAIN claims' : GoodClaim(claims'[c], Len(deliveries'))
            <3> HIDE DEF row, n, k
            <3> QED BY <2>3, <2>7, <2>8, <1>t
        <2>10. \A c \in DOMAIN claims : \/ ClaimMove(claims[c], claims'[c])
                                        \/ /\ c = k /\ SlotsOf("claim", c) = {}
                                           /\ claims'[c].status = "PREPARED"
            <3>1. k \in DOMAIN claims => SlotsOf("claim", k) = {}
                BY <2>6, <1>t
            <3> HIDE DEF row, n, k
            <3> QED BY <2>5, <2>7, <2>8, <1>s, <3>1
        <2> QED BY <2>7, <2>8, <2>9, <2>10, <1>t DEF ClaimEffect, ClaimsKept, ClaimsType
    <1> QED BY <1>1, <1>3, <1>4, <1>5 DEF RowEffect, SameRows, EscrowsOnly, UsesUp, rows

LEMMA OutsideNat ==
    ASSUME RowsType, Stacks(inv), RowEffect
    PROVE  outside' \in Nat
    <1>1. outside \in Nat /\ EscrowsType
        BY DEF RowsType
    <1>2. ASSUME NEW i \in DOMAIN escrows, EscrowIs(i, "TAGGED"), executeSellEscrow(i)
          PROVE  outside' \in Nat
        <2>1. PICK rest \in 0 .. escrows[i].requested :
                 /\ outside' = outside + escrows[i].requested - rest
                 /\ rest \in Nat /\ escrows[i].requested \in Nat
            BY <1>1, <1>2, ExecuteFacts
        <2> QED BY <1>1, <2>1
    <1>3. CASE \E q \in Quantities : q <= outside /\ outside' = outside - q
        BY <1>1, <1>3, BoundsAreNat
    <1>4. CASE \E s \in Slots : outside' = outside + inv[s].n
        BY <1>1, <1>4 DEF Stacks, Stack
    <1>5. CASE UNCHANGED outside
        BY <1>1, <1>5
    <1> QED BY <1>2, <1>3, <1>4, <1>5 DEF RowEffect, SameRows, EscrowsOnly, UsesUp, rows

LEMMA RowsStep == RowsType /\ Stacks(inv) /\ RowEffect => RowsType'
    BY EscrowEffects, DeliveryEffects, ClaimEffects, OutsideNat
       DEF EscrowEffect, DeliveryEffect, DeliveriesKept, ClaimEffect, ClaimsKept, RowsType

-----------------------------------------------------------------------------
(* What a step can do to a stack *)

EscrowStatus(st) == escrows[st.id].status
Write(old, new) ==
    \/ new = old
    \/ /\ old.kind = "sell" /\ EscrowStatus(old) \in {"PREPARED", "CANCELED"}
       /\ new = Plain(old.n)
    \/ /\ old.kind = "claim" /\ claims[old.id].status = "APPLIED"
       /\ new = Plain(old.n)
    \/ /\ old.kind \in {"sell", "receipt"} /\ EscrowStatus(old) = "ORDERED"
       /\ new = Empty
    \/ /\ old.kind = "receipt" /\ EscrowStatus(old) = "CANCELED"
       /\ new = Empty
    \/ /\ old.kind = "claim" /\ claims[old.id].status = "CANCELED"
       /\ new = Empty
    \/ /\ old.kind = "sell" /\ EscrowStatus(old) = "TAGGED"
       /\ new = Marked("receipt", 1, old.id)
    \/ /\ old.kind = "plain" /\ Stage("tag")
       /\ new = Marked("sell", old.n, run.id)
    \/ /\ old.kind = "none" /\ Stage("add")
       /\ \E n \in 1 .. StackSize : new = Marked("claim", n, run.id)

Writes(target) ==
    /\ target = [s \in Slots |-> target[s]]
    /\ \A s \in Slots : Write(inv[s], target[s])

\* The operations of src/inventory_escrow.cpp are such writes.
LEMMA ReplacedIs ==
    ASSUME NEW S \in SUBSET Slots, NEW f, DOMAIN f = S
    PROVE  /\ Replaced(f) = [s \in Slots |-> Replaced(f)[s]]
           /\ \A s \in S : Replaced(f)[s] = f[s]
           /\ \A s \in Slots \ S : Replaced(f)[s] = inv[s]
    BY DEF Replaced

LEMMA SlotsOfFacts ==
    ASSUME NEW kind, NEW id
    PROVE  /\ SlotsOf(kind, id) \subseteq Slots
           /\ \A s \in SlotsOf(kind, id) : inv[s].kind = kind /\ inv[s].id = id
    BY DEF SlotsOf

LEMMA ReplacedWrites ==
    ASSUME NEW S \in SUBSET Slots, NEW f, DOMAIN f = S,
           \A s \in S : Write(inv[s], f[s])
    PROVE  Writes(Replaced(f))
    <1>1. \A s \in Slots : Write(inv[s], inv[s])
        BY DEF Write
    <1> QED BY <1>1, ReplacedIs DEF Writes

LEMMA WritesClaims ==
    ASSUME NEW c
    PROVE  /\ claims[c].status = "APPLIED" => Writes(clearDeliveryClaimTag(c))
           /\ claims[c].status = "CANCELED" => Writes(removeDeliveryClaimItems(c))
    <1> DEFINE S == SlotsOf("claim", c)
    <1>1. S \in SUBSET Slots /\ \A s \in S : inv[s].kind = "claim" /\ inv[s].id = c
        BY SlotsOfFacts
    <1>2. ASSUME claims[c].status = "APPLIED" PROVE Writes(clearDeliveryClaimTag(c))
        <2> DEFINE f == [s \in S |-> Plain(inv[s].n)]
        <2>1. \A s \in S : Write(inv[s], f[s])
            BY <1>1, <1>2 DEF Write
        <2>2. DOMAIN f = S
            OBVIOUS
        <2>3. clearDeliveryClaimTag(c) = Replaced(f)
            BY DEF clearDeliveryClaimTag
        <2> HIDE DEF f, S
        <2> QED BY <1>1, <2>1, <2>2, <2>3, ReplacedWrites
    <1>3. ASSUME claims[c].status = "CANCELED" PROVE Writes(removeDeliveryClaimItems(c))
        <2> DEFINE f == [s \in S |-> Empty]
        <2>1. \A s \in S : Write(inv[s], f[s])
            BY <1>1, <1>3 DEF Write
        <2>2. DOMAIN f = S
            OBVIOUS
        <2>3. removeDeliveryClaimItems(c) = Replaced(f)
            BY DEF removeDeliveryClaimItems
        <2> HIDE DEF f, S
        <2> QED BY <1>1, <2>1, <2>2, <2>3, ReplacedWrites
    <1> QED BY <1>2, <1>3

LEMMA WritesEscrows ==
    ASSUME NEW i
    PROVE  /\ escrows[i].status \in {"PREPARED", "CANCELED"}
                 => Writes(restoreTaggedSellItems(i))
           /\ escrows[i].status = "TAGGED"
                 => Writes(replaceTaggedSellItemsWithReceipts(i))
           /\ escrows[i].status = "ORDERED"
                 => Writes(removeTaggedSellItemsAndReceipts(i))
           /\ escrows[i].status = "CANCELED" => Writes(restoreAndRemoveReceipts(i))
    <1> DEFINE S == SlotsOf("sell", i)
               R == S \cup SlotsOf("receipt", i)
    <1>1. S \in SUBSET Slots /\ \A s \in S : inv[s].kind = "sell" /\ inv[s].id = i
        BY SlotsOfFacts
    <1>2. /\ R \in SUBSET Slots
          /\ \A s \in R : inv[s].kind \in {"sell", "receipt"} /\ inv[s].id = i
        BY SlotsOfFacts
    <1>3. ASSUME escrows[i].status \in {"PREPARED", "CANCELED"}
          PROVE  Writes(restoreTaggedSellItems(i))
        <2> DEFINE f == [s \in S |-> Plain(inv[s].n)]
        <2>1. DOMAIN f = S /\ \A s \in S : Write(inv[s], f[s])
            BY <1>1, <1>3 DEF Write, EscrowStatus
        <2>3. restoreTaggedSellItems(i) = Replaced(f)
            BY DEF restoreTaggedSellItems
        <2> HIDE DEF f, S
        <2> QED BY <1>1, <2>1, <2>3, ReplacedWrites
    <1>4. ASSUME escrows[i].status = "TAGGED"
          PROVE  Writes(replaceTaggedSellItemsWithReceipts(i))
        <2> DEFINE f == [s \in S |-> Marked("receipt", 1, i)]
        <2>1. DOMAIN f = S /\ \A s \in S : Write(inv[s], f[s])
            BY <1>1, <1>4 DEF Write, EscrowStatus
        <2>3. replaceTaggedSellItemsWithReceipts(i) = Replaced(f)
            BY DEF replaceTaggedSellItemsWithReceipts
        <2> HIDE DEF f, S
        <2> QED BY <1>1, <2>1, <2>3, ReplacedWrites
    <1>5. ASSUME escrows[i].status = "ORDERED"
          PROVE  Writes(removeTaggedSellItemsAndReceipts(i))
        <2> DEFINE f == [s \in R |-> Empty]
        <2>1. DOMAIN f = R /\ \A s \in R : Write(inv[s], f[s])
            BY <1>2, <1>5 DEF Write, EscrowStatus
        <2>3. removeTaggedSellItemsAndReceipts(i) = Replaced(f)
            BY DEF removeTaggedSellItemsAndReceipts
        <2> HIDE DEF f, R
        <2> QED BY <1>2, <2>1, <2>3, ReplacedWrites
    <1>6. ASSUME escrows[i].status = "CANCELED"
          PROVE  Writes(restoreAndRemoveReceipts(i))
        <2> DEFINE f == [s \in R |-> IF inv[s].kind = "sell" THEN Plain(inv[s].n) ELSE Empty]
        <2>1. DOMAIN f = R /\ \A s \in R : Write(inv[s], f[s])
            BY <1>2, <1>6 DEF Write, EscrowStatus
        <2>3. restoreAndRemoveReceipts(i) = Replaced(f)
            BY DEF restoreAndRemoveReceipts
        <2> HIDE DEF f, R
        <2> QED BY <1>2, <2>1, <2>3, ReplacedWrites
    <1> QED BY <1>3, <1>4, <1>5, <1>6

LEMMA WritesMarks ==
    /\ Stage("tag") => \A S \in TagChoices(run.id) : Writes(tagSellItems(run.id, S))
    /\ Stage("add") => \A q \in Nat : Writes(addItem(run.id, q))
    <1>1. ASSUME Stage("tag"), NEW S \in TagChoices(run.id)
          PROVE  Writes(tagSellItems(run.id, S))
        <2> DEFINE f == [s \in S |-> Marked("sell", inv[s].n, run.id)]
        <2>1. S \in SUBSET Slots /\ \A s \in S : inv[s].kind = "plain"
            BY DEF TagChoices, PlainSlots
        <2>2. DOMAIN f = S /\ \A s \in S : Write(inv[s], f[s])
            BY <1>1, <2>1 DEF Write
        <2>3. tagSellItems(run.id, S) = Replaced(f)
            BY DEF tagSellItems
        <2> HIDE DEF f
        <2> QED BY <2>1, <2>2, <2>3, ReplacedWrites
    <1>2. ASSUME Stage("add"), NEW q \in Nat PROVE Writes(addItem(run.id, q))
        <2> DEFINE before(s) == StackSize * Cardinality({t \in EmptySlots : t < s})
                   amount(s) == lesser(StackSize, q - before(s))
                   S == {t \in EmptySlots : amount(t) > 0}
                   f == [s \in S |-> Marked("claim", amount(s), run.id)]
        <2>1. S \in SUBSET Slots /\ \A s \in S : inv[s].kind = "none"
            BY DEF EmptySlots
        <2>2. \A s \in S : amount(s) \in 1 .. StackSize
            <3> TAKE s \in S
            <3>1. Cardinality({t \in EmptySlots : t < s}) \in Nat
                BY BoundsAreNat, FS_Subset, FS_CardinalityType DEF EmptySlots
            <3> DEFINE k == Cardinality({t \in EmptySlots : t < s})
            <3>2. k \in Nat
                BY <3>1
            <3> HIDE DEF k
            <3>3. StackSize * k \in Nat
                BY <3>2, BoundsAreNat
            <3>4. /\ lesser(StackSize, q - StackSize * k) \in Int
                  /\ lesser(StackSize, q - StackSize * k) <= StackSize
                BY <3>3, BoundsAreNat DEF lesser
            <3> QED BY <3>4 DEF k
        <2>3. DOMAIN f = S
            OBVIOUS
        <2>4. ASSUME NEW s \in S PROVE Write(inv[s], f[s])
            <3>1. f[s] = Marked("claim", amount(s), run.id) /\ inv[s].kind = "none"
                BY <2>1
            <3>2. amount(s) \in 1 .. StackSize
                BY <2>2
            <3> HIDE DEF f, amount, S
            <3> QED BY <3>1, <3>2, <1>2 DEF Write
        <2>5. addItem(run.id, q) = Replaced(f)
            BY DEF addItem
        <2> HIDE DEF f, S, amount
        <2> QED BY <2>1, <2>3, <2>4, <2>5, ReplacedWrites
    <1> QED BY <1>1, <1>2

\* What a kill can interrupt are such writes too.
LEMMA TargetsWrite ==
    ASSUME TypeInv, NEW target \in Targets
    PROVE  Writes(target)
    <1>0. Writes(inv)
        BY DEF Writes, Write, TypeInv, InventoryType, Stacks
    <1>1. CASE Stage("tag")
        BY <1>1, WritesMarks DEF Targets
    <1>2. CASE Stage("add")
        <2>1. claims[run.id].quantity \in Nat
            BY <1>2 DEF TypeInv, Current, RowsType, ClaimsType, GoodClaim, DeliveryClaim
        <2>2. target = addItem(run.id, claims[run.id].quantity)
            BY <1>2 DEF Targets, Stage
        <2> QED BY <1>2, <2>1, <2>2, WritesMarks
    <1>3. CASE Stage("clear")
        <2>1. claims[run.id].status = "APPLIED"
            BY <1>3 DEF TypeInv, Current
        <2>2. target = clearDeliveryClaimTag(run.id)
            BY <1>3 DEF Targets, Stage
        <2> QED BY <2>1, <2>2, WritesClaims
    <1>4. CASE Stage("escrows") /\ run.todo # {}
        <2>1. \/ /\ escrows[First].status = "PREPARED"
                 /\ target = restoreTaggedSellItems(First)
              \/ /\ escrows[First].status = "TAGGED"
                 /\ target = replaceTaggedSellItemsWithReceipts(First)
              \/ /\ escrows[First].status = "ORDERED"
                 /\ target = removeTaggedSellItemsAndReceipts(First)
              \/ target = inv
            BY <1>4 DEF Targets, Stage
        <2> QED BY <2>1, <1>0, WritesEscrows
    <1>5. CASE Stage("sellMarkers") /\ run.todo # {}
        <2>1. \/ /\ escrows[First].status = "ORDERED"
                 /\ target = removeTaggedSellItemsAndReceipts(First)
              \/ /\ escrows[First].status = "CANCELED"
                 /\ target = restoreAndRemoveReceipts(First)
              \/ target = inv
            BY <1>5 DEF Targets, Stage
        <2> QED BY <2>1, <1>0, WritesEscrows
    <1>6. CASE run.todo # {} /\ run.stage \in {"claimMarkers", "claims"}
        <2>1. claims[First].status = "APPLIED" /\ target = clearDeliveryClaimTag(First)
            BY <1>6 DEF Targets, Stage
        <2> QED BY <2>1, WritesClaims
    <1> QED BY <1>1, <1>2, <1>3, <1>4, <1>5, <1>6 DEF Targets, Stage

\* The inventory is written, a stack used up, or the inventory the game
\* saved last is back.
TakenBack == ~Durable /\ inv' = saved /\ UNCHANGED <<rows, saved>> /\ run' = At("down")

\* A kill while the stack of one slot, of an applied claim, is out of it.
Torn ==
    \E k \in Slots :
        /\ Durable
        /\ inv[k].kind = "claim" /\ claims[inv[k].id].status = "APPLIED"
        /\ inv' = [s \in Slots |-> inv'[s]] /\ inv'[k] = Empty
        /\ \A s \in Slots \ {k} : Write(inv[s], inv'[s])
        /\ UNCHANGED <<rows, outside>>
        /\ lost' = lost + inv[k].n
        /\ used' = [used EXCEPT !.kills = @ + 1]

StackEffect == Writes(inv') \/ UsesUp \/ TakenBack \/ Torn

LEMMA KillTears ==
    ASSUME TypeInv, kill, Durable, NEW target \in Targets, NEW k \in Slots,
           inv[k].kind = "claim", target[k].kind = "plain",
           inv' = Emptied(target, k), lost' = lost + inv[k].n
    PROVE  Torn
    <1>1. Writes(target)
        BY TargetsWrite
    <1>2. claims[inv[k].id].status = "APPLIED"
        <2>1. Write(inv[k], target[k])
            BY <1>1 DEF Writes
        <2> QED BY <2>1 DEF Write, Empty, Marked
    <1>3. /\ inv' = [s \in Slots |-> inv'[s]] /\ inv'[k] = Empty
          /\ \A s \in Slots \ {k} : inv'[s] = inv[s] \/ inv'[s] = target[s]
        BY DEF Emptied, Partly
    <1>4. \A s \in Slots \ {k} : Write(inv[s], inv'[s])
        BY <1>1, <1>3 DEF Writes, Write
    <1>5. UNCHANGED <<rows, outside>> /\ used' = [used EXCEPT !.kills = @ + 1]
        BY DEF kill, Use
    <1> QED BY <1>2, <1>3, <1>4, <1>5 DEF Torn

LEMMA StackEffects == TypeInv /\ [Next]_vars => StackEffect
    <1> SUFFICES ASSUME TypeInv, [Next]_vars PROVE StackEffect
        OBVIOUS
    <1>0. UNCHANGED inv => Writes(inv')
        BY DEF Writes, Write, TypeInv, InventoryType, Stacks
    <1>1. CASE tagItems
        <2>1. \E S \in TagChoices(run.id) : inv' = tagSellItems(run.id, S)
            BY <1>1 DEF tagItems
        <2> QED BY <1>1, <2>1, WritesMarks DEF tagItems, StackEffect
    <1>2. CASE cancelShort \/ placeOrder \/ placeOrderThrows \/ cleanUp
               \/ removeOrdered \/ otherSellMarker
        BY <1>0, <1>2, WritesEscrows DEF cancelShort, placeOrder, placeOrderThrows,
           cleanUp, removeOrdered, otherSellMarker, Working, StackEffect
    <1>3. CASE clearApplied \/ otherClaimMarker \/ cleanClaim
        BY <1>0, <1>3, WritesClaims DEF clearApplied, otherClaimMarker, cleanClaim,
           MarkedClaim, StackEffect
    <1>4. CASE clearDelivered
        <2>1. claims[run.id].status = "APPLIED" /\ inv' = clearDeliveryClaimTag(run.id)
            BY <1>4 DEF clearDelivered, TypeInv, Current
        <2> QED BY <2>1, WritesClaims DEF StackEffect
    <1>5. CASE addDelivered
        <2>1. /\ Stage("add") /\ claims[run.id].quantity \in Nat
              /\ inv' = addItem(run.id, claims[run.id].quantity)
            BY <1>5 DEF addDelivered, TypeInv, Current, RowsType, ClaimsType,
               GoodClaim, DeliveryClaim
        <2> QED BY <2>1, WritesMarks DEF StackEffect
    <1>6. CASE kill
        <2>1. CASE ~Durable
            BY <1>6, <2>1 DEF kill, StackEffect, TakenBack
        <2>2. ASSUME NEW target \in Targets, NEW done \in SUBSET Slots,
                     inv' = Partly(target, done)
              PROVE  Writes(inv')
            <3>1. Writes(target)
                BY TargetsWrite
            <3>2. /\ inv' = [s \in Slots |-> inv'[s]]
                  /\ \A s \in Slots : inv'[s] = IF s \in done THEN target[s] ELSE inv[s]
                BY <2>2 DEF Partly
            <3> QED BY <3>1, <3>2 DEF Writes, Write
        <2>3. CASE Durable
            BY <1>0, <1>6, <2>2, <2>3, KillTears DEF kill, StackEffect
        <2> QED BY <2>1, <2>3
    <1>7. CASE \E s \in Slots : useStack(s)
        BY <1>7 DEF useStack, StackEffect, UsesUp
    <1>8. CASE \/ \E type \in {"LIMIT", "MARKET"}, q \in Quantities :
                     submitSellEscrow(type, q)
               \/ \E q \in Quantities : deliveryArrives(q)
               \/ inventoryInsufficient \/ retryExecute \/ markTagged \/ finishClaim
               \/ reserveDelivery
        BY <1>0, <1>8 DEF submitSellEscrow, deliveryArrives, inventoryInsufficient,
           retryExecute, markTagged, finishClaim, reserveDelivery, StackEffect
    <1>9. CASE \/ nextLoop \/ queryFails \/ claimDeliveries \/ onPlayerJoin
               \/ save \/ toggleMarket \/ UNCHANGED vars
        BY <1>0, <1>9 DEF nextLoop, queryFails, claimDeliveries, onPlayerJoin, save,
           toggleMarket, vars, StackEffect
    <1> QED BY <1>1, <1>2, <1>3, <1>4, <1>5, <1>6, <1>7, <1>8, <1>9 DEF Next, work

LEMMA GoodWritten ==
    ASSUME TypeInv, NEW old, NEW new, GoodStack(old, escrows, claims), Write(old, new)
    PROVE  GoodStack(new, escrows, claims)
    <1>0. old \in Stack /\ StackSize \in Nat /\ StackSize > 0
        BY BoundsAreNat DEF GoodStack
    <1>1. CASE new = old
        BY <1>1
    <1>2. CASE new = Empty
        BY <1>0, <1>2 DEF GoodStack, Stack, Empty, Kinds
    <1>3. CASE new = Plain(old.n) /\ old.kind # "none"
        BY <1>0, <1>3 DEF GoodStack, Stack, Plain, Kinds
    <1>4. CASE /\ old.kind = "sell" /\ EscrowStatus(old) = "TAGGED"
               /\ new = Marked("receipt", 1, old.id)
        BY <1>0, <1>4 DEF GoodStack, Stack, Marked, Kinds, EscrowStatus
    <1>5. CASE old.kind = "plain" /\ Stage("tag") /\ new = Marked("sell", old.n, run.id)
        <2>1. run.id \in DOMAIN escrows /\ run.id \in Nat
            BY <1>5 DEF TypeInv, Current, RunType, Stage
        <2> QED BY <1>0, <1>5, <2>1 DEF GoodStack, Stack, Marked, Kinds
    <1>6. ASSUME old.kind = "none", Stage("add"), NEW n \in 1 .. StackSize,
                 new = Marked("claim", n, run.id)
          PROVE  GoodStack(new, escrows, claims)
        <2>1. run.id \in DOMAIN claims /\ run.id \in Nat
            BY <1>6 DEF TypeInv, Current, RunType
        <2> QED BY <1>0, <1>6, <2>1 DEF GoodStack, Stack, Marked, Kinds
    <1> QED BY <1>1, <1>2, <1>3, <1>4, <1>5, <1>6 DEF Write

LEMMA GoodLater ==
    ASSUME EscrowEffect, ClaimEffect, NEW st, GoodStack(st, escrows, claims)
    PROVE  GoodStack(st, escrows', claims')
    BY DEF EscrowEffect, ClaimEffect, ClaimsKept, Forward, GoodStack

\* What is written is good for the rows before the step.
LEMMA WrittenGood == TypeInv /\ [Next]_vars
                        => \A s \in Slots : GoodStack(inv'[s], escrows, claims)
    <1> SUFFICES ASSUME TypeInv, [Next]_vars
                 PROVE  \A s \in Slots : GoodStack(inv'[s], escrows, claims)
        OBVIOUS
    <1>0. GoodStack(Empty, escrows, claims)
        BY BoundsAreNat DEF GoodStack, Stack, Empty, Kinds
    <1>1. StackEffect
        BY StackEffects
    <1>2. /\ inv \in [Slots -> Stack]
          /\ \A s \in Slots : GoodStack(inv[s], escrows, claims)
          /\ Durable \/ \A s \in Slots : GoodStack(saved[s], escrows, claims)
        BY DEF TypeInv, InventoryType, Stacks
    <1>3. CASE Writes(inv')
        BY <1>2, <1>3, GoodWritten DEF Writes
    <1>4. CASE UsesUp
        <2> QED BY <1>2, <1>0, <1>4 DEF UsesUp
    <1>5. CASE TakenBack
        BY <1>2, <1>5 DEF TakenBack
    <1>6. CASE Torn
        <2>1. \A s \in Slots : inv'[s] = Empty \/ Write(inv[s], inv'[s])
            BY <1>6 DEF Torn
        <2> QED BY <1>0, <1>2, <2>1, GoodWritten
    <1> QED BY <1>1, <1>3, <1>4, <1>5, <1>6 DEF StackEffect

LEMMA InventoryStep == TypeInv /\ [Next]_vars => InventoryType'
    <1> SUFFICES ASSUME TypeInv, [Next]_vars PROVE InventoryType'
        OBVIOUS
    <1>1. EscrowEffect /\ ClaimEffect /\ StackEffect
        BY RowEffects, EscrowEffects, ClaimEffects, StackEffects DEF TypeInv
    <1>2. /\ inv \in [Slots -> Stack]
          /\ \A s \in Slots : GoodStack(inv[s], escrows, claims)
          /\ Durable \/ /\ saved \in [Slots -> Stack]
                        /\ \A s \in Slots : GoodStack(saved[s], escrows, claims)
        BY DEF TypeInv, InventoryType, Stacks
    <1>3. \A s \in Slots : GoodStack(inv'[s], escrows, claims)
        BY WrittenGood
    <1>4. \A s \in Slots : GoodStack(inv'[s], escrows', claims')
        BY <1>1, <1>3, GoodLater
    <1>5. inv' = [s \in Slots |-> inv'[s]]
        <2>1. inv = [s \in Slots |-> inv[s]] /\ DOMAIN inv = Slots
            BY <1>2
        <2>2. CASE UsesUp
            <3>1. PICK k \in Slots : inv' = [inv EXCEPT ![k] = Empty]
                BY <2>2 DEF UsesUp
            <3> QED BY <2>1, <3>1
        <2>3. CASE TakenBack
            BY <1>2, <2>3 DEF TakenBack
        <2> QED BY <1>1, <2>2, <2>3 DEF StackEffect, Writes, Torn
    <1>6. inv' \in [Slots -> Stack]
        <2>1. \A s \in Slots : inv'[s] \in Stack
            BY <1>4 DEF GoodStack
        <2> QED BY <1>5, <2>1
    <1>7. UNCHANGED saved \/ (saved' = inv /\ ~Durable)
        BY DEF Next, work, vars, submitSellEscrow, tagItems, inventoryInsufficient,
           retryExecute, cancelShort, markTagged, placeOrder, placeOrderThrows, cleanUp,
           clearApplied, otherClaimMarker, removeOrdered, otherSellMarker, finishClaim,
           cleanClaim, reserveDelivery, addDelivered, clearDelivered, nextLoop,
           queryFails, claimDeliveries, onPlayerJoin, kill, save, deliveryArrives,
           useStack, toggleMarket
    <1>8. Durable' \/ /\ saved' \in [Slots -> Stack]
                      /\ \A s \in Slots : GoodStack(saved'[s], escrows', claims')
        <2>1. CASE saved' = inv
            BY <1>1, <1>2, <2>1, GoodLater
        <2>2. CASE UNCHANGED saved
            BY <1>1, <1>2, <2>2, GoodLater DEF Durable
        <2> QED BY <1>7, <2>1, <2>2
    <1> QED BY <1>4, <1>6, <1>8 DEF InventoryType, Stacks

-----------------------------------------------------------------------------
(* Where the main thread goes *)

Goes(s, m, i, T) == run' = [stage |-> s, mode |-> m, id |-> i, todo |-> T]

LEMMA RunUpdates ==
    ASSUME RunType, NEW s, NEW i, NEW m, NEW T
    PROVE  /\ Loop(T) => Goes(run.stage, run.mode, run.id, T)
           /\ Advance(s, T) => Goes(s, run.mode, run.id, T)
           /\ run' = [run EXCEPT !.stage = s, !.mode = m, !.todo = T]
                 => Goes(s, m, run.id, T)
           /\ run' = [run EXCEPT !.stage = s, !.id = i, !.todo = T]
                 => Goes(s, run.mode, i, T)
           /\ run' = At(s) => Goes(s, "claim", 0, {})
           /\ run' = [At(s) EXCEPT !.mode = m, !.id = i] => Goes(s, m, i, {})
           /\ run' = StartClaiming => Goes("claimMarkers", "claim", 0, IdsOf("claim"))
           /\ run' = run => Goes(run.stage, run.mode, run.id, run.todo)
    <1>1. run = [stage |-> run.stage, mode |-> run.mode, id |-> run.id, todo |-> run.todo]
        BY DEF RunType
    <1>2. Loop(T) => Goes(run.stage, run.mode, run.id, T)
        BY <1>1 DEF Loop, Goes
    <1>3. Advance(s, T) => Goes(s, run.mode, run.id, T)
        BY <1>1 DEF Advance, Goes
    <1>4. run' = [run EXCEPT !.stage = s, !.mode = m, !.todo = T] => Goes(s, m, run.id, T)
        BY <1>1 DEF Goes
    <1>5. run' = [run EXCEPT !.stage = s, !.id = i, !.todo = T] => Goes(s, run.mode, i, T)
        BY <1>1 DEF Goes
    <1>6. run' = At(s) => Goes(s, "claim", 0, {})
        BY DEF At, Goes
    <1>7. run' = [At(s) EXCEPT !.mode = m, !.id = i] => Goes(s, m, i, {})
        BY DEF At, Goes
    <1>8. run' = StartClaiming => Goes("claimMarkers", "claim", 0, IdsOf("claim"))
        BY DEF At, StartClaiming, Goes
    <1> QED BY <1>1, <1>2, <1>3, <1>4, <1>5, <1>6, <1>7, <1>8 DEF Goes

ControlInv == RunType /\ Lists /\ Current

LoopStages == {"escrows", "claimMarkers", "sellMarkers", "claims", "deliveries"}
RunEffect ==
    \/ Goes("idle", "claim", 0, {}) \/ Goes("down", "claim", 0, {})
    \/ Goes("claimMarkers", "claim", 0, IdsOf("claim"))
    \/ run.mode = "submit" /\ Goes("rescue", "submit", run.id, {})
    \/ /\ run.stage \in LoopStages
       /\ \E T \in SUBSET run.todo : Goes(run.stage, run.mode, run.id, T)
       /\ deliveries' = deliveries \/ ~Stage("deliveries")
    \/ run' = run /\ run.stage \in {"idle", "down"}
    \/ UNCHANGED <<run, rows>> /\ (Stage("idle") \/ UNCHANGED inv)
    \/ Prepares /\ Goes("tag", "submit", Len(escrows) + 1, {}) /\ UNCHANGED inv
    \/ Stage("tag") /\ Goes("escrows", run.mode, run.id, {run.id})
    \/ Stage("rescue") /\ Goes("escrows", "rescue", run.id, unfinishedSellEscrows)
    \/ run.mode = "rescue" /\ Goes("retry", "rescue", run.id, {})
    \/ /\ run.mode = "claim"
       /\ \/ Goes("sellMarkers", "claim", run.id, IdsOf("sell") \cup IdsOf("receipt"))
          \/ Goes("escrows", "claim", run.id, unfinishedSellEscrows)
          \/ Goes("claims", "claim", run.id, unfinishedDeliveryClaims)
          \/ /\ Goes("deliveries", "claim", run.id, pendingDeliveries)
             /\ UNCHANGED rows
          \/ /\ Stage("deliveries") /\ run.todo # {}
             /\ Goes("add", "claim", NewClaim, Rest)
             /\ prepareDeliveryClaim(First, Unreserved(deliveries[First]))
             /\ UNCHANGED inv
          \/ /\ Stage("add")
             /\ \E n \in 0 .. claims[run.id].quantity, T \in {{}, run.todo} :
                   /\ completeDeliveryClaim(run.id, n)
                   /\ Goes(IF n = 0 THEN "deliveries" ELSE "clear", "claim", run.id, T)
          \/ /\ Stage("clear") /\ Goes("deliveries", "claim", run.id, run.todo)
             /\ UNCHANGED deliveries

LEMMA RunEffects == TypeInv /\ [Next]_vars => RunEffect
    <1> SUFFICES ASSUME TypeInv, [Next]_vars PROVE RunEffect
        OBVIOUS
    <1>t. RunType /\ Lists /\ Current /\ Stacks(inv) /\ RowsType
        BY DEF TypeInv, InventoryType
    <1>a. Throw => \/ run.mode = "submit" /\ Goes("rescue", "submit", run.id, {})
                   \/ Goes("idle", "claim", 0, {})
        <2>1. ASSUME run' = [run EXCEPT !.stage = "rescue", !.todo = {}], run.mode = "submit"
              PROVE  Goes("rescue", "submit", run.id, {})
            BY <1>t, <2>1, RunUpdates DEF Advance
        <2>2. run' = At("idle") => Goes("idle", "claim", 0, {})
            BY <1>t, RunUpdates
        <2> QED BY <2>1, <2>2 DEF Throw
    <1>b. run.todo # {} => Rest \subseteq run.todo /\ run.todo \subseteq run.todo
        BY DEF Rest
    <1>1. CASE \E type \in {"LIMIT", "MARKET"}, q \in Quantities : submitSellEscrow(type, q)
        <2>1. /\ Prepares /\ UNCHANGED inv
              /\ \/ run' = [At("tag") EXCEPT !.mode = "submit", !.id = Len(escrows) + 1]
                 \/ run' = At("idle")
            BY <1>1 DEF submitSellEscrow, Prepares
        <2>2. Goes("tag", "submit", Len(escrows) + 1, {}) \/ Goes("idle", "claim", 0, {})
            BY <2>1, <1>t, RunUpdates
        <2> QED BY <2>1, <2>2 DEF RunEffect
    <1>2. CASE tagItems
        <2>1. Stage("tag") /\ (Throw \/ Advance("escrows", {run.id}))
            BY <1>2 DEF tagItems, Call
        <2>2. Advance("escrows", {run.id}) => Goes("escrows", run.mode, run.id, {run.id})
            BY <1>t, RunUpdates
        <2> QED BY <2>1, <2>2, <1>a DEF RunEffect
    <1>3. CASE inventoryInsufficient \/ placeOrderThrows
        BY <1>3, <1>a DEF inventoryInsufficient, placeOrderThrows, RunEffect
    <1>4. CASE retryExecute \/ claimDeliveries \/ onPlayerJoin \/ queryFails \/ kill
        <2>1. run' = StartClaiming \/ run' = At("idle") \/ run' = At("down")
            BY <1>4 DEF retryExecute, claimDeliveries, onPlayerJoin, queryFails, kill
        <2>2. \/ Goes("claimMarkers", "claim", 0, IdsOf("claim"))
              \/ Goes("idle", "claim", 0, {}) \/ Goes("down", "claim", 0, {})
            BY <2>1, <1>t, RunUpdates
        <2> QED BY <2>2 DEF RunEffect
    <1>5. CASE cancelShort \/ markTagged \/ placeOrder \/ cleanUp \/ removeOrdered
               \/ otherSellMarker \/ clearApplied \/ otherClaimMarker \/ cleanClaim
               \/ finishClaim
        <2>1. /\ run.stage \in {"escrows", "claimMarkers", "sellMarkers", "claims"}
              /\ (Throw \/ \E T \in {Rest, run.todo} : Loop(T))
            BY <1>5 DEF cancelShort, markTagged, placeOrder, cleanUp, removeOrdered,
               otherSellMarker, clearApplied, otherClaimMarker, cleanClaim, finishClaim,
               Working, MarkedEscrow, MarkedClaim, Stage, Call
        <2>2. \A T : Loop(T) => Goes(run.stage, run.mode, run.id, T)
            BY <1>t, RunUpdates
        <2>3. Rest \in SUBSET run.todo /\ run.todo \in SUBSET run.todo
            BY DEF Rest
        <2> QED BY <2>1, <2>2, <2>3, <1>a DEF RunEffect, LoopStages, Stage
    <1>6. CASE reserveDelivery
        <2>1. /\ Stage("deliveries") /\ run.todo # {} /\ UNCHANGED inv
              /\ \/ Throw
                 \/ /\ prepareDeliveryClaim(First, Unreserved(deliveries[First]))
                    /\ run' = [run EXCEPT !.stage = "add", !.id = NewClaim, !.todo = Rest]
            BY <1>6 DEF reserveDelivery, Call
        <2>2. run.mode = "claim"
            BY <2>1, <1>t DEF Current, Stage
        <2>3. run' = [run EXCEPT !.stage = "add", !.id = NewClaim, !.todo = Rest]
                => Goes("add", "claim", NewClaim, Rest)
            BY <2>2, <1>t DEF RunType, Goes
        <2> QED BY <2>1, <2>2, <2>3, <1>a DEF RunEffect
    <1>7. CASE addDelivered
        <2> DEFINE q == claims[run.id].quantity
                   n == Delivered(q)
                   T == IF n < q THEN {} ELSE run.todo
                   s == IF n = 0 THEN "deliveries" ELSE "clear"
        <2>1. Throw \/ (completeDeliveryClaim(run.id, n) /\ Advance(s, T))
            BY <1>7 DEF addDelivered, Call
        <2>2. run.mode = "claim" /\ q \in Nat
            BY <1>7, <1>t DEF addDelivered, Current, Stage, RowsType, ClaimsType, GoodClaim,
               DeliveryClaim
        <2>3. n \in 0 .. q
            BY <2>2, DeliveredFacts
        <2>4. Advance(s, T) => Goes(s, "claim", run.id, T)
            BY <2>2, <1>t, RunUpdates
        <2>5. T \in {{}, run.todo}
            OBVIOUS
        <2>6. Stage("add")
            BY <1>7 DEF addDelivered
        <2> HIDE DEF n, T
        <2> QED BY <2>1, <2>2, <2>3, <2>4, <2>5, <2>6, <1>a DEF RunEffect
    <1>8. CASE clearDelivered
        <2>1. /\ Stage("clear") /\ UNCHANGED deliveries
              /\ (Throw \/ Advance("deliveries", run.todo))
            BY <1>8 DEF clearDelivered, Call
        <2>2. run.mode = "claim"
            BY <2>1, <1>t DEF Current, Stage
        <2>3. Advance("deliveries", run.todo) => Goes("deliveries", "claim", run.id, run.todo)
            BY <2>2, <1>t, RunUpdates
        <2> QED BY <2>1, <2>2, <2>3, <1>a DEF RunEffect
    <1>9. CASE nextLoop
        <2>0. UNCHANGED rows
            BY <1>9 DEF nextLoop
        <2>1. CASE Stage("rescue")
            <3>1. run' = [run EXCEPT !.stage = "escrows", !.mode = "rescue",
                                     !.todo = unfinishedSellEscrows]
                BY <1>9, <2>1 DEF nextLoop, Stage
            <3>2. Goes("escrows", "rescue", run.id, unfinishedSellEscrows)
                BY <3>1, <1>t, RunUpdates
            <3> QED BY <2>1, <3>2 DEF RunEffect
        <2>2. CASE Stage("escrows") /\ run.mode = "rescue"
            <3>1. Advance("retry", {})
                BY <1>9, <2>2 DEF nextLoop, Stage
            <3>2. Goes("retry", "rescue", run.id, {})
                BY <3>1, <2>2, <1>t, RunUpdates
            <3> QED BY <2>2, <3>2 DEF RunEffect
        <2>3. CASE Stage("escrows") /\ run.mode = "submit"
            <3>1. run' = StartClaiming
                BY <1>9, <2>3 DEF nextLoop, Stage
            <3>2. Goes("claimMarkers", "claim", 0, IdsOf("claim"))
                BY <3>1, <1>t, RunUpdates
            <3> QED BY <3>2 DEF RunEffect
        <2>4. CASE Stage("deliveries")
            <3>1. run' = At("idle")
                BY <1>9, <2>4 DEF nextLoop, Stage
            <3>2. Goes("idle", "claim", 0, {})
                BY <3>1, <1>t, RunUpdates
            <3> QED BY <3>2 DEF RunEffect
        <2>5. CASE run.mode = "claim" /\ ~Stage("rescue") /\ ~Stage("deliveries")
            <3>1. \/ Advance("sellMarkers", IdsOf("sell") \cup IdsOf("receipt"))
                  \/ Advance("escrows", unfinishedSellEscrows)
                  \/ Advance("claims", unfinishedDeliveryClaims)
                  \/ Advance("deliveries", pendingDeliveries)
                BY <1>9, <2>5 DEF nextLoop, Stage
            <3>2. \A s, T : Advance(s, T) => Goes(s, "claim", run.id, T)
                BY <2>5, <1>t, RunUpdates
            <3> QED BY <2>0, <2>5, <3>1, <3>2 DEF RunEffect
        <2>6. Stage("claimMarkers") \/ Stage("sellMarkers") \/ Stage("claims")
                 => run.mode = "claim"
            BY <1>t DEF Current, Stage
        <2>7. run.mode \in {"submit", "rescue", "claim"}
            BY <1>t DEF RunType
        <2> QED BY <1>9, <2>1, <2>2, <2>3, <2>4, <2>5, <2>6, <2>7 DEF nextLoop, Stage
    <1>10. CASE \/ \E q \in Quantities : deliveryArrives(q)
                \/ \E s \in Slots : useStack(s)
                \/ toggleMarket \/ save \/ UNCHANGED vars
        BY <1>10 DEF deliveryArrives, useStack, toggleMarket, save, vars, RunEffect,
           Stage, rows
    <1> QED BY <1>1, <1>2, <1>3, <1>4, <1>5, <1>6, <1>7, <1>8, <1>9, <1>10 DEF Next, work

\* The lists that are read for the next loop name rows that are there.
LEMMA ListsRead ==
    ASSUME TypeInv
    PROVE  /\ IdsOf("claim") \subseteq DOMAIN claims
           /\ IdsOf("sell") \cup IdsOf("receipt") \subseteq DOMAIN escrows
           /\ unfinishedSellEscrows \subseteq DOMAIN escrows
           /\ unfinishedDeliveryClaims \subseteq DOMAIN claims
           /\ \A d \in pendingDeliveries : d \in DOMAIN deliveries
                                           /\ Unreserved(deliveries[d]) > 0
           /\ DOMAIN claims \subseteq Nat /\ DOMAIN escrows \subseteq Nat
           /\ DOMAIN deliveries \subseteq Nat
    <1>1. \A s \in Slots : GoodStack(inv[s], escrows, claims)
        BY DEF TypeInv, InventoryType, Stacks
    <1>2. IdsOf("claim") \subseteq DOMAIN claims
        BY <1>1 DEF IdsOf, GoodStack
    <1>3. IdsOf("sell") \cup IdsOf("receipt") \subseteq DOMAIN escrows
        BY <1>1 DEF IdsOf, GoodStack
    <1>4. /\ DOMAIN claims = 1 .. Len(claims) /\ Len(claims) \in Nat
          /\ DOMAIN escrows = 1 .. Len(escrows) /\ Len(escrows) \in Nat
          /\ DOMAIN deliveries = 1 .. Len(deliveries) /\ Len(deliveries) \in Nat
        BY DEF TypeInv, RowsType, ClaimsType, EscrowsType, DeliveriesType
    <1>5. /\ DOMAIN claims \subseteq Nat /\ DOMAIN escrows \subseteq Nat
          /\ DOMAIN deliveries \subseteq Nat
        BY <1>4
    <1> QED BY <1>2, <1>3, <1>5
            DEF unfinishedSellEscrows, unfinishedDeliveryClaims, pendingDeliveries

LEMMA GoesType ==
    ASSUME NEW s \in Stages, NEW m \in {"submit", "rescue", "claim"}, NEW i \in Nat,
           NEW T \in SUBSET Nat, Goes(s, m, i, T)
    PROVE  /\ RunType'
           /\ run'.stage = s /\ run'.mode = m /\ run'.id = i /\ run'.todo = T
    BY DEF Goes, RunType

\* The stages a loop, or nobody, is at know nothing but their lists.
LEMMA GoesPlain ==
    ASSUME NEW s, s \in {"idle", "down", "rescue", "escrows", "sellMarkers",
                         "claimMarkers", "claims", "retry"},
           NEW m \in {"submit", "rescue", "claim"}, NEW i \in Nat, NEW T \in SUBSET Nat,
           Goes(s, m, i, T),
           s \in {"escrows", "sellMarkers"} => T \subseteq DOMAIN escrows',
           s \in {"claimMarkers", "claims"} => T \subseteq DOMAIN claims',
           s \in {"claimMarkers", "sellMarkers", "claims"} => m = "claim",
           m \in {"submit", "rescue"} \/ s \in {"retry", "rescue"}
                => i \in DOMAIN escrows'
    PROVE  ControlInv'
    <1>0. s \in Stages
        BY DEF Stages
    <1>1. /\ RunType'
          /\ run'.stage = s /\ run'.mode = m /\ run'.id = i /\ run'.todo = T
        BY <1>0, GoesType
    <1>2. Lists'
        BY <1>1 DEF Lists
    <1>3. Current'
        BY <1>1 DEF Current, Stage
    <1> QED BY <1>1, <1>2, <1>3 DEF ControlInv

LEMMA GoesClaiming ==
    ASSUME NEW s, s \in {"deliveries", "add", "clear"}, NEW i \in Nat, NEW T \in SUBSET Nat,
           Goes(s, "claim", i, T),
           \A d \in T : d \in DOMAIN deliveries' /\ Unreserved(deliveries'[d]) > 0,
           s = "add" => i \in DOMAIN claims' /\ claims'[i].status = "PREPARED",
           s = "clear" => i \in DOMAIN claims' /\ claims'[i].status = "APPLIED"
    PROVE  ControlInv'
    <1>0. s \in Stages
        BY DEF Stages
    <1>1. /\ RunType'
          /\ run'.stage = s /\ run'.mode = "claim" /\ run'.id = i /\ run'.todo = T
        BY <1>0, GoesType
    <1>2. Lists'
        BY <1>1 DEF Lists
    <1>3. Current'
        BY <1>1 DEF Current, Stage
    <1> QED BY <1>1, <1>2, <1>3 DEF ControlInv

LEMMA ControlStep == TypeInv /\ [Next]_vars => ControlInv'
    <1> SUFFICES ASSUME TypeInv, [Next]_vars PROVE ControlInv'
        OBVIOUS
    <1>t. RunType /\ Lists /\ Current /\ RowsType /\ Len(escrows) \in Nat
        BY DEF TypeInv, RowsType, EscrowsType
    <1>r. /\ run.stage \in Stages /\ run.mode \in {"submit", "rescue", "claim"}
          /\ run.id \in Nat /\ run.todo \in SUBSET Nat
        BY <1>t DEF RunType
    <1>e. RunEffect /\ RowEffect /\ EscrowEffect /\ ClaimEffect /\ DeliveryEffect
        BY RunEffects, RowEffects, EscrowEffects, ClaimEffects, DeliveryEffects DEF TypeInv
    <1>g. /\ DOMAIN escrows \subseteq DOMAIN escrows' /\ DOMAIN claims \subseteq DOMAIN claims'
          /\ DOMAIN deliveries \subseteq DOMAIN deliveries'
        BY <1>e DEF EscrowEffect, ClaimEffect, ClaimsKept, DeliveryEffect, DeliveriesKept
    <1>l. /\ IdsOf("claim") \subseteq DOMAIN claims
          /\ IdsOf("sell") \cup IdsOf("receipt") \subseteq DOMAIN escrows
          /\ unfinishedSellEscrows \subseteq DOMAIN escrows
          /\ unfinishedDeliveryClaims \subseteq DOMAIN claims
          /\ \A d \in pendingDeliveries : d \in DOMAIN deliveries
                                          /\ Unreserved(deliveries[d]) > 0
          /\ DOMAIN claims \subseteq Nat /\ DOMAIN escrows \subseteq Nat
          /\ DOMAIN deliveries \subseteq Nat
        BY ListsRead
    <1>1. CASE Goes("idle", "claim", 0, {}) \/ Goes("down", "claim", 0, {})
        <2>1. PICK s \in {"idle", "down"} : Goes(s, "claim", 0, {})
            BY <1>1
        <2> QED BY <2>1, GoesPlain
    <1>2. CASE Goes("claimMarkers", "claim", 0, IdsOf("claim"))
        <2>1. IdsOf("claim") \in SUBSET Nat /\ IdsOf("claim") \subseteq DOMAIN claims'
            BY <1>g, <1>l
        <2> QED BY <1>2, <2>1, GoesPlain
    <1>3. CASE run.mode = "submit" /\ Goes("rescue", "submit", run.id, {})
        <2>1. run.id \in DOMAIN escrows'
            BY <1>3, <1>t, <1>g DEF Current
        <2> QED BY <1>3, <1>r, <2>1, GoesPlain
    <1>4. ASSUME run.stage \in LoopStages, NEW T \in SUBSET run.todo,
                 Goes(run.stage, run.mode, run.id, T),
                 deliveries' = deliveries \/ ~Stage("deliveries")
          PROVE  ControlInv'
        <2>1. CASE Stage("deliveries")
            <3>1. \A d \in T : d \in DOMAIN deliveries' /\ Unreserved(deliveries'[d]) > 0
                BY <1>4, <2>1, <1>t DEF Lists, Stage
            <3>2. run.mode = "claim" /\ run.stage = "deliveries" /\ T \in SUBSET Nat
                BY <2>1, <1>t, <1>r DEF Current, Stage
            <3> QED BY <1>4, <3>1, <3>2, <1>r, GoesClaiming
        <2>2. CASE ~Stage("deliveries")
            <3> DEFINE s == run.stage
                       m == run.mode
                       i == run.id
            <3>1. /\ s \in {"idle", "down", "rescue", "escrows", "sellMarkers",
                            "claimMarkers", "claims", "retry"}
                  /\ s \in {"escrows", "sellMarkers"} => T \subseteq DOMAIN escrows'
                  /\ s \in {"claimMarkers", "claims"} => T \subseteq DOMAIN claims'
                  /\ s \in {"claimMarkers", "sellMarkers", "claims"} => m = "claim"
                  /\ m \in {"submit", "rescue"} \/ s \in {"retry", "rescue"}
                        => i \in DOMAIN escrows'
                BY <1>4, <2>2, <1>t, <1>g DEF LoopStages, Lists, Current, Stage
            <3>2. Goes(s, m, i, T) /\ m \in {"submit", "rescue", "claim"} /\ i \in Nat
                  /\ T \in SUBSET Nat
                BY <1>4, <1>r
            <3> HIDE DEF s, m, i
            <3> QED BY ONLY <3>1, <3>2, GoesPlain
        <2> QED BY <2>1, <2>2
    <1>5. CASE run' = run /\ run.stage \in {"idle", "down"}
        BY <1>5, <1>t, <1>g DEF ControlInv, RunType, Lists, Current, Stage
    <1>6. CASE UNCHANGED <<run, rows>>
        BY <1>6, <1>t DEF ControlInv, RunType, Lists, Current, Stage, rows
    <1>7. CASE Prepares /\ Goes("tag", "submit", Len(escrows) + 1, {})
        <2>1. /\ Len(escrows) + 1 \in DOMAIN escrows'
              /\ escrows'[Len(escrows) + 1].status = "PREPARED"
            BY <1>7, <1>t, EscrowAdded DEF RowsType
        <2>2. "tag" \in Stages /\ Len(escrows) + 1 \in Nat
            BY <1>t DEF Stages
        <2>3. /\ RunType' /\ run'.stage = "tag" /\ run'.mode = "submit"
              /\ run'.id = Len(escrows) + 1 /\ run'.todo = {}
            BY <1>7, <2>2, GoesType
        <2> QED BY <2>1, <2>3 DEF ControlInv, Lists, Current, Stage
    <1>8. CASE Stage("tag") /\ Goes("escrows", run.mode, run.id, {run.id})
        <2>1. run.id \in DOMAIN escrows'
            BY <1>8, <1>t, <1>g DEF Current, Stage
        <2> DEFINE m == run.mode
                   T == {run.id}
                   i == run.id
        <2>2. m \in {"submit", "rescue", "claim"} /\ i \in Nat /\ T \in SUBSET Nat
              /\ T \subseteq DOMAIN escrows' /\ i \in DOMAIN escrows'
              /\ Goes("escrows", m, i, T)
            BY <1>8, <1>r, <2>1
        <2> HIDE DEF m, T, i
        <2> QED BY <2>2, GoesPlain
    <1>9. CASE Stage("rescue") /\ Goes("escrows", "rescue", run.id, unfinishedSellEscrows)
               /\ run.id \in DOMAIN escrows
        <2> DEFINE T == unfinishedSellEscrows
                   i == run.id
        <2>1. T \in SUBSET Nat /\ T \subseteq DOMAIN escrows' /\ i \in DOMAIN escrows'
              /\ Goes("escrows", "rescue", i, T) /\ i \in Nat
            BY <1>9, <1>g, <1>l, <1>r
        <2> HIDE DEF T, i
        <2> QED BY <2>1, GoesPlain
    <1>10. CASE run.mode = "rescue" /\ Goes("retry", "rescue", run.id, {})
        <2>1. run.id \in DOMAIN escrows'
            BY <1>10, <1>t, <1>g DEF Current
        <2> QED BY <1>10, <1>r, <2>1, GoesPlain
    <1>11. ASSUME NEW s, NEW T,
                  \/ s = "sellMarkers" /\ T = IdsOf("sell") \cup IdsOf("receipt")
                  \/ s = "escrows" /\ T = unfinishedSellEscrows
                  \/ s = "claims" /\ T = unfinishedDeliveryClaims,
                  Goes(s, "claim", run.id, T)
           PROVE  ControlInv'
        <2>1. /\ s \in {"sellMarkers", "escrows", "claims"} /\ T \in SUBSET Nat
              /\ s \in {"escrows", "sellMarkers"} => T \subseteq DOMAIN escrows'
              /\ s = "claims" => T \subseteq DOMAIN claims'
            BY <1>11, <1>g, <1>l
        <2> QED BY <1>11, <2>1, <1>r, GoesPlain
    <1>12. CASE Goes("deliveries", "claim", run.id, pendingDeliveries) /\ UNCHANGED rows
        <2>1. /\ pendingDeliveries \in SUBSET Nat
              /\ \A d \in pendingDeliveries : d \in DOMAIN deliveries'
                                              /\ Unreserved(deliveries'[d]) > 0
            BY <1>12, <1>l DEF rows
        <2> QED BY <1>12, <2>1, <1>r, GoesClaiming
    <1>13. CASE /\ Stage("deliveries") /\ run.todo # {}
                /\ Goes("add", "claim", NewClaim, Rest)
                /\ prepareDeliveryClaim(First, Unreserved(deliveries[First]))
        <2>1. /\ \A d \in run.todo : d \in DOMAIN deliveries /\ Unreserved(deliveries[d]) > 0
              /\ First \in run.todo
            BY <1>13, <1>t, FirstFacts DEF Lists, Stage
        <2>2. deliveries' = [deliveries EXCEPT ![First].reserved
                                                 = @ + Unreserved(deliveries[First])]
            BY <1>13 DEF prepareDeliveryClaim
        <2>3. \A d \in Rest : d \in DOMAIN deliveries' /\ Unreserved(deliveries'[d]) > 0
            <3>1. \A d \in Rest : d \in run.todo /\ d # First
                BY DEF Rest
            <3>2. \A d \in Rest : d \in DOMAIN deliveries' /\ deliveries'[d] = deliveries[d]
                BY <2>1, <2>2, <3>1
            <3> QED BY <2>1, <3>1, <3>2
        <2>4. NewClaim \in DOMAIN claims' /\ claims'[NewClaim].status = "PREPARED"
            BY <1>13 DEF prepareDeliveryClaim, insertClaim
        <2>5. NewClaim \in Nat /\ Rest \in SUBSET Nat
            BY <1>t, <1>r, NewClaimFacts DEF RowsType, Rest
        <2> QED BY <1>13, <2>3, <2>4, <2>5, GoesClaiming
    <1>14. ASSUME Stage("add"), NEW n \in 0 .. claims[run.id].quantity,
                  NEW T \in {{}, run.todo}, completeDeliveryClaim(run.id, n),
                  Goes(IF n = 0 THEN "deliveries" ELSE "clear", "claim", run.id, T)
           PROVE  ControlInv'
        <2>0. run.id \in DOMAIN claims
            BY <1>14, <1>t DEF Current
        <2>1. /\ DeliveriesKept
              /\ \A d \in DOMAIN deliveries :
                    Unreserved(deliveries'[d]) >= Unreserved(deliveries[d])
            BY <1>14, <1>t, <2>0, DeliveryCompleted
        <2>2. \A d \in T : d \in DOMAIN deliveries' /\ Unreserved(deliveries'[d]) > 0
            <3>1. \A d \in T : d \in DOMAIN deliveries /\ Unreserved(deliveries[d]) > 0
                BY <1>14, <1>t DEF Lists, Stage
            <3>2. \A d \in DOMAIN deliveries : Unreserved(deliveries[d]) \in Int
                BY <1>t, DeliveryTypes
            <3>4. \A d \in DOMAIN deliveries' : Unreserved(deliveries'[d]) \in Int
                <4>1. RowsType'
                    BY <1>e, RowsStep DEF TypeInv, InventoryType
                <4>2. UnreservedInts'
                    BY <4>1, UnreservedAreInts, PTL
                <4> QED BY <4>2 DEF UnreservedInts
            <3> QED BY <2>1, <3>1, <3>2, <3>4, <1>g
        <2>3. n # 0 => run.id \in DOMAIN claims' /\ claims'[run.id].status = "APPLIED"
            <3>1. claims' = [claims EXCEPT ![run.id].applied = n,
                                ![run.id].status = IF n = 0 THEN "CANCELED" ELSE "APPLIED",
                                ![run.id].cleaned = n = 0]
                BY <1>14 DEF completeDeliveryClaim
            <3>2. claims[run.id] \in DeliveryClaim
                BY <2>0, <1>t DEF RowsType, ClaimsType
            <3> QED BY <2>0, <3>1, <3>2 DEF DeliveryClaim
        <2> DEFINE s == IF n = 0 THEN "deliveries" ELSE "clear"
        <2>4. /\ s \in {"deliveries", "add", "clear"} /\ T \in SUBSET Nat
              /\ Goes(s, "claim", run.id, T) /\ s # "add" /\ (s = "clear" => n # 0)
            BY <1>14, <1>r
        <2> HIDE DEF s
        <2> QED BY <2>2, <2>3, <2>4, <1>r, GoesClaiming
    <1>15. CASE Stage("clear") /\ Goes("deliveries", "claim", run.id, run.todo)
                /\ UNCHANGED deliveries
        <2>1. \A d \in run.todo : d \in DOMAIN deliveries' /\ Unreserved(deliveries'[d]) > 0
            BY <1>15, <1>t DEF Lists, Stage
        <2> QED BY <1>15, <2>1, <1>r, GoesClaiming
    <1>16. Stage("rescue") => run.id \in DOMAIN escrows
        BY <1>t DEF Current, Stage
    <1> QED BY <1>e, <1>1, <1>2, <1>3, <1>4, <1>5, <1>6, <1>7, <1>8, <1>9, <1>10, <1>11,
               <1>12, <1>13, <1>14, <1>15, <1>16 DEF RunEffect

-----------------------------------------------------------------------------
(* The types are inductive *)

LEMMA CountersStep == TypeInv /\ [Next]_vars => active' \in BOOLEAN /\ used' \in Counters
    <1> SUFFICES ASSUME TypeInv, [Next]_vars PROVE active' \in BOOLEAN /\ used' \in Counters
        OBVIOUS
    <1>t. active \in BOOLEAN /\ used \in Counters
        BY DEF TypeInv
    <1>u. \A f \in {"escrows", "events", "faults", "kills", "toggles"} :
             \A max : Use(f, max) => used' \in Counters
        BY <1>t DEF Use, Counters
    <1>1. CASE \E type \in {"LIMIT", "MARKET"}, q \in Quantities : submitSellEscrow(type, q)
        <2>1. /\ active' = active
              /\ \/ used' = [used EXCEPT !.escrows = @ + 1]
                 \/ used' = [used EXCEPT !.escrows = @ + 1, !.faults = @ + 1]
            BY <1>1 DEF submitSellEscrow
        <2> DEFINE mid == [used EXCEPT !.escrows = @ + 1]
        <2>2. mid \in Counters
            BY <1>t DEF Counters
        <2>3. used' = mid \/ used' = [mid EXCEPT !.faults = @ + 1]
            BY <2>1, <1>t DEF Counters
        <2> HIDE DEF mid
        <2>4. used' \in Counters
            BY <2>2, <2>3 DEF Counters
        <2> QED BY <2>1, <2>4, <1>t
    <1>2. CASE tagItems \/ cancelShort \/ markTagged \/ placeOrder \/ cleanUp
               \/ clearApplied \/ removeOrdered
        BY <1>2, <1>t, <1>u DEF tagItems, cancelShort, markTagged, placeOrder, cleanUp,
           clearApplied, removeOrdered, Call
    <1>3. CASE finishClaim \/ cleanClaim \/ reserveDelivery \/ addDelivered
               \/ clearDelivered \/ retryExecute \/ queryFails
        BY <1>3, <1>t, <1>u DEF finishClaim, cleanClaim, reserveDelivery, addDelivered,
           clearDelivered, retryExecute, queryFails, Call
    <1>4. CASE inventoryInsufficient \/ placeOrderThrows \/ otherClaimMarker
               \/ otherSellMarker \/ nextLoop \/ claimDeliveries \/ onPlayerJoin \/ save
        BY <1>4, <1>t DEF inventoryInsufficient, placeOrderThrows, otherClaimMarker,
           otherSellMarker, nextLoop, claimDeliveries, onPlayerJoin, save
    <1>5. CASE \/ kill \/ toggleMarket \/ \E q \in Quantities : deliveryArrives(q)
               \/ \E s \in Slots : useStack(s)
        BY <1>5, <1>t, <1>u DEF kill, toggleMarket, deliveryArrives, useStack
    <1>6. CASE UNCHANGED vars
        BY <1>6, <1>t DEF vars
    <1> QED BY <1>1, <1>2, <1>3, <1>4, <1>5, <1>6 DEF Next, work

LEMMA TypeInit == Init => TypeInv
    <1> SUFFICES ASSUME Init PROVE TypeInv
        OBVIOUS
    <1>1. RowsType
        BY BoundsAreNat DEF Init, RowsType, EscrowsType, DeliveriesType, ClaimsType
    <1>2. Stacks(inv)
        <2>1. /\ \A s \in Slots : /\ StartInventory[s] \in Nat
                                  /\ StartInventory[s] <= StackSize
              /\ StackSize \in Nat
            BY ConstantsAssumption, BoundsAreNat
        <2>2. \A s \in Slots : GoodStack(inv[s], escrows, claims)
            BY <2>1 DEF Init, GoodStack, Stack, Empty, Plain, Kinds
        <2>3. inv \in [Slots -> Stack]
            BY <2>1 DEF Init, Stack, Empty, Plain, Kinds
        <2> QED BY <2>2, <2>3 DEF Stacks
    <1>3. Durable \/ Stacks(saved)
        BY <1>2 DEF Init, Durable, Stacks
    <1>4. RunType /\ Lists /\ Current
        BY DEF Init, At, RunType, Stages, Lists, Current, Stage
    <1>5. active \in BOOLEAN /\ used \in Counters
        BY DEF Init, NoUse, Counters
    <1> QED BY <1>1, <1>2, <1>3, <1>4, <1>5 DEF TypeInv, InventoryType

LEMMA TypeStep == TypeInv /\ [Next]_vars => TypeInv'
    <1> SUFFICES ASSUME TypeInv, [Next]_vars PROVE TypeInv'
        OBVIOUS
    <1>1. RowsType'
        BY RowEffects, RowsStep DEF TypeInv, InventoryType
    <1>2. InventoryType'
        BY InventoryStep
    <1>3. ControlInv'
        BY ControlStep
    <1>4. active' \in BOOLEAN /\ used' \in Counters
        BY CountersStep
    <1> QED BY <1>1, <1>2, <1>3, <1>4 DEF TypeInv, ControlInv

LEMMA TypeAlways == Spec => []TypeInv
    BY TypeInit, TypeStep, PTL DEF Spec

-----------------------------------------------------------------------------
(* What the claims reserve of a delivery, and what they handed out *)

Reserved(cs, d) ==
    SumFunctionOnSet([c \in DOMAIN cs |-> Reserves(cs[c], d)], DOMAIN cs)
Applied(cs, d) ==
    SumFunctionOnSet([c \in DOMAIN cs |-> Applies(cs[c], d)], DOMAIN cs)
Exact(row, cs, d) == /\ row.reserved = Reserved(cs, d)
                     /\ row.claimed = Applied(cs, d)
                     /\ Unreserved(row) >= 0

AllExact == \A d \in DOMAIN deliveries : Exact(deliveries[d], claims, d)

LEMMA ExactRows == ReservationExact <=> AllExact
    BY DEF ReservationExact, AllExact, Exact, Reserved, Applied

LEMMA ShareNat ==
    ASSUME NEW c \in DeliveryClaim, NEW d
    PROVE  Reserves(c, d) \in Nat /\ Applies(c, d) \in Nat
    BY DEF DeliveryClaim, Reserves, Applies

LEMMA SharesNat ==
    ASSUME NEW cs \in Seq(DeliveryClaim), NEW d
    PROVE  Reserved(cs, d) \in Nat /\ Applied(cs, d) \in Nat
    <1> DEFINE D == DOMAIN cs
               f == [c \in D |-> Reserves(cs[c], d)]
               g == [c \in D |-> Applies(cs[c], d)]
    <1>1. D = 1 .. Len(cs) /\ Len(cs) \in Nat /\ \A c \in D : cs[c] \in DeliveryClaim
        OBVIOUS
    <1>2. IsFiniteSet(D)
        BY <1>1, FS_Interval
    <1>3. \A c \in D : f[c] \in Nat /\ g[c] \in Nat
        BY <1>1, ShareNat
    <1> HIDE DEF f, g, D
    <1>4. SumFunctionOnSet(f, D) \in Nat /\ SumFunctionOnSet(g, D) \in Nat
        BY <1>2, <1>3, SumNat
    <1> QED BY <1>4 DEF Reserved, Applied, f, g, D

\* One row of the claims changes.
LEMMA ShareChanged ==
    ASSUME NEW cs \in Seq(DeliveryClaim), NEW k \in DOMAIN cs,
           NEW row \in DeliveryClaim, NEW cs2, DOMAIN cs2 = DOMAIN cs,
           \A c \in DOMAIN cs : cs2[c] = IF c = k THEN row ELSE cs[c], NEW d
    PROVE  /\ Reserved(cs2, d) = Reserved(cs, d) + Reserves(row, d) - Reserves(cs[k], d)
           /\ Applied(cs2, d) = Applied(cs, d) + Applies(row, d) - Applies(cs[k], d)
    <1> DEFINE D == DOMAIN cs
               res == [c \in D |-> Reserves(cs[c], d)]
               resAfter == [c \in D |-> Reserves(cs2[c], d)]
               app == [c \in D |-> Applies(cs[c], d)]
               appAfter == [c \in D |-> Applies(cs2[c], d)]
    <1>1. D = 1 .. Len(cs) /\ Len(cs) \in Nat /\ \A c \in D : cs[c] \in DeliveryClaim
        OBVIOUS
    <1>2. IsFiniteSet(D) /\ k \in D
        BY <1>1, FS_Interval
    <1>3. \A c \in D : res[c] \in Int /\ app[c] \in Int
        BY <1>1, ShareNat
    <1>4. resAfter[k] \in Int /\ appAfter[k] \in Int
        BY <1>2, ShareNat
    <1>5. \A c \in D \ {k} : resAfter[c] = res[c] /\ appAfter[c] = app[c]
        OBVIOUS
    <1>6. /\ resAfter[k] = Reserves(row, d) /\ res[k] = Reserves(cs[k], d)
          /\ appAfter[k] = Applies(row, d) /\ app[k] = Applies(cs[k], d)
        BY <1>2
    <1>7. /\ Reserved(cs, d) = SumFunctionOnSet(res, D)
          /\ Reserved(cs2, d) = SumFunctionOnSet(resAfter, D)
          /\ Applied(cs, d) = SumFunctionOnSet(app, D)
          /\ Applied(cs2, d) = SumFunctionOnSet(appAfter, D)
        BY DEF Reserved, Applied
    <1> HIDE DEF res, resAfter, app, appAfter, D
    <1>8. SumFunctionOnSet(resAfter, D) = SumFunctionOnSet(res, D) + resAfter[k] - res[k]
        <2>1. IsFiniteSet(D) /\ k \in D /\ IsFiniteSet(D \ {k})
            BY <1>2, FS_Subset
        <2>2. \A c \in D : res[c] \in Int
            BY <1>3
        <2>3. \A c \in D : resAfter[c] \in Int
            BY <1>3, <1>4, <1>5
        <2>4. SumFunctionOnSet(res, D) = res[k] + SumFunctionOnSet(res, D \ {k})
            BY ONLY <2>1, <2>2, SumRemove
        <2>5. SumFunctionOnSet(resAfter, D) = resAfter[k] + SumFunctionOnSet(resAfter, D \ {k})
            BY ONLY <2>1, <2>3, SumRemove
        <2>6. SumFunctionOnSet(resAfter, D \ {k}) = SumFunctionOnSet(res, D \ {k})
            BY ONLY <2>1, <1>5, SumEqual
        <2>7. \A c \in D \ {k} : res[c] \in Int
            BY <2>2
        <2>8. SumFunctionOnSet(res, D \ {k}) \in Int
            BY ONLY <2>1, <2>7, SumInt
        <2> QED BY <2>1, <2>2, <2>3, <2>4, <2>5, <2>6, <2>8
    <1>9. SumFunctionOnSet(appAfter, D) = SumFunctionOnSet(app, D) + appAfter[k] - app[k]
        <2>1. IsFiniteSet(D) /\ k \in D /\ IsFiniteSet(D \ {k})
            BY <1>2, FS_Subset
        <2>2. \A c \in D : app[c] \in Int
            BY <1>3
        <2>3. \A c \in D : appAfter[c] \in Int
            BY <1>3, <1>4, <1>5
        <2>4. SumFunctionOnSet(app, D) = app[k] + SumFunctionOnSet(app, D \ {k})
            BY ONLY <2>1, <2>2, SumRemove
        <2>5. SumFunctionOnSet(appAfter, D) = appAfter[k] + SumFunctionOnSet(appAfter, D \ {k})
            BY ONLY <2>1, <2>3, SumRemove
        <2>6. SumFunctionOnSet(appAfter, D \ {k}) = SumFunctionOnSet(app, D \ {k})
            BY ONLY <2>1, <1>5, SumEqual
        <2>7. \A c \in D \ {k} : app[c] \in Int
            BY <2>2
        <2>8. SumFunctionOnSet(app, D \ {k}) \in Int
            BY ONLY <2>1, <2>7, SumInt
        <2> QED BY <2>1, <2>2, <2>3, <2>4, <2>5, <2>6, <2>8
    <1> QED BY <1>6, <1>7, <1>8, <1>9

\* A row is added to the claims.
LEMMA ShareAdded ==
    ASSUME claims \in Seq(DeliveryClaim), NEW row \in DeliveryClaim,
           DOMAIN claims' = DOMAIN claims \cup {Len(claims) + 1},
           \A c \in DOMAIN claims' :
               claims'[c] = IF c = Len(claims) + 1 THEN row ELSE claims[c],
           NEW d
    PROVE  /\ Reserved(claims', d) = Reserved(claims, d) + Reserves(row, d)
           /\ Applied(claims', d) = Applied(claims, d) + Applies(row, d)
    <1> DEFINE D == DOMAIN claims
               k == Len(claims) + 1
               f == [c \in D |-> Reserves(claims[c], d)]
               f2 == [c \in D \cup {k} |-> Reserves(claims'[c], d)]
               g == [c \in D |-> Applies(claims[c], d)]
               g2 == [c \in D \cup {k} |-> Applies(claims'[c], d)]
    <1>1. D = 1 .. Len(claims) /\ Len(claims) \in Nat /\ \A c \in D : claims[c] \in DeliveryClaim
        OBVIOUS
    <1>2. IsFiniteSet(D) /\ k \notin D
        BY <1>1, FS_Interval
    <1>3. \A c \in D \cup {k} : claims'[c] \in DeliveryClaim
        BY <1>1
    <1>4. \A c \in D \cup {k} : f2[c] \in Int /\ g2[c] \in Int
        BY <1>3, ShareNat
    <1>5. \A c \in D : f2[c] = f[c] /\ g2[c] = g[c]
        BY <1>2
    <1>6. f2[k] = Reserves(row, d) /\ g2[k] = Applies(row, d)
        OBVIOUS
    <1>7. /\ Reserved(claims, d) = SumFunctionOnSet(f, D)
          /\ Reserved(claims', d) = SumFunctionOnSet(f2, D \cup {k})
          /\ Applied(claims, d) = SumFunctionOnSet(g, D)
          /\ Applied(claims', d) = SumFunctionOnSet(g2, D \cup {k})
        BY DEF Reserved, Applied
    <1> HIDE DEF f, f2, g, g2, D, k
    <1>8. /\ SumFunctionOnSet(f2, D \cup {k}) = SumFunctionOnSet(f2, D) + f2[k]
          /\ SumFunctionOnSet(g2, D \cup {k}) = SumFunctionOnSet(g2, D) + g2[k]
        BY ONLY <1>2, <1>4, SumAdd
    <1>9. /\ SumFunctionOnSet(f2, D) = SumFunctionOnSet(f, D)
          /\ SumFunctionOnSet(g2, D) = SumFunctionOnSet(g, D)
        BY ONLY <1>2, <1>5, SumEqual
    <1> QED BY <1>6, <1>7, <1>8, <1>9

\* A delivery nobody claims.
LEMMA ShareNone ==
    ASSUME NEW cs \in Seq(DeliveryClaim), NEW d,
           \A c \in DOMAIN cs : cs[c].delivery # d
    PROVE  Reserved(cs, d) = 0 /\ Applied(cs, d) = 0
    <1> DEFINE D == DOMAIN cs
               f == [c \in D |-> Reserves(cs[c], d)]
               g == [c \in D |-> Applies(cs[c], d)]
    <1>1. D = 1 .. Len(cs) /\ Len(cs) \in Nat
        OBVIOUS
    <1>2. IsFiniteSet(D)
        BY <1>1, FS_Interval
    <1>3. \A c \in D : f[c] = 0 /\ g[c] = 0
        BY DEF Reserves, Applies
    <1> HIDE DEF f, g, D
    <1>4. SumFunctionOnSet(f, D) = 0 /\ SumFunctionOnSet(g, D) = 0
        BY <1>2, <1>3, SumZero
    <1> QED BY <1>4 DEF Reserved, Applied, f, g, D

\* What a delivery is added with.
Fresh(row) == row.claimed = 0 /\ row.reserved = 0 /\ row.quantity \in Nat

LEMMA AddedFresh ==
    ASSUME NEW ds \in Seq(LooseDelivery), NEW q \in Int,
           NEW d \in DOMAIN addDelivery(ds, q)
    PROVE  d \in DOMAIN ds \/ Fresh(addDelivery(ds, q)[d])
    <1> DEFINE row == [quantity |-> q, claimed |-> 0, reserved |-> 0]
    <1>1. CASE q > 0
        <2>1. Fresh(row) /\ addDelivery(ds, q) = Append(ds, row)
            BY <1>1 DEF Fresh, addDelivery
        <2> HIDE DEF row
        <2> QED BY <2>1
    <1>2. CASE ~(q > 0)
        BY <1>2 DEF addDelivery
    <1> QED BY <1>1, <1>2

\* Deliveries are only added.
DeliveriesGrow ==
    /\ \A d \in DOMAIN deliveries : deliveries'[d] = deliveries[d]
    /\ \A d \in DOMAIN deliveries' : d \in DOMAIN deliveries \/ Fresh(deliveries'[d])

LEMMA GrowsBy ==
    ASSUME DeliveriesType
    PROVE  /\ \A q \in Int : deliveries' = addDelivery(deliveries, q) => DeliveriesGrow
           /\ \A q, r \in Int : deliveries' = addDelivery(addDelivery(deliveries, q), r)
                => DeliveriesGrow
    <1>1. deliveries \in Seq(LooseDelivery)
        BY DEF DeliveriesType
    <1>2. ASSUME NEW q \in Int, deliveries' = addDelivery(deliveries, q)
          PROVE  DeliveriesGrow
        BY <1>1, <1>2, DeliveryAdded, AddedFresh DEF DeliveriesGrow
    <1>3. ASSUME NEW q \in Int, NEW r \in Int,
                 deliveries' = addDelivery(addDelivery(deliveries, q), r)
          PROVE  DeliveriesGrow
        <2> DEFINE mid == addDelivery(deliveries, q)
        <2>1. /\ mid \in Seq(LooseDelivery) /\ DOMAIN deliveries \subseteq DOMAIN mid
              /\ \A d \in DOMAIN deliveries : mid[d] = deliveries[d]
              /\ \A d \in DOMAIN mid : d \in DOMAIN deliveries \/ Fresh(mid[d])
            BY <1>1, DeliveryAdded, AddedFresh
        <2>2. deliveries' = addDelivery(mid, r)
            BY <1>3
        <2> HIDE DEF mid
        <2>3. /\ DOMAIN mid \subseteq DOMAIN deliveries'
              /\ \A d \in DOMAIN mid : deliveries'[d] = mid[d]
              /\ \A d \in DOMAIN deliveries' : d \in DOMAIN mid \/ Fresh(deliveries'[d])
            BY <2>1, <2>2, DeliveryAdded, AddedFresh
        <2> QED BY <2>1, <2>3 DEF DeliveriesGrow
    <1> QED BY <1>2, <1>3

\* The new claim of prepareDeliveryClaim adds its quantity to what is reserved.
LEMMA PrepareShares ==
    ASSUME ClaimsType, NEW d \in Nat, NEW q \in Nat, insertClaim(d, q), NEW e
    PROVE  /\ Reserved(claims', e) = Reserved(claims, e) + (IF e = d THEN q ELSE 0)
           /\ Applied(claims', e) = Applied(claims, e)
    <1> DEFINE row == NewRow(d, q)
               k == NewClaim
    <1>1. claims \in Seq(DeliveryClaim) /\ row \in DeliveryClaim
        BY DEF ClaimsType, NewRow, DeliveryClaim
    <1>2. claims' = [c \in DOMAIN claims \cup {k} |-> IF c = k THEN row ELSE claims[c]]
        BY DEF insertClaim, NewRow
    <1>3. Reserves(row, e) = (IF e = d THEN q ELSE 0) /\ Applies(row, e) = 0
        BY DEF NewRow, Reserves, Applies
    <1>4. /\ Reserved(claims, e) \in Nat /\ Applied(claims, e) \in Nat
          /\ (IF e = d THEN q ELSE 0) \in Nat
        BY <1>1, SharesNat
    <1>5. \/ k = Len(claims) + 1
          \/ k \in DOMAIN claims /\ claims[k].status = "CANCELED"
        BY NewClaimFacts
    <1> HIDE DEF row, k
    <1>6. CASE k = Len(claims) + 1
        <2>1. /\ DOMAIN claims' = DOMAIN claims \cup {Len(claims) + 1}
              /\ \A c \in DOMAIN claims' :
                    claims'[c] = IF c = Len(claims) + 1 THEN row ELSE claims[c]
            BY <1>2, <1>6
        <2>2. /\ Reserved(claims', e) = Reserved(claims, e) + Reserves(row, e)
              /\ Applied(claims', e) = Applied(claims, e) + Applies(row, e)
            BY <1>1, <2>1, ShareAdded
        <2> QED BY <1>3, <1>4, <2>2
    <1>7. CASE k \in DOMAIN claims /\ claims[k].status = "CANCELED"
        <2>1. /\ DOMAIN claims' = DOMAIN claims
              /\ \A c \in DOMAIN claims : claims'[c] = IF c = k THEN row ELSE claims[c]
            BY <1>2, <1>7
        <2>2. /\ Reserved(claims', e)
                    = Reserved(claims, e) + Reserves(row, e) - Reserves(claims[k], e)
              /\ Applied(claims', e)
                    = Applied(claims, e) + Applies(row, e) - Applies(claims[k], e)
            BY <1>1, <1>7, <2>1, ShareChanged
        <2>3. Reserves(claims[k], e) = 0 /\ Applies(claims[k], e) = 0
            BY <1>7 DEF Reserves, Applies
        <2> QED BY <1>3, <1>4, <2>2, <2>3
    <1> QED BY <1>5, <1>6, <1>7

\* A completed claim reserves nothing more and has handed out n.
LEMMA CompleteShares ==
    ASSUME ClaimsType, NEW c \in DOMAIN claims, claims[c].status = "PREPARED",
           NEW n \in 0 .. claims[c].quantity, completeDeliveryClaim(c, n), NEW e
    PROVE  LET here == e = claims[c].delivery
           IN  /\ Reserved(claims', e)
                     = Reserved(claims, e) - (IF here THEN claims[c].quantity ELSE 0)
               /\ Applied(claims', e) = Applied(claims, e) + (IF here THEN n ELSE 0)
    <1> DEFINE x == claims[c]
               row == CompletedRow(x, n)
               here == e = x.delivery
    <1>1. claims \in Seq(DeliveryClaim) /\ x \in DeliveryClaim /\ x.status = "PREPARED"
          /\ n \in Nat /\ x.quantity \in Nat
        BY DEF ClaimsType, GoodClaim, DeliveryClaim
    <1>2. claims' = [claims EXCEPT ![c] = row]
        BY DEF completeDeliveryClaim, CompletedRow
    <1>3. /\ row.delivery = x.delivery /\ row.applied = n
          /\ row.status = (IF n = 0 THEN "CANCELED" ELSE "APPLIED")
          /\ row \in DeliveryClaim
        <2>1. n \in 0 .. x.quantity /\ GoodClaim(x, Len(deliveries))
            BY DEF ClaimsType
        <2>2. x = [delivery |-> x.delivery, quantity |-> x.quantity, applied |-> x.applied,
                   status |-> x.status, cleaned |-> x.cleaned]
            BY <1>1 DEF DeliveryClaim
        <2> HIDE DEF x
        <2> QED BY <1>1, <2>2 DEF CompletedRow, DeliveryClaim
    <1>4. /\ Reserves(x, e) = (IF here THEN x.quantity ELSE 0) /\ Applies(x, e) = 0
        BY <1>1 DEF Reserves, Applies
    <1>5. Reserves(row, e) = 0 /\ Applies(row, e) = (IF here THEN n ELSE 0)
        <2> HIDE DEF row, x
        <2> QED BY <1>3 DEF Reserves, Applies
    <1>6. /\ DOMAIN claims' = DOMAIN claims
          /\ \A b \in DOMAIN claims : claims'[b] = IF b = c THEN row ELSE claims[b]
        <2> HIDE DEF row
        <2> QED BY <1>2
    <1>7. Reserved(claims, e) \in Nat /\ Applied(claims, e) \in Nat
        BY <1>1, SharesNat
    <1>8. /\ Reserved(claims', e) = Reserved(claims, e) + Reserves(row, e) - Reserves(x, e)
          /\ Applied(claims', e) = Applied(claims, e) + Applies(row, e) - Applies(x, e)
        <2> HIDE DEF row
        <2> QED BY <1>1, <1>3, <1>6, ShareChanged
    <1> HIDE DEF row
    <1> QED BY <1>1, <1>4, <1>5, <1>7, <1>8

\* The fields of the delivery that changes.
LEMMA RowChanged ==
    ASSUME RowsType, NEW d \in DOMAIN deliveries, NEW k \in Int, NEW r \in Int,
           deliveries' = [deliveries EXCEPT ![d].claimed = k, ![d].reserved = r]
    PROVE  /\ DOMAIN deliveries' = DOMAIN deliveries
           /\ \A e \in DOMAIN deliveries : e # d => deliveries'[e] = deliveries[e]
           /\ deliveries'[d].claimed = k /\ deliveries'[d].reserved = r
           /\ deliveries'[d].quantity = deliveries[d].quantity
    <1>1. deliveries \in Seq(LooseDelivery) /\ deliveries[d] \in LooseDelivery
        BY DeliveryTypes
    <1> DEFINE x == deliveries[d]
               y == [x EXCEPT !.claimed = k]
               z == [y EXCEPT !.reserved = r]
    <1>2. deliveries' = [deliveries EXCEPT ![d] = z]
        OBVIOUS
    <1>3. y.quantity = x.quantity /\ y.claimed = k /\ DOMAIN y = DOMAIN x
        BY <1>1 DEF LooseDelivery
    <1>4. z.quantity = x.quantity /\ z.claimed = k /\ z.reserved = r
        <2>1. DOMAIN x = {"quantity", "claimed", "reserved"}
            BY <1>1 DEF LooseDelivery
        <2> HIDE DEF x, y
        <2> QED BY <1>3, <2>1
    <1> HIDE DEF z
    <1> QED BY <1>1, <1>2, <1>4

LEMMA ReservationStep == RowsType /\ RowEffect /\ ReservationExact => ReservationExact'
    <1>s. SUFFICES RowsType /\ RowEffect /\ AllExact => AllExact'
        BY ExactRows, PTL
    <1> SUFFICES ASSUME RowsType, RowEffect, \A d \in DOMAIN deliveries :
                            Exact(deliveries[d], claims, d)
                 PROVE  \A d \in DOMAIN deliveries' : Exact(deliveries'[d], claims', d)
        BY DEF AllExact
    <1>t. /\ deliveries \in Seq(LooseDelivery) /\ EscrowsType /\ ClaimsType
          /\ Len(deliveries) \in Nat /\ DOMAIN deliveries = 1 .. Len(deliveries)
          /\ \A d \in DOMAIN deliveries :
                deliveries[d] \in LooseDelivery /\ Unreserved(deliveries[d]) \in Int
        BY DeliveryTypes
    <1>c. /\ claims \in Seq(DeliveryClaim)
          /\ \A c \in DOMAIN claims : /\ claims[c].delivery \in DOMAIN deliveries
                                      /\ claims[c].quantity \in Nat
        BY <1>t DEF ClaimsType, GoodClaim, DeliveryClaim
    <1>1. CASE UNCHANGED <<deliveries, claims>>
        BY <1>1
    <1>2. CASE DeliveriesGrow /\ UNCHANGED claims
        <2> TAKE d \in DOMAIN deliveries'
        <2>1. CASE d \in DOMAIN deliveries
            BY <1>2, <2>1 DEF DeliveriesGrow
        <2>2. CASE d \notin DOMAIN deliveries
            <3>1. Reserved(claims, d) = 0 /\ Applied(claims, d) = 0
                BY <1>c, <2>2, ShareNone
            <3>2. Fresh(deliveries'[d])
                BY <1>2, <2>2 DEF DeliveriesGrow
            <3> DEFINE x == deliveries'[d]
            <3>3. Unreserved(x) >= 0
                BY <3>2 DEF Fresh, Unreserved
            <3> QED BY <1>2, <3>1, <3>2, <3>3 DEF Exact, Fresh
        <2> QED BY <2>1, <2>2
    <1>3. ASSUME NEW d \in DOMAIN deliveries, Unreserved(deliveries[d]) > 0,
                 prepareDeliveryClaim(d, Unreserved(deliveries[d]))
          PROVE  \A e \in DOMAIN deliveries' : Exact(deliveries'[e], claims', e)
        <2> DEFINE q == Unreserved(deliveries[d])
        <2>1. q \in Nat /\ d \in Nat /\ insertClaim(d, q)
            BY <1>3, <1>t DEF prepareDeliveryClaim
        <2>2. \A e : /\ Reserved(claims', e) = Reserved(claims, e) + (IF e = d THEN q ELSE 0)
                     /\ Applied(claims', e) = Applied(claims, e)
            <3> HIDE DEF q
            <3> QED BY <1>t, <2>1, PrepareShares
        <2> DEFINE k == deliveries[d].claimed
                   r == deliveries[d].reserved + q
        <2>3. /\ k \in Int /\ deliveries[d].reserved \in Int /\ r \in Int
              /\ deliveries[d].quantity \in Nat
            <3> HIDE DEF q
            <3> QED BY <1>t, <2>1 DEF LooseDelivery
        <2>4. deliveries' = [deliveries EXCEPT ![d].claimed = k, ![d].reserved = r]
            <3>1. deliveries' = [deliveries EXCEPT ![d].reserved = @ + q]
                BY <1>3 DEF prepareDeliveryClaim
            <3> HIDE DEF q
            <3> QED BY <1>t, <3>1 DEF LooseDelivery
        <2> HIDE DEF k, r
        <2>5. /\ DOMAIN deliveries' = DOMAIN deliveries
              /\ \A e \in DOMAIN deliveries : e # d => deliveries'[e] = deliveries[e]
              /\ deliveries'[d].claimed = k /\ deliveries'[d].reserved = r
              /\ deliveries'[d].quantity = deliveries[d].quantity
            BY <2>3, <2>4, RowChanged
        <2>6. ASSUME NEW e \in DOMAIN deliveries, e # d
              PROVE  Exact(deliveries'[e], claims', e)
            <3>1. Reserved(claims', e) = Reserved(claims, e)
                BY <2>2, <2>6, <1>c, SharesNat
            <3> QED BY <2>2, <2>5, <2>6, <3>1 DEF Exact
        <2>7. Exact(deliveries'[d], claims', d)
            <3>1. Reserved(claims', d) = r /\ Applied(claims', d) = k
                BY <2>2 DEF Exact, k, r
            <3>2. q = deliveries[d].quantity - k - deliveries[d].reserved
                BY DEF Unreserved, k
            <3>3. Unreserved(deliveries'[d]) = deliveries[d].quantity - k - r
                BY <2>5 DEF Unreserved
            <3>4. r = deliveries[d].reserved + q
                BY DEF r
            <3>5. Unreserved(deliveries'[d]) >= 0
                <4> HIDE DEF q
                <4> QED BY <2>1, <2>3, <3>2, <3>3, <3>4
            <3> QED BY <2>5, <3>1, <3>5 DEF Exact
        <2> QED BY <2>5, <2>6, <2>7
    <1>4. ASSUME NEW c \in DOMAIN claims, claims[c].status = "PREPARED",
                 NEW n \in 0 .. claims[c].quantity, completeDeliveryClaim(c, n)
          PROVE  \A e \in DOMAIN deliveries' : Exact(deliveries'[e], claims', e)
        <2> DEFINE d == claims[c].delivery
                   q == claims[c].quantity
                   k == deliveries[d].claimed + n
                   r == deliveries[d].reserved - q
        <2>1. d \in DOMAIN deliveries /\ q \in Nat /\ n \in Nat /\ n <= q
            BY <1>c
        <2>2. \A e : /\ Reserved(claims', e) = Reserved(claims, e) - (IF e = d THEN q ELSE 0)
                     /\ Applied(claims', e) = Applied(claims, e) + (IF e = d THEN n ELSE 0)
            BY <1>4, <1>t, CompleteShares
        <2>3. /\ k \in Int /\ r \in Int /\ deliveries[d].quantity \in Nat
              /\ deliveries[d].claimed \in Nat /\ deliveries[d].reserved \in Int
            <3> HIDE DEF d, q
            <3>1. deliveries[d] \in LooseDelivery
                BY <1>t, <2>1
            <3> QED BY <2>1, <3>1 DEF LooseDelivery
        <2>4. deliveries' = [deliveries EXCEPT ![d].claimed = k, ![d].reserved = r]
            <3>1. deliveries' = [deliveries EXCEPT ![d].claimed = @ + n, ![d].reserved = @ - q]
                BY <1>4 DEF completeDeliveryClaim
            <3> HIDE DEF d, q
            <3> QED BY <1>t, <2>1, <3>1 DEF LooseDelivery
        <2> HIDE DEF d, q, k, r
        <2>5. /\ DOMAIN deliveries' = DOMAIN deliveries
              /\ \A e \in DOMAIN deliveries : e # d => deliveries'[e] = deliveries[e]
              /\ deliveries'[d].claimed = k /\ deliveries'[d].reserved = r
              /\ deliveries'[d].quantity = deliveries[d].quantity
            BY <2>1, <2>3, <2>4, RowChanged
        <2>6. ASSUME NEW e \in DOMAIN deliveries, e # d
              PROVE  Exact(deliveries'[e], claims', e)
            <3>1. Reserved(claims', e) = Reserved(claims, e)
                  /\ Applied(claims', e) = Applied(claims, e)
                BY <2>2, <2>6, <1>c, SharesNat
            <3> QED BY <2>5, <2>6, <3>1 DEF Exact
        <2>7. Exact(deliveries'[d], claims', d)
            <3>1. Reserved(claims', d) = r /\ Applied(claims', d) = k
                BY <2>1, <2>2 DEF Exact, k, r
            <3>2. deliveries[d].quantity - deliveries[d].claimed - deliveries[d].reserved >= 0
                BY <2>1 DEF Exact, Unreserved
            <3>3. Unreserved(deliveries'[d]) = deliveries[d].quantity - k - r
                BY <2>5 DEF Unreserved
            <3>4. r = deliveries[d].reserved - q /\ k = deliveries[d].claimed + n
                BY DEF r, k
            <3>5. Unreserved(deliveries'[d]) >= 0
                BY <2>1, <2>3, <3>2, <3>3, <3>4
            <3> QED BY <2>5, <3>1, <3>5 DEF Exact
        <2> QED BY <2>1, <2>5, <2>6, <2>7
    <1>5. ASSUME NEW c \in DOMAIN claims, markDeliveryClaimCleaned(c), UNCHANGED deliveries
          PROVE  \A e \in DOMAIN deliveries' : Exact(deliveries'[e], claims', e)
        <2> DEFINE x == claims[c]
                   row == [x EXCEPT !.cleaned = TRUE]
        <2>1. x \in DeliveryClaim /\ claims' = [claims EXCEPT ![c] = row]
            BY <1>5, <1>c DEF markDeliveryClaimCleaned
        <2>2. /\ row.delivery = x.delivery /\ row.status = x.status
              /\ row.quantity = x.quantity /\ row.applied = x.applied /\ row \in DeliveryClaim
            BY <2>1 DEF DeliveryClaim
        <2> HIDE DEF row
        <2>3. /\ DOMAIN claims' = DOMAIN claims
              /\ \A b \in DOMAIN claims : claims'[b] = IF b = c THEN row ELSE claims[b]
            BY <2>1
        <2> TAKE e \in DOMAIN deliveries'
        <2>4. /\ Reserved(claims', e) = Reserved(claims, e) + Reserves(row, e) - Reserves(x, e)
              /\ Applied(claims', e) = Applied(claims, e) + Applies(row, e) - Applies(x, e)
            BY <1>c, <2>2, <2>3, ShareChanged
        <2>5. Reserves(row, e) = Reserves(x, e) /\ Applies(row, e) = Applies(x, e)
            BY <2>2 DEF Reserves, Applies
        <2>6. /\ Reserves(x, e) \in Nat /\ Applies(x, e) \in Nat
              /\ Reserved(claims, e) \in Nat /\ Applied(claims, e) \in Nat
            BY <2>1, <1>c, ShareNat, SharesNat
        <2>7. Reserved(claims', e) = Reserved(claims, e) /\ Applied(claims', e) = Applied(claims, e)
            BY <2>4, <2>5, <2>6
        <2> QED BY <1>5, <2>7 DEF Exact
    <1>6. ASSUME NEW i \in DOMAIN escrows, EscrowIs(i, "TAGGED"), executeSellEscrow(i)
          PROVE  DeliveriesGrow
        <2>1. PICK rest \in Nat :
                 deliveries' = addDelivery(addDelivery(deliveries, rest), Excess(i))
                 /\ Excess(i) \in Nat
            BY <1>6, <1>t, ExecuteFacts
        <2> QED BY <2>1, GrowsBy DEF RowsType
    <1>7. (\E q \in Quantities : deliveries' = addDelivery(deliveries, q)) => DeliveriesGrow
        BY GrowsBy, BoundsAreNat DEF RowsType
    <1> QED BY <1>1, <1>2, <1>3, <1>4, <1>5, <1>6, <1>7
        DEF RowEffect, SameRows, EscrowsOnly, UsesUp, rows

LEMMA ReservationInit == Init => ReservationExact
    BY DEF Init, ReservationExact

LEMMA ReservationAlways == TypeInv /\ ReservationExact /\ [Next]_vars => ReservationExact'
    BY RowEffects, ReservationStep DEF TypeInv

\* reserved_qty is what the PREPARED claims hold and claimed_qty what the
\* others applied, in every reachable state: no delivery is handed out twice,
\* and none is stuck behind a reservation nobody holds (prepareDeliveryClaim,
\* completeDeliveryClaim).
THEOREM ReservationExactHolds == Spec => []ReservationExact
    BY TypeAlways, ReservationInit, ReservationAlways, PTL DEF Spec

-----------------------------------------------------------------------------
(* What kills cost *)

\* Only a kill that finds a stack out of its slot costs one.
LostEffect == (UNCHANGED lost /\ used'.kills >= used.kills) \/ Torn

LEMMA LostEffects == TypeInv /\ [Next]_vars => LostEffect
    <1> SUFFICES ASSUME TypeInv, [Next]_vars PROVE LostEffect
        OBVIOUS
    <1>u. used \in Counters
        BY DEF TypeInv
    <1>f. \A f \in {"events", "faults", "kills", "toggles"} : \A max :
             Use(f, max) => used'.kills >= used.kills
        BY <1>u DEF Counters, Use
    <1>s. UNCHANGED used => used'.kills >= used.kills
        BY <1>u DEF Counters
    <1>1. CASE \E type \in {"LIMIT", "MARKET"}, q \in Quantities : submitSellEscrow(type, q)
        <2>1. /\ UNCHANGED lost
              /\ \/ used' = [used EXCEPT !.escrows = @ + 1]
                 \/ used' = [used EXCEPT !.escrows = @ + 1, !.faults = @ + 1]
            BY <1>1 DEF submitSellEscrow
        <2>2. used'.kills = used.kills /\ used.kills \in Nat
            BY <1>u, <2>1 DEF Counters
        <2> QED BY <2>1, <2>2 DEF LostEffect
    <1>2. CASE tagItems \/ cancelShort \/ markTagged \/ placeOrder \/ cleanUp
               \/ clearApplied \/ removeOrdered
        <2>1. UNCHANGED lost /\ (UNCHANGED used \/ Use("faults", MaxFaults))
            BY <1>2 DEF tagItems, cancelShort, markTagged, placeOrder, cleanUp,
               clearApplied, removeOrdered, Call
        <2> QED BY <1>f, <1>s, <2>1 DEF LostEffect
    <1>3. CASE finishClaim \/ cleanClaim \/ reserveDelivery \/ addDelivered
               \/ clearDelivered \/ retryExecute \/ queryFails
        <2>1. UNCHANGED lost /\ (UNCHANGED used \/ Use("faults", MaxFaults))
            BY <1>3 DEF finishClaim, cleanClaim, reserveDelivery, addDelivered,
               clearDelivered, retryExecute, queryFails, Call
        <2> QED BY <1>f, <1>s, <2>1 DEF LostEffect
    <1>4. CASE \/ inventoryInsufficient \/ placeOrderThrows \/ otherClaimMarker
               \/ otherSellMarker \/ nextLoop \/ claimDeliveries \/ onPlayerJoin
               \/ save \/ UNCHANGED vars
        <2>1. UNCHANGED lost /\ UNCHANGED used
            BY <1>4 DEF inventoryInsufficient, placeOrderThrows, otherClaimMarker,
               otherSellMarker, nextLoop, claimDeliveries, onPlayerJoin, save, vars
        <2> QED BY <1>s, <2>1 DEF LostEffect
    <1>5. CASE \/ toggleMarket \/ \E q \in Quantities : deliveryArrives(q)
               \/ \E s \in Slots : useStack(s)
        <2>1. UNCHANGED lost /\ (Use("toggles", MaxToggles) \/ Use("events", MaxEvents))
            BY <1>5 DEF toggleMarket, deliveryArrives, useStack
        <2> QED BY <1>f, <2>1 DEF LostEffect
    <1>6. CASE kill
        <2>1. Use("kills", MaxKills)
            BY <1>6 DEF kill
        <2>2. CASE UNCHANGED lost
            BY <1>f, <2>1, <2>2 DEF LostEffect
        <2>3. CASE ~UNCHANGED lost
            BY <1>6, <2>3, KillTears DEF kill, LostEffect
        <2> QED BY <2>2, <2>3
    <1> QED BY <1>1, <1>2, <1>3, <1>4, <1>5, <1>6 DEF Next, work

\* A kill costs no more than a full stack.
LostInv == lost \in Nat /\ lost <= StackSize * used.kills

LEMMA LostStep == TypeInv /\ LostInv /\ [Next]_vars => LostInv'
    <1> SUFFICES ASSUME TypeInv, LostInv, [Next]_vars PROVE LostInv'
        OBVIOUS
    <1> DEFINE k == used.kills
               kk == used'.kills
    <1>1. StackSize \in Nat /\ k \in Nat /\ kk \in Nat
        BY BoundsAreNat, TypeStep DEF TypeInv, Counters
    <1>2. lost \in Nat /\ lost <= StackSize * k
        BY DEF LostInv
    <1>3. CASE UNCHANGED lost /\ kk >= k
        <2> HIDE DEF k, kk
        <2>1. StackSize * kk >= StackSize * k
            <3>1. kk - k \in Nat /\ kk = k + (kk - k)
                BY <1>1, <1>3
            <3>2. StackSize * (kk - k) \in Nat
                BY <1>1, <3>1
            <3>3. StackSize * kk = StackSize * k + StackSize * (kk - k)
                BY <1>1, <3>1
            <3>4. StackSize * k \in Nat
                BY <1>1
            <3> QED BY <3>2, <3>3, <3>4
        <2>2. lost' \in Nat /\ lost' <= StackSize * kk
            <3>1. StackSize * k \in Nat /\ StackSize * kk \in Nat
                BY <1>1
            <3> QED BY <1>2, <1>3, <2>1, <3>1
        <2> QED BY <2>2 DEF k, kk, LostInv
    <1>4. CASE Torn
        <2>1. PICK s \in Slots : /\ lost' = lost + inv[s].n
                                 /\ used' = [used EXCEPT !.kills = @ + 1]
            BY <1>4 DEF Torn
        <2>2. kk = k + 1
            BY <2>1 DEF TypeInv, Counters
        <2>3. inv[s].n \in Nat /\ inv[s].n <= StackSize
            BY DEF TypeInv, InventoryType, Stacks, GoodStack, Stack
        <2> HIDE DEF k, kk
        <2>4. StackSize * kk = StackSize * k + StackSize /\ StackSize * k \in Nat
            BY <1>1, <2>2
        <2>5. lost' \in Nat /\ lost' <= StackSize * kk
            BY <1>1, <1>2, <2>1, <2>3, <2>4
        <2> QED BY <2>5 DEF k, kk, LostInv
    <1> QED BY <1>3, <1>4, LostEffects DEF LostEffect

LEMMA LostInit == Init => LostInv
    BY BoundsAreNat DEF Init, NoUse, LostInv

LEMMA LostAlways == Spec => []LostInv
    BY TypeAlways, LostInit, LostStep, PTL DEF Spec

LEMMA TypesFollow == TypeInv /\ ReservationExact /\ LostInv => TypeOK
    <1> SUFFICES ASSUME TypeInv, ReservationExact, LostInv PROVE TypeOK
        OBVIOUS
    <1>1. \A d \in DOMAIN deliveries : deliveries[d] \in Delivery
        <2> TAKE d \in DOMAIN deliveries
        <2> DEFINE x == deliveries[d]
        <2>1. claims \in Seq(DeliveryClaim)
            BY DEF TypeInv, RowsType, ClaimsType
        <2>2. x.reserved \in Nat
            BY <2>1, ExactRows, SharesNat DEF AllExact, Exact
        <2>3. x \in LooseDelivery
            BY DeliveryTypes DEF TypeInv
        <2> HIDE DEF x
        <2>4. x \in Delivery
            BY <2>2, <2>3 DEF LooseDelivery, Delivery
        <2> QED BY <2>4 DEF x
    <1>2. deliveries \in Seq(Delivery)
        <2>1. deliveries \in Seq(LooseDelivery)
            BY DEF TypeInv, RowsType, DeliveriesType
        <2>2. /\ Len(deliveries) \in Nat
              /\ deliveries \in [1 .. Len(deliveries) -> Delivery]
            BY <1>1, <2>1
        <2> QED BY <2>2
    <1>3. inv \in [Slots -> Stack] /\ saved \in [Slots -> Stack] \cup {<<>>}
        BY DEF TypeInv, InventoryType, Stacks, Durable
    <1>4. used \in [DOMAIN NoUse -> Nat]
        BY DEF TypeInv, Counters, NoUse
    <1> QED BY <1>2, <1>3, <1>4
            DEF TypeOK, TypeInv, RowsType, EscrowsType, ClaimsType, RunType, LostInv

\* Every variable holds a value of its type, in every reachable state.
THEOREM TypeCorrect == Spec => []TypeOK
    BY TypeAlways, ReservationExactHolds, LostAlways, TypesFollow, PTL

-----------------------------------------------------------------------------
(* What the marks in the inventory say, while they are durable *)

NoMark(i, kind, id) == \A s \in Slots : i[s].kind = kind => i[s].id # id
CleanMark(st) ==
    /\ st.kind \in {"sell", "receipt"} => ~escrows[st.id].cleaned
    /\ st.kind = "claim" => ~claims[st.id].cleaned

\* The next escrow to be tagged and the next claim to be filled have no mark,
\* and a row that counts as cleaned has none.
Marks ==
    /\ Stage("tag") => NoMark(inv, "sell", run.id)
    /\ Stage("add") => NoMark(inv, "claim", run.id)
    /\ \A s \in Slots : CleanMark(inv[s])
MarksInv == Durable => Marks

LEMMA NoMarkIs ==
    ASSUME NEW kind, NEW id
    PROVE  SlotsOf(kind, id) = {} <=> NoMark(inv, kind, id)
    BY DEF SlotsOf, NoMark

LEMMA CleanWritten ==
    ASSUME TypeInv, NEW old, NEW new, CleanMark(old), Write(old, new)
    PROVE  CleanMark(new)
    <1>1. CASE new = old
        BY <1>1
    <1>2. CASE new = Empty \/ new = Plain(old.n)
        BY <1>2 DEF CleanMark, Empty, Plain
    <1>3. CASE /\ old.kind = "sell" /\ new = Marked("receipt", 1, old.id)
        BY <1>3 DEF CleanMark, Marked
    <1>4. CASE Stage("tag") /\ new = Marked("sell", old.n, run.id)
        <2>1. ~escrows[run.id].cleaned
            BY <1>4 DEF TypeInv, Current, Stage, RowsType, EscrowsType, GoodEscrow
        <2> QED BY <1>4, <2>1 DEF CleanMark, Marked
    <1>5. ASSUME Stage("add"), NEW n \in Nat, new = Marked("claim", n, run.id)
          PROVE  CleanMark(new)
        <2>1. ~claims[run.id].cleaned
            BY <1>5 DEF TypeInv, Current, RowsType, ClaimsType, GoodClaim
        <2> QED BY <1>5, <2>1 DEF CleanMark, Marked
    <1> QED BY <1>1, <1>2, <1>3, <1>4, <1>5 DEF Write

\* Every stack that is counted holds something.
LEMMA AmountZero ==
    ASSUME Stacks(inv), NEW kind, kind # "none", NEW id, Amount(SlotsOf(kind, id)) = 0
    PROVE  NoMark(inv, kind, id)
    <1> DEFINE S == SlotsOf(kind, id)
               f == [s \in Slots |-> inv[s].n]
    <1> SUFFICES ASSUME S # {} PROVE FALSE
        BY NoMarkIs
    <1>1. PICK s \in S : TRUE
        OBVIOUS
    <1>2. s \in Slots /\ inv[s].kind = kind
        BY <1>1, SlotsOfFacts
    <1>3. f[s] > 0
        BY <1>2 DEF Stacks, GoodStack
    <1>4. IsFiniteSet(S) /\ \A t \in S : f[t] \in Nat
        BY BoundsAreNat, FS_Subset, SlotsOfFacts DEF Stacks, Stack
    <1>5. SumFunctionOnSet(f, S) = 0
        BY DEF Amount
    <1> HIDE DEF f, S
    <1>6. f[s] <= SumFunctionOnSet(f, S)
        BY ONLY <1>1, <1>4, SumAtLeast
    <1>7. f[s] \in Nat
        BY <1>1, <1>4
    <1> QED BY <1>3, <1>5, <1>6, <1>7

\* The inventory after the operations that clear a mark has none.
LEMMA Clears ==
    ASSUME NEW id
    PROVE  /\ NoMark(restoreTaggedSellItems(id), "sell", id)
           /\ NoMark(inv, "receipt", id) => NoMark(restoreTaggedSellItems(id), "receipt", id)
           /\ NoMark(removeTaggedSellItemsAndReceipts(id), "sell", id)
           /\ NoMark(removeTaggedSellItemsAndReceipts(id), "receipt", id)
           /\ NoMark(clearDeliveryClaimTag(id), "claim", id)
    <1>1. /\ NoMark(restoreTaggedSellItems(id), "sell", id)
          /\ NoMark(inv, "receipt", id) => NoMark(restoreTaggedSellItems(id), "receipt", id)
        BY DEF restoreTaggedSellItems, Replaced, SlotsOf, NoMark, Plain
    <1>2. /\ NoMark(removeTaggedSellItemsAndReceipts(id), "sell", id)
          /\ NoMark(removeTaggedSellItemsAndReceipts(id), "receipt", id)
        BY DEF removeTaggedSellItemsAndReceipts, Replaced, SlotsOf, NoMark, Empty
    <1>3. NoMark(clearDeliveryClaimTag(id), "claim", id)
        BY DEF clearDeliveryClaimTag, Replaced, SlotsOf, NoMark, Plain
    <1> QED BY <1>1, <1>2, <1>3

\* A row of the escrows that is cleaned in a step has no mark after it.
CleanedEscrows ==
    \A i \in DOMAIN escrows :
        escrows'[i].cleaned /\ ~escrows[i].cleaned
            => NoMark(inv', "sell", i) /\ NoMark(inv', "receipt", i)

LEMMA EscrowsCleaned == TypeInv /\ [Next]_vars => CleanedEscrows
    <1> SUFFICES ASSUME TypeInv, [Next]_vars PROVE CleanedEscrows
        OBVIOUS
    <1>t. /\ RunType /\ Lists /\ Current /\ RowsType
          /\ \A s \in Slots : GoodStack(inv[s], escrows, claims)
          /\ escrows \in Seq(SellEscrow)
        BY DEF TypeInv, InventoryType, Stacks, RowsType, EscrowsType
    <1>f. run.todo # {} => First \in run.todo
        BY <1>t, FirstFacts
    <1>0. CASE UNCHANGED escrows
        BY <1>0 DEF CleanedEscrows
    <1>a. ASSUME NEW k \in DOMAIN escrows, NEW row, EscrowUpdate(k, row),
                 ~row.cleaned \/ (NoMark(inv', "sell", k) /\ NoMark(inv', "receipt", k))
          PROVE  CleanedEscrows
        <2>1. \A i \in DOMAIN escrows : escrows'[i] = IF i = k THEN row ELSE escrows[i]
            BY <1>a DEF EscrowUpdate
        <2> QED BY <1>a, <2>1 DEF CleanedEscrows
    <1>b. ASSUME NEW k \in DOMAIN escrows, NEW t, EscrowIs(k, "PREPARED"),
                 markSellEscrowTagged(k, t)
          PROVE  CleanedEscrows
        <2>1. EscrowUpdate(k, TaggedRow(escrows[k], t))
            BY <1>b, <1>t DEF markSellEscrowTagged, EscrowUpdate, TaggedRow, SellEscrow
        <2>2. ~TaggedRow(escrows[k], t).cleaned
            BY <1>b, <1>t DEF EscrowIs, TaggedRow, RowsType, EscrowsType, GoodEscrow, SellEscrow
        <2> QED BY <1>a, <2>1, <2>2
    <1>1. CASE \E type \in {"LIMIT", "MARKET"}, q \in Quantities : submitSellEscrow(type, q)
        <2>1. Prepares
            BY <1>1 DEF submitSellEscrow, Prepares
        <2> QED BY <2>1, <1>t, EscrowAdded DEF CleanedEscrows, RowsType
    <1>2. CASE tagItems \/ markTagged
        <2>1. UNCHANGED escrows \/ \E k \in DOMAIN escrows : \E t :
                 EscrowIs(k, "PREPARED") /\ markSellEscrowTagged(k, t)
            BY <1>2, <1>t, <1>f DEF tagItems, markTagged, Working, Call, Lists, Current,
               Stage, EscrowIs
        <2> QED BY <1>0, <1>b, <2>1
    <1>3. CASE cancelShort
        <2>1. /\ First \in DOMAIN escrows /\ escrows[First].status = "PREPARED"
              /\ inv' = restoreTaggedSellItems(First)
              /\ UNCHANGED escrows \/ cancelSellEscrow(First)
            BY <1>3, <1>t, <1>f DEF cancelShort, Working, Call, Lists, Stage
        <2>2. NoMark(inv, "receipt", First)
            BY <1>t, <2>1 DEF NoMark, GoodStack
        <2>3. NoMark(inv', "sell", First) /\ NoMark(inv', "receipt", First)
            BY <2>1, <2>2, Clears
        <2>4. cancelSellEscrow(First) => EscrowUpdate(First, CanceledRow(escrows[First]))
            BY <1>t, <2>1, EscrowRows DEF RowsType
        <2> QED BY <1>0, <1>a, <2>1, <2>3, <2>4
    <1>4. CASE placeOrder
        <2>1. /\ First \in DOMAIN escrows /\ escrows[First].status = "TAGGED"
              /\ UNCHANGED escrows \/ executeSellEscrow(First)
            BY <1>4, <1>t, <1>f DEF placeOrder, Working, Call, Lists, Stage
        <2>2. executeSellEscrow(First) => EscrowUpdate(First, OrderedRow(escrows[First]))
            BY <1>t, <2>1, EscrowRows DEF RowsType
        <2>3. ~OrderedRow(escrows[First]).cleaned
            BY <1>t, <2>1 DEF OrderedRow, RowsType, EscrowsType, GoodEscrow, SellEscrow
        <2> QED BY <1>0, <1>a, <2>1, <2>2, <2>3
    <1>5. CASE cleanUp \/ removeOrdered
        <2>1. /\ First \in DOMAIN escrows
              /\ inv' = removeTaggedSellItemsAndReceipts(First)
              /\ UNCHANGED escrows \/ markSellEscrowCleaned(First)
            BY <1>5, <1>t, <1>f DEF cleanUp, removeOrdered, Working, MarkedEscrow, Call,
               Lists, Stage
        <2>2. NoMark(inv', "sell", First) /\ NoMark(inv', "receipt", First)
            BY <2>1, Clears
        <2>3. markSellEscrowCleaned(First) => EscrowUpdate(First, CleanedRow(escrows[First]))
            BY <1>t, <2>1, EscrowRows DEF RowsType
        <2> QED BY <1>0, <1>a, <2>1, <2>2, <2>3
    <1>6. CASE finishClaim \/ cleanClaim \/ reserveDelivery \/ addDelivered
               \/ clearDelivered \/ clearApplied \/ retryExecute \/ queryFails
        BY <1>0, <1>6 DEF finishClaim, cleanClaim, reserveDelivery, addDelivered,
           clearDelivered, clearApplied, retryExecute, queryFails, rows
    <1>7. CASE inventoryInsufficient \/ placeOrderThrows \/ otherClaimMarker
               \/ otherSellMarker \/ nextLoop \/ claimDeliveries \/ onPlayerJoin \/ save
        BY <1>0, <1>7 DEF inventoryInsufficient, placeOrderThrows, otherClaimMarker,
           otherSellMarker, nextLoop, claimDeliveries, onPlayerJoin, save, rows
    <1>8. CASE \/ kill \/ toggleMarket \/ \E q \in Quantities : deliveryArrives(q)
               \/ \E s \in Slots : useStack(s)
               \/ UNCHANGED vars
        BY <1>0, <1>8 DEF kill, toggleMarket, deliveryArrives, useStack, rows, vars
    <1> QED BY <1>1, <1>2, <1>3, <1>4, <1>5, <1>6, <1>7, <1>8 DEF Next, work

\* Nothing is delivered only into a full inventory.
LEMMA DeliveredNothing ==
    ASSUME NEW q \in Nat, q > 0, Delivered(q) = 0, NEW id
    PROVE  addItem(id, q) = [s \in Slots |-> inv[s]]
    <1>1. IsFiniteSet(EmptySlots) /\ Cardinality(EmptySlots) \in Nat
        BY BoundsAreNat, FS_Subset, FS_CardinalityType DEF EmptySlots
    <1> DEFINE k == Cardinality(EmptySlots)
    <1>2. k = 0
        <2> SUFFICES ASSUME k > 0 PROVE FALSE
            BY <1>1
        <2>1. k \in Nat /\ lesser(q, StackSize * k) = 0
            BY <1>1 DEF Delivered
        <2> HIDE DEF k
        <2>2. StackSize * k > 0 /\ StackSize * k \in Nat
            BY <2>1, BoundsAreNat
        <2> QED BY <2>1, <2>2 DEF lesser
    <1>3. EmptySlots = {}
        BY <1>1, <1>2, FS_EmptySet
    <1> QED BY <1>3 DEF addItem, Replaced

\* A row of the claims that is cleaned in a step has no mark after it.
CleanedClaims ==
    \A c \in DOMAIN claims :
        claims'[c].cleaned /\ ~claims[c].cleaned => NoMark(inv', "claim", c)

LEMMA ClaimsCleaned == TypeInv /\ Marks /\ [Next]_vars => CleanedClaims
    <1> SUFFICES ASSUME TypeInv, Marks, [Next]_vars PROVE CleanedClaims
        OBVIOUS
    <1>t. /\ RunType /\ Lists /\ Current /\ RowsType /\ Stacks(inv)
          /\ claims \in Seq(DeliveryClaim)
          /\ \A c \in DOMAIN claims : /\ claims[c] \in DeliveryClaim
                                      /\ claims[c].quantity \in Nat
                                      /\ claims[c].quantity > 0
        BY DEF TypeInv, InventoryType, RowsType, ClaimsType, GoodClaim, DeliveryClaim
    <1>f. run.todo # {} => First \in run.todo
        BY <1>t, FirstFacts
    <1>0. CASE UNCHANGED claims
        BY <1>0 DEF CleanedClaims
    <1>a. ASSUME NEW k \in DOMAIN claims, NEW row, ClaimUpdate(k, row),
                 ~row.cleaned \/ NoMark(inv', "claim", k)
          PROVE  CleanedClaims
        <2>1. \A c \in DOMAIN claims : claims'[c] = IF c = k THEN row ELSE claims[c]
            BY <1>a DEF ClaimUpdate
        <2> QED BY <1>a, <2>1 DEF CleanedClaims
    <1>b. ASSUME NEW k \in DOMAIN claims, NEW n \in Nat, completeDeliveryClaim(k, n),
                 n = 0 => NoMark(inv', "claim", k)
          PROVE  CleanedClaims
        <2>1. ClaimUpdate(k, CompletedRow(claims[k], n))
            BY <1>b DEF completeDeliveryClaim, ClaimUpdate, CompletedRow
        <2>2. CompletedRow(claims[k], n).cleaned = (n = 0)
            BY <1>t DEF CompletedRow, DeliveryClaim
        <2> QED BY <1>a, <1>b, <2>1, <2>2
    <1>1. CASE clearApplied \/ cleanClaim
        <2>1. /\ First \in DOMAIN claims
              /\ inv' = clearDeliveryClaimTag(First)
              /\ UNCHANGED claims \/ markDeliveryClaimCleaned(First)
            BY <1>1, <1>t, <1>f DEF clearApplied, cleanClaim, MarkedClaim, Call, Lists, Stage
        <2>2. NoMark(inv', "claim", First)
            BY <2>1, Clears
        <2>3. markDeliveryClaimCleaned(First)
                => ClaimUpdate(First, [claims[First] EXCEPT !.cleaned = TRUE])
            BY DEF markDeliveryClaimCleaned, ClaimUpdate
        <2> QED BY <1>0, <1>a, <2>1, <2>2, <2>3
    <1>2. CASE clearDelivered
        <2>1. /\ run.id \in DOMAIN claims
              /\ inv' = clearDeliveryClaimTag(run.id)
              /\ UNCHANGED claims \/ markDeliveryClaimCleaned(run.id)
            BY <1>2, <1>t DEF clearDelivered, Call, Current
        <2>2. NoMark(inv', "claim", run.id)
            BY <2>1, Clears
        <2>3. markDeliveryClaimCleaned(run.id)
                => ClaimUpdate(run.id, [claims[run.id] EXCEPT !.cleaned = TRUE])
            BY DEF markDeliveryClaimCleaned, ClaimUpdate
        <2> QED BY <1>0, <1>a, <2>1, <2>2, <2>3
    <1>3. CASE finishClaim
        <2> DEFINE n == lesser(taggedItemCount(First), claims[First].quantity)
        <2>1. First \in DOMAIN claims /\ inv' = inv
              /\ (UNCHANGED claims \/ completeDeliveryClaim(First, n))
            BY <1>3, <1>t, <1>f DEF finishClaim, Call, Lists, Stage
        <2>2. taggedItemCount(First) \in Nat
            BY <1>t, TaggedFacts
        <2>3. n \in Nat
            BY <1>t, <2>1, <2>2 DEF lesser
        <2>4. ASSUME n = 0 PROVE NoMark(inv', "claim", First)
            <3>1. Amount(SlotsOf("claim", First)) = 0
                BY <1>t, <2>1, <2>2, <2>4 DEF lesser, taggedItemCount
            <3>2. NoMark(inv, "claim", First)
                BY <1>t, <3>1, AmountZero
            <3> QED BY <2>1, <3>2
        <2> HIDE DEF n
        <2> QED BY <1>0, <1>b, <2>1, <2>3, <2>4
    <1>4. CASE addDelivered
        <2> DEFINE q == claims[run.id].quantity
                   n == Delivered(q)
        <2>1. /\ Stage("add") /\ run.id \in DOMAIN claims
              /\ inv' = addItem(run.id, q)
              /\ UNCHANGED claims \/ completeDeliveryClaim(run.id, n)
            BY <1>4, <1>t DEF addDelivered, Call, Current
        <2>2. q \in Nat /\ q > 0
            BY <1>t, <2>1
        <2>3. n \in Nat
            BY <2>2, DeliveredFacts
        <2>4. ASSUME n = 0 PROVE NoMark(inv', "claim", run.id)
            <3>1. inv' = [s \in Slots |-> inv[s]]
                BY <2>1, <2>2, <2>4, DeliveredNothing
            <3>2. NoMark(inv, "claim", run.id)
                BY <2>1 DEF Marks
            <3> QED BY <3>1, <3>2 DEF NoMark
        <2> HIDE DEF n
        <2> QED BY <1>0, <1>b, <2>1, <2>3, <2>4
    <1>5. CASE reserveDelivery
        <2>1. UNCHANGED claims \/ \E d, q : insertClaim(d, q)
            BY <1>5 DEF reserveDelivery, Call, prepareDeliveryClaim
        <2>2. ASSUME NEW d, NEW q, insertClaim(d, q) PROVE CleanedClaims
            BY <2>2 DEF insertClaim, CleanedClaims
        <2> QED BY <1>0, <2>1, <2>2
    <1>6. CASE tagItems \/ cancelShort \/ markTagged \/ placeOrder \/ cleanUp \/ removeOrdered
               \/ retryExecute \/ queryFails
               \/ \E type \in {"LIMIT", "MARKET"}, q \in Quantities : submitSellEscrow(type, q)
        BY <1>0, <1>6 DEF tagItems, cancelShort, markTagged, placeOrder, cleanUp,
           removeOrdered, retryExecute, queryFails, submitSellEscrow, rows
    <1>7. CASE inventoryInsufficient \/ placeOrderThrows \/ otherClaimMarker
               \/ otherSellMarker \/ nextLoop \/ claimDeliveries \/ onPlayerJoin \/ save
        BY <1>0, <1>7 DEF inventoryInsufficient, placeOrderThrows, otherClaimMarker,
           otherSellMarker, nextLoop, claimDeliveries, onPlayerJoin, save, rows
    <1>8. CASE \/ kill \/ toggleMarket \/ \E q \in Quantities : deliveryArrives(q)
               \/ \E s \in Slots : useStack(s)
               \/ UNCHANGED vars
        BY <1>0, <1>8 DEF kill, toggleMarket, deliveryArrives, useStack, rows, vars
    <1> QED BY <1>1, <1>2, <1>3, <1>4, <1>5, <1>6, <1>7, <1>8 DEF Next, work

\* A behaviour is durable from its first state on, or never.
LEMMA StaysDurable == TypeInv /\ [Next]_vars /\ Durable' => Durable
    <1> SUFFICES ASSUME TypeInv, [Next]_vars, Durable' PROVE Durable
        OBVIOUS
    <1>1. UNCHANGED saved \/ (saved' = inv /\ ~Durable)
        BY DEF Next, work, vars, submitSellEscrow, tagItems, inventoryInsufficient,
           retryExecute, cancelShort, markTagged, placeOrder, placeOrderThrows, cleanUp,
           clearApplied, otherClaimMarker, removeOrdered, otherSellMarker, finishClaim,
           cleanClaim, reserveDelivery, addDelivered, clearDelivered, nextLoop,
           queryFails, claimDeliveries, onPlayerJoin, kill, save, deliveryArrives,
           useStack, toggleMarket
    <1> QED BY <1>1, BoundsAreNat DEF Durable, TypeInv, InventoryType, Stacks

LEMMA MarksStep == TypeInv /\ MarksInv /\ [Next]_vars => MarksInv'
    <1> SUFFICES ASSUME TypeInv, MarksInv, [Next]_vars, Durable' PROVE Marks'
        BY DEF MarksInv
    <1>d. Durable
        BY StaysDurable
    <1>m. Marks
        BY <1>d DEF MarksInv
    <1>e. /\ RunEffect /\ StackEffect /\ EscrowEffect /\ ClaimEffect
          /\ CleanedEscrows /\ CleanedClaims
          /\ \A s \in Slots : GoodStack(inv'[s], escrows, claims)
        BY <1>m, RunEffects, StackEffects, RowEffects, EscrowEffects, ClaimEffects,
           EscrowsCleaned, ClaimsCleaned, WrittenGood DEF TypeInv
    <1>1. \A s \in Slots : CleanMark(inv'[s])
        <2>1. CASE Writes(inv')
            BY <1>m, <2>1, CleanWritten DEF Writes, Marks
        <2>2. CASE UsesUp
            <3>1. CleanMark(Empty)
                BY DEF CleanMark, Empty
            <3>2. \A s \in Slots : inv'[s] = inv[s] \/ inv'[s] = Empty
                BY <2>2 DEF UsesUp, TypeInv, InventoryType, Stacks
            <3> QED BY <1>m, <3>1, <3>2 DEF Marks
        <2>3. ~TakenBack
            BY <1>d DEF TakenBack
        <2>4. CASE Torn
            <3>1. \A s \in Slots : inv'[s] = Empty \/ Write(inv[s], inv'[s])
                BY <2>4 DEF Torn
            <3>2. CleanMark(Empty)
                BY DEF CleanMark, Empty
            <3> QED BY <1>m, <3>1, <3>2, CleanWritten DEF Marks
        <2> QED BY <1>e, <2>1, <2>2, <2>3, <2>4 DEF StackEffect
    <1>2. ASSUME NEW s \in Slots PROVE CleanMark(inv[s])'
        <2> DEFINE st == inv'[s]
        <2>1. CASE st.kind \in {"sell", "receipt"}
            <3>1. st.id \in DOMAIN escrows /\ ~escrows[st.id].cleaned
                BY <1>e, <1>1, <2>1 DEF GoodStack, CleanMark
            <3>2. ~escrows'[st.id].cleaned
                BY <1>e, <2>1, <3>1 DEF CleanedEscrows, NoMark
            <3> QED BY <2>1, <3>2 DEF CleanMark
        <2>2. CASE st.kind = "claim"
            <3>1. st.id \in DOMAIN claims /\ ~claims[st.id].cleaned
                BY <1>e, <1>1, <2>2 DEF GoodStack, CleanMark
            <3>2. ~claims'[st.id].cleaned
                BY <1>e, <2>2, <3>1 DEF CleanedClaims, NoMark
            <3> QED BY <2>2, <3>2 DEF CleanMark
        <2> QED BY <2>1, <2>2 DEF CleanMark
    <1>r. RunType
        BY DEF TypeInv
    <1>g. \A s \in Slots : GoodStack(inv[s], escrows, claims)
        BY DEF TypeInv, InventoryType, Stacks
    <1>3. ASSUME Stage("tag")' PROVE NoMark(inv, "sell", run.id)'
        <2>1. \/ UNCHANGED <<run, inv>>
              \/ Goes("tag", "submit", Len(escrows) + 1, {}) /\ UNCHANGED inv
            BY <1>e, <1>3, <1>r DEF RunEffect, Goes, Stage, LoopStages
        <2>2. CASE UNCHANGED <<run, inv>>
            BY <1>3, <1>m, <2>2 DEF Marks, Stage, NoMark
        <2>3. CASE Goes("tag", "submit", Len(escrows) + 1, {}) /\ UNCHANGED inv
            <3>1. run'.id = Len(escrows) + 1 /\ run'.id \notin DOMAIN escrows
                BY <2>3 DEF Goes, TypeInv, RowsType, EscrowsType
            <3>2. \A s \in Slots : inv'[s].kind = "sell" => inv'[s].id \in DOMAIN escrows
                BY <1>g, <2>3 DEF GoodStack
            <3> QED BY <3>1, <3>2 DEF NoMark
        <2> QED BY <2>1, <2>2, <2>3
    <1>4. ASSUME Stage("add")' PROVE NoMark(inv, "claim", run.id)'
        <2>1. \/ UNCHANGED <<run, inv>>
              \/ Goes("add", "claim", NewClaim, Rest) /\ UNCHANGED inv
            BY <1>e, <1>4, <1>r DEF RunEffect, Goes, Stage, LoopStages
        <2>2. CASE UNCHANGED <<run, inv>>
            BY <1>4, <1>m, <2>2 DEF Marks, Stage, NoMark
        <2>3. CASE Goes("add", "claim", NewClaim, Rest) /\ UNCHANGED inv
            <3>1. run'.id = NewClaim
                BY <2>3 DEF Goes
            <3>2. NoMark(inv, "claim", NewClaim)
                <4>1. \/ NewClaim = Len(claims) + 1
                      \/ SlotsOf("claim", NewClaim) = {}
                    BY NewClaimFacts DEF TypeInv, RowsType
                <4>2. CASE NewClaim = Len(claims) + 1
                    <5>1. NewClaim \notin DOMAIN claims
                        BY <4>2 DEF TypeInv, RowsType, ClaimsType
                    <5> QED BY <1>g, <5>1 DEF GoodStack, NoMark
                <4> QED BY <4>1, <4>2, NoMarkIs
            <3> QED BY <2>3, <3>1, <3>2 DEF NoMark
        <2> QED BY <2>1, <2>2, <2>3
    <1> QED BY <1>2, <1>3, <1>4 DEF Marks

LEMMA MarksInit == Init => MarksInv
    BY DEF Init, At, MarksInv, Marks, Stage, CleanMark, Empty, Plain

LEMMA MarksAlways == Spec => []MarksInv
    BY TypeAlways, MarksInit, MarksStep, PTL DEF Spec

LEMMA MarksFollow == MarksInv => CleanedLeftNoMark
    <1> SUFFICES ASSUME Durable, Marks
                 PROVE  /\ \A i \in DOMAIN escrows : escrows[i].cleaned =>
                              SlotsOf("sell", i) \cup SlotsOf("receipt", i) = {}
                        /\ \A c \in DOMAIN claims : claims[c].cleaned =>
                              SlotsOf("claim", c) = {}
        BY DEF MarksInv, CleanedLeftNoMark
    <1> QED BY DEF Marks, CleanMark, SlotsOf

\* A row that counts as cleaned has left no mark in the inventory, whatever
\* was interrupted (cancelSellEscrow, markSellEscrowCleaned,
\* markDeliveryClaimCleaned, completeDeliveryClaim): no loop over unfinished
\* rows will look at it again.
THEOREM CleanedLeftNoMarkHolds == Spec => []CleanedLeftNoMark
    BY MarksAlways, MarksFollow, PTL

-----------------------------------------------------------------------------
(* How many items the marks of a row hold *)

MassOf(st, kind, id) == IF st.kind = kind /\ st.id = id THEN st.n ELSE 0
Mass(i, kind, id) == SumFunctionOnSet([s \in Slots |-> MassOf(i[s], kind, id)], Slots)

LEMMA MassNat ==
    ASSUME NEW i, \A s \in Slots : i[s] \in Stack, NEW kind, NEW id
    PROVE  /\ Mass(i, kind, id) \in Nat
           /\ NoMark(i, kind, id) => Mass(i, kind, id) = 0
    <1> DEFINE f == [s \in Slots |-> MassOf(i[s], kind, id)]
    <1>1. /\ \A s \in Slots : f[s] \in Nat
          /\ NoMark(i, kind, id) => \A s \in Slots : f[s] = 0
        BY DEF Stack, MassOf, NoMark
    <1>2. Mass(i, kind, id) = SumFunctionOnSet(f, Slots) /\ IsFiniteSet(Slots)
        BY BoundsAreNat DEF Mass
    <1> HIDE DEF f
    <1>3. SumFunctionOnSet(f, Slots) \in Nat
        BY <1>1, <1>2, SumNat
    <1>4. (\A s \in Slots : f[s] = 0) => SumFunctionOnSet(f, Slots) = 0
        BY <1>2, SumZero
    <1> QED BY <1>1, <1>2, <1>3, <1>4

\* What is counted over the marked slots.
LEMMA AmountIsMass ==
    ASSUME \A s \in Slots : inv[s] \in Stack, NEW kind, NEW id
    PROVE  Amount(SlotsOf(kind, id)) = Mass(inv, kind, id)
    <1> DEFINE T == SlotsOf(kind, id)
               f == [s \in Slots |-> inv[s].n]
               g == [s \in Slots |-> MassOf(inv[s], kind, id)]
    <1>1. T \in SUBSET Slots /\ IsFiniteSet(Slots)
        BY SlotsOfFacts, BoundsAreNat
    <1>2. \A s \in T : f[s] \in Int /\ g[s] = f[s]
        BY <1>1, SlotsOfFacts DEF MassOf, Stack
    <1>3. \A s \in Slots \ T : g[s] = 0
        BY DEF SlotsOf, MassOf
    <1>4. /\ Amount(SlotsOf(kind, id)) = SumFunctionOnSet(f, T)
          /\ Mass(inv, kind, id) = SumFunctionOnSet(g, Slots)
        BY DEF Amount, Mass
    <1> HIDE DEF f, g, T
    <1>5. SumFunctionOnSet(g, Slots) = SumFunctionOnSet(f, T)
        BY ONLY <1>1, <1>2, <1>3, SumRestrict
    <1> QED BY <1>4, <1>5

\* Less in every slot is less in all.
LEMMA MassAtMost ==
    ASSUME NEW i, \A s \in Slots : i[s] \in Stack, NEW j, \A s \in Slots : j[s] \in Stack,
           NEW kind, NEW id,
           \A s \in Slots : MassOf(i[s], kind, id) <= MassOf(j[s], kind, id)
    PROVE  Mass(i, kind, id) <= Mass(j, kind, id)
    <1> DEFINE f == [s \in Slots |-> MassOf(i[s], kind, id)]
               g == [s \in Slots |-> MassOf(j[s], kind, id)]
    <1>1. \A s \in Slots : f[s] \in Int /\ g[s] \in Int /\ f[s] <= g[s]
        BY DEF Stack, MassOf
    <1>2. /\ Mass(i, kind, id) = SumFunctionOnSet(f, Slots)
          /\ Mass(j, kind, id) = SumFunctionOnSet(g, Slots) /\ IsFiniteSet(Slots)
        BY BoundsAreNat DEF Mass
    <1> HIDE DEF f, g
    <1>3. SumFunctionOnSet(f, Slots) <= SumFunctionOnSet(g, Slots)
        BY <1>1, <1>2, SumAtMost
    <1> QED BY <1>2, <1>3

\* Slots have an order with a last one.
LEMMA LastSlot ==
    ASSUME NEW T \in SUBSET Slots, T # {}
    PROVE  \E m \in T : \A t \in T : t <= m
    <1> DEFINE N == Cardinality(Slots)
               B == {b \in Nat : \A t \in T : t <= b}
    <1>1. N \in Nat /\ T \subseteq 1 .. N
        BY ConstantsAssumption, FS_CardinalityType
    <1>2. N \in B
        <2> HIDE DEF N
        <2> QED BY <1>1
    <1>3. PICK b \in B : \A a \in B : b <= a
        BY <1>2, NatMinimum
    <1>4. b \in T
        <2> SUFFICES ASSUME b \notin T PROVE FALSE
            OBVIOUS
        <2>1. b \in Nat /\ \A t \in T : t <= b /\ t \in Nat /\ t >= 1
            <3> HIDE DEF N
            <3> QED BY <1>1, <1>3
        <2>2. \A t \in T : t <= b - 1
            BY <2>1
        <2>3. b - 1 \in Nat
            BY <2>1
        <2>4. b - 1 \in B
            BY <2>2, <2>3
        <2> HIDE DEF B
        <2> QED BY <1>3, <2>1, <2>4
    <1> QED BY <1>3, <1>4

\* How much of q goes into the empty slot s when T are all of them.
Share(T, q, s) ==
    LET a == lesser(StackSize, q - StackSize * Cardinality({t \in T : t < s}))
    IN IF a > 0 THEN a ELSE 0

LEMMA ShareOfSlot ==
    ASSUME NEW T \in SUBSET Slots, NEW q \in Nat, NEW s
    PROVE  Share(T, q, s) \in Nat
    <1> DEFINE U == {t \in T : t < s}
    <1>1. Cardinality(U) \in Nat
        BY BoundsAreNat, FS_Subset, FS_CardinalityType
    <1>2. StackSize * Cardinality(U) \in Nat
        <2> HIDE DEF U
        <2> QED BY <1>1, BoundsAreNat
    <1> HIDE DEF U
    <1>3. lesser(StackSize, q - StackSize * Cardinality(U)) \in Int
        BY <1>2, BoundsAreNat DEF lesser
    <1> QED BY <1>3 DEF Share, U

\* The empty slots take what fits into them.
LEMMA ShareSum ==
    ASSUME NEW E \in SUBSET Slots, NEW q \in Nat
    PROVE  SumFunctionOnSet([s \in E |-> Share(E, q, s)], E)
              = lesser(q, StackSize * Cardinality(E))
    <1> DEFINE f(T) == [s \in T |-> Share(T, q, s)]
               Bad == {T \in SUBSET E : SumFunctionOnSet(f(T), T)
                                           # lesser(q, StackSize * Cardinality(T))}
    <1> SUFFICES ASSUME Bad # {} PROVE FALSE
        OBVIOUS
    <1>0. IsFiniteSet(E) /\ E \subseteq Nat
        BY BoundsAreNat, FS_Subset
    <1>1. PICK T \in Bad : \A U \in Bad : Cardinality(T) <= Cardinality(U)
        BY <1>0, LeastCardinality
    <1>2. T # {}
        <2> SUFFICES ASSUME T = {} PROVE FALSE
            OBVIOUS
        <2>1. SumFunctionOnSet(f(T), T) = 0
            BY SumEmpty
        <2>2. StackSize * Cardinality(T) = 0
            BY FS_EmptySet, BoundsAreNat
        <2> QED BY <1>1, <2>1, <2>2 DEF lesser
    <1>3. PICK m \in T : \A t \in T : t <= m
        BY <1>1, <1>2, LastSlot
    <1> DEFINE r == T \ {m}
               x == StackSize * Cardinality(r)
    <1>4. /\ r \in SUBSET E /\ Cardinality(T) \in Nat /\ IsFiniteSet(T) /\ IsFiniteSet(r)
          /\ Cardinality(r) = Cardinality(T) - 1 /\ Cardinality(r) \in Nat
          /\ T \subseteq Nat /\ T \in SUBSET Slots /\ r \in SUBSET Slots
        <2>1. T \in SUBSET E
            OBVIOUS
        <2>2. /\ IsFiniteSet(T) /\ T \ {m} \in SUBSET E
              /\ Cardinality(T) \in Nat /\ Cardinality(T \ {m}) = Cardinality(T) - 1
              /\ Cardinality(T \ {m}) \in Nat
            BY ONLY <1>0, <1>3, <2>1, Smaller
        <2>3. IsFiniteSet(T \ {m})
            BY <2>2, FS_Subset
        <2> QED BY <1>0, <2>1, <2>2, <2>3
    <1>5. SumFunctionOnSet(f(r), r) = lesser(q, x)
        <2> HIDE DEF r
        <2>1. r \notin Bad
            <3> HIDE DEF Bad
            <3> QED BY <1>1, <1>4
        <2> QED BY <2>1, <1>4
    <1>6. x \in Nat /\ StackSize * Cardinality(T) = x + StackSize
        <2> DEFINE k == Cardinality(r)
        <2>1. k \in Nat /\ Cardinality(T) = k + 1
            BY <1>4
        <2> HIDE DEF k
        <2> QED BY <2>1, BoundsAreNat DEF k
    <1>7. \A y \in r : f(T)[y] = f(r)[y]
        <2> TAKE y \in r
        <2>1. {t \in T : t < y} = {t \in r : t < y}
            BY <1>3, <1>4
        <2> QED BY <2>1 DEF Share
    <1>8. f(T)[m] = IF lesser(StackSize, q - x) > 0 THEN lesser(StackSize, q - x) ELSE 0
        <2>1. {t \in T : t < m} = r
            <3>1. \A t \in T : t < m <=> t # m
                BY <1>3, <1>4
            <3> QED BY <3>1
        <2> QED BY <1>3, <2>1 DEF Share
    <1>9. \A y \in T : f(T)[y] \in Int
        BY <1>4, ShareOfSlot
    <1>10. SumFunctionOnSet(f(T), T) = f(T)[m] + SumFunctionOnSet(f(T), r)
        <2> DEFINE g == f(T)
        <2>1. \A y \in T : g[y] \in Int
            BY <1>9
        <2> HIDE DEF g
        <2>2. SumFunctionOnSet(g, T) = g[m] + SumFunctionOnSet(g, T \ {m})
            BY <1>3, <1>4, <2>1, SumRemove
        <2> QED BY <2>2 DEF g
    <1>11. SumFunctionOnSet(f(T), r) = SumFunctionOnSet(f(r), r)
        <2> DEFINE g == f(T)
                   h == f(r)
        <2>1. \A y \in r : g[y] = h[y]
            BY <1>7
        <2> HIDE DEF g, h
        <2>2. SumFunctionOnSet(g, r) = SumFunctionOnSet(h, r)
            BY <1>4, <2>1, SumEqual
        <2> QED BY <2>2 DEF g, h
    <1> HIDE DEF r, x, f
    <1>12. SumFunctionOnSet(f(T), T) = lesser(q, x + StackSize)
        BY <1>5, <1>6, <1>8, <1>10, <1>11, BoundsAreNat DEF lesser
    <1> QED BY <1>1, <1>6, <1>12

\* A stack added to each empty slot that gets a share.
LEMMA AddedStacks ==
    ASSUME NEW id, NEW q \in Nat, NEW s \in Slots
    PROVE  LET a == Share(EmptySlots, q, s)
           IN  addItem(id, q)[s] = IF s \in EmptySlots /\ a > 0
                                   THEN Marked("claim", a, id) ELSE inv[s]
    <1> DEFINE E == EmptySlots
               before(t) == StackSize * Cardinality({u \in E : u < t})
               amount(t) == lesser(StackSize, q - before(t))
               T == {t \in E : amount(t) > 0}
               f == [t \in T |-> Marked("claim", amount(t), id)]
    <1>1. addItem(id, q) = Replaced(f)
        BY DEF addItem
    <1>2. Replaced(f)[s] = IF s \in T THEN f[s] ELSE inv[s]
        BY DEF Replaced
    <1>3. s \in T <=> s \in E /\ amount(s) > 0
        OBVIOUS
    <1>4. s \in T => f[s] = Marked("claim", amount(s), id)
        OBVIOUS
    <1>5. Share(E, q, s) = IF amount(s) > 0 THEN amount(s) ELSE 0
        BY DEF Share
    <1>6. amount(s) > 0 => Share(E, q, s) = amount(s) /\ Share(E, q, s) > 0
        BY <1>5
    <1>7. ~(amount(s) > 0) => ~(Share(E, q, s) > 0)
        BY <1>5
    <1> HIDE DEF f, T, amount, E
    <1> QED BY <1>1, <1>2, <1>3, <1>4, <1>6, <1>7 DEF E

\* What is delivered is what carries the mark of the claim.
LEMMA AddedMass ==
    ASSUME \A s \in Slots : inv[s] \in Stack, NEW id, NEW q \in Nat,
           NoMark(inv, "claim", id)
    PROVE  Mass(addItem(id, q), "claim", id) = Delivered(q)
    <1> DEFINE E == EmptySlots
               f == [s \in E |-> Share(E, q, s)]
               g == [s \in Slots |-> MassOf(addItem(id, q)[s], "claim", id)]
    <1>1. E \in SUBSET Slots /\ IsFiniteSet(Slots)
        BY BoundsAreNat DEF EmptySlots
    <1>2. \A s \in E : f[s] \in Nat
        BY <1>1, ShareOfSlot
    <1>3. \A s \in Slots : MassOf(inv[s], "claim", id) = 0
        BY DEF NoMark, MassOf
    <1>4. \A s \in Slots : g[s] = IF s \in E THEN f[s] ELSE 0
        <2> TAKE s \in Slots
        <2> DEFINE a == Share(E, q, s)
        <2>1. addItem(id, q)[s] = IF s \in E /\ a > 0 THEN Marked("claim", a, id) ELSE inv[s]
            BY AddedStacks
        <2>2. a \in Nat
            BY <1>1, ShareOfSlot
        <2>3. MassOf(Marked("claim", a, id), "claim", id) = a
            BY DEF MassOf, Marked
        <2>4. g[s] = MassOf(addItem(id, q)[s], "claim", id)
            OBVIOUS
        <2>5. s \in E => f[s] = a
            OBVIOUS
        <2> HIDE DEF a, E, f, g
        <2> QED BY <1>3, <2>1, <2>2, <2>3, <2>4, <2>5
    <1>5. /\ Mass(addItem(id, q), "claim", id) = SumFunctionOnSet(g, Slots)
          /\ Delivered(q) = lesser(q, StackSize * Cardinality(E))
        BY DEF Mass, Delivered
    <1>6. SumFunctionOnSet(f, E) = lesser(q, StackSize * Cardinality(E))
        <2> HIDE DEF E
        <2> QED BY <1>1, ShareSum
    <1> HIDE DEF f, g, E
    <1>7. /\ \A s \in E : f[s] \in Int /\ g[s] = f[s]
          /\ \A s \in Slots \ E : g[s] = 0
        BY <1>1, <1>2, <1>4
    <1>8. SumFunctionOnSet(g, Slots) = SumFunctionOnSet(f, E)
        BY ONLY <1>1, <1>7, SumRestrict
    <1> QED BY <1>5, <1>6, <1>8

\* What is tagged is what carries the mark of the escrow.
LEMMA TaggedMass ==
    ASSUME \A s \in Slots : inv[s] \in Stack, NEW id, NEW S \in SUBSET Slots,
           NoMark(inv, "sell", id)
    PROVE  Mass(tagSellItems(id, S), "sell", id) = Amount(S)
    <1> DEFINE f == [s \in Slots |-> inv[s].n]
               g == [s \in Slots |-> MassOf(tagSellItems(id, S)[s], "sell", id)]
    <1>1. \A s \in S : f[s] \in Int /\ g[s] = f[s]
        BY DEF tagSellItems, Replaced, MassOf, Marked, Stack
    <1>2. \A s \in Slots \ S : g[s] = 0
        BY DEF tagSellItems, Replaced, MassOf, NoMark
    <1>3. /\ Mass(tagSellItems(id, S), "sell", id) = SumFunctionOnSet(g, Slots)
          /\ Amount(S) = SumFunctionOnSet(f, S) /\ IsFiniteSet(Slots)
        BY BoundsAreNat DEF Mass, Amount
    <1> HIDE DEF f, g
    <1>4. SumFunctionOnSet(g, Slots) = SumFunctionOnSet(f, S)
        BY ONLY <1>1, <1>2, <1>3, SumRestrict
    <1> QED BY <1>3, <1>4

-----------------------------------------------------------------------------
(* A claim marks no more than it is for *)

Fits == \A c \in DOMAIN claims :
            claims[c].status = "PREPARED" => Mass(inv, "claim", c) <= claims[c].quantity
FitsInv == Durable => Fits

\* While a claim is filled, a slot is as it was or as addItem leaves it.
LEMMA FilledSlots ==
    TypeInv /\ [Next]_vars /\ Durable /\ Stage("add") =>
        \A s \in Slots : \/ inv'[s] = inv[s]
                         \/ inv'[s] = addItem(run.id, claims[run.id].quantity)[s]
    <1> SUFFICES ASSUME TypeInv, [Next]_vars, Durable, Stage("add")
                 PROVE  \A s \in Slots :
                            \/ inv'[s] = inv[s]
                            \/ inv'[s] = addItem(run.id, claims[run.id].quantity)[s]
        OBVIOUS
    <1>1. CASE addDelivered
        BY <1>1 DEF addDelivered
    <1>2. CASE kill
        <2> DEFINE filled == addItem(run.id, claims[run.id].quantity)
        <2>1. Targets = {filled}
            BY DEF Targets, Stage
        <2>2. ASSUME NEW s \in Slots, inv[s].kind = "claim", filled[s].kind = "plain"
              PROVE  FALSE
            BY <2>2 DEF addItem, Replaced, EmptySlots, Marked
        <2> HIDE DEF filled
        <2>3. ASSUME NEW done \in SUBSET Slots, inv' = Partly(filled, done)
              PROVE  \A s \in Slots : inv'[s] = inv[s] \/ inv'[s] = filled[s]
            BY <2>3 DEF Partly
        <2>4. \A s \in Slots : inv'[s] = inv[s] \/ inv'[s] = filled[s]
            BY <1>2, <2>1, <2>2, <2>3 DEF kill
        <2> QED BY <2>4 DEF filled
    <1>3. CASE UNCHANGED vars
        BY <1>3 DEF vars
    <1>4. addDelivered \/ kill \/ nextLoop \/ queryFails \/ UNCHANGED vars \/ save
        BY DEF Next, work, submitSellEscrow, tagItems, inventoryInsufficient,
           retryExecute, cancelShort, markTagged, placeOrder, placeOrderThrows, cleanUp,
           clearApplied, otherClaimMarker, removeOrdered, otherSellMarker, finishClaim,
           cleanClaim, reserveDelivery, clearDelivered, claimDeliveries, onPlayerJoin,
           deliveryArrives, useStack, toggleMarket, Working, MarkedEscrow, MarkedClaim,
           Stage
    <1>5. CASE nextLoop \/ queryFails \/ save
        BY <1>5 DEF nextLoop, queryFails, save
    <1> QED BY <1>1, <1>2, <1>3, <1>4, <1>5

\* The marks of a claim are the fewer, unless it is being filled.
LEMMA MassFalls ==
    ASSUME TypeInv, [Next]_vars, Durable, NEW c, ~Stage("add") \/ c # run.id
    PROVE  Mass(inv', "claim", c) <= Mass(inv, "claim", c)
    <1>1. /\ \A s \in Slots : inv[s] \in Stack
          /\ \A s \in Slots : inv'[s] \in Stack
        BY WrittenGood DEF TypeInv, InventoryType, Stacks, GoodStack
    <1>2. \A s \in Slots : MassOf(inv[s], "claim", c) \in Nat
        BY <1>1 DEF MassOf, Stack
    <1>3. ASSUME NEW s \in Slots
          PROVE  MassOf(inv'[s], "claim", c) <= MassOf(inv[s], "claim", c)
        <2>1. CASE inv'[s] = inv[s]
            BY <1>2, <2>1
        <2>2. CASE ~(inv'[s].kind = "claim" /\ inv'[s].id = c)
            BY <1>2, <2>2 DEF MassOf
        <2>3. CASE Write(inv[s], inv'[s])
            <3>1. Write(inv[s], inv'[s])
                BY <2>3
            <3> DEFINE old == inv[s]
                       new == inv'[s]
            <3>2. CASE new = Empty \/ new = Plain(old.n)
                BY <2>2, <3>2 DEF Empty, Plain
            <3>3. CASE \/ new = Marked("receipt", 1, old.id)
                       \/ new = Marked("sell", old.n, run.id)
                BY <2>2, <3>3 DEF Marked
            <3>4. ASSUME Stage("add"), NEW n \in Nat, new = Marked("claim", n, run.id)
                  PROVE  ~(new.kind = "claim" /\ new.id = c)
                BY <3>4 DEF Marked
            <3>5. Write(old, new)
                BY <3>1
            <3> HIDE DEF old, new
            <3>6. \/ new = old \/ new = Empty \/ new = Plain(old.n)
                  \/ new = Marked("receipt", 1, old.id)
                  \/ new = Marked("sell", old.n, run.id)
                  \/ Stage("add") /\ \E n \in Nat : new = Marked("claim", n, run.id)
                BY <3>5 DEF Write
            <3> USE DEF old, new
            <3> QED BY <2>1, <2>2, <3>2, <3>3, <3>4, <3>6
        <2>4. CASE UsesUp
            <3>1. inv'[s] = inv[s] \/ inv'[s] = Empty
                BY <2>4 DEF UsesUp, TypeInv, InventoryType, Stacks
            <3>2. Empty.kind # "claim"
                BY DEF Empty
            <3> QED BY <2>1, <2>2, <3>1, <3>2
        <2>5. CASE Torn
            <3>1. inv'[s] = Empty \/ Write(inv[s], inv'[s])
                BY <2>5 DEF Torn
            <3>2. Empty.kind # "claim"
                BY DEF Empty
            <3> QED BY <2>2, <2>3, <3>1, <3>2
        <2>6. CASE Writes(inv')
            BY <2>3, <2>6 DEF Writes
        <2> QED BY <2>4, <2>5, <2>6, StackEffects DEF StackEffect, TakenBack
    <1> QED BY <1>1, <1>3, MassAtMost

\* A claim that is being filled carries no more than is added.
LEMMA FilledMass ==
    ASSUME TypeInv, MarksInv, [Next]_vars, Durable, Stage("add")
    PROVE  Mass(inv', "claim", run.id) <= claims[run.id].quantity
    <1> DEFINE c == run.id
               q == claims[run.id].quantity
               new == addItem(c, q)
    <1>1. /\ \A s \in Slots : inv[s] \in Stack
          /\ \A s \in Slots : inv'[s] \in Stack
        BY WrittenGood DEF TypeInv, InventoryType, Stacks, GoodStack
    <1>2. q \in Nat /\ NoMark(inv, "claim", c) /\ c \in Nat
        BY DEF TypeInv, RunType, Current, RowsType, ClaimsType, GoodClaim, DeliveryClaim,
               MarksInv, Marks
    <1>3. \A s \in Slots : inv'[s] = inv[s] \/ inv'[s] = new[s]
        BY FilledSlots
    <1>4. Mass(new, "claim", c) = Delivered(q) /\ Delivered(q) <= q /\ Delivered(q) \in Nat
        <2> HIDE DEF q, c
        <2> QED BY <1>1, <1>2, AddedMass, DeliveredFacts DEF new
    <1>5. \A s \in Slots : new[s] \in Stack
        <2> TAKE s \in Slots
        <2> DEFINE a == Share(EmptySlots, q, s)
        <2>1. a \in Nat
            BY <1>2, ShareOfSlot DEF EmptySlots
        <2>2. new[s] = Marked("claim", a, c) \/ new[s] = inv[s]
            BY <1>2, AddedStacks
        <2> HIDE DEF a, new, c
        <2> QED BY <1>1, <1>2, <2>1, <2>2 DEF Marked, Stack, Kinds
    <1> HIDE DEF new, c
    <1>6. \A s \in Slots : MassOf(inv'[s], "claim", c) <= MassOf(new[s], "claim", c)
        <2> TAKE s \in Slots
        <2>1. MassOf(new[s], "claim", c) \in Nat
            BY <1>5 DEF MassOf, Stack
        <2>2. MassOf(inv[s], "claim", c) = 0
            BY <1>2 DEF MassOf, NoMark
        <2> QED BY <1>3, <2>1, <2>2
    <1>7. Mass(inv', "claim", c) <= Mass(new, "claim", c)
        BY <1>1, <1>5, <1>6, MassAtMost
    <1>8. Mass(inv', "claim", c) \in Nat
        BY <1>1, MassNat
    <1> QED BY <1>2, <1>4, <1>7, <1>8 DEF c

LEMMA FitsStep == TypeInv /\ MarksInv /\ FitsInv /\ [Next]_vars => FitsInv'
    <1> SUFFICES ASSUME TypeInv, MarksInv, FitsInv, [Next]_vars, Durable',
                        NEW c \in DOMAIN claims', claims'[c].status = "PREPARED"
                 PROVE  Mass(inv', "claim", c) <= claims'[c].quantity
        BY DEF FitsInv, Fits, Mass
    <1>d. Durable
        BY StaysDurable
    <1>t. /\ ClaimEffect /\ ClaimsType' /\ \A s \in Slots : inv'[s] \in Stack
          /\ \A s \in Slots : GoodStack(inv'[s], escrows, claims)
          /\ \A s \in Slots : inv[s] \in Stack
        BY RowEffects, ClaimEffects, WrittenGood
           DEF TypeInv, InventoryType, Stacks, GoodStack, ClaimEffect, ClaimsKept
    <1>q. claims'[c].quantity \in Nat
        BY <1>t DEF ClaimsType, GoodClaim, DeliveryClaim
    <1>n. Mass(inv', "claim", c) \in Nat
        BY <1>t, MassNat
    <1>0. ASSUME NoMark(inv, "claim", c) PROVE Mass(inv, "claim", c) = 0
        BY <1>0, <1>t, MassNat
    <1>1. CASE c \notin DOMAIN claims
        <2>1. NoMark(inv', "claim", c)
            BY <1>1, <1>t DEF GoodStack, NoMark
        <2>2. Mass(inv', "claim", c) = 0
            BY <1>t, <2>1, MassNat
        <2> QED BY <1>q, <2>2
    <1>2. CASE c \in DOMAIN claims /\ claims[c].status = "PREPARED"
        <2>1. claims'[c].quantity = claims[c].quantity
            <3>1. ClaimMove(claims[c], claims'[c]) \/ c = NewClaim
                BY <1>2, <1>t DEF ClaimEffect
            <3>2. c # NewClaim
                BY <1>2, NewClaimFacts DEF TypeInv, RowsType, ClaimsType
            <3> QED BY <3>1, <3>2 DEF ClaimMove
        <2>2. CASE Stage("add") /\ c = run.id
            BY <1>d, <2>1, <2>2, FilledMass
        <2>3. CASE ~Stage("add") \/ c # run.id
            <3>1. Mass(inv', "claim", c) <= Mass(inv, "claim", c)
                BY <1>d, <2>3, MassFalls
            <3>2. Mass(inv, "claim", c) <= claims[c].quantity
                BY <1>2, <1>d DEF FitsInv, Fits
            <3>3. Mass(inv, "claim", c) \in Nat
                BY <1>t, MassNat
            <3> QED BY <1>n, <1>q, <2>1, <3>1, <3>2, <3>3
        <2> QED BY <2>2, <2>3
    <1>3. CASE c \in DOMAIN claims /\ claims[c].status # "PREPARED"
        <2>1. NoMark(inv, "claim", c)
            <3>1. ~ClaimMove(claims[c], claims'[c])
                BY <1>3 DEF ClaimMove
            <3>2. SlotsOf("claim", c) = {}
                BY <1>3, <1>t, <3>1 DEF ClaimEffect
            <3> QED BY <3>2, NoMarkIs
        <2>2. ~Stage("add") \/ c # run.id
            BY <1>3 DEF TypeInv, Current
        <2>3. Mass(inv', "claim", c) <= Mass(inv, "claim", c)
            BY <1>d, <2>2, MassFalls
        <2> QED BY <1>0, <1>n, <1>q, <2>1, <2>3
    <1> QED BY <1>1, <1>2, <1>3

LEMMA FitsInit == Init => FitsInv
    BY DEF Init, FitsInv, Fits

LEMMA FitsAlways == Spec => []FitsInv
    BY TypeAlways, MarksAlways, FitsInit, FitsStep, PTL DEF Spec

-----------------------------------------------------------------------------
(* There are no more escrows than were submitted *)

CountInv == Len(escrows) <= used.escrows /\ used.escrows <= MaxEscrows
CountEffect ==
    \/ /\ used.escrows < MaxEscrows /\ used'.escrows = used.escrows + 1
       /\ Prepares
    \/ used'.escrows = used.escrows /\ DOMAIN escrows' = DOMAIN escrows

LEMMA UseKeeps ==
    ASSUME used \in Counters
    PROVE  /\ \A f \in {"events", "faults", "kills", "toggles"} : \A max :
                 Use(f, max) => used'.escrows = used.escrows
           /\ \A u \in Nat :
                 used' = [used EXCEPT !.escrows = @ + 1, !.faults = u]
                    => used'.escrows = used.escrows + 1
    BY DEF Counters, Use

LEMMA CountEffects == TypeInv /\ [Next]_vars => CountEffect
    <1> SUFFICES ASSUME TypeInv, [Next]_vars PROVE CountEffect
        OBVIOUS
    <1>u. used \in Counters
        BY DEF TypeInv
    <1>f. (UNCHANGED used \/ Use("faults", MaxFaults)) => used'.escrows = used.escrows
        BY <1>u, UseKeeps
    <1>1. CASE \E type \in {"LIMIT", "MARKET"}, q \in Quantities : submitSellEscrow(type, q)
        <2>1. Prepares /\ used.escrows < MaxEscrows
            BY <1>1 DEF submitSellEscrow, Prepares
        <2>2. \/ used' = [used EXCEPT !.escrows = @ + 1]
              \/ used' = [used EXCEPT !.escrows = @ + 1, !.faults = @ + 1]
            BY <1>1 DEF submitSellEscrow
        <2>3. used'.escrows = used.escrows + 1
            BY <1>u, <2>2 DEF Counters
        <2> QED BY <2>1, <2>3 DEF CountEffect
    <1>2. CASE tagItems \/ cancelShort \/ markTagged \/ placeOrder \/ cleanUp
        <2>1. DOMAIN escrows' = DOMAIN escrows
            BY <1>2 DEF tagItems, cancelShort, markTagged, placeOrder, cleanUp, Call,
               markSellEscrowTagged, cancelSellEscrow, executeSellEscrow,
               markSellEscrowCleaned
        <2>2. UNCHANGED used \/ Use("faults", MaxFaults)
            BY <1>2 DEF tagItems, cancelShort, markTagged, placeOrder, cleanUp, Call
        <2> QED BY <1>f, <2>1, <2>2 DEF CountEffect
    <1>3. CASE removeOrdered
        <2>1. DOMAIN escrows' = DOMAIN escrows
            BY <1>3 DEF removeOrdered, Call, markSellEscrowCleaned
        <2>2. UNCHANGED used \/ Use("faults", MaxFaults)
            BY <1>3 DEF removeOrdered, Call
        <2> QED BY <1>f, <2>1, <2>2 DEF CountEffect
    <1>4. CASE clearApplied \/ finishClaim \/ cleanClaim \/ reserveDelivery
               \/ addDelivered \/ clearDelivered \/ retryExecute \/ queryFails
        <2>1. UNCHANGED escrows /\ (UNCHANGED used \/ Use("faults", MaxFaults))
            BY <1>4 DEF clearApplied, finishClaim, cleanClaim, reserveDelivery,
               addDelivered, clearDelivered, retryExecute, queryFails, Call, rows
        <2> QED BY <1>f, <2>1 DEF CountEffect
    <1>5. CASE kill \/ toggleMarket \/ (\E q \in Quantities : deliveryArrives(q))
               \/ \E s \in Slots : useStack(s)
        <2>1. /\ UNCHANGED escrows
              /\ \/ Use("kills", MaxKills) \/ Use("toggles", MaxToggles)
                 \/ Use("events", MaxEvents)
            BY <1>5 DEF kill, toggleMarket, deliveryArrives, useStack, rows
        <2> QED BY <1>u, <2>1, UseKeeps DEF CountEffect
    <1>6. CASE inventoryInsufficient \/ placeOrderThrows \/ otherClaimMarker
               \/ otherSellMarker \/ nextLoop \/ claimDeliveries \/ onPlayerJoin \/ save
               \/ UNCHANGED vars
        BY <1>6 DEF inventoryInsufficient, placeOrderThrows, otherClaimMarker,
           otherSellMarker, nextLoop, claimDeliveries, onPlayerJoin, save, rows, vars,
           CountEffect
    <1> QED BY <1>1, <1>2, <1>3, <1>4, <1>5, <1>6 DEF Next, work

LEMMA IntervalEnds ==
    ASSUME NEW m \in Nat, NEW n \in Nat, 1 .. m = 1 .. n
    PROVE  m = n
    <1>1. m > 0 => m \in 1 .. n
        OBVIOUS
    <1>2. n > 0 => n \in 1 .. m
        OBVIOUS
    <1> QED BY <1>1, <1>2

LEMMA CountStep == TypeInv /\ CountInv /\ [Next]_vars => CountInv'
    <1> SUFFICES ASSUME TypeInv, CountInv, [Next]_vars PROVE CountInv'
        OBVIOUS
    <1>t. /\ escrows \in Seq(SellEscrow) /\ EscrowsType /\ EscrowsType'
          /\ escrows' \in Seq(SellEscrow) /\ used.escrows \in Nat /\ MaxEscrows \in Nat
        BY TypeStep, BoundsAreNat DEF TypeInv, RowsType, EscrowsType, Counters
    <1>1. /\ Len(escrows) \in Nat /\ DOMAIN escrows = 1 .. Len(escrows)
          /\ Len(escrows') \in Nat /\ DOMAIN escrows' = 1 .. Len(escrows')
        BY <1>t
    <1>2. CASE Prepares
        <2>1. DOMAIN escrows' = 1 .. Len(escrows) + 1
            BY <1>2, <1>t, EscrowAdded
        <2>2. Len(escrows') = Len(escrows) + 1
            <3> DEFINE n == Len(escrows) + 1
            <3>0. n \in Nat
                BY <1>1
            <3>1. DOMAIN escrows' = 1 .. n
                BY <2>1
            <3> HIDE DEF n
            <3>3. 1 .. Len(escrows') = 1 .. n
                BY <1>1, <3>1
            <3>2. Len(escrows') = n
                BY <1>1, <3>0, <3>3, IntervalEnds
            <3> QED BY <3>2 DEF n
        <2>3. CASE used.escrows < MaxEscrows /\ used'.escrows = used.escrows + 1
            BY <1>1, <1>t, <2>2, <2>3 DEF CountInv
        <2>4. DOMAIN escrows' # DOMAIN escrows
            <3>1. Len(escrows') \in DOMAIN escrows' /\ Len(escrows') \notin DOMAIN escrows
                BY <1>1, <2>2
            <3> QED BY <3>1
        <2> QED BY <2>3, <2>4, CountEffects DEF CountEffect
    <1>3. CASE used'.escrows = used.escrows /\ DOMAIN escrows' = DOMAIN escrows
        <2>1. Len(escrows') = Len(escrows)
            BY <1>1, <1>3, IntervalEnds
        <2> QED BY <1>3, <2>1 DEF CountInv
    <1> QED BY <1>2, <1>3, CountEffects DEF CountEffect

LEMMA CountInit == Init => CountInv
    BY BoundsAreNat DEF Init, NoUse, CountInv

LEMMA CountAlways == Spec => []CountInv
    BY TypeAlways, CountInit, CountStep, PTL DEF Spec

-----------------------------------------------------------------------------
(* What a step does to the worth of the inventory *)

WorthIn(stack, es, cs) ==
    IF \/ stack.kind = "plain"
       \/ stack.kind = "sell" /\ es[stack.id].status \in {"PREPARED", "CANCELED"}
       \/ stack.kind = "claim" /\ cs[stack.id].status = "APPLIED"
    THEN stack.n ELSE 0
HeldIn(i, es, cs) == SumFunctionOnSet([s \in Slots |-> WorthIn(i[s], es, cs)], Slots)

LEMMA HeldIs == /\ Held = HeldIn(inv, escrows, claims)
                /\ Held' = HeldIn(inv', escrows', claims')
    BY DEF Held, Worth, HeldIn, WorthIn

LEMMA WorthNat ==
    ASSUME NEW st \in Stack, NEW es, NEW cs
    PROVE  WorthIn(st, es, cs) \in Nat
    BY DEF Stack, WorthIn

LEMMA HeldNat ==
    ASSUME NEW i, \A s \in Slots : i[s] \in Stack, NEW es, NEW cs
    PROVE  HeldIn(i, es, cs) \in Nat
    <1> DEFINE f == [s \in Slots |-> WorthIn(i[s], es, cs)]
    <1>1. (\A s \in Slots : f[s] \in Nat) /\ IsFiniteSet(Slots)
        BY WorthNat, BoundsAreNat
    <1> HIDE DEF f
    <1>2. SumFunctionOnSet(f, Slots) \in Nat
        BY <1>1, SumNat
    <1> QED BY <1>2 DEF f, HeldIn

\* Every stack is worth as much as before.
LEMMA HeldSame ==
    ASSUME NEW i, NEW es, NEW cs, NEW j, NEW es2, NEW cs2,
           \A s \in Slots : WorthIn(i[s], es, cs) = WorthIn(j[s], es2, cs2)
    PROVE  HeldIn(i, es, cs) = HeldIn(j, es2, cs2)
    <1> DEFINE f == [s \in Slots |-> WorthIn(i[s], es, cs)]
               g == [s \in Slots |-> WorthIn(j[s], es2, cs2)]
    <1>1. (\A s \in Slots : f[s] = g[s]) /\ IsFiniteSet(Slots)
        BY BoundsAreNat
    <1> HIDE DEF f, g
    <1>2. SumFunctionOnSet(f, Slots) = SumFunctionOnSet(g, Slots)
        BY ONLY <1>1, SumEqual
    <1> QED BY <1>2 DEF f, g, HeldIn

\* The stacks with one mark are worth something on one side only.
LEMMA HeldMoves ==
    ASSUME NEW i, \A s \in Slots : i[s] \in Stack, NEW es, NEW cs,
           NEW j, \A s \in Slots : j[s] \in Stack, NEW es2, NEW cs2,
           NEW m, \A s \in Slots : m[s] \in Stack, NEW kind, NEW id,
           \A s \in Slots : WorthIn(i[s], es, cs)
                               = WorthIn(j[s], es2, cs2) + MassOf(m[s], kind, id)
    PROVE  HeldIn(i, es, cs) = HeldIn(j, es2, cs2) + Mass(m, kind, id)
    <1> DEFINE h == [s \in Slots |-> WorthIn(i[s], es, cs)]
               f == [s \in Slots |-> WorthIn(j[s], es2, cs2)]
               g == [s \in Slots |-> MassOf(m[s], kind, id)]
    <1>1. /\ \A s \in Slots : f[s] \in Int
          /\ \A s \in Slots : g[s] \in Int
          /\ \A s \in Slots : h[s] = f[s] + g[s]
          /\ IsFiniteSet(Slots)
        BY WorthNat, BoundsAreNat DEF MassOf, Stack
    <1> HIDE DEF f, g, h
    <1>2. \A s \in Slots : f[s] \in Int /\ g[s] \in Int /\ h[s] = f[s] + g[s]
        BY <1>1
    <1>3. SumFunctionOnSet(h, Slots) = SumFunctionOnSet(f, Slots) + SumFunctionOnSet(g, Slots)
        BY ONLY <1>1, <1>2, SumPlus
    <1> QED BY <1>3 DEF f, g, h, HeldIn, Mass

\* A write keeps what a stack is worth: a mark is set on items whose row reads
\* them as the player's, or taken off as the row says.
LEMMA WorthWritten ==
    ASSUME TypeInv, NEW old \in Stack, NEW new, Write(old, new)
    PROVE  WorthIn(new, escrows, claims) = WorthIn(old, escrows, claims)
    <1>1. CASE new = old
        BY <1>1
    <1>2. CASE /\ old.kind = "sell" /\ EscrowStatus(old) \in {"PREPARED", "CANCELED"}
               /\ new = Plain(old.n)
        BY <1>2 DEF WorthIn, Plain, EscrowStatus
    <1>3. CASE /\ old.kind = "claim" /\ claims[old.id].status = "APPLIED"
               /\ new = Plain(old.n)
        BY <1>3 DEF WorthIn, Plain
    <1>4. CASE /\ new = Empty
               /\ \/ old.kind \in {"sell", "receipt"} /\ EscrowStatus(old) = "ORDERED"
                  \/ old.kind = "receipt" /\ EscrowStatus(old) = "CANCELED"
                  \/ old.kind = "claim" /\ claims[old.id].status = "CANCELED"
        BY <1>4 DEF WorthIn, Empty, EscrowStatus
    <1>5. CASE /\ old.kind = "sell" /\ EscrowStatus(old) = "TAGGED"
               /\ new = Marked("receipt", 1, old.id)
        BY <1>5 DEF WorthIn, Marked, EscrowStatus
    <1>6. CASE old.kind = "plain" /\ Stage("tag") /\ new = Marked("sell", old.n, run.id)
        <2>1. escrows[run.id].status = "PREPARED"
            BY <1>6 DEF TypeInv, Current
        <2> QED BY <1>6, <2>1 DEF WorthIn, Marked
    <1>7. ASSUME old.kind = "none", Stage("add"), NEW n \in Nat,
                 new = Marked("claim", n, run.id)
          PROVE  WorthIn(new, escrows, claims) = WorthIn(old, escrows, claims)
        <2>1. claims[run.id].status = "PREPARED"
            BY <1>7 DEF TypeInv, Current
        <2> QED BY <1>7, <2>1 DEF WorthIn, Marked
    <1> QED BY <1>1, <1>2, <1>3, <1>4, <1>5, <1>6, <1>7 DEF Write

\* A stack that is used up.
LEMMA HeldUsed ==
    ASSUME Stacks(inv), NEW k \in Slots, inv[k].kind = "plain",
           inv' = [inv EXCEPT ![k] = Empty], NEW es, NEW cs
    PROVE  /\ HeldIn(inv', es, cs) = HeldIn(inv, es, cs) - inv[k].n
           /\ inv[k].n \in Nat /\ inv[k].n > 0
    <1> DEFINE f == [s \in Slots |-> WorthIn(inv[s], es, cs)]
               g == [s \in Slots |-> WorthIn(inv'[s], es, cs)]
    <1>1. /\ \A s \in Slots : inv[s] \in Stack
          /\ inv[k].n > 0
          /\ \A s \in Slots : inv'[s] = IF s = k THEN Empty ELSE inv[s]
        BY DEF Stacks, GoodStack
    <1>2. \A s \in Slots : f[s] \in Int
        BY <1>1, WorthNat
    <1>3. f[k] = inv[k].n /\ g[k] = 0 /\ inv[k].n \in Nat
        BY <1>1 DEF WorthIn, Empty, Stack
    <1>4. \A s \in Slots \ {k} : g[s] = f[s]
        BY <1>1
    <1>5. IsFiniteSet(Slots) /\ g[k] \in Int
        BY <1>3, BoundsAreNat
    <1>6. /\ HeldIn(inv, es, cs) = SumFunctionOnSet(f, Slots)
          /\ HeldIn(inv', es, cs) = SumFunctionOnSet(g, Slots)
        BY DEF HeldIn
    <1> HIDE DEF f, g
    <1>7. /\ SumFunctionOnSet(g, Slots) = SumFunctionOnSet(f, Slots) + g[k] - f[k]
          /\ SumFunctionOnSet(f, Slots) \in Int
        BY ONLY <1>2, <1>4, <1>5, SumChange
    <1> QED BY <1>1, <1>3, <1>6, <1>7

\* A stack that a kill finds out of its slot.
LEMMA HeldTorn ==
    ASSUME TypeInv, NEW k \in Slots, inv[k].kind = "claim",
           claims[inv[k].id].status = "APPLIED", inv'[k] = Empty,
           \A s \in Slots \ {k} : Write(inv[s], inv'[s])
    PROVE  /\ HeldIn(inv', escrows, claims) = HeldIn(inv, escrows, claims) - inv[k].n
           /\ inv[k].n \in Nat /\ inv[k].n > 0
    <1> DEFINE f == [s \in Slots |-> WorthIn(inv[s], escrows, claims)]
               g == [s \in Slots |-> WorthIn(inv'[s], escrows, claims)]
    <1>1. (\A s \in Slots : inv[s] \in Stack) /\ inv[k].n > 0
        BY DEF TypeInv, InventoryType, Stacks, GoodStack
    <1>2. \A s \in Slots : f[s] \in Int
        BY <1>1, WorthNat
    <1>3. f[k] = inv[k].n /\ g[k] = 0 /\ inv[k].n \in Nat
        BY <1>1 DEF WorthIn, Empty, Stack
    <1>4. \A s \in Slots \ {k} : g[s] = f[s]
        BY <1>1, WorthWritten
    <1>5. IsFiniteSet(Slots) /\ g[k] \in Int
        BY <1>3, BoundsAreNat
    <1>6. /\ HeldIn(inv, escrows, claims) = SumFunctionOnSet(f, Slots)
          /\ HeldIn(inv', escrows, claims) = SumFunctionOnSet(g, Slots)
        BY DEF HeldIn
    <1> HIDE DEF f, g
    <1>7. /\ SumFunctionOnSet(g, Slots) = SumFunctionOnSet(f, Slots) + g[k] - f[k]
          /\ SumFunctionOnSet(f, Slots) \in Int
        BY ONLY <1>2, <1>4, <1>5, SumChange
    <1> QED BY <1>1, <1>3, <1>6, <1>7

-----------------------------------------------------------------------------
(* What a row says of its marks when it begins or ends to count them *)

TaggedExactly ==
    \A i \in DOMAIN escrows :
        escrows[i].status = "PREPARED" /\ escrows'[i].status = "TAGGED"
            => escrows'[i].tagged = Mass(inv', "sell", i)
AppliedExactly ==
    \A c \in DOMAIN claims :
        claims[c].status = "PREPARED" /\ claims'[c].status = "APPLIED"
            => claims'[c].applied = Mass(inv', "claim", c)

LEMMA EscrowsTagged == TypeInv /\ Marks /\ [Next]_vars => TaggedExactly
    <1> SUFFICES ASSUME TypeInv, Marks, [Next]_vars PROVE TaggedExactly
        OBVIOUS
    <1>t. /\ RunType /\ Lists /\ Current /\ RowsType
          /\ \A s \in Slots : inv[s] \in Stack
          /\ escrows \in Seq(SellEscrow)
          /\ \A i \in DOMAIN escrows : escrows[i] \in SellEscrow
        BY DEF TypeInv, InventoryType, Stacks, GoodStack, RowsType, EscrowsType
    <1>f. run.todo # {} => First \in run.todo
        BY <1>t, FirstFacts
    <1>0. CASE \A i \in DOMAIN escrows :
                   escrows'[i].status = "TAGGED" => escrows[i].status # "PREPARED"
        BY <1>0 DEF TaggedExactly
    <1>a. ASSUME NEW k \in DOMAIN escrows, NEW t, markSellEscrowTagged(k, t),
                 t.quantity = Mass(inv', "sell", k)
          PROVE  TaggedExactly
        <2> DEFINE row == TaggedRow(escrows[k], t)
        <2>1. EscrowUpdate(k, row)
            BY <1>a, <1>t DEF markSellEscrowTagged, EscrowUpdate, TaggedRow, SellEscrow
        <2>2. row.tagged = t.quantity
            BY <1>t DEF TaggedRow, SellEscrow
        <2> HIDE DEF row
        <2>3. \A i \in DOMAIN escrows : escrows'[i] = IF i = k THEN row ELSE escrows[i]
            BY <2>1 DEF EscrowUpdate
        <2> QED BY <1>a, <2>2, <2>3 DEF TaggedExactly
    <1>1. CASE tagItems
        <2>1. PICK S \in TagChoices(run.id) :
                 /\ inv' = tagSellItems(run.id, S)
                 /\ \/ markSellEscrowTagged(run.id, [quantity |-> Amount(S),
                                                     stacks |-> Cardinality(S)])
                    \/ UNCHANGED escrows
            BY <1>1 DEF tagItems, Call
        <2>2. S \in SUBSET Slots /\ NoMark(inv, "sell", run.id) /\ run.id \in DOMAIN escrows
            BY <1>1, <1>t DEF TagChoices, PlainSlots, tagItems, Marks, Current, Stage
        <2>3. Mass(tagSellItems(run.id, S), "sell", run.id) = Amount(S)
            BY <1>t, <2>2, TaggedMass
        <2> DEFINE t == [quantity |-> Amount(S), stacks |-> Cardinality(S)]
        <2>4. t.quantity = Mass(inv', "sell", run.id)
            BY <2>1, <2>3
        <2>5. markSellEscrowTagged(run.id, t) \/ UNCHANGED escrows
            BY <2>1
        <2> HIDE DEF t
        <2> QED BY <1>0, <1>a, <2>2, <2>4, <2>5
    <1>2. CASE markTagged
        <2>1. /\ First \in DOMAIN escrows /\ inv' = inv
              /\ UNCHANGED escrows \/ markSellEscrowTagged(First, taggedSellItems(First))
            BY <1>2, <1>t, <1>f DEF markTagged, Working, Call, Lists, Stage
        <2>2. taggedSellItems(First).quantity = Mass(inv', "sell", First)
            BY <1>t, <2>1, AmountIsMass DEF taggedSellItems
        <2> QED BY <1>0, <1>a, <2>1, <2>2
    <1>3. CASE cancelShort
        <2>1. /\ First \in DOMAIN escrows
              /\ UNCHANGED escrows \/ cancelSellEscrow(First)
            BY <1>3, <1>t, <1>f DEF cancelShort, Working, Call, Lists, Stage
        <2>2. ASSUME cancelSellEscrow(First), NEW i \in DOMAIN escrows
              PROVE  escrows'[i].status = "TAGGED" => escrows[i].status # "PREPARED"
            <3>1. EscrowUpdate(First, CanceledRow(escrows[First]))
                BY <1>t, <2>1, <2>2, EscrowRows DEF RowsType
            <3>2. CanceledRow(escrows[First]).status = "CANCELED"
                BY <1>t, <2>1 DEF CanceledRow, SellEscrow
            <3> QED BY <3>1, <3>2 DEF EscrowUpdate
        <2> QED BY <1>0, <2>1, <2>2
    <1>4. CASE placeOrder
        <2>1. /\ First \in DOMAIN escrows
              /\ UNCHANGED escrows \/ executeSellEscrow(First)
            BY <1>4, <1>t, <1>f DEF placeOrder, Working, Call, Lists, Stage
        <2>2. ASSUME executeSellEscrow(First), NEW i \in DOMAIN escrows
              PROVE  escrows'[i].status = "TAGGED" => escrows[i].status # "PREPARED"
            <3>1. EscrowUpdate(First, OrderedRow(escrows[First]))
                BY <1>t, <2>1, <2>2, EscrowRows DEF RowsType
            <3>2. OrderedRow(escrows[First]).status = "ORDERED"
                BY <1>t, <2>1 DEF OrderedRow, SellEscrow
            <3> QED BY <3>1, <3>2 DEF EscrowUpdate
        <2> QED BY <1>0, <2>1, <2>2
    <1>5. CASE cleanUp \/ removeOrdered
        <2>1. /\ First \in DOMAIN escrows
              /\ UNCHANGED escrows \/ markSellEscrowCleaned(First)
            BY <1>5, <1>t, <1>f DEF cleanUp, removeOrdered, Working, MarkedEscrow, Call,
               Lists, Stage
        <2>2. ASSUME markSellEscrowCleaned(First), NEW i \in DOMAIN escrows
              PROVE  escrows'[i].status = "TAGGED" => escrows[i].status # "PREPARED"
            <3>1. EscrowUpdate(First, CleanedRow(escrows[First]))
                BY <1>t, <2>1, <2>2, EscrowRows DEF RowsType
            <3>2. CleanedRow(escrows[First]).status = escrows[First].status
                BY <1>t, <2>1 DEF CleanedRow, SellEscrow
            <3> QED BY <3>1, <3>2 DEF EscrowUpdate
        <2> QED BY <1>0, <2>1, <2>2
    <1>6. CASE \E type \in {"LIMIT", "MARKET"}, q \in Quantities : submitSellEscrow(type, q)
        <2>1. Prepares
            BY <1>6 DEF submitSellEscrow, Prepares
        <2> QED BY <1>0, <2>1, <1>t, EscrowAdded DEF RowsType
    <1>7. CASE finishClaim \/ cleanClaim \/ reserveDelivery \/ addDelivered
               \/ clearDelivered \/ clearApplied \/ retryExecute \/ queryFails
        BY <1>0, <1>7 DEF finishClaim, cleanClaim, reserveDelivery, addDelivered,
           clearDelivered, clearApplied, retryExecute, queryFails, rows
    <1>8. CASE inventoryInsufficient \/ placeOrderThrows \/ otherClaimMarker
               \/ otherSellMarker \/ nextLoop \/ claimDeliveries \/ onPlayerJoin \/ save
        BY <1>0, <1>8 DEF inventoryInsufficient, placeOrderThrows, otherClaimMarker,
           otherSellMarker, nextLoop, claimDeliveries, onPlayerJoin, save, rows
    <1>9. CASE \/ kill \/ toggleMarket \/ \E q \in Quantities : deliveryArrives(q)
               \/ \E s \in Slots : useStack(s)
               \/ UNCHANGED vars
        BY <1>0, <1>9 DEF kill, toggleMarket, deliveryArrives, useStack, rows, vars
    <1> QED BY <1>1, <1>2, <1>3, <1>4, <1>5, <1>6, <1>7, <1>8, <1>9 DEF Next, work

LEMMA ClaimsApplied == TypeInv /\ Marks /\ Fits /\ [Next]_vars => AppliedExactly
    <1> SUFFICES ASSUME TypeInv, Marks, Fits, [Next]_vars PROVE AppliedExactly
        OBVIOUS
    <1>t. /\ RunType /\ Lists /\ Current /\ RowsType /\ Stacks(inv)
          /\ \A s \in Slots : inv[s] \in Stack
          /\ claims \in Seq(DeliveryClaim)
          /\ \A c \in DOMAIN claims : /\ claims[c] \in DeliveryClaim
                                      /\ claims[c].quantity \in Nat
        BY DEF TypeInv, InventoryType, Stacks, GoodStack, RowsType, ClaimsType, GoodClaim,
               DeliveryClaim
    <1>f. run.todo # {} => First \in run.todo
        BY <1>t, FirstFacts
    <1>0. CASE \A c \in DOMAIN claims :
                   claims'[c].status = "APPLIED" => claims[c].status # "PREPARED"
        BY <1>0 DEF AppliedExactly
    <1>a. ASSUME NEW k \in DOMAIN claims, NEW n \in Nat, completeDeliveryClaim(k, n),
                 n = Mass(inv', "claim", k)
          PROVE  AppliedExactly
        <2> DEFINE row == CompletedRow(claims[k], n)
        <2>1. ClaimUpdate(k, row)
            BY <1>a DEF completeDeliveryClaim, ClaimUpdate, CompletedRow
        <2>2. row.applied = n
            BY <1>t DEF CompletedRow, DeliveryClaim
        <2> HIDE DEF row
        <2>3. \A c \in DOMAIN claims : claims'[c] = IF c = k THEN row ELSE claims[c]
            BY <2>1 DEF ClaimUpdate
        <2> QED BY <1>a, <2>2, <2>3 DEF AppliedExactly
    <1>b. ASSUME NEW k \in DOMAIN claims, markDeliveryClaimCleaned(k),
                 NEW c \in DOMAIN claims
          PROVE  claims'[c].status = claims[c].status
        <2> DEFINE row == [claims[k] EXCEPT !.cleaned = TRUE]
        <2>1. ClaimUpdate(k, row)
            BY <1>b DEF markDeliveryClaimCleaned, ClaimUpdate
        <2>2. row.status = claims[k].status
            BY <1>t DEF DeliveryClaim
        <2> HIDE DEF row
        <2> QED BY <2>1, <2>2 DEF ClaimUpdate
    <1>1. CASE finishClaim
        <2> DEFINE m == taggedItemCount(First)
                   n == lesser(m, claims[First].quantity)
        <2>1. /\ First \in DOMAIN claims /\ inv' = inv
              /\ claims[First].status = "PREPARED"
              /\ (UNCHANGED claims \/ completeDeliveryClaim(First, n))
            BY <1>1, <1>t, <1>f DEF finishClaim, Call, Lists, Stage
        <2>2. m = Mass(inv', "claim", First) /\ m \in Nat
            BY <1>t, <2>1, AmountIsMass, TaggedFacts DEF taggedItemCount
        <2>3. Mass(inv, "claim", First) <= claims[First].quantity
            BY <2>1 DEF Fits
        <2>4. m <= claims[First].quantity /\ claims[First].quantity \in Nat
            <3> HIDE DEF m
            <3> QED BY <1>t, <2>1, <2>2, <2>3
        <2>5. n = m
            <3> HIDE DEF m
            <3> QED BY <2>4, <2>2 DEF lesser
        <2> HIDE DEF n, m
        <2> QED BY <1>0, <1>a, <2>1, <2>2, <2>5
    <1>2. CASE addDelivered
        <2> DEFINE q == claims[run.id].quantity
                   n == Delivered(q)
        <2>1. /\ Stage("add") /\ run.id \in DOMAIN claims
              /\ inv' = addItem(run.id, q)
              /\ (UNCHANGED claims \/ completeDeliveryClaim(run.id, n))
            BY <1>2, <1>t DEF addDelivered, Call, Current
        <2>2. q \in Nat /\ NoMark(inv, "claim", run.id)
            BY <1>t, <2>1 DEF Marks
        <2>3. n \in Nat /\ n = Mass(inv', "claim", run.id)
            <3> HIDE DEF q
            <3> QED BY <1>t, <2>1, <2>2, AddedMass, DeliveredFacts
        <2> HIDE DEF n
        <2> QED BY <1>0, <1>a, <2>1, <2>3
    <1>3. CASE clearApplied \/ cleanClaim \/ clearDelivered
        <2>1. UNCHANGED claims \/ \E k \in DOMAIN claims : markDeliveryClaimCleaned(k)
            BY <1>3, <1>t, <1>f DEF clearApplied, cleanClaim, clearDelivered, MarkedClaim,
               Call, Lists, Current, Stage
        <2> QED BY <1>0, <1>b, <2>1
    <1>4. CASE reserveDelivery
        <2>1. UNCHANGED claims \/ \E d, q : insertClaim(d, q)
            BY <1>4 DEF reserveDelivery, Call, prepareDeliveryClaim
        <2>2. ASSUME NEW d, NEW q, insertClaim(d, q), NEW c \in DOMAIN claims
              PROVE  claims'[c].status = "APPLIED" => claims[c].status # "PREPARED"
            BY <2>2 DEF insertClaim
        <2> QED BY <1>0, <2>1, <2>2
    <1>5. CASE tagItems \/ cancelShort \/ markTagged \/ placeOrder \/ cleanUp \/ removeOrdered
               \/ retryExecute \/ queryFails
               \/ \E type \in {"LIMIT", "MARKET"}, q \in Quantities : submitSellEscrow(type, q)
        BY <1>0, <1>5 DEF tagItems, cancelShort, markTagged, placeOrder, cleanUp,
           removeOrdered, retryExecute, queryFails, submitSellEscrow, rows
    <1>6. CASE inventoryInsufficient \/ placeOrderThrows \/ otherClaimMarker
               \/ otherSellMarker \/ nextLoop \/ claimDeliveries \/ onPlayerJoin \/ save
        BY <1>0, <1>6 DEF inventoryInsufficient, placeOrderThrows, otherClaimMarker,
           otherSellMarker, nextLoop, claimDeliveries, onPlayerJoin, save, rows
    <1>7. CASE \/ kill \/ toggleMarket \/ \E q \in Quantities : deliveryArrives(q)
               \/ \E s \in Slots : useStack(s)
               \/ UNCHANGED vars
        BY <1>0, <1>7 DEF kill, toggleMarket, deliveryArrives, useStack, rows, vars
    <1> QED BY <1>1, <1>2, <1>3, <1>4, <1>5, <1>6, <1>7 DEF Next, work

-----------------------------------------------------------------------------
(* What a step does to what is due *)

DueIn(ds) ==
    SumFunctionOnSet([d \in DOMAIN ds |-> ds[d].quantity - ds[d].claimed], DOMAIN ds)

LEMMA DueIs == Due = DueIn(deliveries) /\ Due' = DueIn(deliveries')
    BY DEF Due, DueIn

LEMMA DueInt ==
    ASSUME NEW ds \in Seq(LooseDelivery)
    PROVE  DueIn(ds) \in Int
    <1> DEFINE D == DOMAIN ds
               f == [d \in D |-> ds[d].quantity - ds[d].claimed]
    <1>1. D = 1 .. Len(ds) /\ Len(ds) \in Nat /\ \A d \in D : ds[d] \in LooseDelivery
        OBVIOUS
    <1>2. IsFiniteSet(D) /\ \A d \in D : f[d] \in Int
        BY <1>1, FS_Interval DEF LooseDelivery
    <1> HIDE DEF f, D
    <1>3. SumFunctionOnSet(f, D) \in Int
        BY <1>2, SumInt
    <1> QED BY <1>3 DEF f, D, DueIn

LEMMA DueAdded ==
    ASSUME NEW ds \in Seq(LooseDelivery), NEW q \in Nat
    PROVE  DueIn(addDelivery(ds, q)) = DueIn(ds) + q
    <1>1. CASE q > 0
        <2> DEFINE row == [quantity |-> q, claimed |-> 0, reserved |-> 0]
                   k == Len(ds) + 1
                   new == Append(ds, row)
                   D == DOMAIN ds
                   f == [d \in D |-> ds[d].quantity - ds[d].claimed]
                   g == [d \in D \cup {k} |-> new[d].quantity - new[d].claimed]
        <2>1. row \in LooseDelivery /\ addDelivery(ds, q) = new
            BY <1>1 DEF LooseDelivery, addDelivery
        <2>2. D = 1 .. Len(ds) /\ Len(ds) \in Nat /\ \A d \in D : ds[d] \in LooseDelivery
            OBVIOUS
        <2>3. IsFiniteSet(D) /\ k \notin D
            BY <2>2, FS_Interval
        <2>4. /\ DOMAIN new = D \cup {k} /\ new[k] = row
              /\ \A d \in D : new[d] = ds[d]
            <3> HIDE DEF row
            <3> QED BY <2>1, <2>2
        <2> HIDE DEF new
        <2>5. g[k] = q
            BY <2>4
        <2>6. \A d \in D : g[d] = f[d]
            BY <2>3, <2>4
        <2>7. \A d \in D : f[d] \in Int
            BY <2>2 DEF LooseDelivery
        <2>8. DueIn(ds) = SumFunctionOnSet(f, D) /\ DueIn(new) = SumFunctionOnSet(g, D \cup {k})
            <3>1. DueIn(ds) = SumFunctionOnSet(f, D)
                BY DEF DueIn
            <3>2. DueIn(new) = SumFunctionOnSet(g, D \cup {k})
                BY <2>4 DEF DueIn
            <3> QED BY <3>1, <3>2
        <2> HIDE DEF f, g, D, k, row
        <2>9. \A d \in D \cup {k} : g[d] \in Int
            BY <2>5, <2>6, <2>7
        <2>10. SumFunctionOnSet(g, D \cup {k}) = SumFunctionOnSet(g, D) + g[k]
            BY ONLY <2>3, <2>9, SumAdd
        <2>11. SumFunctionOnSet(g, D) = SumFunctionOnSet(f, D)
            BY ONLY <2>3, <2>6, SumEqual
        <2> QED BY <2>1, <2>5, <2>8, <2>10, <2>11
    <1>2. CASE ~(q > 0)
        <2>1. addDelivery(ds, q) = ds /\ q = 0
            BY <1>2 DEF addDelivery
        <2> QED BY <2>1, DueInt
    <1> QED BY <1>1, <1>2

\* The claimed quantity of one delivery changes.
LEMMA DueChanged ==
    ASSUME deliveries \in Seq(LooseDelivery), NEW k \in DOMAIN deliveries, NEW n \in Int,
           DOMAIN deliveries' = DOMAIN deliveries,
           \A d \in DOMAIN deliveries : d # k => deliveries'[d] = deliveries[d],
           deliveries'[k].quantity = deliveries[k].quantity,
           deliveries'[k].claimed = deliveries[k].claimed + n
    PROVE  DueIn(deliveries') = DueIn(deliveries) - n
    <1> DEFINE D == DOMAIN deliveries
               f == [d \in D |-> deliveries[d].quantity - deliveries[d].claimed]
               g == [d \in D |-> deliveries'[d].quantity - deliveries'[d].claimed]
    <1>1. /\ D = 1 .. Len(deliveries) /\ Len(deliveries) \in Nat
          /\ \A d \in D : deliveries[d] \in LooseDelivery
        OBVIOUS
    <1>2. IsFiniteSet(D) /\ k \in D
        BY <1>1, FS_Interval
    <1>3. \A d \in D : f[d] \in Int
        BY <1>1 DEF LooseDelivery
    <1>4. g[k] = f[k] - n
        <2>1. deliveries[k].quantity \in Nat /\ deliveries[k].claimed \in Nat
            BY <1>1 DEF LooseDelivery
        <2> QED BY <2>1
    <1>5. \A d \in D \ {k} : g[d] = f[d]
        OBVIOUS
    <1>6. /\ DueIn(deliveries) = SumFunctionOnSet(f, D)
          /\ DueIn(deliveries') = SumFunctionOnSet(g, D)
        BY DEF DueIn
    <1> HIDE DEF f, g, D
    <1>7. IsFiniteSet(D) /\ k \in D /\ g[k] \in Int /\ f[k] \in Int
        BY <1>2, <1>3, <1>4
    <1>8. /\ SumFunctionOnSet(g, D) = SumFunctionOnSet(f, D) + g[k] - f[k]
          /\ SumFunctionOnSet(f, D) \in Int
        BY ONLY <1>3, <1>5, <1>7, SumChange
    <1> QED BY <1>4, <1>6, <1>7, <1>8

\* The three calls that write the deliveries.
LEMMA DuePrepared ==
    ASSUME RowsType, NEW d \in DOMAIN deliveries,
           prepareDeliveryClaim(d, Unreserved(deliveries[d]))
    PROVE  DueIn(deliveries') = DueIn(deliveries)
    <1>t. /\ deliveries \in Seq(LooseDelivery)
          /\ deliveries[d] \in LooseDelivery /\ Unreserved(deliveries[d]) \in Int
        BY DeliveryTypes
    <1> DEFINE q == Unreserved(deliveries[d])
               k == deliveries[d].claimed
               r == deliveries[d].reserved + q
    <1>1. deliveries' = [deliveries EXCEPT ![d].reserved = @ + q]
        BY DEF prepareDeliveryClaim
    <1>2. q \in Int
        BY <1>t
    <1> HIDE DEF q
    <1>3. k \in Int /\ r \in Int /\ k = deliveries[d].claimed + 0
        BY <1>t, <1>2 DEF LooseDelivery
    <1>4. deliveries' = [deliveries EXCEPT ![d].claimed = k, ![d].reserved = r]
        BY <1>t, <1>1 DEF LooseDelivery
    <1> HIDE DEF k, r
    <1>5. /\ DOMAIN deliveries' = DOMAIN deliveries
          /\ \A e \in DOMAIN deliveries : e # d => deliveries'[e] = deliveries[e]
          /\ deliveries'[d].claimed = k
          /\ deliveries'[d].quantity = deliveries[d].quantity
        BY <1>3, <1>4, RowChanged
    <1>6. deliveries'[d].claimed = deliveries[d].claimed + 0
        BY <1>3, <1>5
    <1>7. DueIn(deliveries') = DueIn(deliveries) - 0
        BY <1>t, <1>5, <1>6, DueChanged
    <1> QED BY <1>t, <1>7, DueInt

LEMMA DueCompleted ==
    ASSUME RowsType, NEW c \in DOMAIN claims, NEW n \in 0 .. claims[c].quantity,
           completeDeliveryClaim(c, n)
    PROVE  DueIn(deliveries') = DueIn(deliveries) - n
    <1> DEFINE d == claims[c].delivery
               q == claims[c].quantity
               k == deliveries[d].claimed + n
               r == deliveries[d].reserved - q
    <1>t. /\ deliveries \in Seq(LooseDelivery)
          /\ \A e \in DOMAIN deliveries : deliveries[e] \in LooseDelivery
        BY DeliveryTypes
    <1>1. d \in DOMAIN deliveries /\ q \in Nat /\ n \in Int
        BY DeliveryTypes DEF ClaimsType, GoodClaim, DeliveryClaim
    <1>2. deliveries[d] \in LooseDelivery
        BY <1>t, <1>1
    <1>3. deliveries' = [deliveries EXCEPT ![d].claimed = @ + n, ![d].reserved = @ - q]
        BY DEF completeDeliveryClaim
    <1> HIDE DEF d, q
    <1>4. k \in Int /\ r \in Int
        BY <1>1, <1>2 DEF LooseDelivery
    <1>5. deliveries' = [deliveries EXCEPT ![d].claimed = k, ![d].reserved = r]
        BY <1>t, <1>1, <1>2, <1>3 DEF LooseDelivery
    <1>k. k = deliveries[d].claimed + n
        OBVIOUS
    <1> HIDE DEF k, r
    <1>6. /\ DOMAIN deliveries' = DOMAIN deliveries
          /\ \A e \in DOMAIN deliveries : e # d => deliveries'[e] = deliveries[e]
          /\ deliveries'[d].claimed = k
          /\ deliveries'[d].quantity = deliveries[d].quantity
        BY <1>1, <1>4, <1>5, RowChanged
    <1>7. deliveries'[d].claimed = deliveries[d].claimed + n
        BY <1>k, <1>6
    <1> QED BY <1>t, <1>1, <1>6, <1>7, DueChanged

LEMMA DueExecuted ==
    ASSUME RowsType, NEW i \in DOMAIN escrows, EscrowIs(i, "TAGGED"), executeSellEscrow(i)
    PROVE  \E back \in 0 .. escrows[i].tagged :
              /\ DueIn(deliveries') = DueIn(deliveries) + back
              /\ outside' = outside + escrows[i].tagged - back
              /\ escrows[i].tagged \in Nat /\ escrows[i].tagged > 0
    <1>t. deliveries \in Seq(LooseDelivery) /\ EscrowsType /\ outside \in Nat
        BY DeliveryTypes DEF RowsType
    <1>1. PICK rest \in 0 .. escrows[i].requested :
              /\ deliveries' = addDelivery(addDelivery(deliveries, rest), Excess(i))
              /\ outside' = outside + escrows[i].requested - rest
              /\ rest \in Nat /\ Excess(i) \in Nat
              /\ escrows[i].requested \in Nat /\ escrows[i].requested > 0
              /\ escrows[i].tagged \in Nat
              /\ escrows[i].tagged = escrows[i].requested + Excess(i)
        BY <1>t, ExecuteFacts
    <1> DEFINE mid == addDelivery(deliveries, rest)
               e == Excess(i)
               back == rest + e
    <1>2. mid \in Seq(LooseDelivery) /\ DueIn(mid) = DueIn(deliveries) + rest
        BY <1>1, <1>t, DeliveryAdded, DueAdded
    <1>3. deliveries' = addDelivery(mid, e) /\ e \in Nat
        BY <1>1
    <1> HIDE DEF mid, e
    <1>4. DueIn(deliveries') = DueIn(mid) + e
        BY <1>2, <1>3, DueAdded
    <1>5. DueIn(deliveries) \in Int
        BY <1>t, DueInt
    <1>6. escrows[i].tagged = escrows[i].requested + e
        BY <1>1 DEF e
    <1>7. /\ back \in 0 .. escrows[i].tagged
          /\ DueIn(deliveries') = DueIn(deliveries) + back
          /\ outside' = outside + escrows[i].tagged - back
        <2>1. rest \in Nat /\ rest <= escrows[i].requested /\ escrows[i].requested \in Nat
            BY <1>1
        <2>2. back \in 0 .. escrows[i].tagged
            BY <1>1, <1>3, <1>6, <2>1
        <2>3. DueIn(deliveries') = DueIn(deliveries) + back
            BY <1>2, <1>3, <1>4, <1>5, <2>1
        <2>4. outside' = outside + escrows[i].requested - rest
            BY <1>1
        <2>5. outside' = outside + escrows[i].tagged - back
            BY <1>3, <1>6, <1>t, <2>1, <2>4
        <2> QED BY <2>2, <2>3, <2>5
    <1>8. escrows[i].tagged \in Nat /\ escrows[i].tagged > 0
        BY <1>1, <1>3, <1>6
    <1> HIDE DEF back
    <1> QED BY <1>7, <1>8

-----------------------------------------------------------------------------
(* What a step does to the worth of the inventory, and to the escrows *)

Readable(e) == e.status \in {"PREPARED", "CANCELED"}

\* The rows read the marks as before.
LEMMA HeldKept ==
    ASSUME TypeInv, [Next]_vars, Writes(inv'),
           \A i \in DOMAIN escrows : Readable(escrows'[i]) <=> Readable(escrows[i]),
           \A c \in DOMAIN claims :
               claims'[c].status = "APPLIED" <=> claims[c].status = "APPLIED"
    PROVE  Held' = Held
    <1>1. \A s \in Slots : inv[s] \in Stack /\ GoodStack(inv'[s], escrows, claims)
        BY WrittenGood DEF TypeInv, InventoryType, Stacks
    <1>2. \A s \in Slots : WorthIn(inv'[s], escrows, claims) = WorthIn(inv[s], escrows, claims)
        BY <1>1, WorthWritten DEF Writes
    <1>3. \A s \in Slots : WorthIn(inv'[s], escrows', claims') = WorthIn(inv'[s], escrows, claims)
        BY <1>1 DEF GoodStack, WorthIn, Readable
    <1>4. \A s \in Slots : WorthIn(inv'[s], escrows', claims') = WorthIn(inv[s], escrows, claims)
        BY <1>2, <1>3
    <1>5. HeldIn(inv', escrows', claims') = HeldIn(inv, escrows, claims)
        BY <1>4, HeldSame
    <1> QED BY <1>5, HeldIs

\* Items marked for an escrow that is now TAGGED are no longer the player's.
LEMMA HeldTaken ==
    ASSUME TypeInv, [Next]_vars, Writes(inv'), NEW k \in DOMAIN escrows,
           Readable(escrows[k]), ~Readable(escrows'[k]),
           \A i \in DOMAIN escrows : i # k => escrows'[i] = escrows[i],
           UNCHANGED claims
    PROVE  Held = Held' + Mass(inv', "sell", k)
    <1>1. \A s \in Slots : inv[s] \in Stack /\ GoodStack(inv'[s], escrows, claims)
        BY WrittenGood DEF TypeInv, InventoryType, Stacks
    <1>2. \A s \in Slots : inv'[s] \in Stack
        BY <1>1 DEF GoodStack
    <1>3. ASSUME NEW s \in Slots
          PROVE  WorthIn(inv[s], escrows, claims)
                    = WorthIn(inv'[s], escrows', claims') + MassOf(inv'[s], "sell", k)
        <2> DEFINE st == inv'[s]
        <2>1. WorthIn(inv[s], escrows, claims) = WorthIn(st, escrows, claims)
            BY <1>1, WorthWritten DEF Writes
        <2>2. GoodStack(st, escrows, claims) /\ st \in Stack
            BY <1>1, <1>2
        <2> HIDE DEF st
        <2>3. st.n \in Nat
            BY <2>2 DEF Stack
        <2>4. WorthIn(st, escrows, claims)
                 = WorthIn(st, escrows', claims') + MassOf(st, "sell", k)
            <3>1. CASE st.kind = "sell" /\ st.id = k
                BY <2>3, <3>1 DEF WorthIn, MassOf, Readable
            <3>2. CASE ~(st.kind = "sell" /\ st.id = k)
                <4>1. MassOf(st, "sell", k) = 0
                    BY <3>2 DEF MassOf
                <4>2. WorthIn(st, escrows', claims') = WorthIn(st, escrows, claims)
                    BY <2>2, <3>2 DEF WorthIn, GoodStack
                <4>3. WorthIn(st, escrows, claims) \in Nat
                    BY <2>2, WorthNat
                <4> QED BY <4>1, <4>2, <4>3
            <3> QED BY <3>1, <3>2
        <2> QED BY <2>1, <2>4 DEF st
    <1>4. HeldIn(inv, escrows, claims)
             = HeldIn(inv', escrows', claims') + Mass(inv', "sell", k)
        BY <1>1, <1>2, <1>3, HeldMoves
    <1> QED BY <1>4, HeldIs

\* Items marked for a claim that is now APPLIED are the player's.
LEMMA HeldGiven ==
    ASSUME TypeInv, [Next]_vars, Writes(inv'), NEW k \in DOMAIN claims,
           claims[k].status # "APPLIED", claims'[k].status = "APPLIED",
           \A c \in DOMAIN claims : c # k => claims'[c] = claims[c],
           UNCHANGED escrows
    PROVE  Held' = Held + Mass(inv', "claim", k)
    <1>1. \A s \in Slots : inv[s] \in Stack /\ GoodStack(inv'[s], escrows, claims)
        BY WrittenGood DEF TypeInv, InventoryType, Stacks
    <1>2. \A s \in Slots : inv'[s] \in Stack
        BY <1>1 DEF GoodStack
    <1>3. ASSUME NEW s \in Slots
          PROVE  WorthIn(inv'[s], escrows', claims')
                    = WorthIn(inv[s], escrows, claims) + MassOf(inv'[s], "claim", k)
        <2> DEFINE st == inv'[s]
        <2>1. WorthIn(inv[s], escrows, claims) = WorthIn(st, escrows, claims)
            BY <1>1, WorthWritten DEF Writes
        <2>2. GoodStack(st, escrows, claims) /\ st \in Stack
            BY <1>1, <1>2
        <2> HIDE DEF st
        <2>3. st.n \in Nat
            BY <2>2 DEF Stack
        <2>4. WorthIn(st, escrows', claims')
                 = WorthIn(st, escrows, claims) + MassOf(st, "claim", k)
            <3>1. CASE st.kind = "claim" /\ st.id = k
                BY <2>3, <3>1 DEF WorthIn, MassOf
            <3>2. CASE ~(st.kind = "claim" /\ st.id = k)
                <4>1. MassOf(st, "claim", k) = 0
                    BY <3>2 DEF MassOf
                <4>2. WorthIn(st, escrows', claims') = WorthIn(st, escrows, claims)
                    BY <2>2, <3>2 DEF WorthIn, GoodStack
                <4>3. WorthIn(st, escrows, claims) \in Nat
                    BY <2>2, WorthNat
                <4> QED BY <4>1, <4>2, <4>3
            <3> QED BY <3>1, <3>2
        <2> QED BY <2>1, <2>4 DEF st
    <1>4. HeldIn(inv', escrows', claims')
             = HeldIn(inv, escrows, claims) + Mass(inv', "claim", k)
        BY <1>1, <1>2, <1>3, HeldMoves
    <1> QED BY <1>4, HeldIs

-----------------------------------------------------------------------------
(* InventoryEscrow implements ItemCustody *)

\* What the escrows hold and which are placed, as the refinement maps them.
CustodyMap == [i \in 1 .. MaxEscrows |->
                  IF i \in DOMAIN escrows THEN Kept(escrows[i]) ELSE 0]
Placed == {i \in DOMAIN escrows : escrows[i].status = "ORDERED"}

LEMMA EscrowsKeep ==
    ASSUME DOMAIN escrows' = DOMAIN escrows,
           \A i \in DOMAIN escrows :
               /\ Kept(escrows'[i]) = Kept(escrows[i])
               /\ escrows'[i].status = "ORDERED" <=> escrows[i].status = "ORDERED"
    PROVE  CustodyMap' = CustodyMap /\ Placed' = Placed
    BY DEF CustodyMap, Placed

LEMMA EscrowKept ==
    ASSUME NEW k \in DOMAIN escrows, NEW row, EscrowUpdate(k, row),
           DOMAIN escrows \subseteq 1 .. MaxEscrows
    PROVE  /\ CustodyMap' = [CustodyMap EXCEPT ![k] = Kept(row)]
           /\ row.status # "ORDERED" /\ escrows[k].status # "ORDERED" => Placed' = Placed
           /\ row.status = "ORDERED" => Placed' = Placed \cup {k}
    <1>1. /\ DOMAIN escrows' = DOMAIN escrows
          /\ \A i \in DOMAIN escrows : escrows'[i] = IF i = k THEN row ELSE escrows[i]
        BY DEF EscrowUpdate
    <1>2. CustodyMap' = [CustodyMap EXCEPT ![k] = Kept(row)]
        BY <1>1 DEF CustodyMap
    <1>3. row.status # "ORDERED" /\ escrows[k].status # "ORDERED" => Placed' = Placed
        BY <1>1 DEF Placed
    <1>4. row.status = "ORDERED" => Placed' = Placed \cup {k}
        BY <1>1 DEF Placed
    <1> QED BY <1>2, <1>3, <1>4

LEMMA EscrowPlaced ==
    ASSUME EscrowsType, Prepares
    PROVE  CustodyMap' = CustodyMap /\ Placed' = Placed
    <1> DEFINE n == Len(escrows) + 1
    <1>1. /\ DOMAIN escrows' = DOMAIN escrows \cup {n} /\ n \notin DOMAIN escrows
          /\ \A i \in DOMAIN escrows : escrows'[i] = escrows[i]
          /\ escrows'[n].status = "PREPARED"
        BY EscrowAdded
    <1> HIDE DEF n
    <1>2. Kept(escrows'[n]) = 0
        BY <1>1 DEF Kept
    <1>3. CustodyMap' = CustodyMap
        BY <1>1, <1>2 DEF CustodyMap
    <1>4. Placed' = Placed
        BY <1>1 DEF Placed
    <1> QED BY <1>3, <1>4

\* The steps of ItemCustody under the mapping.
LEMMA CustodyActions ==
    /\ \A i \in 1 .. MaxEscrows, q \in 1 .. Held :
          /\ i \notin Placed /\ CustodyMap[i] = 0 /\ Held' = Held - q
          /\ CustodyMap' = [CustodyMap EXCEPT ![i] = q]
          /\ Placed' = Placed /\ UNCHANGED <<lost, outside>> /\ Due' = Due
          => Custody!Next
    /\ \A i \in 1 .. MaxEscrows : \A back \in 0 .. CustodyMap[i] :
          /\ CustodyMap[i] > 0 /\ Held' = Held
          /\ CustodyMap' = [CustodyMap EXCEPT ![i] = 0]
          /\ Placed' = Placed \cup {i} /\ Due' = Due + back
          /\ outside' = outside + CustodyMap[i] - back /\ UNCHANGED lost
          => Custody!Next
    /\ \A q \in 1 .. outside :
          /\ Due' = Due + q /\ outside' = outside - q
          /\ Held' = Held /\ CustodyMap' = CustodyMap /\ Placed' = Placed
          /\ UNCHANGED lost
          => Custody!Next
    /\ \A q \in 1 .. Due :
          /\ Held' = Held + q /\ Due' = Due - q
          /\ CustodyMap' = CustodyMap /\ Placed' = Placed
          /\ UNCHANGED <<lost, outside>>
          => Custody!Next
    /\ \A q \in 1 .. Held :
          /\ Held' = Held - q /\ outside' = outside + q
          /\ CustodyMap' = CustodyMap /\ Placed' = Placed /\ Due' = Due
          /\ UNCHANGED lost
          => Custody!Next
    /\ \A q \in 1 .. Held :
          /\ Held' = Held - q /\ lost' = lost + q
          /\ CustodyMap' = CustodyMap /\ Placed' = Placed /\ Due' = Due
          /\ UNCHANGED outside
          => Custody!Next
    BY DEF CustodyMap, Placed, Custody!Next, Custody!take, Custody!place, Custody!owe,
           Custody!handOut, Custody!spend, Custody!lose

Amounts == Held \in Nat /\ Due \in Nat /\ outside \in Nat

LEMMA AmountsAreNat == TypeInv /\ ReservationExact => Amounts
    <1> SUFFICES ASSUME TypeInv, ReservationExact PROVE Amounts
        OBVIOUS
    <1>1. \A s \in Slots : inv[s] \in Stack
        BY DEF TypeInv, InventoryType, Stacks
    <1>2. Held \in Nat
        BY <1>1, HeldNat, HeldIs
    <1> DEFINE D == DOMAIN deliveries
               f == [d \in D |-> deliveries[d].quantity - deliveries[d].claimed]
    <1>3. \A d \in D : f[d] \in Nat
        <2> TAKE d \in D
        <2> DEFINE x == deliveries[d]
        <2>1. x \in LooseDelivery /\ claims \in Seq(DeliveryClaim)
            BY DeliveryTypes DEF TypeInv, ClaimsType
        <2>2. x.reserved \in Nat /\ Unreserved(x) >= 0
            BY <2>1, ExactRows, SharesNat DEF AllExact, Exact
        <2>3. f[d] = x.quantity - x.claimed
            OBVIOUS
        <2> HIDE DEF x, f
        <2>4. x.quantity - x.claimed \in Nat
            BY <2>1, <2>2 DEF LooseDelivery, Unreserved
        <2> QED BY <2>3, <2>4
    <1>4. IsFiniteSet(D)
        <2>1. D = 1 .. Len(deliveries) /\ Len(deliveries) \in Nat
            BY DeliveryTypes DEF TypeInv
        <2> QED BY <2>1, FS_Interval
    <1>5. Due = SumFunctionOnSet(f, D)
        BY DEF Due
    <1> HIDE DEF f, D
    <1>6. SumFunctionOnSet(f, D) \in Nat
        BY <1>3, <1>4, SumNat
    <1> QED BY <1>2, <1>5, <1>6 DEF Amounts, TypeInv, RowsType

LEMMA AmountsStay == TypeInv /\ ReservationExact /\ [Next]_vars => Amounts /\ Amounts'
    BY TypeStep, ReservationAlways, AmountsAreNat, PTL

CustodyInv == TypeInv /\ ReservationExact /\ Marks /\ Fits /\ CountInv /\ LostInv

\* A step that costs nothing hands items over as one step of ItemCustody, or
\* none.
LEMMA CustodyKept ==
    CustodyInv /\ [Next]_vars /\ Durable /\ UNCHANGED lost
        => Custody!Next \/ UNCHANGED Custody!custodyVars
    <1> SUFFICES ASSUME CustodyInv, [Next]_vars, Durable, UNCHANGED lost
                 PROVE  Custody!Next \/ UNCHANGED Custody!custodyVars
        OBVIOUS
    <1>t. /\ TypeInv /\ Marks /\ Fits /\ RowsType /\ EscrowsType /\ Stacks(inv)
          /\ \A i \in DOMAIN escrows : GoodEscrow(escrows[i]) /\ escrows[i] \in SellEscrow
          /\ \A c \in DOMAIN claims : /\ claims[c] \in DeliveryClaim
                                      /\ claims[c].quantity \in Nat
        BY DEF CustodyInv, TypeInv, InventoryType, RowsType, EscrowsType, GoodEscrow,
               ClaimsType, GoodClaim, DeliveryClaim
    <1>n. /\ Held \in Nat /\ Held' \in Nat /\ Due \in Nat /\ Due' \in Nat
          /\ outside \in Nat /\ outside' \in Nat
        BY AmountsStay DEF Amounts, CustodyInv
    <1>d. DOMAIN escrows \subseteq 1 .. MaxEscrows
        <2>1. /\ DOMAIN escrows = 1 .. Len(escrows) /\ Len(escrows) \in Nat
              /\ used.escrows \in Nat
            BY <1>t DEF EscrowsType, TypeInv, Counters
        <2> QED BY <2>1, BoundsAreNat DEF CustodyInv, CountInv
    <1>e. RowEffect /\ StackEffect /\ ~TakenBack /\ TaggedExactly /\ AppliedExactly
        BY <1>t, RowEffects, StackEffects, EscrowsTagged, ClaimsApplied DEF TakenBack
    <1>0. ~Torn
        <2>1. lost \in Nat /\ \A s \in Slots : inv[s] \in Stack /\ GoodStack(inv[s], escrows, claims)
            BY <1>t DEF CustodyInv, LostInv, Stacks
        <2>2. \A s \in Slots : inv[s].kind = "claim" => lost + inv[s].n # lost
            BY <2>1 DEF GoodStack, Stack
        <2> QED BY <2>2 DEF Torn
    <1>m. \A i \in DOMAIN escrows : CustodyMap[i] = Kept(escrows[i])
        BY <1>d DEF CustodyMap
    <1>s. ASSUME CustodyMap' = CustodyMap, Placed' = Placed, Held' = Held, Due' = Due,
                 UNCHANGED outside
          PROVE  UNCHANGED Custody!custodyVars
        BY <1>s DEF CustodyMap, Placed, Custody!custodyVars
    <1>r. \A i \in DOMAIN escrows : Readable(escrows[i]) <=> Readable(escrows[i])
        OBVIOUS
    <1>1. CASE UsesUp
        <2>1. PICK k \in Slots : /\ inv[k].kind = "plain"
                                 /\ inv' = [inv EXCEPT ![k] = Empty]
                                 /\ UNCHANGED rows
                                 /\ outside' = outside + inv[k].n
            BY <1>1 DEF UsesUp
        <2>2. /\ HeldIn(inv', escrows, claims) = HeldIn(inv, escrows, claims) - inv[k].n
              /\ inv[k].n \in Nat /\ inv[k].n > 0
            BY <1>t, <2>1, HeldUsed
        <2>3. Held' = Held - inv[k].n
            BY <2>1, <2>2, HeldIs DEF rows
        <2>4. CustodyMap' = CustodyMap /\ Placed' = Placed /\ Due' = Due
            BY <2>1 DEF rows, CustodyMap, Placed, Due
        <2>5. inv[k].n \in 1 .. Held
            BY <1>n, <2>2, <2>3
        <2> QED BY <2>1, <2>3, <2>4, <2>5, CustodyActions
    <1>w. CASE Writes(inv') /\ ~UsesUp
        <2>1. CASE SameRows
            <3>1. Held' = Held
                BY <1>t, <1>w, <2>1, HeldKept DEF SameRows
            <3>2. CustodyMap' = CustodyMap /\ Placed' = Placed /\ Due' = Due
                BY <2>1 DEF SameRows, CustodyMap, Placed, Due
            <3> QED BY <1>s, <2>1, <3>1, <3>2 DEF SameRows
        <2>2. CASE Prepares /\ EscrowsOnly
            <3>1. Held' = Held
                <4>1. \A i \in DOMAIN escrows : escrows'[i] = escrows[i]
                    BY <1>t, <2>2, EscrowAdded
                <4> QED BY <1>t, <1>w, <2>2, <4>1, HeldKept DEF EscrowsOnly
            <3>2. CustodyMap' = CustodyMap /\ Placed' = Placed
                BY <1>t, <2>2, EscrowPlaced
            <3>3. Due' = Due
                BY <2>2 DEF EscrowsOnly, Due
            <3> QED BY <1>s, <2>2, <3>1, <3>2, <3>3 DEF EscrowsOnly
        <2>3. ASSUME NEW k \in DOMAIN escrows, EscrowIs(k, "PREPARED") /\ Tags(k),
                     EscrowsOnly
              PROVE  Custody!Next
            <3>1. PICK t \in [quantity: Nat, stacks: Nat] :
                     t.quantity >= escrows[k].requested /\ markSellEscrowTagged(k, t)
                BY <2>3 DEF Tags
            <3> DEFINE row == TaggedRow(escrows[k], t)
                       q == t.quantity
            <3>2. EscrowUpdate(k, row)
                BY <1>t, <3>1, EscrowRows
            <3>3. /\ row.status = "TAGGED" /\ row.tagged = q /\ q \in Nat /\ q > 0
                  /\ escrows[k].status = "PREPARED"
                BY <1>t, <2>3, <3>1 DEF TaggedRow, SellEscrow, GoodEscrow, EscrowIs
            <3> HIDE DEF row, q
            <3>4. \A i \in DOMAIN escrows : escrows'[i] = IF i = k THEN row ELSE escrows[i]
                BY <3>2 DEF EscrowUpdate
            <3>5. Held = Held' + Mass(inv', "sell", k)
                <4>1. Readable(escrows[k]) /\ ~Readable(escrows'[k])
                    BY <3>3, <3>4 DEF Readable
                <4> QED BY <1>t, <1>w, <2>3, <3>4, <4>1, HeldTaken DEF EscrowsOnly
            <3>6. Mass(inv', "sell", k) = q
                BY <1>e, <3>3, <3>4 DEF TaggedExactly
            <3>7. Held' = Held - q /\ q \in 1 .. Held
                BY <1>n, <3>3, <3>5, <3>6
            <3>8. /\ CustodyMap' = [CustodyMap EXCEPT ![k] = q]
                  /\ Placed' = Placed /\ CustodyMap[k] = 0 /\ k \notin Placed
                <4>1. Kept(row) = q /\ Kept(escrows[k]) = 0
                    BY <3>3 DEF Kept
                <4>2. k \notin Placed
                    BY <3>3 DEF Placed
                <4> QED BY <1>d, <1>m, <3>2, <3>3, <4>1, <4>2, EscrowKept
            <3>9. Due' = Due /\ outside' = outside /\ k \in 1 .. MaxEscrows
                BY <1>d, <2>3 DEF EscrowsOnly, Due
            <3> QED BY <3>7, <3>8, <3>9, CustodyActions
        <2>4. ASSUME NEW k \in DOMAIN escrows, EscrowIs(k, "PREPARED") /\ cancelSellEscrow(k),
                     EscrowsOnly
              PROVE  UNCHANGED Custody!custodyVars
            <3> DEFINE row == CanceledRow(escrows[k])
            <3>1. EscrowUpdate(k, row)
                BY <1>t, <2>4, EscrowRows
            <3>2. row.status = "CANCELED" /\ escrows[k].status = "PREPARED"
                BY <1>t, <2>4 DEF CanceledRow, SellEscrow, EscrowIs
            <3> HIDE DEF row
            <3>3. /\ DOMAIN escrows' = DOMAIN escrows
                  /\ \A i \in DOMAIN escrows : escrows'[i] = IF i = k THEN row ELSE escrows[i]
                BY <3>1 DEF EscrowUpdate
            <3>4. \A i \in DOMAIN escrows : Readable(escrows'[i]) <=> Readable(escrows[i])
                BY <3>2, <3>3 DEF Readable
            <3>5. Held' = Held
                BY <1>t, <1>w, <2>4, <3>4, HeldKept DEF EscrowsOnly
            <3>6. CustodyMap' = CustodyMap /\ Placed' = Placed
                BY <3>2, <3>3, EscrowsKeep DEF Kept
            <3> QED BY <1>s, <2>4, <3>5, <3>6 DEF EscrowsOnly, Due
        <2>5. ASSUME NEW k \in DOMAIN escrows, EscrowIs(k, "TAGGED") /\ executeSellEscrow(k),
                     UNCHANGED claims
              PROVE  Custody!Next
            <3> DEFINE row == OrderedRow(escrows[k])
            <3>1. EscrowUpdate(k, row)
                BY <1>t, <2>5, EscrowRows
            <3>2. row.status = "ORDERED" /\ escrows[k].status = "TAGGED"
                BY <1>t, <2>5 DEF OrderedRow, SellEscrow, EscrowIs
            <3>3. PICK back \in 0 .. escrows[k].tagged :
                     /\ DueIn(deliveries') = DueIn(deliveries) + back
                     /\ outside' = outside + escrows[k].tagged - back
                     /\ escrows[k].tagged \in Nat /\ escrows[k].tagged > 0
                BY <1>t, <2>5, DueExecuted
            <3> HIDE DEF row
            <3>4. \A i \in DOMAIN escrows : escrows'[i] = IF i = k THEN row ELSE escrows[i]
                BY <3>1 DEF EscrowUpdate
            <3>5. \A i \in DOMAIN escrows : Readable(escrows'[i]) <=> Readable(escrows[i])
                BY <3>2, <3>4 DEF Readable
            <3>6. Held' = Held
                BY <1>t, <1>w, <2>5, <3>5, HeldKept
            <3>7. /\ CustodyMap' = [CustodyMap EXCEPT ![k] = 0]
                  /\ Placed' = Placed \cup {k} /\ CustodyMap[k] = escrows[k].tagged
                <4>1. Kept(row) = 0 /\ Kept(escrows[k]) = escrows[k].tagged
                    BY <3>2 DEF Kept
                <4> QED BY <1>d, <1>m, <3>1, <3>2, <4>1, EscrowKept
            <3>8. Due' = Due + back
                BY <3>3, DueIs
            <3> QED BY <1>d, <3>3, <3>6, <3>7, <3>8, CustodyActions
        <2>6. ASSUME NEW k \in DOMAIN escrows, EscrowIs(k, "ORDERED") /\ markSellEscrowCleaned(k),
                     EscrowsOnly
              PROVE  UNCHANGED Custody!custodyVars
            <3> DEFINE row == CleanedRow(escrows[k])
            <3>1. EscrowUpdate(k, row)
                BY <1>t, <2>6, EscrowRows
            <3>2. row.status = "ORDERED" /\ escrows[k].status = "ORDERED"
                BY <1>t, <2>6 DEF CleanedRow, SellEscrow, EscrowIs
            <3> HIDE DEF row
            <3>3. /\ DOMAIN escrows' = DOMAIN escrows
                  /\ \A i \in DOMAIN escrows : escrows'[i] = IF i = k THEN row ELSE escrows[i]
                BY <3>1 DEF EscrowUpdate
            <3>4. \A i \in DOMAIN escrows : Readable(escrows'[i]) <=> Readable(escrows[i])
                BY <3>2, <3>3 DEF Readable
            <3>5. Held' = Held
                BY <1>t, <1>w, <2>6, <3>4, HeldKept DEF EscrowsOnly
            <3>6. CustodyMap' = CustodyMap /\ Placed' = Placed
                BY <3>2, <3>3, EscrowsKeep DEF Kept
            <3> QED BY <1>s, <2>6, <3>5, <3>6 DEF EscrowsOnly, Due
        <2>7. ASSUME NEW d \in DOMAIN deliveries,
                     prepareDeliveryClaim(d, Unreserved(deliveries[d])),
                     UNCHANGED <<escrows, outside>>
              PROVE  UNCHANGED Custody!custodyVars
            <3>1. \A c \in DOMAIN claims :
                     claims'[c].status = "APPLIED" <=> claims[c].status = "APPLIED"
                <4>1. NewClaim \in DOMAIN claims => claims[NewClaim].status = "CANCELED"
                    <5>1. Len(claims) + 1 \notin DOMAIN claims
                        BY <1>t DEF RowsType, ClaimsType
                    <5> QED BY <1>t, <5>1, NewClaimFacts DEF RowsType
                <4> QED BY <2>7, <4>1 DEF prepareDeliveryClaim, insertClaim
            <3>2. Held' = Held
                BY <1>t, <1>w, <2>7, <3>1, HeldKept
            <3>3. Due' = Due
                BY <1>t, <2>7, DuePrepared, DueIs
            <3>4. CustodyMap' = CustodyMap /\ Placed' = Placed
                BY <2>7 DEF CustodyMap, Placed
            <3> QED BY <1>s, <2>7, <3>2, <3>3, <3>4
        <2>8. ASSUME NEW c \in DOMAIN claims, claims[c].status = "PREPARED",
                     NEW n \in 0 .. claims[c].quantity, completeDeliveryClaim(c, n),
                     UNCHANGED <<escrows, outside>>
              PROVE  Custody!Next \/ UNCHANGED Custody!custodyVars
            <3> DEFINE row == CompletedRow(claims[c], n)
            <3>1. ClaimUpdate(c, row)
                BY <2>8 DEF completeDeliveryClaim, ClaimUpdate, CompletedRow
            <3>2. /\ row.status = IF n = 0 THEN "CANCELED" ELSE "APPLIED"
                  /\ row.applied = n /\ n \in Nat
                BY <1>t, <2>8 DEF CompletedRow, DeliveryClaim
            <3> HIDE DEF row
            <3>3. \A b \in DOMAIN claims : claims'[b] = IF b = c THEN row ELSE claims[b]
                BY <3>1 DEF ClaimUpdate
            <3>4. Due' = Due - n
                BY <1>t, <2>8, DueCompleted, DueIs
            <3>5. CustodyMap' = CustodyMap /\ Placed' = Placed
                BY <2>8 DEF CustodyMap, Placed
            <3>6. CASE n = 0
                <4>1. \A b \in DOMAIN claims :
                         claims'[b].status = "APPLIED" <=> claims[b].status = "APPLIED"
                    BY <2>8, <3>2, <3>3, <3>6
                <4>2. Held' = Held
                    BY <1>t, <1>w, <2>8, <4>1, HeldKept
                <4>3. Due' = Due
                    BY <1>n, <3>4, <3>6
                <4> QED BY <1>s, <2>8, <3>5, <4>2, <4>3
            <3>7. CASE n > 0
                <4>1. claims'[c].status = "APPLIED" /\ claims'[c].applied = n
                    BY <3>2, <3>3, <3>7
                <4>2. Held' = Held + Mass(inv', "claim", c)
                    BY <1>t, <1>w, <2>8, <3>3, <4>1, HeldGiven
                <4>3. Mass(inv', "claim", c) = n
                    BY <1>e, <2>8, <4>1 DEF AppliedExactly
                <4>4. Held' = Held + n /\ n \in 1 .. Due
                    BY <1>n, <3>2, <3>4, <3>7, <4>2, <4>3
                <4> QED BY <2>8, <3>4, <3>5, <4>4, CustodyActions
            <3> QED BY <3>2, <3>6, <3>7
        <2>9. ASSUME NEW c \in DOMAIN claims, markDeliveryClaimCleaned(c),
                     UNCHANGED <<escrows, deliveries, outside>>
              PROVE  UNCHANGED Custody!custodyVars
            <3> DEFINE row == [claims[c] EXCEPT !.cleaned = TRUE]
            <3>1. ClaimUpdate(c, row)
                BY <2>9 DEF markDeliveryClaimCleaned, ClaimUpdate
            <3>2. row.status = claims[c].status
                BY <1>t DEF DeliveryClaim
            <3> HIDE DEF row
            <3>3. \A b \in DOMAIN claims :
                     claims'[b].status = "APPLIED" <=> claims[b].status = "APPLIED"
                BY <3>1, <3>2 DEF ClaimUpdate
            <3>4. Held' = Held
                BY <1>t, <1>w, <2>9, <3>3, HeldKept
            <3>5. CustodyMap' = CustodyMap /\ Placed' = Placed /\ Due' = Due
                BY <2>9 DEF CustodyMap, Placed, Due
            <3> QED BY <1>s, <2>9, <3>4, <3>5
        <2>10. ASSUME NEW q \in Quantities, q <= outside,
                      deliveries' = addDelivery(deliveries, q), outside' = outside - q,
                      UNCHANGED <<escrows, claims>>
               PROVE  Custody!Next
            <3>1. Held' = Held
                BY <1>t, <1>w, <2>10, HeldKept
            <3>2. q \in Nat /\ q > 0 /\ deliveries \in Seq(LooseDelivery)
                BY <1>t, BoundsAreNat DEF RowsType, DeliveriesType
            <3>3. DueIn(deliveries') = DueIn(deliveries) + q
                BY <2>10, <3>2, DueAdded
            <3>4. Due' = Due + q
                BY <3>3, DueIs
            <3>5. CustodyMap' = CustodyMap /\ Placed' = Placed
                BY <2>10 DEF CustodyMap, Placed
            <3>6. q \in 1 .. outside
                BY <1>n, <2>10, <3>2
            <3> QED BY <2>10, <3>1, <3>4, <3>5, <3>6, CustodyActions
        <2> QED BY <1>e, <1>w, <2>1, <2>2, <2>3, <2>4, <2>5, <2>6, <2>7, <2>8, <2>9, <2>10
                DEF RowEffect
    <1> QED BY <1>e, <1>0, <1>1, <1>w DEF StackEffect

\* A kill that finds a stack out of its slot loses it.
LEMMA CustodyStep ==
    CustodyInv /\ [Next]_vars /\ Durable
        => Custody!Next \/ UNCHANGED Custody!custodyVars
    <1> SUFFICES ASSUME CustodyInv, [Next]_vars, Durable
                 PROVE  Custody!Next \/ UNCHANGED Custody!custodyVars
        OBVIOUS
    <1>1. CASE UNCHANGED lost
        BY <1>1, CustodyKept
    <1>2. CASE Torn
        <2>1. PICK k \in Slots :
                 /\ inv[k].kind = "claim" /\ claims[inv[k].id].status = "APPLIED"
                 /\ inv'[k] = Empty
                 /\ \A s \in Slots \ {k} : Write(inv[s], inv'[s])
                 /\ UNCHANGED <<rows, outside>>
                 /\ lost' = lost + inv[k].n
            BY <1>2 DEF Torn
        <2>2. /\ HeldIn(inv', escrows, claims) = HeldIn(inv, escrows, claims) - inv[k].n
              /\ inv[k].n \in Nat /\ inv[k].n > 0
            BY <2>1, HeldTorn DEF CustodyInv
        <2>3. Held' = Held - inv[k].n
            BY <2>1, <2>2, HeldIs DEF rows
        <2>4. CustodyMap' = CustodyMap /\ Placed' = Placed /\ Due' = Due
            BY <2>1 DEF rows, CustodyMap, Placed, Due
        <2>5. inv[k].n \in 1 .. Held
            <3>1. Held \in Nat /\ Held' \in Nat
                BY AmountsStay DEF Amounts, CustodyInv
            <3> QED BY <2>2, <2>3, <3>1
        <2> QED BY <2>1, <2>3, <2>4, <2>5, CustodyActions
    <1> QED BY <1>1, <1>2, LostEffects DEF LostEffect, CustodyInv

\* At the start every stack is plain and worth what it holds.
LEMMA StartWorth == Init => Held = SumFunctionOnSet(StartInventory, Slots)
    <1> SUFFICES ASSUME Init PROVE Held = SumFunctionOnSet(StartInventory, Slots)
        OBVIOUS
    <1> DEFINE f == [s \in Slots |-> Worth(inv[s])]
    <1>1. \A s \in Slots : f[s] = StartInventory[s]
        <2> TAKE s \in Slots
        <2>1. inv[s] = IF StartInventory[s] = 0 THEN Empty ELSE Plain(StartInventory[s])
            BY DEF Init
        <2>2. StartInventory[s] \in 0 .. StackSize
            BY ConstantsAssumption
        <2>3. f[s] = Worth(inv[s])
            OBVIOUS
        <2> QED BY <2>1, <2>2, <2>3, BoundsAreNat DEF Worth, Empty, Plain
    <1>2. Held = SumFunctionOnSet(f, Slots)
        BY DEF Held
    <1> HIDE DEF f
    <1>3. SumFunctionOnSet(f, Slots) = SumFunctionOnSet(StartInventory, Slots)
        BY <1>1, BoundsAreNat, SumEqual
    <1> QED BY <1>2, <1>3

LEMMA CustodyInit == Init => Custody!Init
    <1> SUFFICES ASSUME Init PROVE Custody!Init
        OBVIOUS
    <1> DEFINE N == SumFunctionOnSet(StartInventory, Slots)
    <1>1. Held = N
        BY StartWorth
    <1>2. N \in Nat
        <2>1. \A s \in Slots : StartInventory[s] \in Nat
            BY ConstantsAssumption, BoundsAreNat
        <2> QED BY <2>1, BoundsAreNat, SumNat
    <1>3. Total = N + MarketStock
        BY DEF Total
    <1> HIDE DEF N
    <1>4. Held \in 0 .. Total /\ outside = Total - Held
        BY <1>1, <1>2, <1>3, BoundsAreNat DEF Init
    <1>5. escrows = <<>> /\ deliveries = <<>>
        BY DEF Init
    <1>6. DOMAIN escrows = {} /\ DOMAIN deliveries = {}
        BY <1>5
    <1>7. Due = 0
        BY <1>6, SumEmpty DEF Due
    <1>8. CustodyMap = [i \in 1 .. MaxEscrows |-> 0] /\ Placed = {}
        BY <1>6 DEF CustodyMap, Placed
    <1> QED BY <1>4, <1>7, <1>8 DEF Init, Custody!Init, CustodyMap, Placed

LEMMA CustodyStepBox ==
    TypeInv /\ ReservationExact /\ MarksInv /\ FitsInv /\ CountInv /\ LostInv
        /\ [Next]_vars => [Durable => Custody!Next]_(Custody!custodyVars)
    BY CustodyStep DEF CustodyInv, MarksInv, FitsInv

\* While the marks are durable each step of the sell escrows and of the
\* delivery claims hands items over as one step of ItemCustody, or none: an
\* escrow takes its items once and places them once, and what is due is handed
\* out once, whatever was interrupted; a kill inside clearDeliveryClaimTag
\* costs the player one stack and touches nothing else (submitSellEscrow,
\* reconcileSellEscrows, claimDeliveries).
THEOREM ImplementsCustodyHolds == Spec => ImplementsCustody
    BY TypeAlways, ReservationExactHolds, MarksAlways, FitsAlways, CountAlways,
       LostAlways, CustodyInit, CustodyStepBox, PTL DEF Spec, ImplementsCustody

-----------------------------------------------------------------------------
(* No item is made, and none is lost but at a kill *)

\* All items there are, as the refinement reads them. The steps of ItemCustody
\* only move them.
Gathered ==
    Held + SumFunctionOnSet(CustodyMap, 1 .. MaxEscrows) + Due + outside + lost
GatheredInv == Durable => Gathered = Total

LEMMA KeptNat ==
    ASSUME EscrowsType
    PROVE  /\ \A i \in DOMAIN escrows : Kept(escrows[i]) \in Nat
           /\ \A i \in 1 .. MaxEscrows : CustodyMap[i] \in Nat
           /\ IsFiniteSet(1 .. MaxEscrows)
    <1>1. \A i \in DOMAIN escrows : Kept(escrows[i]) \in Nat
        BY DEF EscrowsType, GoodEscrow, SellEscrow, Kept
    <1> QED BY <1>1, BoundsAreNat, FS_Interval DEF CustodyMap

LEMMA CustodyChanged ==
    ASSUME EscrowsType, NEW i \in 1 .. MaxEscrows, NEW v \in Nat,
           CustodyMap' = [CustodyMap EXCEPT ![i] = v]
    PROVE  /\ SumFunctionOnSet(CustodyMap', 1 .. MaxEscrows)
                  = SumFunctionOnSet(CustodyMap, 1 .. MaxEscrows) + v - CustodyMap[i]
           /\ SumFunctionOnSet(CustodyMap, 1 .. MaxEscrows) \in Int
           /\ CustodyMap[i] \in Nat
    <1> DEFINE S == 1 .. MaxEscrows
               f == CustodyMap
               g == CustodyMap'
    <1>1. IsFiniteSet(S) /\ i \in S /\ f[i] \in Nat /\ \A y \in S : f[y] \in Int
        BY KeptNat
    <1>2. f = [y \in S |-> f[y]]
        BY DEF CustodyMap
    <1>3. g = [f EXCEPT ![i] = v]
        OBVIOUS
    <1> HIDE DEF S, f, g
    <1>4. g[i] = v /\ \A y \in S \ {i} : g[y] = f[y]
        BY <1>1, <1>2, <1>3
    <1>5. /\ SumFunctionOnSet(g, S) = SumFunctionOnSet(f, S) + g[i] - f[i]
          /\ SumFunctionOnSet(f, S) \in Int
        <2>1. g[i] \in Int
            BY <1>4
        <2> QED BY ONLY <1>1, <1>4, <2>1, SumChange
    <1> QED BY <1>1, <1>4, <1>5 DEF S, f, g

LEMMA GatheredStays ==
    ASSUME EscrowsType, Amounts, LostInv, Custody!Next \/ UNCHANGED Custody!custodyVars
    PROVE  Gathered' = Gathered
    <1> DEFINE C == SumFunctionOnSet(CustodyMap, 1 .. MaxEscrows)
               CC == SumFunctionOnSet(CustodyMap', 1 .. MaxEscrows)
    <1>0. /\ Gathered = Held + C + Due + outside + lost
          /\ Gathered' = Held' + CC + Due' + outside' + lost'
        BY DEF Gathered
    <1>n. /\ Held \in Nat /\ Due \in Nat /\ outside \in Nat /\ lost \in Nat
          /\ C \in Int
        <2>1. IsFiniteSet(1 .. MaxEscrows) /\ \A i \in 1 .. MaxEscrows : CustodyMap[i] \in Int
            BY KeptNat
        <2>2. C \in Int
            BY ONLY <2>1, SumInt
        <2> QED BY <2>2 DEF Amounts, LostInv
    <1>s. ASSUME CustodyMap' = CustodyMap PROVE CC = C
        BY <1>s
    <1>c. ASSUME NEW i \in 1 .. MaxEscrows, NEW v \in Nat,
                 CustodyMap' = [CustodyMap EXCEPT ![i] = v]
          PROVE  CC = C + v - CustodyMap[i] /\ CustodyMap[i] \in Nat
        BY <1>c, CustodyChanged
    <1> HIDE DEF C, CC
    <1>1. ASSUME NEW i \in 1 .. MaxEscrows, NEW q \in 1 .. Held,
                 Custody!take(i, q)
          PROVE  Gathered' = Gathered
        <2>1. /\ CustodyMap[i] = 0 /\ Held' = Held - q
              /\ CustodyMap' = [CustodyMap EXCEPT ![i] = q]
              /\ Due' = Due /\ outside' = outside /\ lost' = lost
            BY <1>1 DEF Custody!take, CustodyMap
        <2>2. q \in Nat
            BY <1>n
        <2>3. CC = C + q - CustodyMap[i]
            BY <2>1, <2>2, <1>c
        <2> QED BY <1>0, <1>n, <2>1, <2>2, <2>3
    <1>2. ASSUME NEW i \in 1 .. MaxEscrows, NEW back \in 0 .. CustodyMap[i],
                 Custody!place(i, back)
          PROVE  Gathered' = Gathered
        <2>1. /\ Held' = Held /\ CustodyMap' = [CustodyMap EXCEPT ![i] = 0]
              /\ Due' = Due + back /\ outside' = outside + CustodyMap[i] - back
              /\ lost' = lost
            BY <1>2 DEF Custody!place, CustodyMap
        <2>2. CC = C + 0 - CustodyMap[i] /\ CustodyMap[i] \in Nat
            BY <2>1, <1>c
        <2> QED BY <1>0, <1>n, <2>1, <2>2
    <1>3. ASSUME NEW q \in Int, \/ Custody!owe(q) \/ Custody!handOut(q)
                                \/ Custody!spend(q) \/ Custody!lose(q)
          PROVE  Gathered' = Gathered
        <2>1. CustodyMap' = CustodyMap
            BY <1>3 DEF Custody!owe, Custody!handOut, Custody!spend, Custody!lose, CustodyMap
        <2>2. \/ Held' = Held /\ Due' = Due + q /\ outside' = outside - q /\ lost' = lost
              \/ Held' = Held + q /\ Due' = Due - q /\ outside' = outside /\ lost' = lost
              \/ Held' = Held - q /\ Due' = Due /\ outside' = outside + q /\ lost' = lost
              \/ Held' = Held - q /\ Due' = Due /\ outside' = outside /\ lost' = lost + q
            BY <1>3 DEF Custody!owe, Custody!handOut, Custody!spend, Custody!lose
        <2>3. CC = C
            BY <2>1, <1>s
        <2> QED BY <1>0, <1>n, <2>2, <2>3
    <1>4. ASSUME UNCHANGED Custody!custodyVars
          PROVE  Gathered' = Gathered
        <2>1. /\ CustodyMap' = CustodyMap /\ Held' = Held /\ Due' = Due
              /\ outside' = outside /\ lost' = lost
            BY <1>4 DEF Custody!custodyVars, CustodyMap
        <2> QED BY <1>0, <1>s, <2>1
    <1>5. ASSUME Custody!Next PROVE Gathered' = Gathered
        <2>1. \/ \E i \in 1 .. MaxEscrows :
                    \/ \E q \in 1 .. Held : Custody!take(i, q)
                    \/ \E back \in 0 .. CustodyMap[i] : Custody!place(i, back)
              \/ \E q \in Int : \/ Custody!owe(q) \/ Custody!handOut(q)
                                 \/ Custody!spend(q) \/ Custody!lose(q)
            BY <1>5, <1>n DEF Custody!Next, CustodyMap
        <2> QED BY <2>1, <1>1, <1>2, <1>3
    <1> QED BY <1>4, <1>5

LEMMA GatheredStep ==
    TypeInv /\ ReservationExact /\ MarksInv /\ FitsInv /\ CountInv /\ LostInv
        /\ GatheredInv /\ [Next]_vars => GatheredInv'
    <1> SUFFICES ASSUME TypeInv, ReservationExact, MarksInv, FitsInv, CountInv,
                        LostInv, GatheredInv, [Next]_vars, Durable'
                 PROVE  Gathered' = Total'
        BY DEF GatheredInv
    <1>1. Durable
        BY StaysDurable
    <1>2. CustodyInv /\ EscrowsType /\ Amounts
        BY <1>1, AmountsAreNat DEF CustodyInv, MarksInv, FitsInv, TypeInv, RowsType
    <1>3. Gathered' = Gathered
        BY <1>1, <1>2, CustodyStep, GatheredStays
    <1>4. Total' = Total
        BY DEF Total
    <1> QED BY <1>1, <1>3, <1>4 DEF GatheredInv

LEMMA GatheredInit == Init => GatheredInv
    <1> SUFFICES ASSUME Init PROVE Gathered = Total
        BY DEF GatheredInv
    <1>1. /\ Held \in 0 .. Total /\ outside = Total - Held /\ Due = 0
          /\ CustodyMap = [i \in 1 .. MaxEscrows |-> 0] /\ lost = 0
        BY CustodyInit DEF Custody!Init, CustodyMap
    <1>2. SumFunctionOnSet(CustodyMap, 1 .. MaxEscrows) = 0
        BY <1>1, BoundsAreNat, FS_Interval, SumZero
    <1>3. Total \in Int
        <2>1. \A s \in Slots : StartInventory[s] \in Int
            BY ConstantsAssumption, BoundsAreNat
        <2>2. SumFunctionOnSet(StartInventory, Slots) \in Int
            BY <2>1, BoundsAreNat, SumInt
        <2> QED BY <2>2, BoundsAreNat DEF Total
    <1> QED BY <1>1, <1>2, <1>3 DEF Gathered

\* What the escrows hold, over the rows there are and over those there may be.
LEMMA CustodyGathered ==
    TypeInv /\ CountInv
        => InCustody = SumFunctionOnSet(CustodyMap, 1 .. MaxEscrows)
    <1> SUFFICES ASSUME TypeInv, CountInv
                 PROVE  InCustody = SumFunctionOnSet(CustodyMap, 1 .. MaxEscrows)
        OBVIOUS
    <1> DEFINE T == DOMAIN escrows
               S == 1 .. MaxEscrows
               f == [i \in T |-> Kept(escrows[i])]
               g == CustodyMap
    <1>1. T \in SUBSET S
        <2>1. /\ DOMAIN escrows = 1 .. Len(escrows) /\ Len(escrows) \in Nat
              /\ used.escrows \in Nat
            BY DEF TypeInv, RowsType, EscrowsType, Counters
        <2> QED BY <2>1, BoundsAreNat DEF CountInv
    <1>2. IsFiniteSet(S) /\ \A y \in T : Kept(escrows[y]) \in Int
        BY KeptNat DEF TypeInv, RowsType
    <1>3. \A y \in T : f[y] \in Int /\ g[y] = f[y]
        BY <1>1, <1>2 DEF CustodyMap
    <1>4. \A y \in S \ T : g[y] = 0
        BY DEF CustodyMap
    <1>5. InCustody = SumFunctionOnSet(f, T)
        BY DEF InCustody
    <1> HIDE DEF f, g, S, T
    <1>6. SumFunctionOnSet(g, S) = SumFunctionOnSet(f, T)
        BY ONLY <1>1, <1>2, <1>3, <1>4, SumRestrict
    <1> QED BY <1>5, <1>6 DEF g, S

LEMMA GatheredFollow == TypeInv /\ CountInv /\ LostInv /\ GatheredInv => ItemsExact
    <1> SUFFICES ASSUME TypeInv, CountInv, LostInv, GatheredInv, Durable
                 PROVE  /\ Held + InCustody + Due + outside + lost = Total
                        /\ lost <= StackSize * used.kills
        BY DEF ItemsExact
    <1>1. Held + InCustody + Due + outside + lost = Total
        BY CustodyGathered DEF GatheredInv, Gathered
    <1> QED BY <1>1 DEF LostInv

\* No item is made while the marks are durable, and a kill costs at most one
\* stack: with every mark read as its row says, the player's items, those a
\* TAGGED row holds, those due to the player, those of the rest of the market
\* and those of the stacks kills left out of their slot add up to what there
\* was at the start, between any two calls and after any kill or failed call
\* (submitSellEscrow, claimDeliveries, clearDeliveryClaimTag).
THEOREM ItemsExactHolds == Spec => []ItemsExact
    <1>1. Spec => []GatheredInv
        BY TypeAlways, ReservationExactHolds, MarksAlways, FitsAlways, CountAlways,
           LostAlways, GatheredInit, GatheredStep, PTL DEF Spec
    <1> QED BY <1>1, TypeAlways, CountAlways, LostAlways, GatheredFollow, PTL

=============================================================================
