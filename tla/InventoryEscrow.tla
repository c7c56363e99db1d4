--------------------------- MODULE InventoryEscrow ---------------------------
(***************************************************************************)
(* One player's items on their way into and out of the exchange: the sell  *)
(* escrow (submitSellEscrow, reconcileSellEscrows) and the delivery claims *)
(* (claimDeliveries) of src/plugin.cpp, the marker operations of           *)
(* src/inventory_escrow.cpp, the rows of exchange_sell_escrows,            *)
(* exchange_deliveries and exchange_delivery_claims.                       *)
(*                                                                         *)
(* The inventory and MySQL cannot be written together. Items that leave or *)
(* enter are marked in the inventory with the id of a row, and the row     *)
(* says what the mark means. A step below is one service call with the     *)
(* inventory writes before it; a call may throw with or without its        *)
(* commit, and the process may be killed inside the writes.                *)
(***************************************************************************)
EXTENDS Integers, Sequences, FiniteSets, Functions

CONSTANTS
    Slots,           \* 1 .. N; the last one is the offhand
    StackSize,       \* getMaxStackSize of the item
    StartInventory,  \* the player's plain stacks: [Slots -> 0 .. StackSize]
    MarketStock,     \* items the rest of the market owns at the start
    Quantities,      \* quantities a player may ask to sell
    MaxEscrows,      \* bound: sell orders submitted
    MaxEvents,       \* bound: deliveries that come from other players' orders
                     \* and stacks the player uses up, together
    MaxFaults,       \* bound: calls that throw
    MaxKills,        \* bound: process kills
    MaxToggles       \* bound: closings and re-openings of the market

ASSUME ConstantsAssumption ==
    /\ IsFiniteSet(Slots) /\ Slots # {} /\ Slots = 1 .. Cardinality(Slots)
    /\ StackSize \in Nat \ {0}
    /\ StartInventory \in [Slots -> 0 .. StackSize]
    /\ MarketStock \in Nat
    /\ Quantities \subseteq Nat \ {0}
    /\ {MaxEscrows, MaxEvents, MaxFaults, MaxKills, MaxToggles} \subseteq Nat

VARIABLES
    inv,         \* the inventory: one stack per slot
    saved,       \* the inventory the game saved last, see Durable
    escrows,     \* exchange_sell_escrows; the id is the index
    deliveries,  \* exchange_deliveries of the player
    claims,      \* exchange_delivery_claims of the player
    active,      \* exchange_markets.active
    outside,     \* history: items that belong to the rest of the market
    lost,        \* history: items of stacks a kill left out of their slot
    run,         \* where the server's main thread is
    used         \* how much of each bound was used

vars == <<inv, saved, escrows, deliveries, claims, active, outside, lost, run,
          used>>

rows == <<escrows, deliveries, claims>>

\* Either every inventory write survives a kill, or the game saves the player
\* between handlers. A behaviour is of the one kind or of the other.
Durable == saved = <<>>

-----------------------------------------------------------------------------
(* Stacks, rows and control states *)

\* A stack of the item is plain or carries the mark of a sell escrow or of a
\* claim; a receipt is a barrier with the mark of a sell escrow.
Kinds == {"none", "plain", "sell", "claim", "receipt"}
Stack == [kind: Kinds, n: Nat, id: Nat]

Empty == [kind |-> "none", n |-> 0, id |-> 0]
Plain(n) == [kind |-> "plain", n |-> n, id |-> 0]
Marked(kind, n, id) == [kind |-> kind, n |-> n, id |-> id]

SellEscrow == [type: {"LIMIT", "MARKET"}, requested: Nat, tagged: Nat,
               receipts: Nat, cleaned: BOOLEAN,
               status: {"PREPARED", "TAGGED", "ORDERED", "CANCELED"}]
Delivery == [quantity: Nat, claimed: Nat, reserved: Nat]
DeliveryClaim == [delivery: Nat, quantity: Nat, applied: Nat,
                  status: {"PREPARED", "APPLIED", "CANCELED"},
                  cleaned: BOOLEAN]

Stages == {"idle", "down", "tag", "escrows", "rescue", "retry",
           "claimMarkers", "sellMarkers", "claims", "deliveries", "add",
           "clear"}

\* mode tells who runs reconcileSellEscrows, and so who catches a throw; id is
\* the escrow being submitted or the claim being filled; todo is what is left
\* of the list the loop runs over, always in the order of the ids.
At(s) == [stage |-> s, mode |-> "claim", id |-> 0, todo |-> {}]
Stage(s) == run.stage = s
First == CHOOSE i \in run.todo : \A j \in run.todo : i <= j
Rest == run.todo \ {First}
Loop(todo) == run' = [run EXCEPT !.todo = todo]
Advance(s, todo) == run' = [run EXCEPT !.stage = s, !.todo = todo]

NoUse == [escrows |-> 0, events |-> 0, faults |-> 0, kills |-> 0,
          toggles |-> 0]
Use(f, max) == used[f] < max /\ used' = [used EXCEPT ![f] = @ + 1]

lesser(a, b) == IF a <= b THEN a ELSE b

-----------------------------------------------------------------------------
(* src/inventory_escrow.cpp *)

SlotsOf(kind, id) == {s \in Slots : inv[s].kind = kind /\ inv[s].id = id}
Amount(S) == SumFunctionOnSet([s \in Slots |-> inv[s].n], S)
IdsOf(kind) == {inv[s].id : s \in {t \in Slots : inv[t].kind = kind}}

taggedSellItems(id) == [quantity |-> Amount(SlotsOf("sell", id)),
                        stacks |-> Cardinality(SlotsOf("sell", id))]
taggedItemCount(id) == Amount(SlotsOf("claim", id))

\* claimDeliveries begins with the markers of claims.
StartClaiming == [At("claimMarkers") EXCEPT !.todo = IdsOf("claim")]

\* The inventory with new stacks in some of its slots.
Replaced(stacks) ==
    [s \in Slots |-> IF s \in DOMAIN stacks THEN stacks[s] ELSE inv[s]]

\* Fault: only the first marked stack is cleared.
FirstCleared(id) ==
    LET first == {s \in SlotsOf("claim", id) :
                        \A t \in SlotsOf("claim", id) : s <= t}
    IN Replaced([s \in first |-> Plain(inv[s].n)])

clearDeliveryClaimTag(id) ==
    Replaced([s \in SlotsOf("claim", id) |-> Plain(inv[s].n)])
removeDeliveryClaimItems(id) ==
    Replaced([s \in SlotsOf("claim", id) |-> Empty])
restoreTaggedSellItems(id) ==
    Replaced([s \in SlotsOf("sell", id) |-> Plain(inv[s].n)])
replaceTaggedSellItemsWithReceipts(id) ==
    Replaced([s \in SlotsOf("sell", id) |-> Marked("receipt", 1, id)])
removeTaggedSellItemsAndReceipts(id) ==
    Replaced([s \in SlotsOf("sell", id) \cup SlotsOf("receipt", id) |-> Empty])
restoreAndRemoveReceipts(id) ==
    Replaced([s \in SlotsOf("sell", id) \cup SlotsOf("receipt", id) |->
                IF inv[s].kind = "sell" THEN Plain(inv[s].n) ELSE Empty])

\* tagSellItems: whole stacks, the smallest first, until there are enough.
\* std::sort leaves the order of equal stacks open; so does TagChoices.
PlainSlots == {s \in Slots : inv[s].kind = "plain"}
Enough(id) == Amount(PlainSlots) >= escrows[id].requested
TagChoices(id) ==
    {S \in SUBSET PlainSlots :
        /\ \A s \in S, t \in PlainSlots \ S : inv[s].n <= inv[t].n
        /\ Amount(S) >= escrows[id].requested
        /\ \E last \in S : /\ \A s \in S : inv[s].n <= inv[last].n
                           /\ Amount(S \ {last}) < escrows[id].requested}
tagSellItems(id, S) == Replaced([s \in S |-> Marked("sell", inv[s].n, id)])

\* splitStacks and addItem: full stacks first, into the empty slots in order;
\* the offhand is not used. What finds no slot is left over.
EmptySlots == {s \in Slots \ {Cardinality(Slots)} : inv[s].kind = "none"}
addItem(id, quantity) ==
    LET before(s) == StackSize * Cardinality({t \in EmptySlots : t < s})
        amount(s) == lesser(StackSize, quantity - before(s))
    IN Replaced([s \in {t \in EmptySlots : amount(t) > 0} |->
                    Marked("claim", amount(s), id)])
Delivered(quantity) == lesser(quantity, StackSize * Cardinality(EmptySlots))

-----------------------------------------------------------------------------
Init ==
    /\ inv = [s \in Slots |-> IF StartInventory[s] = 0
                              THEN Empty ELSE Plain(StartInventory[s])]
    /\ saved \in {<<>>, inv}
    /\ escrows = <<>>
    /\ deliveries = <<>>
    /\ claims = <<>>
    /\ active = TRUE
    /\ outside = MarketStock
    /\ lost = 0
    /\ run = At("idle")
    /\ used = NoUse

\* An exception leaves the function. submitSellEscrow catches what happens in
\* it and reconciles; every other caller reports it and returns.
Throw == run' = IF run.mode = "submit"
                THEN [run EXCEPT !.stage = "rescue", !.todo = {}]
                ELSE At("idle")

\* A service call: it returns, it throws and its transaction is rolled back,
\* or it throws after the commit because the reply is lost.
Call(effect, nothing, continue) ==
    \/ effect /\ continue /\ UNCHANGED used
    \/ nothing /\ Throw /\ Use("faults", MaxFaults)
    \/ effect /\ Throw /\ Use("faults", MaxFaults)

-----------------------------------------------------------------------------
(* The service calls: the rows they write *)

prepareSellEscrow(type, quantity) ==
    escrows' = Append(escrows, [type |-> type, requested |-> quantity,
                                tagged |-> 0, receipts |-> 0,
                                cleaned |-> FALSE, status |-> "PREPARED"])

\* tagged is what the caller counts in the inventory as it leaves it.
markSellEscrowTagged(id, tagged) ==
    escrows' = [escrows EXCEPT ![id].status = "TAGGED",
                               ![id].tagged = tagged.quantity,
                               ![id].receipts = tagged.stacks]

\* addDelivery; its callers skip a delivery of nothing.
addDelivery(ds, quantity) ==
    IF quantity > 0
    THEN Append(ds, [quantity |-> quantity, claimed |-> 0, reserved |-> 0])
    ELSE ds

\* Fault: the items above the requested quantity are forgotten.
ForgottenExcess(id) == 0

\* The stacks tagged may hold more than the order takes.
Excess(id) == escrows[id].tagged - escrows[id].requested

\* executeSellEscrow of a TAGGED row: the order is placed; what a market order
\* does not sell, and the excess of the stacks, come back as deliveries.
executeSellEscrow(id) ==
    \E rest \in IF escrows[id].type = "MARKET"
                THEN 0 .. escrows[id].requested ELSE {0} :
        /\ escrows' = [escrows EXCEPT ![id].status = "ORDERED"]
        /\ deliveries' = addDelivery(addDelivery(deliveries, rest), Excess(id))
        /\ outside' = outside + escrows[id].requested - rest

cancelSellEscrow(id) ==
    escrows' = [escrows EXCEPT ![id].status = "CANCELED", ![id].cleaned = TRUE]

markSellEscrowCleaned(id) == escrows' = [escrows EXCEPT ![id].cleaned = TRUE]

\* Fault: an ordered escrow counts as finished before it is cleaned.
OrderedForgotten ==
    {i \in DOMAIN escrows : escrows[i].status \in {"PREPARED", "TAGGED"}}

unfinishedSellEscrows ==
    {i \in DOMAIN escrows : /\ escrows[i].status # "CANCELED"
                            /\ ~escrows[i].cleaned}

Unreserved(d) == d.quantity - d.claimed - d.reserved

\* Every attempt inserts a row, also one the full inventory lets nothing come
\* of. A CANCELED row without a mark is inert: its id is used again here, to
\* keep the rows finite.
NewClaim ==
    LET inert == {c \in DOMAIN claims : /\ claims[c].status = "CANCELED"
                                        /\ SlotsOf("claim", c) = {}}
    IN IF inert = {} THEN Len(claims) + 1 ELSE CHOOSE c \in inert : TRUE

insertClaim(d, quantity) ==
    LET row == [delivery |-> d, quantity |-> quantity, applied |-> 0,
                status |-> "PREPARED", cleaned |-> FALSE]
    IN claims' = [c \in DOMAIN claims \cup {NewClaim} |->
                    IF c = NewClaim THEN row ELSE claims[c]]

prepareDeliveryClaim(d, quantity) ==
    /\ insertClaim(d, quantity)
    /\ deliveries' = [deliveries EXCEPT ![d].reserved = @ + quantity]

\* Fault: what did not fit is not free to be claimed again.
KeepsReservation(c, delivered) ==
    /\ claims' = [claims EXCEPT
                    ![c].applied = delivered,
                    ![c].status = IF delivered = 0 THEN "CANCELED"
                                                   ELSE "APPLIED",
                    ![c].cleaned = delivered = 0]
    /\ deliveries' = [deliveries EXCEPT
                        ![claims[c].delivery].claimed = @ + delivered,
                        ![claims[c].delivery].reserved = @ - delivered]

completeDeliveryClaim(c, delivered) ==
    /\ claims' = [claims EXCEPT
                    ![c].applied = delivered,
                    ![c].status = IF delivered = 0 THEN "CANCELED"
                                                   ELSE "APPLIED",
                    ![c].cleaned = delivered = 0]
    /\ deliveries' = [deliveries EXCEPT
                        ![claims[c].delivery].claimed = @ + delivered,
                        ![claims[c].delivery].reserved = @ - claims[c].quantity]

markDeliveryClaimCleaned(c) == claims' = [claims EXCEPT ![c].cleaned = TRUE]

\* Fault: a claim that was not completed is not looked at again.
PreparedForgotten ==
    {c \in DOMAIN claims : claims[c].status = "APPLIED" /\ ~claims[c].cleaned}

unfinishedDeliveryClaims ==
    {c \in DOMAIN claims : \/ claims[c].status = "PREPARED"
                           \/ claims[c].status = "APPLIED" /\ ~claims[c].cleaned}

pendingDeliveries == {d \in DOMAIN deliveries : Unreserved(deliveries[d]) > 0}

-----------------------------------------------------------------------------
(* Submitting a sell order *)

\* The player confirms a sell order. A throw of prepareSellEscrow leaves
\* submitSellEscrow at once; the row may be there all the same.
submitSellEscrow(type, quantity) ==
    /\ Stage("idle")
    /\ active
    /\ used.escrows < MaxEscrows
    /\ prepareSellEscrow(type, quantity)
    /\ \/ /\ run' = [At("tag") EXCEPT !.mode = "submit",
                                      !.id = Len(escrows) + 1]
          /\ used' = [used EXCEPT !.escrows = @ + 1]
       \/ /\ used.faults < MaxFaults
          /\ used' = [used EXCEPT !.escrows = @ + 1, !.faults = @ + 1]
          /\ run' = At("idle")
    /\ UNCHANGED <<inv, saved, lost, deliveries, claims, active, outside>>

\* tagSellItems, then markSellEscrowTagged with what is now tagged.
tagItems ==
    /\ Stage("tag")
    /\ \E S \in TagChoices(run.id) :
        /\ inv' = tagSellItems(run.id, S)
        /\ Call(markSellEscrowTagged(run.id, [quantity |-> Amount(S),
                                              stacks |-> Cardinality(S)]),
                UNCHANGED escrows,
                Advance("escrows", {run.id}))
    /\ UNCHANGED <<saved, lost, deliveries, claims, active, outside>>

\* tagSellItems throws before it writes when the items are not there.
inventoryInsufficient ==
    /\ Stage("tag")
    /\ ~Enough(run.id)
    /\ Throw
    /\ UNCHANGED <<inv, saved, lost, rows, active, outside, used>>

\* The end of the catch block: executeSellEscrow again, for its result.
retryExecute ==
    /\ Stage("retry")
    /\ \/ /\ escrows[run.id].status = "ORDERED"
          /\ run' = StartClaiming
          /\ UNCHANGED used
       \/ /\ escrows[run.id].status # "ORDERED"
          /\ run' = At("idle")
          /\ UNCHANGED used
       \/ run' = At("idle") /\ Use("faults", MaxFaults)
    /\ UNCHANGED <<inv, saved, lost, rows, active, outside>>

-----------------------------------------------------------------------------
(* reconcileSellEscrows; submitSellEscrow makes the same calls for its own  *)
(* escrow once the items are tagged.                                       *)

Working(status) ==
    /\ Stage("escrows")
    /\ run.todo # {}
    /\ escrows[First].status = status

\* Fault: an escrow of which only a part is tagged goes on.
NothingTagged(id) == taggedSellItems(id).quantity = 0

Short(id) == taggedSellItems(id).quantity < escrows[id].requested

cancelShort ==
    /\ Working("PREPARED")
    /\ Short(First)
    /\ inv' = restoreTaggedSellItems(First)
    /\ Call(cancelSellEscrow(First), UNCHANGED escrows, Loop(Rest))
    /\ UNCHANGED <<saved, lost, deliveries, claims, active, outside>>

markTagged ==
    /\ Working("PREPARED")
    /\ ~Short(First)
    /\ Call(markSellEscrowTagged(First, taggedSellItems(First)),
            UNCHANGED escrows, Loop(run.todo))
    /\ UNCHANGED <<inv, saved, lost, deliveries, claims, active, outside>>

\* As many receipts as there were tagged stacks. Those still to be replaced
\* are one receipt each.
ReceiptsComplete(id) ==
    Cardinality(SlotsOf("receipt", id) \cup SlotsOf("sell", id))
        = escrows[id].receipts

placeOrder ==
    /\ Working("TAGGED")
    /\ ReceiptsComplete(First)
    /\ active
    /\ inv' = replaceTaggedSellItemsWithReceipts(First)
    /\ Call(executeSellEscrow(First),
            UNCHANGED <<escrows, deliveries, outside>>, Loop(run.todo))
    /\ UNCHANGED <<saved, lost, claims, active>>

\* The receipts are not all there, or the market is not active any more.
placeOrderThrows ==
    /\ Working("TAGGED")
    /\ ~ReceiptsComplete(First) \/ ~active
    /\ inv' = replaceTaggedSellItemsWithReceipts(First)
    /\ Throw
    /\ UNCHANGED <<saved, lost, rows, active, outside, used>>

cleanUp ==
    /\ Working("ORDERED")
    /\ inv' = removeTaggedSellItemsAndReceipts(First)
    /\ Call(markSellEscrowCleaned(First), UNCHANGED escrows, Loop(Rest))
    /\ UNCHANGED <<saved, lost, deliveries, claims, active, outside>>

-----------------------------------------------------------------------------
(* claimDeliveries *)

\* A trade form is opened, an order canceled, or the deferred resync runs.
claimDeliveries ==
    /\ Stage("idle")
    /\ run' = StartClaiming
    /\ UNCHANGED <<inv, saved, lost, rows, active, outside, used>>

\* reconcileInternalEscrowMarkers: what a marker left behind means is in its
\* row. A marker of an unfinished row is left to the loops that follow.
MarkedClaim(status) == /\ Stage("claimMarkers")
                       /\ run.todo # {}
                       /\ claims[First].status = status

clearApplied ==
    /\ MarkedClaim("APPLIED")
    /\ inv' = clearDeliveryClaimTag(First)
    /\ IF claims[First].cleaned
       THEN Loop(Rest) /\ UNCHANGED <<claims, used>>
       ELSE Call(markDeliveryClaimCleaned(First), UNCHANGED claims, Loop(Rest))
    /\ UNCHANGED <<saved, lost, escrows, deliveries, active, outside>>

otherClaimMarker ==
    /\ Stage("claimMarkers")
    /\ run.todo # {}
    /\ claims[First].status # "APPLIED"
    /\ inv' = IF claims[First].status = "CANCELED"
              THEN removeDeliveryClaimItems(First) ELSE inv
    /\ Loop(Rest)
    /\ UNCHANGED <<saved, lost, rows, active, outside, used>>

MarkedEscrow == Stage("sellMarkers") /\ run.todo # {}

removeOrdered ==
    /\ MarkedEscrow
    /\ escrows[First].status = "ORDERED"
    /\ inv' = removeTaggedSellItemsAndReceipts(First)
    /\ IF escrows[First].cleaned
       THEN Loop(Rest) /\ UNCHANGED <<escrows, used>>
       ELSE Call(markSellEscrowCleaned(First), UNCHANGED escrows, Loop(Rest))
    /\ UNCHANGED <<saved, lost, deliveries, claims, active, outside>>

otherSellMarker ==
    /\ MarkedEscrow
    /\ escrows[First].status # "ORDERED"
    /\ inv' = IF escrows[First].status = "CANCELED"
              THEN restoreAndRemoveReceipts(First) ELSE inv
    /\ Loop(Rest)
    /\ UNCHANGED <<saved, lost, rows, active, outside, used>>

\* The claims of an earlier call that did not end. A PREPARED one is completed
\* with as many items as carry its mark.
finishClaim ==
    /\ Stage("claims")
    /\ run.todo # {}
    /\ claims[First].status = "PREPARED"
    /\ LET delivered == lesser(taggedItemCount(First), claims[First].quantity)
       IN Call(completeDeliveryClaim(First, delivered),
               UNCHANGED <<claims, deliveries>>,
               Loop(IF delivered = 0 THEN Rest ELSE run.todo))
    /\ UNCHANGED <<inv, saved, lost, escrows, active, outside>>

cleanClaim ==
    /\ Stage("claims")
    /\ run.todo # {}
    /\ claims[First].status = "APPLIED"
    /\ inv' = clearDeliveryClaimTag(First)
    /\ Call(markDeliveryClaimCleaned(First), UNCHANGED claims, Loop(Rest))
    /\ UNCHANGED <<saved, lost, escrows, deliveries, active, outside>>

\* What is due and not reserved is claimed and put into the inventory.
reserveDelivery ==
    /\ Stage("deliveries")
    /\ run.todo # {}
    /\ Call(prepareDeliveryClaim(First, Unreserved(deliveries[First])),
            UNCHANGED <<claims, deliveries>>,
            run' = [run EXCEPT !.stage = "add", !.id = NewClaim,
                               !.todo = Rest])
    /\ UNCHANGED <<inv, saved, lost, escrows, active, outside>>

\* With leftovers the inventory is full and the loop ends.
addDelivered ==
    /\ Stage("add")
    /\ LET quantity == claims[run.id].quantity
           delivered == Delivered(quantity)
           todo == IF delivered < quantity THEN {} ELSE run.todo
       IN /\ inv' = addItem(run.id, quantity)
          /\ Call(completeDeliveryClaim(run.id, delivered),
                  UNCHANGED <<claims, deliveries>>,
                  Advance(IF delivered = 0 THEN "deliveries" ELSE "clear",
                          todo))
    /\ UNCHANGED <<saved, lost, escrows, active, outside>>

clearDelivered ==
    /\ Stage("clear")
    /\ inv' = clearDeliveryClaimTag(run.id)
    /\ Call(markDeliveryClaimCleaned(run.id), UNCHANGED claims,
            Advance("deliveries", run.todo))
    /\ UNCHANGED <<saved, lost, escrows, deliveries, active, outside>>

\* A loop is done; the next one reads its list. After its escrow a submission
\* hands out what is due (submitTradeDraft).
nextLoop ==
    /\ run.todo = {}
    /\ \/ /\ Stage("rescue")
          /\ run' = [run EXCEPT !.stage = "escrows", !.mode = "rescue",
                                !.todo = unfinishedSellEscrows]
       \/ /\ Stage("escrows") /\ run.mode = "rescue"
          /\ Advance("retry", {})
       \/ /\ Stage("escrows") /\ run.mode = "submit"
          /\ run' = StartClaiming
       \/ /\ Stage("claimMarkers")
          /\ Advance("sellMarkers", IdsOf("sell") \cup IdsOf("receipt"))
       \/ /\ Stage("sellMarkers")
          /\ Advance("escrows", unfinishedSellEscrows)
       \/ /\ Stage("escrows") /\ run.mode = "claim"
          /\ Advance("claims", unfinishedDeliveryClaims)
       \/ /\ Stage("claims")
          /\ Advance("deliveries", pendingDeliveries)
       \/ /\ Stage("deliveries")
          /\ run' = At("idle")
    /\ UNCHANGED <<inv, saved, lost, rows, active, outside, used>>

\* One of the queries for a row or a list throws.
queryFails ==
    /\ \/ run.todo # {} /\ run.stage \in {"claimMarkers", "sellMarkers"}
       \/ run.todo = {} /\ run.stage \in {"rescue", "sellMarkers", "claims"}
       \/ run.todo = {} /\ Stage("escrows") /\ run.mode = "claim"
    /\ run' = At("idle")
    /\ Use("faults", MaxFaults)
    /\ UNCHANGED <<inv, saved, lost, rows, active, outside>>

-----------------------------------------------------------------------------
(* Kills and restarts *)

\* The inventory the current step is about to leave behind.
Targets ==
    IF Stage("tag") THEN {tagSellItems(run.id, S) : S \in TagChoices(run.id)}
    ELSE IF Stage("add") THEN {addItem(run.id, claims[run.id].quantity)}
    ELSE IF Stage("clear") THEN {clearDeliveryClaimTag(run.id)}
    ELSE IF run.todo = {} THEN {}
    ELSE IF Stage("escrows")
      THEN {CASE escrows[First].status = "PREPARED" /\ Short(First) ->
                    restoreTaggedSellItems(First)
              [] escrows[First].status = "TAGGED" ->
                    replaceTaggedSellItemsWithReceipts(First)
              [] escrows[First].status = "ORDERED" ->
                    removeTaggedSellItemsAndReceipts(First)
              [] OTHER -> inv}
    ELSE IF Stage("sellMarkers")
      THEN {CASE escrows[First].status = "ORDERED" ->
                    removeTaggedSellItemsAndReceipts(First)
              [] escrows[First].status = "CANCELED" ->
                    restoreAndRemoveReceipts(First)
              [] OTHER -> inv}
    ELSE IF run.stage \in {"claimMarkers", "claims"}
            /\ claims[First].status = "APPLIED"
      THEN {clearDeliveryClaimTag(First)}
    ELSE {}

\* The inventory when only some slots are written.
Partly(target, done) ==
    [s \in Slots |-> IF s \in done THEN target[s] ELSE inv[s]]

\* clearDeliveryClaimTag empties a slot before it puts the plain stack back.
Emptied(target, s) ==
    [Partly(target, {t \in Slots : t < s}) EXCEPT ![s] = Empty]

\* The process is killed, perhaps inside the writes. A stack that is out of its
\* slot at that moment is gone.
kill ==
    /\ ~Stage("down")
    /\ Use("kills", MaxKills)
    /\ run' = At("down")
    /\ \/ ~Durable /\ inv' = saved /\ UNCHANGED lost
       \/ Durable /\ UNCHANGED <<inv, lost>>
       \/ /\ Durable
          /\ \E target \in Targets, done \in SUBSET Slots :
                inv' = Partly(target, done)
          /\ UNCHANGED lost
       \/ /\ Durable
          /\ \E target \in Targets, s \in Slots :
                /\ inv[s].kind = "claim" /\ target[s].kind = "plain"
                /\ inv' = Emptied(target, s)
                /\ lost' = lost + inv[s].n
    /\ UNCHANGED <<saved, rows, active, outside>>

\* onPlayerJoin after the restart.
onPlayerJoin ==
    /\ Stage("down")
    /\ run' = StartClaiming
    /\ UNCHANGED <<inv, saved, lost, rows, active, outside, used>>

\* The game saves the player.
save ==
    /\ ~Durable
    /\ Stage("idle")
    /\ saved # inv
    /\ saved' = inv
    /\ UNCHANGED <<inv, rows, active, outside, lost, run, used>>

-----------------------------------------------------------------------------
(* The rest of the market, the player, the administrator *)

\* An order of the player is filled or canceled: addDelivery.
deliveryArrives(quantity) ==
    /\ Stage("idle") \/ Stage("down")
    /\ quantity <= outside
    /\ Use("events", MaxEvents)
    /\ deliveries' = addDelivery(deliveries, quantity)
    /\ outside' = outside - quantity
    /\ UNCHANGED <<inv, saved, lost, escrows, claims, active, run>>

\* The player uses up a stack.
useStack(s) ==
    /\ Stage("idle")
    /\ inv[s].kind = "plain"
    /\ Use("events", MaxEvents)
    /\ inv' = [inv EXCEPT ![s] = Empty]
    /\ outside' = outside + inv[s].n
    /\ UNCHANGED <<saved, lost, rows, active, run>>

\* closeMarket or activateMarket of the escrow's market.
toggleMarket ==
    /\ Stage("idle") \/ Stage("down")
    /\ Use("toggles", MaxToggles)
    /\ active' = ~active
    /\ UNCHANGED <<inv, saved, lost, rows, outside, run>>

-----------------------------------------------------------------------------
\* What the main thread does once it has started.
work ==
    \/ tagItems \/ inventoryInsufficient \/ retryExecute
    \/ cancelShort \/ markTagged \/ placeOrder \/ placeOrderThrows \/ cleanUp
    \/ clearApplied \/ otherClaimMarker \/ removeOrdered \/ otherSellMarker
    \/ finishClaim \/ cleanClaim \/ reserveDelivery \/ addDelivered
    \/ clearDelivered \/ nextLoop

Next ==
    \/ work \/ queryFails
    \/ \E type \in {"LIMIT", "MARKET"}, q \in Quantities :
          submitSellEscrow(type, q)
    \/ claimDeliveries \/ onPlayerJoin \/ kill \/ save
    \/ \E q \in Quantities : deliveryArrives(q)
    \/ \E s \in Slots : useStack(s)
    \/ toggleMarket

Spec == Init /\ [][Next]_vars

\* A handler that has started runs on; the player joins again, and opens a
\* trade form again and again.
FairSpec == Spec /\ WF_vars(work) /\ WF_vars(onPlayerJoin)
                 /\ WF_vars(claimDeliveries)

-----------------------------------------------------------------------------
(* What must hold *)

\* The variables hold values of their types.
TypeOK ==
    /\ inv \in [Slots -> Stack] /\ saved \in [Slots -> Stack] \cup {<<>>}
    /\ escrows \in Seq(SellEscrow)
    /\ deliveries \in Seq(Delivery)
    /\ claims \in Seq(DeliveryClaim)
    /\ active \in BOOLEAN
    /\ outside \in Nat /\ lost \in Nat
    /\ run \in [stage: Stages, mode: {"submit", "rescue", "claim"}, id: Nat,
                todo: SUBSET Nat]
    /\ used \in [DOMAIN NoUse -> Nat]

\* What a stack is worth to the player: a marked stack is what its row says.
Worth(stack) ==
    IF \/ stack.kind = "plain"
       \/ /\ stack.kind = "sell"
          /\ escrows[stack.id].status \in {"PREPARED", "CANCELED"}
       \/ stack.kind = "claim" /\ claims[stack.id].status = "APPLIED"
    THEN stack.n ELSE 0
Held == SumFunctionOnSet([s \in Slots |-> Worth(inv[s])], Slots)

\* What an escrow holds for the order it will place.
Kept(escrow) == IF escrow.status = "TAGGED" THEN escrow.tagged ELSE 0
InCustody == SumFunctionOnSet([i \in DOMAIN escrows |-> Kept(escrows[i])],
                              DOMAIN escrows)
Due == SumFunctionOnSet(
           [d \in DOMAIN deliveries |->
               deliveries[d].quantity - deliveries[d].claimed],
           DOMAIN deliveries)
Total == SumFunctionOnSet(StartInventory, Slots) + MarketStock

\* No item is made, and none is lost but for one stack at a kill: with every
\* mark read as its row says, the player's items, those a TAGGED row holds,
\* those due to the player and those of the rest of the market add up, between
\* any two calls and after any kill or call that threw (submitSellEscrow,
\* claimDeliveries). A kill between the clear and the set of
\* clearDeliveryClaimTag costs the stack that is out of its slot, never more.
\* The marks must be durable when they are written: submitSellEscrow tags and
\* commits within one handler, and a kill that takes the inventory back to an
\* earlier save leaves the items both sold and kept.
ItemsExact == Durable =>
    /\ Held + InCustody + Due + outside + lost = Total
    /\ lost <= StackSize * used.kills

\* What a claim reserves of a delivery, and what it handed out of it.
Reserves(claim, d) ==
    IF claim.delivery = d /\ claim.status = "PREPARED" THEN claim.quantity ELSE 0
Applies(claim, d) ==
    IF claim.delivery = d /\ claim.status = "APPLIED" THEN claim.applied ELSE 0

\* reserved_qty is what the PREPARED claims hold and claimed_qty is what the
\* others applied, so a delivery is never handed out twice nor stuck behind a
\* reservation nobody holds (prepareDeliveryClaim, completeDeliveryClaim).
ReservationExact ==
    \A d \in DOMAIN deliveries :
        /\ deliveries[d].reserved
              = SumFunctionOnSet([c \in DOMAIN claims |-> Reserves(claims[c], d)],
                                 DOMAIN claims)
        /\ deliveries[d].claimed
              = SumFunctionOnSet([c \in DOMAIN claims |-> Applies(claims[c], d)],
                                 DOMAIN claims)
        /\ Unreserved(deliveries[d]) >= 0

\* A row that counts as cleaned has left no mark in the inventory: the loops
\* over unfinished rows will not look at it again (cancelSellEscrow,
\* markSellEscrowCleaned, markDeliveryClaimCleaned).
CleanedLeftNoMark == Durable =>
    /\ \A i \in DOMAIN escrows : escrows[i].cleaned =>
            SlotsOf("sell", i) \cup SlotsOf("receipt", i) = {}
    /\ \A c \in DOMAIN claims : claims[c].cleaned => SlotsOf("claim", c) = {}

\* A TAGGED escrow of a market that stays closed is never finished, and
\* reconcileSellEscrows throws at it before the deliveries are handed out.
StaysOpen == Durable /\ <>[]active

\* Every submitted escrow is ordered and cleaned, or canceled, whatever was
\* interrupted, once its market is open for good (reconcileSellEscrows at join
\* and at every trade form).
EscrowsFinish ==
    StaysOpen =>
        \A i \in 1 .. MaxEscrows :
            i \in DOMAIN escrows ~>
                (i \in DOMAIN escrows /\ escrows[i].cleaned)

\* What is due reaches the player, unless the inventory is full: no call that
\* threw and no unfinished claim blocks it for good (claimDeliveries).
DeliveriesArrive == StaysOpen => (Due > 0 ~> (Due = 0 \/ EmptySlots = {}))

-----------------------------------------------------------------------------
(* The abstract specification *)

Custody == INSTANCE ItemCustody WITH
    Escrows <- 1 .. MaxEscrows,
    Size <- Total,
    held <- Held,
    custody <- [i \in 1 .. MaxEscrows |->
                    IF i \in DOMAIN escrows THEN Kept(escrows[i]) ELSE 0],
    placed <- {i \in DOMAIN escrows : escrows[i].status = "ORDERED"},
    due <- Due,
    others <- outside,
    gone <- lost

\* InventoryEscrow implements ItemCustody while the marks are durable: under
\* the reading above each item changes hands in one step, each escrow takes
\* once and places once, and what a kill costs it costs the player's hands
\* alone (submitSellEscrow, reconcileSellEscrows, claimDeliveries).
ImplementsCustody ==
    Custody!Init /\ [][Durable => Custody!Next]_(Custody!custodyVars)

=============================================================================
