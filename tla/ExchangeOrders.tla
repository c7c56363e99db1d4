--------------------------- MODULE ExchangeOrders ---------------------------
(***************************************************************************)
(* The order books of ExchangeService (src/exchange_service.cpp): accounts *)
(* with their exchange balance, markets bound to world targets, the book   *)
(* each item has, limit and market orders, the matching loop, and the      *)
(* items the exchange owes to players as deliveries.                       *)
(*                                                                         *)
(* Every service call is one MySQL transaction on the server's main        *)
(* thread. The calls that loop (placeBuy, placeSellLocked, retireMarket)   *)
(* are modelled one iteration per step, so that a failure between two      *)
(* iterations is a behaviour of the model: `committed' holds the tables    *)
(* as of the last commit, which is what another connection sees and what   *)
(* Abort (exception, lost connection, killed process) goes back to.        *)
(***************************************************************************)
EXTENDS Integers, Sequences, FiniteSets, Functions

CONSTANTS
    Players,         \* player UUIDs
    Targets,         \* target keys: block positions and actors
    Items,           \* item identities; each has one shared book
    Prices,          \* limit prices players may ask for, in cents
    MaxQty,          \* market.max_order_quantity
    InitialBalance,  \* market.initial_balance, in cents
    MaxCents,        \* the largest Cents value (int64 in the code)
    Deltas,          \* amounts an administrator may add or take
    MaxMinted,       \* bound: net money administrators put in
    MaxOrders,       \* bound: rows of exchange_orders
    MaxMarkets       \* bound: rows of exchange_markets

ASSUME ConstantsAssumption ==
    /\ IsFiniteSet(Players)
    /\ MaxQty \in Nat /\ MaxCents \in Nat
    /\ MaxMinted \in Nat /\ MaxOrders \in Nat /\ MaxMarkets \in Nat
    /\ InitialBalance \in 0 .. MaxCents
    /\ Prices \subseteq Nat \ {0}
    /\ Deltas \subseteq Int

VARIABLES
    balance,    \* exchange_accounts.balance_cents, 0 before the account exists
    orders,     \* exchange_orders; the AUTO_INCREMENT id is the index
    owed,       \* exchange_deliveries, the items not handed over yet
    committed,  \* these three tables at the last commit
    opened,     \* players with an exchange_accounts row
    markets,    \* exchange_markets; the id is the index
    binding,    \* exchange_target_bindings: market id, or 0 for no row
    txn,        \* local state of the service call in progress
    minted,     \* history: money put in by account opening and administrators
    deposited   \* history: items of each kind put in by committed sell orders

vars == <<balance, orders, owed, committed, opened, markets, binding, txn,
          minted, deposited>>

tables == <<balance, orders, owed, committed>>
marketVars == <<markets, binding>>

-----------------------------------------------------------------------------
(* Rows *)

Order == [market: Nat, player: Players, side: {"BUY", "SELL"},
          type: {"LIMIT", "MARKET"}, price: Nat, original: Nat,
          remaining: Nat, reserved: Nat,
          status: {"OPEN", "PARTIAL", "FILLED", "CANCELED"}]

Market == [target: Targets, item: Items, active: BOOLEAN, reopenable: BOOLEAN]

Txn == [kind: {"IDLE", "BUY", "SELL", "RETIRE"}, order: Nat, market: Nat,
        remaining: Nat, filled: Nat, available: Nat]

Tables == [balance: [Players -> 0 .. MaxCents], orders: Seq(Order),
           owed: [Players -> [Items -> Nat]]]

NoTxn == [kind |-> "IDLE", order |-> 0, market |-> 0,
          remaining |-> 0, filled |-> 0, available |-> 0]

\* The rows every query of the code asks for: LIMIT orders that still rest.
IsOpen(o) == o.type = "LIMIT" /\ o.status \in {"OPEN", "PARTIAL"}

\* Orders of all markets of one item meet in one book, active or not.
BookOf(o) == markets[o.market].item

\* Fault: an order that traded already still reads OPEN.
NeverPartial(remaining, filled) ==
    IF remaining = 0 THEN "FILLED" ELSE "OPEN"

orderStatus(remaining, filled) ==
    IF remaining = 0 THEN "FILLED" ELSE IF filled > 0 THEN "PARTIAL" ELSE "OPEN"

\* The status placeBuy and placeSellLocked give the incoming order at the end.
FinalStatus(o, remaining, filled) ==
    IF o.type = "LIMIT" THEN orderStatus(remaining, filled)
    ELSE IF filled = o.original THEN "FILLED"
    ELSE IF filled > 0 THEN "PARTIAL" ELSE "CANCELED"

lesser(a, b) == IF a <= b THEN a ELSE b

-----------------------------------------------------------------------------
(* Transactions *)

Idle == txn.kind = "IDLE"

\* Transaction::commit: what the connection wrote becomes the database.
Commit ==
    /\ committed' = [balance |-> balance', orders |-> orders', owed |-> owed']
    /\ txn' = NoTxn

\* addDelivery and credit on the working tables.
Owe(p, i, n) == [owed EXCEPT ![p][i] = @ + n]
credit(bal, p, amount) == [bal EXCEPT ![p] = @ + amount]

\* Fault: the range is not checked.
NoRangeCheck(bal) == TRUE

\* MySQL refuses an UPDATE that leaves the BIGINT range or the balance >= 0
\* condition of debit(): the call throws and the transaction is rolled back.
InRange(bal) == \A p \in Players : bal[p] \in 0 .. MaxCents

\* INSERT IGNORE INTO exchange_accounts, committed before the caller goes on.
OpenedBalance(p) ==
    IF p \in opened THEN balance ELSE [balance EXCEPT ![p] = InitialBalance]
OpeningMoney(p) == IF p \in opened THEN 0 ELSE InitialBalance

-----------------------------------------------------------------------------
(* Accounts *)

Init ==
    /\ balance = [p \in Players |-> 0]
    /\ orders = <<>>
    /\ owed = [p \in Players |-> [i \in Items |-> 0]]
    /\ committed = [balance |-> balance, orders |-> orders, owed |-> owed]
    /\ opened = {}
    /\ markets = <<>>
    /\ binding = [t \in Targets |-> 0]
    /\ txn = NoTxn
    /\ minted = 0
    /\ deposited = [i \in Items |-> 0]

\* ensureAccount on its own (join, commands, forms); for a known player it
\* only refreshes the name.
ensureAccount(p) ==
    /\ Idle
    /\ p \notin opened
    /\ opened' = opened \cup {p}
    /\ balance' = OpenedBalance(p)
    /\ minted' = minted + OpeningMoney(p)
    /\ UNCHANGED <<orders, owed, marketVars, deposited>>
    /\ Commit

addBalance(p, delta) ==
    /\ Idle
    /\ minted + OpeningMoney(p) + delta <= MaxMinted
    /\ opened' = opened \cup {p}
    /\ balance' = credit(OpenedBalance(p), p, delta)
    /\ InRange(balance')
    /\ minted' = minted + OpeningMoney(p) + delta
    /\ UNCHANGED <<orders, owed, marketVars, deposited>>
    /\ Commit

-----------------------------------------------------------------------------
(* Markets *)

\* Markets of this target and item that an administrator paused.
Resumable(t, i) ==
    {m \in DOMAIN markets : /\ markets[m].target = t
                            /\ markets[m].item = i
                            /\ ~markets[m].active
                            /\ markets[m].reopenable}

resumeMarket(t, i) ==
    \E m \in Resumable(t, i) :
        /\ \A n \in Resumable(t, i) : n <= m
        /\ markets' = [markets EXCEPT ![m].active = TRUE,
                                      ![m].reopenable = FALSE]
        /\ binding' = [binding EXCEPT ![t] = m]

insertMarket(t, i) ==
    /\ Resumable(t, i) = {}
    /\ Len(markets) < MaxMarkets
    /\ markets' = Append(markets, [target |-> t, item |-> i,
                                   active |-> TRUE, reopenable |-> FALSE])
    /\ binding' = [binding EXCEPT ![t] = Len(markets) + 1]

activateMarket(t, i) ==
    /\ Idle
    /\ binding[t] = 0
    /\ resumeMarket(t, i) \/ insertMarket(t, i)
    /\ UNCHANGED <<tables, opened, txn, minted, deposited>>

\* Fault: the binding row stays.
KeepsBinding(m) == binding

\* DELETE FROM exchange_target_bindings for market m.
Unbound(m) == [t \in Targets |-> IF binding[t] = m THEN 0 ELSE binding[t]]

closeMarket(m) ==
    /\ Idle
    /\ markets[m].active => binding[markets[m].target] = m
    /\ binding' = Unbound(m)
    /\ markets' = IF markets[m].active
                  THEN [markets EXCEPT ![m].active = FALSE,
                                       ![m].reopenable = TRUE]
                  ELSE markets
    /\ UNCHANGED <<tables, opened, txn, minted, deposited>>

-----------------------------------------------------------------------------
(* placeOrder: request checks, account, lockActiveBook, the inserted row *)

validateRequest(type, price, qty) ==
    /\ qty \in 1 .. MaxQty
    /\ type = "LIMIT" => price > 0 /\ price * qty <= MaxCents

NewOrder(m, p, side, type, price, qty, reserve) ==
    [market |-> m, player |-> p, side |-> side, type |-> type,
     price |-> IF type = "LIMIT" THEN price ELSE 0,
     original |-> qty, remaining |-> qty, reserved |-> reserve,
     status |-> "OPEN"]

\* The account part of placeOrder is a transaction of its own.
beginOrder(m, p, side, type, price, qty, reserve) ==
    /\ Idle
    /\ Len(orders) < MaxOrders
    /\ validateRequest(type, price, qty)
    /\ markets[m].active
    /\ OpenedBalance(p)[p] >= reserve
    /\ opened' = opened \cup {p}
    /\ minted' = minted + OpeningMoney(p)
    /\ balance' = [OpenedBalance(p) EXCEPT ![p] = @ - reserve]
    /\ orders' = Append(orders, NewOrder(m, p, side, type, price, qty, reserve))
    /\ committed' = [committed EXCEPT !.balance = OpenedBalance(p)]
    /\ txn' = [kind |-> side, order |-> Len(orders) + 1, market |-> m,
               remaining |-> qty, filled |-> 0,
               available |-> OpenedBalance(p)[p] - reserve]
    /\ UNCHANGED <<owed, marketVars, deposited>>

beginBuy(m, p, type, price, qty) ==
    beginOrder(m, p, "BUY", type, price, qty,
               IF type = "LIMIT" THEN price * qty ELSE 0)

beginSell(m, p, type, price, qty) ==
    beginOrder(m, p, "SELL", type, price, qty, 0)

-----------------------------------------------------------------------------
(* The matching loop of placeBuy *)

Incoming == orders[txn.order]

\* SELECT ... FOR UPDATE: the resting orders of the other side of the book
\* that are not the player's own.
Counterparts(side) ==
    {c \in DOMAIN orders : /\ orders[c].side = side
                           /\ IsOpen(orders[c])
                           /\ BookOf(orders[c]) = BookOf(Incoming)
                           /\ orders[c].player # Incoming.player}

\* Fault: an ask at the limit itself is not taken.
StrictAsks == {a \in Counterparts("SELL") :
                Incoming.type = "LIMIT" => orders[a].price < Incoming.price}

Asks == {a \in Counterparts("SELL") :
            Incoming.type = "LIMIT" => orders[a].price <= Incoming.price}

Bids == {b \in Counterparts("BUY") :
            Incoming.type = "LIMIT" => orders[b].price >= Incoming.price}

\* Fault: asks in the order they were placed.
AskByAge(a, b) == a < b

\* ORDER BY price_cents ASC,id ASC and ORDER BY price_cents DESC,id ASC.
AskBefore(a, b) ==
    \/ orders[a].price < orders[b].price
    \/ orders[a].price = orders[b].price /\ a < b

BidBefore(a, b) ==
    \/ orders[a].price > orders[b].price
    \/ orders[a].price = orders[b].price /\ a < b

\* The next row of the result. A row already visited is FILLED, or it was
\* the last one, so the head of the current set is the next of the cursor.
NextAsk(a) == a \in Asks /\ \A b \in Asks \ {a} : AskBefore(a, b)
NextBid(a) == a \in Bids /\ \A b \in Bids \ {a} : BidBefore(a, b)

\* Fault: a limit order trades at its own price.
TakerPrice(c) ==
    IF Incoming.type = "LIMIT" THEN Incoming.price ELSE orders[c].price

\* A trade happens at the price of the resting order.
TradePrice(c) == orders[c].price

BuyFill(a) ==
    LET both == lesser(txn.remaining, orders[a].remaining)
    IN  IF Incoming.type = "MARKET"
        THEN lesser(both, txn.available \div TradePrice(a))
        ELSE both

\* Fault: the price improvement is not given back.
NoImprovement(a, fill) ==
    IF Incoming.type = "MARKET" THEN - TradePrice(a) * fill ELSE 0

\* What the buyer's own balance gains (price improvement) or pays at a fill.
BuyerChange(a, fill) ==
    IF Incoming.type = "MARKET" THEN - TradePrice(a) * fill
    ELSE (Incoming.price - TradePrice(a)) * fill

matchAsk(a) ==
    LET ask  == orders[a]
        fill == BuyFill(a)
        mine == BuyerChange(a, fill)
    IN  /\ txn.kind = "BUY" /\ txn.remaining > 0
        /\ NextAsk(a)
        /\ Incoming.type = "MARKET" => fill > 0
        /\ balance' = credit(credit(balance, Incoming.player, mine),
                             ask.player, TradePrice(a) * fill)
        /\ InRange(balance')
        /\ orders' = [orders EXCEPT
                        ![a].remaining = @ - fill,
                        ![a].status = IF ask.remaining = fill THEN "FILLED"
                                      ELSE "PARTIAL"]
        /\ owed' = Owe(Incoming.player, markets[txn.market].item, fill)
        /\ txn' = [txn EXCEPT !.remaining = @ - fill, !.filled = @ + fill,
                              !.available = @ + mine]
        /\ UNCHANGED <<committed, opened, marketVars, minted, deposited>>

\* The loop ends with the quantity, with the rows, or at the first ask a
\* market order cannot pay for.
BuyLoopDone ==
    \/ txn.remaining = 0
    \/ Asks = {}
    \/ Incoming.type = "MARKET" /\ \E a \in Asks : NextAsk(a) /\ BuyFill(a) <= 0

\* Fault: the reserve of the whole order is kept after a partial fill.
FullReserve(o, remaining) == IF o.type = "LIMIT" THEN o.price * o.original ELSE 0

\* The money a buy order holds once `remaining' items are left to buy.
BuyReserve(o, remaining) == IF o.type = "LIMIT" THEN o.price * remaining ELSE 0

finishBuy ==
    /\ txn.kind = "BUY"
    /\ BuyLoopDone
    /\ orders' = [orders EXCEPT
            ![txn.order].remaining =
                IF Incoming.type = "LIMIT" THEN txn.remaining ELSE 0,
            ![txn.order].reserved = BuyReserve(Incoming, txn.remaining),
            ![txn.order].status =
                FinalStatus(Incoming, txn.remaining, txn.filled)]
    /\ UNCHANGED <<balance, owed, opened, marketVars, minted, deposited>>
    /\ Commit

-----------------------------------------------------------------------------
(* The matching loop of placeSellLocked *)

matchBid(b) ==
    LET bid  == orders[b]
        fill == lesser(txn.remaining, bid.remaining)
    IN  /\ txn.kind = "SELL" /\ txn.remaining > 0
        /\ NextBid(b)
        /\ bid.reserved >= TradePrice(b) * fill  \* or the code throws
        /\ balance' = credit(balance, Incoming.player, TradePrice(b) * fill)
        /\ InRange(balance')
        /\ orders' = [orders EXCEPT
                        ![b].remaining = @ - fill,
                        ![b].reserved = @ - TradePrice(b) * fill,
                        ![b].status = IF bid.remaining = fill THEN "FILLED"
                                      ELSE "PARTIAL"]
        /\ owed' = Owe(bid.player, markets[txn.market].item, fill)
        /\ txn' = [txn EXCEPT !.remaining = @ - fill, !.filled = @ + fill]
        /\ UNCHANGED <<committed, opened, marketVars, minted, deposited>>

\* Fault: the unsold rest of a market order is lost.
RestLost == 0

\* The unsold rest of a market order goes back to the seller.
MarketRemainder == IF Incoming.type = "MARKET" THEN txn.remaining ELSE 0

finishSell ==
    /\ txn.kind = "SELL"
    /\ txn.remaining = 0 \/ Bids = {}
    /\ owed' = Owe(Incoming.player, markets[txn.market].item, MarketRemainder)
    /\ orders' = [orders EXCEPT
            ![txn.order].remaining =
                IF Incoming.type = "LIMIT" THEN txn.remaining ELSE 0,
            ![txn.order].status =
                FinalStatus(Incoming, txn.remaining, txn.filled)]
    /\ deposited' = [deposited EXCEPT
                        ![markets[txn.market].item] = @ + Incoming.original]
    /\ UNCHANGED <<balance, opened, marketVars, minted>>
    /\ Commit

-----------------------------------------------------------------------------
(* Cancelling *)

\* The body cancelOrder and retireMarket share: release what order o holds.
Release(o) ==
    LET row == orders[o]
    IN  /\ balance' = IF row.side = "BUY"
                      THEN credit(balance, row.player, row.reserved)
                      ELSE balance
        /\ InRange(balance')
        /\ owed' = IF row.side = "SELL"
                   THEN Owe(row.player, BookOf(row), row.remaining)
                   ELSE owed
        /\ orders' = [orders EXCEPT ![o].remaining = 0, ![o].reserved = 0,
                                    ![o].status = "CANCELED"]

\* The owner, or an administrator, cancels an order that rests in a book.
cancelOrder(o) ==
    /\ Idle
    /\ IsOpen(orders[o])
    /\ Release(o)
    /\ UNCHANGED <<opened, marketVars, minted, deposited>>
    /\ Commit

\* Fault: orders that traded already are left in the book.
UntouchedOrders(m) ==
    {o \in DOMAIN orders : orders[o].market = m /\ orders[o].status = "OPEN"
                           /\ orders[o].type = "LIMIT"}

\* The rows retireMarket cancels.
RestingOrders(m) ==
    {o \in DOMAIN orders : orders[o].market = m /\ IsOpen(orders[o])}

\* retireMarket: the object of market m is gone; all its orders go back.
beginRetire(m) ==
    /\ Idle
    /\ txn' = [NoTxn EXCEPT !.kind = "RETIRE", !.market = m]
    /\ UNCHANGED <<tables, opened, marketVars, minted, deposited>>

retireOrder(o) ==
    /\ txn.kind = "RETIRE"
    /\ o \in RestingOrders(txn.market)
    /\ Release(o)
    /\ UNCHANGED <<committed, opened, marketVars, txn, minted, deposited>>

finishRetire ==
    LET m == txn.market
    IN  /\ txn.kind = "RETIRE"
        /\ RestingOrders(m) = {}
        /\ markets[m].active => binding[markets[m].target] = m
        /\ binding' = [binding EXCEPT ![markets[m].target] =
                                        IF @ = m THEN 0 ELSE @]
        /\ markets' = [markets EXCEPT ![m].active = FALSE,
                                      ![m].reopenable = FALSE]
        /\ UNCHANGED <<balance, orders, owed, opened, minted, deposited>>
        /\ Commit

\* ~Transaction without commit: a throw, a lost connection or a killed
\* process between two statements of a call.
Abort ==
    /\ ~Idle
    /\ balance' = committed.balance
    /\ orders' = committed.orders
    /\ owed' = committed.owed
    /\ txn' = NoTxn
    /\ UNCHANGED <<committed, opened, marketVars, minted, deposited>>

-----------------------------------------------------------------------------

Next ==
    \/ \E p \in Players : ensureAccount(p)
    \/ \E p \in Players, d \in Deltas : addBalance(p, d)
    \/ \E t \in Targets, i \in Items : activateMarket(t, i)
    \/ \E m \in DOMAIN markets : closeMarket(m)
    \/ \E m \in DOMAIN markets : beginRetire(m)
    \/ \E m \in DOMAIN markets, p \in Players, type \in {"LIMIT", "MARKET"},
          price \in Prices, qty \in 1 .. MaxQty :
            \/ beginBuy(m, p, type, price, qty)
            \/ beginSell(m, p, type, price, qty)
    \/ \E o \in DOMAIN orders :
            \/ matchAsk(o)
            \/ matchBid(o)
            \/ cancelOrder(o)
            \/ retireOrder(o)
    \/ finishBuy
    \/ finishSell
    \/ finishRetire
    \/ Abort

Spec == Init /\ [][Next]_vars

-----------------------------------------------------------------------------
(* Properties. They speak of the committed tables: what is durable and what *)
(* every later transaction starts from.                                     *)

Rows == committed.orders

\* Every variable keeps its type. In particular no balance of the working or
\* of the committed tables is ever negative or beyond the int64 range, at any
\* point inside the matching loop.
TypeOK ==
    /\ [balance |-> balance, orders |-> orders, owed |-> owed] \in Tables
    /\ committed \in Tables
    /\ opened \subseteq Players
    /\ markets \in Seq(Market)
    /\ binding \in [Targets -> Nat]
    /\ txn \in Txn
    /\ minted \in Int
    /\ deposited \in [Items -> Nat]

\* A resting buy order holds exactly the money its remaining quantity can cost
\* at its limit, and no other row holds any: price improvements, partial fills
\* from both sides, cancels and rollbacks included. This is what makes the
\* "buy-order reserve invariant failed" throw of placeSellLocked unreachable.
ReserveExact ==
    \A o \in DOMAIN Rows :
        Rows[o].reserved = IF IsOpen(Rows[o]) /\ Rows[o].side = "BUY"
                           THEN Rows[o].price * Rows[o].remaining ELSE 0

\* Two players never rest at prices that cross: in one item's book a bid is
\* below every ask of another player, whichever markets the two were placed
\* at, and through pauses, resumptions and removals of those markets.
NoCrossedBook ==
    \A b, a \in DOMAIN Rows :
        /\ IsOpen(Rows[b]) /\ Rows[b].side = "BUY"
        /\ IsOpen(Rows[a]) /\ Rows[a].side = "SELL"
        /\ BookOf(Rows[b]) = BookOf(Rows[a])
        /\ Rows[b].player # Rows[a].player
        => Rows[b].price < Rows[a].price

\* An order rests only at a market that is active or can be resumed: nothing
\* stays in the book of an object that was removed for good (retireMarket).
NoOrphanOrders ==
    \A o \in DOMAIN Rows :
        IsOpen(Rows[o]) =>
            \/ markets[Rows[o].market].active
            \/ markets[Rows[o].market].reopenable

\* The active markets are exactly the bound ones, so a target has at most one,
\* and "active market target binding is missing" is never thrown by
\* closeMarket and retireMarket.
BindingsMatchMarkets ==
    /\ \A m \in DOMAIN markets :
            markets[m].active <=> binding[markets[m].target] = m
    /\ \A t \in Targets : binding[t] # 0 =>
            binding[t] \in DOMAIN markets /\ markets[binding[t]].target = t

\* The status column tells the truth about the quantities: a resting order has
\* items left, PARTIAL exactly when it traded, and a row that does not rest (a
\* market order always) has nothing left that a later match could take.
StatusAgrees ==
    \A o \in DOMAIN Rows :
        IF IsOpen(Rows[o])
        THEN /\ Rows[o].remaining \in 1 .. Rows[o].original
             /\ (Rows[o].status = "PARTIAL")
                    <=> (Rows[o].remaining < Rows[o].original)
        ELSE Rows[o].remaining = 0 /\ Rows[o].status # "OPEN"

\* The items of kind i a row holds for its seller.
HeldItems(r, i) == IF r.side = "SELL" /\ BookOf(r) = i THEN r.remaining ELSE 0

\* No call creates or destroys money: the balances and the reserves of resting
\* buy orders add up to what account openings and administrators put in.
MoneyConserved ==
    SumFunctionOnSet(committed.balance, Players)
      + SumFunctionOnSet([o \in DOMAIN Rows |-> Rows[o].reserved], DOMAIN Rows)
      = minted

\* No call creates or destroys items: for each item, what the exchange owes as
\* deliveries and holds in resting sell orders is what sellers handed in, over
\* matching, cancelling, removal of markets and rollbacks.
ItemsConserved ==
    \A i \in Items :
        SumFunctionOnSet([p \in Players |-> committed.owed[p][i]], Players)
          + SumFunctionOnSet([o \in DOMAIN Rows |-> HeldItems(Rows[o], i)],
                             DOMAIN Rows)
          = deposited[i]

\* The incoming order of the transaction that commits.
Taker == orders[txn.order].player

\* Row x comes before y in their side of the book: a better price, or the
\* same price and an older id.
Ahead(x, y) ==
    /\ IsOpen(Rows[x]) /\ IsOpen(Rows[y])
    /\ Rows[x].side = Rows[y].side
    /\ BookOf(Rows[x]) = BookOf(Rows[y])
    /\ \/ Rows[x].price = Rows[y].price /\ x < y
       \/ Rows[x].price < Rows[y].price /\ Rows[x].side = "SELL"
       \/ Rows[x].price > Rows[y].price /\ Rows[x].side = "BUY"

\* A step that commits trades of y has used up every x that comes first.
TakesInOrder ==
    txn.kind \in {"BUY", "SELL"} =>
        \A x, y \in DOMAIN Rows :
            /\ Ahead(x, y)
            /\ Rows[x].player # Taker
            /\ Rows'[y].remaining < Rows[y].remaining
            => Rows'[x].remaining = 0

\* Over a whole placeOrder, a resting order trades only if every order of its
\* side and book with a better price, or the same price and an older id, that
\* the taker may trade with was used up.
PriceTimePriority == [][TakesInOrder]_vars

\* What p's resting orders traded until the rows were those of table s: money
\* for its sell orders, items of kind i for its buy orders.
TradedQty(o, s) == Rows[o].remaining - s[o].remaining
SoldFor(p, s) ==
    [o \in DOMAIN Rows |-> IF Rows[o].player = p /\ Rows[o].side = "SELL"
                           THEN Rows[o].price * TradedQty(o, s) ELSE 0]
Bought(p, i, s) ==
    [o \in DOMAIN Rows |-> IF /\ Rows[o].player = p /\ Rows[o].side = "BUY"
                              /\ BookOf(Rows[o]) = i
                           THEN TradedQty(o, s) ELSE 0]

\* What the end of a placeOrder has written for the other players.
SettlesWithMakers ==
    txn.kind \in {"BUY", "SELL"} /\ txn'.kind = "IDLE" =>
        \A p \in Players \ {Taker} :
            /\ committed'.balance[p]
                    = committed.balance[p]
                        + SumFunctionOnSet(SoldFor(p, Rows'), DOMAIN Rows)
            /\ \A i \in Items :
                 committed'.owed[p][i]
                    = committed.owed[p][i]
                        + SumFunctionOnSet(Bought(p, i, Rows'), DOMAIN Rows)

\* A placeOrder settles with every other player exactly at the price that
\* player's own resting orders carry: sellers are credited ask price times
\* quantity, buyers get the items their reserve paid for and no money moves.
MakersSettledExactly == [][SettlesWithMakers]_vars

=============================================================================
