# TLA+ verification of Endstone Exchange

Endstone Exchange is a plugin for Bedrock servers (C++, MySQL): players place
limit and market orders for items at "market" objects in the world, sell single
items from item frames, and pay either with a balance kept by the plugin or
with the balance of another plugin, UMoney. This directory holds TLA+ models of
the parts where a mistake loses or duplicates money and items, TLC
configurations that check them on small instances, and TLAPS proofs of the
core properties for every size. `PROJECT.json` maps every definition to source lines
and lists the runs, the hazards and the theorems. Paths below are relative to
the repository.

## Inventory

Everything but the hologram snapshot worker runs on the server's main thread:
event handlers, form callbacks, scheduler tasks. One MySQL connection serves
it. So there is no race of threads on the data; what makes the system hard is
that one operation spans several stores (MySQL, the player's inventory, the
world, UMoney's `money.json`) that are written one after the other, that any
call may throw between two writes, that the process or the machine may stop at
any point, that other plugins and players act between two ticks of one
operation, and that long sequences of legal calls share the same rows.

| Component | State | Operations | What makes it correct |
| --- | --- | --- | --- |
| Accounts (`exchange_service.cpp`) | `exchange_accounts`, the ledger | ensureAccount, addBalance, credit, debit | balances stay in `0..int64`, no call makes or loses money |
| Markets and bindings (`exchange_service.cpp`) | `exchange_markets`, `exchange_target_bindings`, `exchange_books` | activateMarket (new or resumed), closeMarket (pause), retireMarket | active markets are exactly the bound ones; no order rests at a retired market |
| Order matching (`exchange_service.cpp`) | `exchange_orders`, `exchange_deliveries` | placeBuy, placeSellLocked, cancelOrder | reserves are exact, no crossed book, price-time priority, makers are paid their price, money and items are conserved over rollbacks |
| UMoney settlement (`plugin.cpp`, `umoney_gateway.*`, `exchange_service.cpp`) | `exchange_economy_transfers`, `money.json` | fundDirectBalance, sweepDirectBalances, processEconomyTransfer(s), onEnable's backing check | each transfer changes UMoney exactly once, is durable before it is recorded, no more leaves UMoney than was paid in, recovery always gets through |
| Sell escrow (`plugin.cpp`, `inventory_escrow.cpp`, `exchange_service.cpp`) | `exchange_sell_escrows`, marked stacks and receipts in the inventory | submitSellEscrow, reconcileSellEscrows, prepare/tag/execute/cancel/clean | an item is in the inventory or in the order, never in both or neither |
| Delivery claims (same files) | `exchange_delivery_claims`, marked stacks | claimDeliveries, prepare/complete/clean | what is owed is handed out exactly once |
| Frame listings (`plugin.cpp`, `exchange_service.cpp`) | `exchange_frame_listings` and bindings, the frame, the drop | upsert, cancel, purchase, settle, drop, pickup, recover | one buyer pays once and gets one item; a listing that was paid is settled |
| Market objects (`plugin.cpp`) | index of markets, blocks, actors and their tags | toggles, deactivate, removal, restoreMarkets | an object that is a market can be closed again |
| Holograms (`plugin.cpp`) | label actors, the snapshot worker, loaded chunks, pending recreations | refreshHolograms, reconcileLoadedChunk, recreateHologramsNearPlayer | one label per market, never above a closed one, never older than before |
| Interaction gate, trade forms (`interaction_gate.cpp`, `trade_form.cpp`, `plugin.cpp`) | last interaction, open forms, drafts, queued tasks | accept, the three forms, parse, submit | a click has one effect; an order is what was reviewed; nobody is locked out |
| Database (`database.cpp`) | connection, transaction flag | begin, commit, rollback, reconnect, migrations | a call is all or nothing |
| Localization, NBT, structure reader, configuration | texts, encoding and parsing | | not protocol state |

Interactions: forms and commands (plugin) call the service; a sell goes through
the sell escrow, which calls the matching code; matching adds deliveries, which
claims hand out; in UMoney mode a buy is funded before it is placed and every
handler ends with a settlement pass that sweeps free balances back to UMoney;
frame purchases use the same accounts.

## Modules

| Module | Models | Used by |
| --- | --- | --- |
| `ExchangeOrders` | accounts, markets, bindings, orders, matching, transactions | runs `orders_*`, `ExchangeOrdersProofs` |
| `MCExchangeOrders` | instances | runs `orders_*` |
| `ExchangeOrdersProofs` | theorems about `ExchangeOrders`: rows, books, markets | |
| `ExchangeCallProofs` | theorems about `ExchangeOrders`: sums, and one call from its start to its commit | |
| `FiniteSums` | lemmas about sums over finite sets | the `...Proofs` modules that add up money or items |
| `UmoneySettlement` | the UMoney saga, startup check, crashes and failing calls | runs `settlement_*`, `UmoneySettlementProofs` |
| `MCUmoneySettlement` | instances | runs `settlement_*` |
| `UmoneySettlementProofs` | theorems about `UmoneySettlement` | |
| `InventoryEscrow` | sell escrow, delivery claims, the marks in the inventory | runs `escrow_*`, `InventoryEscrowProofs` |
| `ItemCustody` | what these two promise; `InventoryEscrow` implements it | `InventoryEscrow`, run `escrow_items` |
| `InventoryEscrowProofs` | theorems about `InventoryEscrow` and its refinement of `ItemCustody` | |
| `FrameSale` | item-frame listings, captures, payment, settlement, pickup | run `frame_sale`, `FrameSaleProofs` |
| `FrameSaleProofs` | theorems about `FrameSale` | |
| `TradeForms` | interaction gate, trade forms, drafts, submission | run `forms_dialog`, `TradeFormsProofs` |
| `TradeFormsProofs` | theorems about `TradeForms` | |
| `MarketObjects` | one market object, its tag and index, its label, the snapshot worker | run `objects_labels`, `MarketObjectsProofs` |
| `MarketObjectsProofs` | theorems about `MarketObjects` | |
| `MCInventoryEscrow`, `MCFrameSale`, `MCTradeForms`, `MCMarketObjects` | instances | the same runs |

Definitions whose comment starts with "Fault:" are wrong variants of the
definition below them. No specification uses them; they are substituted to see
that the properties notice.

### ExchangeOrders

`balance`, `orders`, `owed` are the rows the connection sees, `committed` the
same three tables at the last commit. A call starts when `txn` is idle, and its
loop (the fills of `placeBuy` and `placeSellLocked`, the orders of
`retireMarket`) takes one step per row; `finish...` is the code after the loop
and the commit. `Abort` returns to `committed`: it is the destructor of
`Transaction`, so it stands for a throw in the call, a lost connection and a
killed process alike. Changes of `markets` and `binding` happen in one
statement group at the end of a call and are atomic in the model.

The result set of the matching query is fixed when the query runs. The model
takes the head of the current set instead; nothing else touches the rows while
they are locked, and a row already visited is FILLED or was the last one, so the
next head is the next row of the cursor.

Left out: the append-only ledger and `exchange_trades` (written next to each
change, never read by these calls), names, NBT (an item is its book), the
placement of deliveries into rows (`owed` keeps their sum per player and item;
the rows are in `InventoryEscrow`, which hands them out). `orderBook`, `topOfBooks` and `openOrders` only read.

### UmoneySettlement

`internal` and `reserved` are the free balance and the reserve of resting buy
orders, `transfers` the saga rows, `wallet` the UMoney balances as the running
plugin and `money.json` show them, `disk` what `money.json` would be after a
power loss. `run` is the program counter of the plugin: the pass
(`list`, `recover`, `sweep`), the transfer being processed (`decide`, `mutate`,
`sync`, `mark`, `complete`, `fail`, `block`), and the handler of a buy order
(`fund`, `place`). `applied` and `durable` are history: how often each
transfer's change is in `wallet` and on `disk`.

* `change` and `syncUmoneyData` are the two halves of `UmoneyGateway::change`:
  UMoney rewrites the file, then it is synced and the balance read back.
* `settle` is one MySQL transaction of a transfer (mark, complete, fail, block).
* `databaseError`: a statement fails and the exception is caught where the code
  catches it. `lostReply`, `lostPrepared`: the commit happened but the caller
  sees an exception. `umoneyError`: UMoney or fsync fails.
* `kill` keeps files and tables; `powerLoss` also takes `wallet` back to `disk`.
* `submitBuy` and `release` are what orders do to the two balances, taken from
  the order module: a buy turns free money into a reserve, a sale or a cancel
  turns a reserve into somebody's free money. The whole order is reserved, so
  the immediate fill of a buy is a `release` that follows it.
* `Init` includes databases from before UMoney mode: any mix of free balances
  nothing backs, and one unfinished transfer of the old HTTP bridge, which has
  no baseline. (Migration 8 and the `BLOCKED` path of `processEconomyTransfer`.)
  `hidden` is history: the free balances that the check of the first start lets
  in, because that transfer counts as backing for them; 0 if the start is
  refused.

`fail` (the `Insufficient` verdict) is kept because the code has it, but no
behaviour reaches it: `fundDirectBalance` refuses before it prepares a transfer
its own baseline does not cover, and a withdrawal is never `Insufficient`.

Left out: `attempt_count` and `last_error`; the `processing_economy_` flag,
which no re-entrant call can find set on one thread; UMoney accounts that do not
exist (the same path as `umoneyError`); the page size of 100 rows.

### InventoryEscrow and ItemCustody

`inv` is one player's inventory, a stack per slot, the last slot the offhand;
a stack is plain or carries the mark of a row. `lost` is history: the items of
stacks that a kill left out of their slot. `escrows`, `deliveries` and
`claims` are the three tables. `run` is where the main thread is: inside
`submitSellEscrow` (`tag`), `reconcileSellEscrows` (`escrows`, with `mode`
telling who called it and so who catches a throw), the reconciliation of marks
(`claimMarkers`, `sellMarkers`) and the loops of `claimDeliveries`.

* A step is one service call with the inventory writes before it. The writes of
  a step are slot by slot in the code, so `kill` inside a step leaves any subset
  of its slots written (`Targets`, `Partly`). `clearDeliveryClaimTag` clears a
  slot and then sets the plain stack (`src/inventory_escrow.cpp:141`); a kill in
  between leaves the slot empty (`Emptied`) and the stack is `lost`. The other
  writers set a slot once.
* `Call` is a service call: it may throw with its commit, or without.
* `tagSellItems` sorts the candidates by size with an unstable sort and takes
  whole stacks; `TagChoices` is every outcome of that.
* `Init` chooses how inventory writes survive a kill. `saved = <<>>`: every
  write is durable at once (`Durable`). Otherwise `saved` is the inventory the
  game wrote last, between two handlers (`save`), and a kill goes back to it.
  The repository states no assumption about it, so both are checked; the
  properties that need durable writes say `Durable => ...`.
* Every join and trade form inserts a claim row, also when nothing fits. To keep
  the state finite a CANCELED claim without a mark has its id used again.
* After its inventory writes the code looks whether the marks are really gone and
  throws if they are not (`src/plugin.cpp:2377`, `2518`, `2542`). In the model a
  write does what it says, so these checks never fire and are left out.
* A player cannot move a marked stack (drop and use are refused by the plugin;
  moves inside the inventory change no sum). Marks of unknown rows are left out.
* `deliveryArrives` is what other players' orders do, `outside` the items the
  rest of the market has.

`ItemCustody` has items in six places and moves them in one step each; the
sixth, `gone`, is where a crash puts what it takes out of the player's hands. The
refinement reads a marked stack as its row says: an item with the mark of a
PREPARED or CANCELED escrow is the player's, with that of an APPLIED claim too,
and nobody's otherwise; what a TAGGED row counted is in custody. Every kill,
retry and cleanup is then a stutter, but for the kill with an empty slot, which
is `lose`. `ImplementsCustody` is about the durable behaviours: only for them a
kill brings no item back.

### FrameSale

One frame. `listings`, `binding` and `balance` are tables, `index` the entry of
`frame_listing_index_`, `frame`, `placed`, `here`, `away`, `held` the world
(`stored`: the drops of `here` that the game has not brought back since their
chunk was saved), `saved` what the game saved last,
`capture` the pending capture with what its callback is for, `settling` and
`todo` the settlements under way.

* A capture is queued by `queueItemFrameCapture` and ends in another action, in
  a later tick: `seen` is what the structure was saved with. It may be
  unreadable (`retryCapture`, up to `MaxAttempts` times, then `failedCapture`).
  The callbacks are `openPriceForm`, `saveListing`, `openPurchaseReview`,
  `purchase`, `clearFrame`, `dropItem` and `activateFrame`.
* The settlement of a paid listing is `beginSettlement`, `clearFrame`,
  `dropItem`, each in its own tick; `adoptDrop`, `settleWithoutFrame`,
  `settleLater` and `settleClosed` are its other ways; `recoverFrameListings`
  starts it again for every listing that is PAID or DROPPED.
* Service calls may throw with or without their commit. A kill between two
  calls of a handler leaves what a throw there followed by `restart` leaves.
* `findFrameSaleDrop` sees loaded actors only. `unloadChunk` takes the drops out
  of its sight, and `dropsReturn` brings them back some time after `loadChunk`; a
  settlement, a recovery or a spawn in between misses them, which `late`
  remembers.
* Nothing in the code waits for a save of the world. `saved = {}` is a game that
  saves every change at once; after `lastSave` it saves nothing more, and
  `restart` takes chunk (frame, drops, chests) and players (`held`), each on its
  own, back to that save or leaves them as they are. The tables stay. Such a
  kill is remembered as `rollback`.
* `hopper`, `popFrame`, `putItem`, `takeItem` are the game; a click on a listed
  frame, a break and an explosion are refused by the plugin if the frame is in
  the index.
* One budget, `MaxMishaps`, bounds everything that goes wrong: failing calls,
  unreadable captures, kills, breaks, unloads, toggled markets, stale forms,
  hoppers, falling frames; a last save counts two, for itself and the kill that
  makes it matter. `used.kinds` remembers the kinds that some
  property does not survive, and `Only(K)` in a property says that of those
  only the kinds of `K` have happened. `retaken` among them is no mishap of its
  own: it is the pickup of an item whose listing is CLAIMED already, which takes
  a lost reply or a hopper before it.

Left out: funding from UMoney before the payment (that is `fundDirectBalance` in
`UmoneySettlement`), a capture that is pending when its chunk unloads, the
price of a listing changing under one id (`upsertFrameListing` makes a new row).

### TradeForms

`open` is `open_trade_forms_`, `form` what each player sees, `tasks` the
scheduler's queue of forms and submissions, `age` the time since the gate
accepted a player. A task remembers in `review` what the player confirmed (a
history field, no code reads it); `strays` collects submissions that differ
from it. The book is what `orderBook` returns: best bid, best ask, last price;
it changes at any time. Whether the player may administer is chosen at each use
of `canAdmin`. `MaxMishaps` bounds exceptions, removed objects, quits and
restarts together.
`Whole` is `parseWholeNumber`: text is a number or `Garbage`; the JSON array
around it is always well-formed. `Reviewed` spells out what `tradeReviewText`
says for each action, on its own and not through `tradeActionSide`, so that the
request is compared with what the player read. What an accepted request does is
in the other modules.

### MarketObjects

One object, one player near it. `Init` chooses a block (`tag = NoTag`) or an
actor. `bound` and `id` are the
service's binding and the market it would resume, `known` the plugin's index,
`tag` the actor's tag, `older` what the game may have saved of the object
instead of its present state. `labels` are the label actors `getActors()` shows,
`stored` those that a chunk was saved with and that the game brings back some
ticks after the load. `workers` holds the snapshot thread: it reads
(`topOfBooks`) and publishes in steps of its own. `version` stands for the state
of the order book, `text` for the one on the label. Each load of the chunk
queues two tasks, which run even if the chunk was unloaded and loaded again.

* `refreshHologram` adopts a label that is there, removes duplicates, or spawns
  one if the chunk is past its grace period and no recreation is pending.
* `restart` covers a kill (labels of a saved chunk stay with it) and a regular
  stop (`removeAllHolograms`). `killed` says what a kill leaves of the object:
  block or actor as they are or as an earlier save had them (`older`, emptied when the
  chunk is unloaded and so saved); and it may come inside a toggle, between
  `activateMarket` and the actor's tag (`src/plugin.cpp:1861`) or between the
  removal of the tag and `closeMarket` or `retireMarket`
  (`src/plugin.cpp:1880`). `used.torn` remembers that this changed anything, or
  that a call threw.
* `late` remembers that the market was opened while a query was running, or its
  snapshot waiting, that had not asked for it, until a snapshot with it comes.
* The worker publishes its snapshot and resets `query_running` in two writes;
  `publishSnapshot` is both. Between them a periodic call would take the snapshot
  and start no query, which the next call does.
* A label is not a target of the exchanger. Unloading a chunk is no removal of
  its actors. Twenty ticks are enough for the actors of that load to return.

Left out: texts, languages, positions and packets; several labels' order.

## Runs

| Run | Instance | Shows |
| --- | --- | --- |
| `orders_book` | 3 players, 1 market, prices 1-2, quantity up to 2, 3 orders, balances up to 5 | matching: `ReserveExact`, `NoCrossedBook`, `StatusAgrees`, conservation of money, `PriceTimePriority`, `MakersSettledExactly`, the range of balances |
| `orders_markets` | 2 players, 2 targets, 2 items, 2 markets, 2 orders, administrators | pause, resume and removal: `NoOrphanOrders`, `BindingsMatchMarkets`, conservation of money and items |
| `settlement_crash` | 2 players, 2 cents per unit, 3 operations, 2 kills, 1 change by another plugin, legacy balances of 0 or 2 cents each and a legacy transfer | `ExactlyOnce`, `FundingSuffices`, `NothingMinted`, `ConservedWhenSettled` |
| `settlement_faults` | 2 players, 2 operations, 1 failing call, 2 power losses, 1 change by another plugin at any time, fairness | `BackingExact`, `SettlesAndSweeps`; `DurableUnderPowerLoss` where only the power fails |
| `settlement_legacy` | 1 player, 1 operation, a legacy balance and a legacy transfer of 2 cents | violation of `NoLegacyWithdrawn` |
| `settlement_retry` | 1 player, 3 operations, 1 failing call | violation of `ExactlyOnce` |
| `settlement_resync` | 1 player, 2 operations, 1 kill | violation of `AppliedIsDurable` |
| `escrow_items` | 2 slots and the offhand, 2 sell orders of 3, 1 delivery of 3, 1 failing call, 1 kill, 1 toggle of the market; durable writes or game saves | `ItemsExact`, `CleanedLeftNoMark`, `ImplementsCustody` for durable writes; `ReservationExact` for both |
| `escrow_live` | the same slots, 2 sell orders of 2, 1 delivery, 1 failing call, 1 kill, 2 toggles, fairness | `EscrowsFinish`, `DeliveriesArrive` if the market is open in the end |
| `frame_sale` | 2 players, 2 pieces of 1 item, 2 listings, 2 capture attempts, any 2 mishaps or a last save and kills, fairness | always `MoneyExact`, `BindingExact`, `PaidArrives`; `ItemsExact` over failing calls while no drop was missed; `SoldFromFrame` over failing calls and hoppers; `Protected` over falling frames, hoppers and rollbacks of the world |
| `forms_dialog` | 1 player, 2 packets a click, 2 books, a price grid of 2 and 6 with a maximum of 8, any 1 mishap, fairness | `OpenFormsExact`, `OrdersAsReviewed`, `DefaultIsNearest`, `OneEffectPerClick`, `ClickOpensForm` |
| `objects_labels` | a block or an actor, 2 market ids, 2 book versions, 2 toggles, any 2 of failing calls, kills, chunk loads and joins, fairness | `Closable`, `NoStrangeLabel`, `NeverOlder`, `LabelCatchesUp` |

Bounds. Three orders are enough for an incoming order that takes two rows, or
one row of two at different prices or ages, and for a self-trade to be skipped;
two prices give a price improvement; a balance limit of 5 makes the credit of a
seller overflow inside the loop. Two markets and two targets give two markets
of one item, and a market that is closed while the other is open. Two kills
include a kill during the recovery from the first; a unit of 2 cents makes
remainders that are not whole units. In `escrow_items` an order of 3 out of two
full stacks of 2 takes both, the offhand included, and leaves an excess of 1; the
second order finds the first one unfinished; a delivery of 3 finds room for a
part of it or for none. In `escrow_live` an order of 2 out of stacks of 2 and 1
leaves the player some items, and the second toggle opens the market again. Two
listings of one frame make a stale form and a second sale, two pieces of the
item let the second one be sold while the first is still on the ground; two
capture attempts make a retry and a failure; two mishaps let an unload, whose
drops come back late, meet a kill or a failing call, and a rollback of the world
happen at any point of a sale. In `settlement_crash` two players with balances
of their own choice cover the case that only one has a legacy balance, as large
as the legacy transfer, so that the first start is not refused. The price grid of `forms_dialog` has its maximum off
the grid and a step of two units, so what is prefilled is rounded or clamped;
`DefaultIsNearest` compares every reference price from 0 to above the maximum.
`forms_dialog` has a cooldown of 1: no time passes between the packets of one
click there, and theorem `OneEffectPerClickHolds` is about every cooldown.
Two market ids and two book versions make an old label, an old form and an old
snapshot possible. Where one budget covers several kinds of mishap, every pair of
kinds (in `forms_dialog` every single kind) happens in some behaviour, wherever
the code can meet it. `frame_sale` is the largest run (809,158 states, about three
minutes with two workers), then `objects_labels` (965,767 states, two minutes).
The wider a bound, the more repetitions of the same
situations; the theorems remove the bounds for the properties they state.

Deadlock is checked in every run. The bounds (`MaxOrders`, `MaxOps`,
`MaxMishaps`, ...) are guards of environment actions, so a run always has a step
left: an account, an abort, a settlement pass, a refresh.

Fairness. `FairSpec` assumes weak fairness of `Settlement`: the server is
restarted after it stopped, its main thread runs, and the scheduler fires
`economy_task_`. Failures and players are not fair. A failing call is bounded by
`MaxFaults`, so `SettlesAndSweeps` says: once calls stop failing everything is
settled. Blocked transfers count as settled, they wait for an operator.
In `InventoryEscrow` a handler that has started runs on, the player joins again
and opens trade forms again; in `FrameSale` the scheduler runs its tasks, the
recovery task comes round every 100 ticks whatever happens in between (strong
fairness, since other captures may disable it for a while), and the frame's
chunk is loaded again; in `TradeForms` the scheduler runs its tasks; in
`MarketObjects` the periodic refresh, the worker thread and the tasks run and a
loaded chunk brings back its actors. Players, failures and kills are never fair.

Symmetry: players (and in `orders_markets` targets and items) are
interchangeable; the runs with a temporal property use no symmetry.

### Findings

* `settlement_retry`. A retry decides from the current balance whether a
  transfer was applied. If a withdrawal was applied but its fsync or its MySQL
  mark failed, the row stays `PREPARED`, and the plugin goes on serving the
  player. A buy order that debits the same amount brings the balance back to
  the baseline, and the next pass credits UMoney again. `CHANGELOG.md:27` says
  no uncertain money operation is repeated. With process kills instead of
  failing calls this cannot happen, because the pass of `onEnable` comes before
  any player can act: that is `settlement_crash` and theorem `ExactlyOnceHolds`.
* `settlement_resync`. The fsync is done only by the `Apply` branch. After a
  kill between the write and the fsync, recovery finds the expected balance and
  records `EXTERNAL_APPLIED` without syncing, while `docs/architecture.md:35`
  says the record follows the fsync. A power loss right after it undoes a
  recorded transfer.
* `settlement_legacy`. `economyBackingDeficit` counts a deposit that is
  EXTERNAL_APPLIED, and not yet credited, as backing
  (`src/exchange_service.cpp:1252`). A database from before UMoney mode with such
  a deposit of 2 cents and unbacked free balances of 2 cents passes the check of
  `onEnable`; once the deposit is credited, 2 cents more than were paid in are
  swept to UMoney. `docs/architecture.md:38` says that the refusal prevents
  legacy value from becoming withdrawable. The other properties about money count
  these balances as `hidden`: `NothingMinted` bounds what can be withdrawn too
  much by them, and by nothing else.

### Limits that the properties' conditions stand for

Some properties of the later modules hold under a condition, and without it TLC
finds a counterexample. These are limits of the protocol, not bounds of the
model; each condition is part of the property's definition. The settlement
properties are different: `ExactlyOnce`, `NothingMinted` and
`ConservedWhenSettled` have no such condition, and `settlement_crash` excludes
failing calls by its bounds; the theorems state what they need as `Calm`, and the
run `settlement_retry` shows that it is needed.

* The market is open in the end (`StaysOpen` in `EscrowsFinish` and
  `DeliveriesArrive`). An escrow that is TAGGED when its market closes is stuck:
  `executeSellEscrow` refuses the closed market (`src/exchange_service.cpp:954`),
  `cancelSellEscrow` takes only PREPARED rows, and `reconcileSellEscrows` throws
  at every join and trade form, before the player's later escrows and
  deliveries. It ends when the market is opened again; after `retireMarket` it
  never is.
* Inventory writes survive a kill (`Durable`). The tag, the receipts and the
  order are written within one handler (`src/plugin.cpp:2327`) and nothing waits
  for the game to save the player. If the game saves later, the unmarked stack is
  back after a kill and the order stands.
* No stale management form (`Only` in `ItemsExact`, `Protected` and
  `SoldFromFrame`). Cancel erases the index entry by the frame's key (`src/plugin.cpp:1337`). If the form's listing was replaced
  meanwhile the call succeeds (it is CANCELED already) and the new listing loses
  its protection.
* No second pickup (`retaken`, in `Only` of `ItemsExact`, `Protected` and
  `SoldFromFrame`). `completeFrameListingPickup` accepts a CLAIMED listing, and
  the handler then erases the index entry by the frame's key
  (`src/plugin.cpp:889`, `src/plugin.cpp:1814`). If the reply of a pickup was
  lost the item stays on the ground while its listing is over; when the frame was
  listed anew before it is picked up again, the new listing loses its protection,
  its item can be taken out, and a purchase that was being captured still pays
  and spawns the item once more.
* The stack a kill leaves out of its slot (`lost` in `ItemsExact`, `lose` in
  `ItemCustody`). Between `inventory.clear(slot)` and `setItem`
  (`src/inventory_escrow.cpp:141`) the stack is in no slot; a kill there loses it
  if the inventory is durable, and the row is APPLIED already. The property says
  it is one stack per kill at most.
* No kill that takes back what the game had not saved (`rollback`, in `Only` of
  `ItemsExact` and `SoldFromFrame`). `dropItem`, `pickUp` and `takeItem` change
  chunk and player, which the game saves on their own and later than MySQL. A
  player saved with the item and a chunk saved before the pickup have it twice.
* No drop missed after a load (`late` in `ItemsExact`). Between the load of a
  chunk and the return of its actors `findFrameSaleDrop` (`src/plugin.cpp:1764`)
  does not find a drop that exists. The recovery then settles a listing that is
  PAID or DROPPED again and spawns a second item.
* No hopper, no falling frame (`Only` in `ItemsExact`, and falling frames in
  `SoldFromFrame`). A settlement looks for an existing drop among loaded actors only
  (`src/plugin.cpp:1764`), and for the item in the frame block only
  (`src/plugin.cpp:1635`). A drop that a hopper took, or an item that fell with its
  frame because the block behind it was removed, is replaced by a second one.
* No failing call (`Only` in `Protected`). After a commit whose reply was
  lost (`src/plugin.cpp:1424`) the index does not have the listing that the table
  has, until the next restart.
* No failing toggle since the start, and for an actor no kill in the middle or
  before a save (`used.faults` and `used.torn` in `Closable`). `deactivate`
  removes the actor's tag before the service call (`src/plugin.cpp:1880`), and
  `toggleActor` adds it after `activateMarket` (`src/plugin.cpp:1862`). If the
  call throws, or the process is killed in between or before the game has saved
  the actor, the market stays open and the exchanger does not find it at the
  actor. A block has no tag: its market can be closed after every kill.
* A market opened while a query runs (`late` in `NeverOlder`). The query has not
  asked for the market, but its snapshot replaces `hologram_books_`
  (`src/plugin.cpp:2644`), and a reconcile (`src/plugin.cpp:2980`) then puts an
  empty book over what the label showed. The next query puts it right, which is
  `LabelCatchesUp`.
* What this process has put on a label (`text` in `NeverOlder`). A label that
  comes back with its chunk may show any earlier book until it is refreshed.

Seen while modelling and not stated by a property: the 20-tick task of one load
ends the grace period of the next load of that chunk (`src/plugin.cpp:2936`), and
the duplicate label is removed later; `topOfBooks` reads in three statements, so
one snapshot may mix two states of the book; claim rows are inserted at every
join and trade form and never deleted (`src/plugin.cpp:2532`).

## Proofs

All proofs are checked by TLAPS; they hold for every value of the constants
that satisfies the `ASSUME` of the module: any number of players, orders,
transfers, listings, failing calls and kills, any prices and limits.

`FiniteSums` has the lemmas about the community modules' `SumFunctionOnSet` that
the conservation proofs need: a sum is an integer, changes as one of its values
changes, grows by a new element, adds up and scales. The sum is a fold that takes
its elements in the order of `CHOOSE`; that this order does not matter
(`SumRemove`) and every other fact that would be an induction is proved by a
counterexample with the least cardinality. These sums are why the models assume
`IsFiniteSet(Players)` and `IsFiniteSet(Slots)`.

### ExchangeOrders

`ExchangeOrdersProofs`: `TypeCorrect`, `ReserveExactHolds`,
`NoCrossedBookHolds`, `NoOrphanOrdersHolds`, `BindingsMatchMarketsHolds`,
`StatusAgreesHolds`. The properties speak of the committed tables, but the next
commit publishes the working ones, so `Inductive` says of both that every row is
good (`GoodRow`: reserve, status and quantities agree, the market is active or
can be resumed) and that no two cross (`GoodBook`), of the working table for all
rows but the incoming one. `IncomingRow` ties that row to the loop's local
variables. At `finishBuy` and `finishSell` the loop has ended because the
quantity is used up, and the row does not rest, or because the query has no row
left, and then nothing crosses it (`SettleKeepsBook`). A fill keeps the book
because it lowers quantities only (`TradeKeepsBook`); a market may be paused
because open rows of a reopenable market are allowed; `retireMarket` may clear
`reopenable` because its loop has closed every row of the market. The proof has
one lemma per action.

`ExchangeCallProofs` builds on it:

* `MoneyConservedHolds`, `ItemsConservedHolds`. `Conserved` says of the working
  tables what the properties say of the committed ones. In the middle of a loop
  the incoming row still has the reserve or the quantity it came with, so its
  share is computed from the loop's local variables (`HeldMoney`, `BeingSold`).
  `AccountsOpened` (who has no account row has no money and no order) is needed
  when `ensureAccount` adds one, `InSync` when a call starts.
* `PriceTimePriorityHolds` and `MakersSettledExactlyHolds` are about whole calls.
  `InLoop` compares the working tables with the committed ones in every state of
  the loop: rows differ in their quantities only (`LoopRows`), a row is touched
  only if every better or older row of somebody else is used up (`LoopPriority`),
  and every other player has exactly what his rows traded so far (`LoopSettled`).
  The commit is then the comparison the properties make.

### UmoneySettlement

* `TypeCorrect`, `FundingSufficesHolds` and `BackingExactHolds` hold whatever
  fails. Type correctness needs `Control`: the sweep only debits balances it has
  listed, funding is only entered with a shortage, and `mutate` is only entered
  with the balance at the baseline. `BackingExact` needs `BackInv`: what the
  exchange holds is the sum of what each transfer has put in or taken out by its
  status (`Balanced`), unless the plugin refuses to start (`Refused`), and what
  each stage and the list of the pass know of the status of their transfers
  (`StatusKnows`), so that no transfer is credited or failed twice.
* `ExactlyOnceHolds` is about behaviours that are `Calm` so far: no call has
  failed, and either there were kills but no power losses and no offline changes by
  others, or power losses only. The finding above shows why a failing call must be
  excluded. `OnceInv` says that at most one transfer is open, that the balance
  tells whether it was applied (`OpenTold`), where it can be (`OpenPlace`: nowhere
  while players act), and what each stage knows of it (`StageKnows`). It is
  inductive while `Calm` stays (`StepOnce`); nothing makes a behaviour calm again
  (`CalmBefore`).
* `DurableUnderPowerLossHolds` needs, besides, that there was no kill and no change
  by others; the finding shows why a kill must be excluded. `Synced` says that
  file and disk differ only between the two halves of `UmoneyGateway::change`.
* `NothingMintedHolds` and `ConservedWhenSettledHolds` are about `Calm` behaviours
  too. They combine `Balanced` with `WalletExact`: the wallets hold what they held at the
  start, plus what other plugins did, plus what each transfer moved, which by
  `ExactlyOnce` is its amount or nothing. `LegacyExact` is about the transfers
  of the old bridge, whose amounts never reach the wallet.

The theorems about money hold from every start. `Balanced` has `hidden` on its other
side: the free balances that the first start let in. That `hidden` does not
change, and is 0 where the start was refused (`Refused`), is what the properties
need of it.

### FrameSale, TradeForms, MarketObjects

`FrameSaleProofs` first proves what each action can do to the tables
(`RowEffect`), to the capture (`CaptureEffect`), to the items (`ItemEffect`) and
to the index (`IndexEffect`); each invariant is then a proof over a few effects.
The strengthenings are

* `BoundInv` for `BindingExact` and `MoneyExact`: a listing is open exactly if
  it is the bound one, and has a buyer exactly from its payment on;
* `SoldInv`: drops and settlements are of listings that were sold, and as long as
  no drop was missed (`late`) a listing has one drop at most and none while it is
  settled; the same for the drops the game saved;
* `ProtectedInv` for `Protected`: while the frame is listed no capture for a
  market toggle is pending, although it was queued ticks before;
* `PendingInv` for `SoldFromFrame`: as long as a review, a purchase or a
  settlement of the bound listing is under way its entry stays in the index, so
  that the frame still holds what the capture has seen;
* `SeenInv` and `GoneInv` for `ItemsExact`, which says of each step that it moves
  an item from one of hands, frame, ground and owed to another (`Total`). It is
  conditional on the property's own conditions. A kill that leaves the world as
  it was moves nothing; one that goes back to a save ends the condition.

`TradeFormsProofs`: `DefaultIsNearestHolds` is arithmetic (`NearestPrice`: the
rounding of `defaultTradePrice`, with the grid's ends). `OneEffectPerClickHolds`
needs `GateInv`: a click's packets end before the cooldown does, measured from
the accepted one. `OpenFormsExactHolds` and `OrdersAsReviewedHolds` need
`FormsInv`: who is offline sees no form, and a queued submission is the request
its player confirmed.

`MarketObjectsProofs`: `ClosableHolds` (`MarketInv`: a bound market is the one
the index knows, or the index knows none; `TagInv`: index and database agree
until a toggle throws, the tag until the object is torn), `NoStrangeLabelHolds` (`LabelInv`: while a
strange label is shown or may still return, the second task of the last load is
queued), `NeverOlderHolds` (`MonoInv`: versions pass in order from the database
to the worker, the snapshot, the books and the label; at most one worker reads;
`LateInv`: unless the market was opened under a running query, worker, snapshot
and books are about it, and what the label says is in the books).

### InventoryEscrow

`InventoryEscrowProofs` has the same layout: what a step can do to the tables
(`RowEffect`), to the inventory (`StackEffect`: any subset of the slots of one
write, the player using items up, a kill that takes the inventory back or one
that leaves a slot of a claim empty) and
to the loops (`RunEffect`), then one invariant after the other.

* `TypeCorrect`. `TypeInv` is stronger: a mark names a row that exists, a receipt
  one that was tagged; what `run.todo` lists exists, and a listed delivery has
  something unreserved (`Lists`); at `tag`, `add` and `clear` the row has the
  status that the last call left (`Current`).
* `ReservationExactHolds` is inductive with the types: `Reserved` and `Applied`
  are sums over the claims, and each call changes one term and one row.
* `CleanedLeftNoMarkHolds` needs `Marks`: the loops reach a row only through its
  status, so it also says that the escrow at `tag` and the claim at `add` have no
  mark yet; without it tagging could leave marks that the row does not count.
* `ImplementsCustodyHolds`, the refinement. A write of marks changes no item's
  worth as long as its row gives the old and the new mark the same one
  (`WorthWritten`); so it is enough to follow the commits that change what a mark
  means. `TaggedExactly` says that the stacks an escrow marked hold, when it
  becomes TAGGED, exactly its `tagged`; `AppliedExactly` that those of a claim
  hold, when it becomes APPLIED, exactly its `applied`. The first follows from
  `Marks`. The second needs `Fits`: the marks of a PREPARED claim never hold more
  than its quantity, so that the least of both, which is what a claim found again
  after a kill applies, is what is marked. `CountInv` bounds the ids by
  `MaxEscrows`, which is the `Escrows` of `ItemCustody`.
  A kill with an empty slot is a `lose`: the stack was an APPLIED claim's, so its
  items were in the player's hands.
* `ItemsExactHolds` follows from the refinement: each step of `ItemCustody` keeps
  what is held, in custody, due, elsewhere and gone (`GatheredStays`); `LostInv`
  bounds what is gone by a stack per kill.

The last two are about durable marks, like their properties; a durable behaviour
never becomes one of the other kind (`StaysDurable`).

### Only model-checked

`SettlesAndSweeps`, `EscrowsFinish`, `DeliveriesArrive`, `PaidArrives`,
`ClickOpensForm` and `LabelCatchesUp`: liveness under fairness, out of the
prover's reach. Every safety property that a passing run checks is
proved.

## Not modelled

* Schema migrations, connection handling, texts and languages, configuration
  parsing: no state that the properties depend on.
* Item identity and NBT (`item_identity.cpp`, `nbt_codec.cpp`) and the structure
  reader: pure functions over byte strings. Items are compared by identity; a
  structure that cannot be read is a capture that fails.
* `textFormValues`, the JSON reader of a form's answer; a malformed answer takes
  the path of `Garbage`.
* Commands (`/exchange ...`): `addbalance` is an action of
  `ExchangeOrders`, `claim` is `claimDeliveries`, `give` hands out the tool;
  `balance`, `orders` and `status` show state. The cancel button of the orders
  form is `cancelOrder`.
* The Windows build, where `syncUmoneyData` does nothing: `AppliedIsDurable` and
  `DurableUnderPowerLoss` cannot hold there. Concurrent servers on one database:
  the plugin assumes it is alone.

## Plan

1. An abstract exchange that `ExchangeOrders` implements, and the proof of its
   step simulation.
2. Page limits of the settlement pass; `buyFundingRequired` as an operator checked
   against what a market buy pays.
