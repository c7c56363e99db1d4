----------------------------- MODULE TradeForms -----------------------------
(***************************************************************************)
(* The dialog in which a player trades at one market object: the gate that *)
(* drops repeated packets of a click (src/interaction_gate.cpp), the three *)
(* forms and the submission, each of them a task of a later tick           *)
(* (src/plugin.cpp), and what is offered, prefilled and accepted in them   *)
(* (src/trade_form.cpp).                                                   *)
(*                                                                         *)
(* The order book is what orderBook() returns at that moment; other        *)
(* players' orders, and the matching of the ones placed here, change it at *)
(* any time. What an accepted request does is modelled in ExchangeOrders,  *)
(* UmoneySettlement and InventoryEscrow.                                   *)
(***************************************************************************)
EXTENDS Integers, Sequences, FiniteSets

CONSTANTS
    Players,
    Configs,      \* the configured limits an administrator may have chosen
    Numbers,      \* whole numbers a player may type
    Garbage,      \* text that is not a whole number
    Books,        \* what orderBook() may return: best bid, best ask, last price
    Unit,         \* cents in a unit of currency
    FirstPrice,   \* the reference price of a book without orders and trades
    Cooldown,     \* the gate's cooldown, in ticks
    MaxPackets,   \* bound: packets of a click
    MaxTasks,     \* bound: tasks waiting
    MaxMishaps    \* bound: service calls that throw, objects removed, quits and
                  \* restarts, together

\* Config::validate.
ValidConfig(c) ==
    /\ {c.min, c.max, c.step, c.quantity} \subseteq Nat \ {0}
    /\ c.min <= c.max
    /\ \A v \in {c.min, c.max, c.step} : v % Unit = 0

ASSUME ConstantsAssumption ==
    /\ Unit \in Nat \ {0}
    /\ \A c \in Configs : ValidConfig(c)
    /\ Numbers \subseteq Int /\ Garbage \notin Numbers
    /\ Cooldown \in Nat \ {0}
    /\ \A b \in Books : {b.bid, b.ask, b.last} \subseteq Nat
    /\ {FirstPrice, MaxPackets, MaxTasks, MaxMishaps} \subseteq Nat

VARIABLES
    config,     \* config_.market
    market,     \* the object's market in markets_; 0 is none
    id,         \* the id the object's market has, or will have
    active,     \* whether that market is active in exchange_markets
    book,       \* the order book
    online,     \* who is on the server
    open,       \* open_trade_forms_
    form,       \* the trade form each player sees
    tasks,      \* the tasks of the next ticks, in order
    age,        \* ticks since the gate accepted a player, up to Cooldown
    click,      \* the packets of a player's click that are still to come
    strays,     \* history: requests the service got that were not reviewed
    used        \* how many mishaps there were, and whether a call threw

vars == <<config, market, id, active, book, online, open, form, tasks, age,
          click, strays, used>>

object == <<market, id, active>>
gate == <<age, click>>

-----------------------------------------------------------------------------
(* trade_form.cpp *)

Actions == {"LimitBuy", "LimitSell", "MarketBuy", "MarketSell"}

tradeActionUsesPrice(action) == action \in {"LimitBuy", "LimitSell"}
tradeActionSide(action) ==
    IF action \in {"LimitBuy", "MarketBuy"} THEN "BUY" ELSE "SELL"
tradeActionOrderType(action) ==
    IF tradeActionUsesPrice(action) THEN "LIMIT" ELSE "MARKET"

availableTradeActions(b) ==
    {"LimitBuy", "LimitSell"}
        \cup (IF b.ask > 0 THEN {"MarketBuy"} ELSE {})
        \cup (IF b.bid > 0 THEN {"MarketSell"} ELSE {})

\* openTradeForm: the price a default is derived from.
Reference(b) ==
    CASE b.bid > 0 /\ b.ask > 0 -> \* std::midpoint rounds towards the bid
           IF b.bid <= b.ask THEN b.bid + (b.ask - b.bid) \div 2
                             ELSE b.bid - (b.bid - b.ask) \div 2
      [] b.bid > 0 /\ b.ask = 0 -> b.bid
      [] b.bid = 0 /\ b.ask > 0 -> b.ask
      [] OTHER -> IF b.last > 0 THEN b.last ELSE FirstPrice

Clamp(v, low, high) == IF v < low THEN low ELSE IF v > high THEN high ELSE v

\* Fault: the remainder is dropped.
RoundsDown(c, reference) ==
    c.min + c.step * ((Clamp(reference, c.min, c.max) - c.min) \div c.step)

defaultTradePrice(c, reference) ==
    LET offset == Clamp(reference, c.min, c.max) - c.min
        steps == offset \div c.step
        up == /\ offset % c.step >= (c.step \div 2) + (c.step % 2)
              /\ c.min + steps * c.step <= c.max - c.step
    IN  c.min + c.step * (IF up THEN steps + 1 ELSE steps)

\* parseWholeNumber: text is a whole number or Garbage.
Whole(text, low, high) == text # Garbage /\ low <= text /\ text <= high

parseTradeQuantity(text) == Whole(text, 1, config.quantity)

parseTradePrice(text) ==
    /\ Whole(text, config.min \div Unit, config.max \div Unit)
    /\ (text * Unit - config.min) % config.step = 0

Draft(action, quantity, price) ==
    [action |-> action, quantity |-> quantity,
     price |-> IF tradeActionUsesPrice(action) THEN price ELSE 0]

NoDraft == [action |-> "LimitBuy", quantity |-> 0, price |-> 0]

-----------------------------------------------------------------------------
Form == [kind: {"none", "trade", "input", "review"}, market: Nat,
         offer: SUBSET Actions,
         draft: [action: Actions, quantity: Nat, price: Nat]]
NoForm == [kind |-> "none", market |-> 0, offer |-> {}, draft |-> NoDraft]

\* review is history: what the review form said that led to a submission.
Nothing == [player |-> {}, market |-> 0, side |-> "BUY", type |-> "LIMIT",
            quantity |-> 0, price |-> 0]
Task(kind, p, m, draft) ==
    [kind |-> kind, player |-> p, market |-> m, draft |-> draft,
     review |-> Nothing]

NoClick == [tool |-> "none", left |-> 0, age |-> 0, accepted |-> 0]
NoUse == [mishaps |-> 0, threw |-> FALSE]
Mishap(throws) ==
    /\ used.mishaps < MaxMishaps
    /\ used' = [mishaps |-> used.mishaps + 1, threw |-> used.threw \/ throws]
Fault == Mishap(TRUE)

Init ==
    /\ config \in Configs
    /\ market = 0 /\ id = 1 /\ active = FALSE
    /\ book \in Books
    /\ online = Players
    /\ open = {}
    /\ form = [p \in Players |-> NoForm]
    /\ tasks = <<>>
    /\ age = [p \in Players |-> Cooldown]
    /\ click = [p \in Players |-> NoClick]
    /\ strays = {}
    /\ used = NoUse

Queue(kind, p, m, draft) == tasks' = Append(tasks, Task(kind, p, m, draft))
Room == Len(tasks) < MaxTasks

-----------------------------------------------------------------------------
(* Clicks *)

\* A player clicks the object, with the exchanger or without; the client sends
\* several packets, all of them within the cooldown.
startClick(p, tool, n) ==
    /\ p \in online
    /\ click[p].left = 0
    /\ click' = [click EXCEPT ![p] = [tool |-> tool, left |-> n, age |-> 0,
                                      accepted |-> 0]]
    /\ UNCHANGED <<config, object, book, online, open, form, tasks, age,
                   strays, used>>

\* toggleBlock: closeMarket keeps the orders, and activateMarket resumes the
\* market that was closed here, under its id.
toggleMarket ==
    \/ \* canAdmin() does not hold
       UNCHANGED <<object, used>>
    \/ /\ market # 0
       /\ active' = FALSE
       /\ \/ market' = 0 /\ UNCHANGED used
          \/ UNCHANGED market /\ Fault
       /\ UNCHANGED id
    \/ /\ market = 0
       /\ active' = TRUE
       /\ market' = id
       /\ UNCHANGED <<id, used>>

\* Fault: the cooldown is not looked at.
GateOpen(p) == TRUE

\* InteractionGate::accept.
accept(p) == age[p] >= Cooldown

\* onPlayerInteract, onPlayerInteractActor: the next packet of a click.
Packet(p) ==
    /\ p \in online /\ click[p].left > 0
    /\ Room

\* One packet less is to come; effect tells whether this one was accepted.
Taken(p, effect) ==
    LET c == [click[p] EXCEPT !.left = @ - 1, !.accepted = @ + effect]
    IN  IF c.left > 0 THEN c ELSE [NoClick EXCEPT !.accepted = c.accepted]

interactRejected(p) ==
    /\ Packet(p)
    /\ \/ click[p].tool = "hand" /\ market = 0
       \/ ~accept(p)
    /\ click' = [click EXCEPT ![p] = Taken(p, 0)]
    /\ UNCHANGED <<config, object, book, online, open, form, tasks, age,
                   strays, used>>

interact(p) ==
    /\ Packet(p)
    /\ click[p].tool = "hand" => market # 0
    /\ accept(p)
    /\ age' = [age EXCEPT ![p] = 0]
    /\ click' = [click EXCEPT ![p] = Taken(p, 1)]
    /\ \/ /\ click[p].tool = "exchanger"
          /\ toggleMarket
          /\ UNCHANGED tasks
       \/ /\ click[p].tool = "hand"
          /\ Queue("trade", p, market, NoDraft)
          /\ UNCHANGED <<object, used>>
    /\ UNCHANGED <<config, book, online, open, form, strays>>

\* Time passes; the packets of a click do not take longer than the cooldown.
tick ==
    /\ \A p \in Players : click[p].left > 0 => click[p].age < Cooldown - 1
    /\ \E p \in Players : age[p] < Cooldown
    /\ age' = [p \in Players |-> Clamp(age[p] + 1, 0, Cooldown)]
    /\ click' = [p \in Players |->
                    IF click[p].left = 0 THEN click[p]
                    ELSE [click[p] EXCEPT !.age = @ + 1]]
    /\ UNCHANGED <<config, object, book, online, open, form, tasks, strays, used>>

-----------------------------------------------------------------------------
(* Tasks: the next one runs for its player, if that one is still there *)

Runs(kind) ==
    /\ tasks # <<>>
    /\ Head(tasks).kind = kind
    /\ Head(tasks).player \in online

Job == Head(tasks)

dropTask ==
    /\ tasks # <<>>
    /\ Job.player \notin online
    /\ tasks' = Tail(tasks)
    /\ UNCHANGED <<config, object, book, online, open, form, gate, strays, used>>

\* A form is not opened: one is open, the market is gone, or a call throws.
Ends == tasks' = Tail(tasks) /\ UNCHANGED <<open, form>>
NotOpened ==
    /\ Ends
    /\ \/ (Job.player \in open \/ Job.market # market) /\ UNCHANGED used
       \/ Job.player \notin open /\ Job.market = market /\ Fault

Opens(kind, offer, draft) ==
    /\ Job.player \notin open
    /\ Job.market = market
    /\ open' = open \cup {Job.player}
    /\ form' = [form EXCEPT ![Job.player] =
                   [kind |-> kind, market |-> market, offer |-> offer,
                    draft |-> draft]]
    /\ tasks' = Tail(tasks)
    /\ UNCHANGED used

openTradeForm ==
    /\ Runs("trade")
    /\ \/ NotOpened
       \/ Opens("trade", availableTradeActions(book),
                [NoDraft EXCEPT !.price =
                    defaultTradePrice(config, Reference(book))])
    /\ UNCHANGED <<config, object, book, online, gate, strays>>

Offered(draft) == draft.action \in availableTradeActions(book)

\* Fault: the player stays in open_trade_forms_.
StaysOpen == open' = open \cup {Job.player}

ErasedAgain == UNCHANGED open

\* The order that would match is gone: back to the first form.
matchingOrderGone ==
    /\ Job.player \notin open
    /\ Job.market = market
    /\ ~Offered(Job.draft)
    /\ ErasedAgain
    /\ tasks' = Append(Tail(tasks), Task("trade", Job.player, market, NoDraft))
    /\ UNCHANGED <<form, used>>

openTradeInputForm ==
    /\ Runs("input")
    /\ \/ NotOpened
       \/ matchingOrderGone
       \/ Offered(Job.draft) /\ Opens("input", {}, Job.draft)
    /\ UNCHANGED <<config, object, book, online, gate, strays>>

openTradeReviewForm ==
    /\ Runs("review")
    /\ \/ NotOpened
       \/ matchingOrderGone
       \/ Offered(Job.draft) /\ Opens("review", {}, Job.draft)
    /\ UNCHANGED <<config, object, book, online, gate, strays>>

-----------------------------------------------------------------------------
(* Answers *)

Answers(p, kind) ==
    /\ form[p].kind = kind
    /\ Room
    /\ form' = [form EXCEPT ![p] = NoForm]
    /\ open' = open \ {p}

\* A button of the first form.
chooseAction(p, action) ==
    /\ Answers(p, "trade")
    /\ action \in form[p].offer
    /\ Queue("input", p, form[p].market,
             Draft(action, 1, form[p].draft.price))
    /\ UNCHANGED <<config, object, book, online, gate, strays, used>>

\* The input form: text for the quantity and, for a limit order, the price.
enterDraft(p, quantity, price) ==
    LET old == form[p].draft
        fine == /\ parseTradeQuantity(quantity)
                /\ tradeActionUsesPrice(old.action) => parseTradePrice(price)
    IN  /\ Answers(p, "input")
        /\ IF fine
           THEN Queue("review", p, form[p].market,
                      Draft(old.action, quantity, price * Unit))
           ELSE Queue("input", p, form[p].market, old)
        /\ UNCHANGED <<config, object, book, online, gate, strays,
                       used>>

\* What tradeReviewText tells the player that is confirmed.
Reviewed(p) ==
    LET d == form[p].draft
        named == [LimitBuy |-> <<"BUY", "LIMIT">>,
                  LimitSell |-> <<"SELL", "LIMIT">>,
                  MarketBuy |-> <<"BUY", "MARKET">>,
                  MarketSell |-> <<"SELL", "MARKET">>][d.action]
    IN  [player |-> {p}, market |-> form[p].market, side |-> named[1],
         type |-> named[2], quantity |-> d.quantity,
         price |-> IF named[2] = "LIMIT" THEN d.price ELSE 0]

confirmDraft(p) ==
    /\ Answers(p, "review")
    /\ tasks' = Append(tasks,
                       [Task("submit", p, form[p].market, form[p].draft)
                           EXCEPT !.review = Reviewed(p)])
    /\ UNCHANGED <<config, object, book, online, gate, strays, used>>

editDraft(p) ==
    /\ Answers(p, "review")
    /\ Queue("input", p, form[p].market, form[p].draft)
    /\ UNCHANGED <<config, object, book, online, gate, strays, used>>

closeForm(p) ==
    /\ form[p] # NoForm
    /\ form' = [form EXCEPT ![p] = NoForm]
    /\ open' = open \ {p}
    /\ UNCHANGED <<config, object, book, online, tasks, gate, strays,
                   used>>

-----------------------------------------------------------------------------
(* The submission *)

InRange(draft) ==
    /\ 1 <= draft.quantity /\ draft.quantity <= config.quantity
    /\ tradeActionUsesPrice(draft.action) =>
          /\ config.min <= draft.price /\ draft.price <= config.max
          /\ (draft.price - config.min) % config.step = 0
          /\ draft.price % Unit = 0

\* Fault: a direct purchase is sent as a limit order.
PricedRequest(p, m, d) ==
    [player |-> {p}, market |-> m, side |-> tradeActionSide(d.action),
     type |-> "LIMIT", quantity |-> d.quantity, price |-> d.price]

Request(p, m, d) ==
    [player |-> {p}, market |-> m, side |-> tradeActionSide(d.action),
     type |-> tradeActionOrderType(d.action), quantity |-> d.quantity,
     price |-> IF tradeActionUsesPrice(d.action) THEN d.price ELSE 0]

\* submitTradeDraft, and the service's refusal of a market that is closed.
Accepts ==
    /\ InRange(Job.draft)
    /\ Job.market = market /\ active
    /\ ~tradeActionUsesPrice(Job.draft.action) => Offered(Job.draft)

submitTradeDraft ==
    /\ Runs("submit")
    /\ tasks' = Tail(tasks)
    /\ \/ /\ Accepts
          /\ strays' = strays \cup
                ({Request(Job.player, market, Job.draft)} \ {Job.review})
          /\ book' \in Books
          /\ UNCHANGED used
       \/ ~Accepts /\ UNCHANGED <<strays, book, used>>
       \/ Accepts /\ Fault /\ UNCHANGED <<strays, book>>
    /\ UNCHANGED <<config, object, online, open, form, gate>>

-----------------------------------------------------------------------------
(* Others *)

\* Other players place and cancel orders on the book.
otherOrders ==
    /\ book' \in Books
    /\ book' # book
    /\ UNCHANGED <<config, object, online, open, form, tasks, gate, strays, used>>

\* The object is broken or removed: retireMarket. Its next market is a new one.
removeObject ==
    /\ market # 0
    /\ Mishap(FALSE)
    /\ market' = 0 /\ active' = FALSE
    /\ id' = id + 1
    /\ UNCHANGED <<config, book, online, open, form, tasks, gate, strays>>

quit(p) ==
    /\ p \in online
    /\ Mishap(FALSE)
    /\ online' = online \ {p}
    /\ open' = open \ {p}
    /\ form' = [form EXCEPT ![p] = NoForm]
    /\ click' = [click EXCEPT ![p] = NoClick]
    /\ UNCHANGED <<config, object, book, tasks, age, strays>>

join(p) ==
    /\ p \notin online
    /\ online' = online \cup {p}
    /\ open' = open \ {p}
    /\ UNCHANGED <<config, object, book, form, tasks, gate, strays,
                   used>>

\* The server stops and starts: nobody is online, the plugin's memory is gone
\* and markets_ holds the active ones.
restart ==
    /\ Mishap(FALSE)
    /\ online' = {}
    /\ market' = IF active THEN market ELSE 0
    /\ open' = {} /\ tasks' = <<>>
    /\ form' = [p \in Players |-> NoForm]
    /\ age' = [p \in Players |-> Cooldown]
    /\ click' = [p \in Players |-> NoClick]
    /\ UNCHANGED <<config, id, active, book, strays>>

-----------------------------------------------------------------------------
Texts == Numbers \cup {Garbage}

runTask == \/ dropTask \/ openTradeForm \/ openTradeInputForm
           \/ openTradeReviewForm \/ submitTradeDraft

player(p) ==
    \/ \E tool \in {"hand", "exchanger"}, n \in 1 .. MaxPackets :
          startClick(p, tool, n)
    \/ interact(p) \/ interactRejected(p)
    \/ \E action \in Actions : chooseAction(p, action)
    \/ \E quantity, price \in Texts : enterDraft(p, quantity, price)
    \/ confirmDraft(p) \/ editDraft(p) \/ closeForm(p)
    \/ quit(p) \/ join(p)

Next == \/ \E p \in Players : player(p)
        \/ runTask \/ tick \/ otherOrders \/ removeObject \/ restart

Spec == Init /\ [][Next]_vars

\* The scheduler runs the tasks it was given.
FairSpec == Spec /\ WF_vars(runTask)

-----------------------------------------------------------------------------
(* What must hold *)

\* Whoever is in open_trade_forms_ sees a trade form, and the other way round:
\* nobody is locked out of the market by a form that was never shown, and no
\* player gets a second form over an open one, although the set and the form
\* are changed by callbacks, tasks of later ticks, quits and exceptions.
OpenFormsExact == open = {p \in Players : form[p] # NoForm}

\* The default price is the allowed price nearest to the reference price,
\* whatever that is (defaultTradePrice; reference definition over the grid).
Grid(c) == {c.min + k * c.step : k \in 0 .. (c.max - c.min) \div c.step}
Distance(x, y) == IF x < y THEN y - x ELSE x - y
DefaultIsNearest ==
    \A r \in 0 .. config.max + config.step :
        LET d == defaultTradePrice(config, r)
        IN  /\ d \in Grid(config)
            /\ \A g \in Grid(config) : Distance(d, r) <= Distance(g, r)

\* The order the service gets is the one its player confirmed, with the
\* market, side, kind, quantity and price of the review: the draft is handed on
\* over callbacks and tasks while other forms open, the market is closed,
\* retired and opened again and players come and go.
OrdersAsReviewed == strays = {}

\* The packets of one click open one form or toggle the market once
\* (InteractionGate::accept).
OneEffectPerClick == \A p \in Players : click[p].accepted <= 1

\* A player whose click was accepted gets the form, unless the player leaves,
\* the market goes or a call throws.
Waiting(p) ==
    \E k \in DOMAIN tasks : tasks[k] = Task("trade", p, market, NoDraft)
ClickOpensForm ==
    \A p \in Players :
        Waiting(p) ~> \/ form[p] # NoForm \/ p \notin online
                      \/ market = 0 \/ used.threw

=============================================================================
