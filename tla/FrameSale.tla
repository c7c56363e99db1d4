------------------------------ MODULE FrameSale ------------------------------
(***************************************************************************)
(* The sale of the item in one item frame: exchange_frame_listings and its *)
(* bindings (src/exchange_service.cpp), the plugin's index of listed       *)
(* frames, the forms, the captures of a frame's content that end ticks     *)
(* later, the settlement of a paid listing and its recovery, the pickup    *)
(* (src/plugin.cpp).                                                       *)
(*                                                                         *)
(* A handler runs on the main thread without interruption; the service     *)
(* calls in it may throw, with or without their commit. A kill between two *)
(* calls of a handler leaves what a throw there and a kill after it leave. *)
(***************************************************************************)
EXTENDS Integers, Sequences, FiniteSets, Functions

CONSTANTS
    Players,
    Ops,           \* players for whom isOp() holds
    Items,         \* item prototypes
    NoItem,        \* an empty frame
    Prices,        \* prices a player may enter
    Stock,         \* how many of each item the players own at the start
    Balance,       \* cents each player has at the start
    MaxAttempts,   \* FrameCaptureMaxAttempts
    MaxListings,   \* bound: listings
    MaxMishaps     \* bound: what goes wrong, of all kinds together (Use)

ASSUME ConstantsAssumption ==
    /\ Ops \subseteq Players
    /\ NoItem \notin Items
    /\ Prices \subseteq Nat \ {0}
    /\ MaxAttempts \in Nat \ {0}
    /\ {Stock, Balance, MaxListings, MaxMishaps} \subseteq Nat

VARIABLES
    listings,  \* exchange_frame_listings; the id is the index
    binding,   \* exchange_frame_listing_bindings of the frame; 0 is none
    balance,   \* exchange_accounts.balance_cents
    index,     \* frame_listing_index_ of the frame; 0 is none
    market,    \* whether the frame is a market target
    frame,     \* the item in the frame
    placed,    \* whether the frame block is there
    here,      \* drops of each listing that lie in the chunk
    stored,    \* those of them that getActors() does not show: the chunk was
               \* saved with them and has not brought them back
    late,      \* history: one was looked for and missed
    away,      \* drops that went into a hopper
    held,      \* how many of each item the players have
    saved,     \* {}: the game saves at once; else what it saved last
    forms,     \* the frame form each player has open (open_frame_forms_)
    capture,   \* the pending capture of the frame (pending_frame_captures_)
    settling,  \* pending_frame_settlements_
    loaded,    \* whether the frame's chunk is in loaded_chunks_
    todo,      \* listings settleFrameListing is to be called for next
    used       \* how many things went wrong, and of which kinds

vars == <<listings, binding, balance, index, market, frame, placed, here,
          stored, late, away, held, saved, forms, capture, settling, loaded,
          todo, used>>

db == <<listings, binding, balance>>
disk == <<stored, late, saved>>
world == <<frame, placed, here, stored, late, away, held, saved>>

-----------------------------------------------------------------------------
(* Rows, forms and captures *)

Ids == 1 .. MaxListings

Listing == [seller: Players, buyer: SUBSET Players, price: Prices, item: Items,
            status: {"ACTIVE", "PAID", "DROPPED", "CLAIMED", "CANCELED"}]

Status(l) == listings[l].status
Unsettled == {"PAID", "DROPPED"}

\* A management or review form shows a listing; a price form has the item it is
\* for, and the listing whose price is changed, if there is one.
Form == [kind: {"none", "manage", "review", "price"}, listing: Nat,
         item: Items \cup {NoItem}]
NoForm == [kind |-> "none", listing |-> 0, item |-> NoItem]

\* What a capture is for is its callback; item is what the callback compares
\* with, seen what the structure was saved with.
Purposes == {"none", "toggle", "price", "save", "review", "buy", "settle",
             "verify"}
Capture == [purpose: Purposes, by: SUBSET Players, listing: Nat,
            item: Items \cup {NoItem}, price: Nat,
            seen: Items \cup {NoItem}, attempt: Nat]
NoCapture == [purpose |-> "none", by |-> {}, listing |-> 0, item |-> NoItem,
              price |-> 0, seen |-> NoItem, attempt |-> 0]

\* What goes wrong: service calls that throw; captures that cannot be read;
\* kills; frames broken, chunks unloaded and markets toggled; management forms
\* answered when their listing is over; drops that hoppers take where nobody
\* sees them; frames that fall with the block they hang on; a world that is not
\* saved any more. The kinds some properties do not hold under are remembered;
\* so is the pickup of an item whose listing is CLAIMED already, by a pickup that
\* failed or of a drop a hopper had taken, and a kill before the world was saved.
Remembered == {"faults", "stale", "hoppers", "pops", "retaken", "rollback"}
NoUse == [count |-> 0, kinds |-> {}]
Use(f) == /\ used.count < MaxMishaps
          /\ used' = [count |-> used.count + 1,
                      kinds |-> used.kinds \cup ({f} \cap Remembered)]
Fault == Use("faults")

Init ==
    /\ listings = <<>>
    /\ binding = 0
    /\ balance = [p \in Players |-> Balance]
    /\ index = 0
    /\ market = FALSE
    /\ frame = NoItem
    /\ placed = TRUE
    /\ here = [l \in Ids |-> 0]
    /\ away = [l \in Ids |-> 0]
    /\ stored = [l \in Ids |-> 0] /\ late = FALSE /\ saved = {}
    /\ held = [i \in Items |-> Stock]
    /\ forms = [p \in Players |-> NoForm]
    /\ capture = NoCapture
    /\ settling = {}
    /\ loaded = TRUE
    /\ todo = {}
    /\ used = NoUse

\* A player's event reaches the plugin between two handlers, where the frame is.
Idle == todo = {} /\ loaded

-----------------------------------------------------------------------------
(* The service calls *)

\* upsertFrameListing: the listing bound so far, if any, is canceled.
MayUpsert(row, p) ==
    binding # 0 => /\ Status(binding) = "ACTIVE"
                   /\ p \in Ops \/ listings[binding].seller = row.seller
upsertFrameListing(row) ==
    /\ listings' = Append([l \in DOMAIN listings |->
                              IF l = binding
                              THEN [listings[l] EXCEPT !.status = "CANCELED"]
                              ELSE listings[l]], row)
    /\ binding' = Len(listings) + 1

Unbind(l) == binding' = IF binding = l THEN 0 ELSE binding

\* cancelFrameListing: an already canceled one is fine.
MayCancel(l, p) ==
    \/ Status(l) = "CANCELED"
    \/ Status(l) = "ACTIVE" /\ (p \in Ops \/ listings[l].seller = p)
cancelFrameListing(l) ==
    /\ listings' = [listings EXCEPT ![l].status = "CANCELED"]
    /\ Unbind(l)

\* Fault: only the buyer's balance is written.
DebitOnly(l, p) ==
    /\ listings' = [listings EXCEPT ![l].status = "PAID", ![l].buyer = {p}]
    /\ balance' = [balance EXCEPT ![p] = @ - listings[l].price]

MayPurchase(l, p) ==
    /\ Status(l) = "ACTIVE"
    /\ listings[l].seller # p
    /\ binding = l
    /\ balance[p] >= listings[l].price
purchaseFrameListing(l, p) ==
    /\ listings' = [listings EXCEPT ![l].status = "PAID", ![l].buyer = {p}]
    /\ balance' = [balance EXCEPT ![p] = @ - listings[l].price,
                                  ![listings[l].seller] = @ + listings[l].price]

Dropped(l) == IF Status(l) = "PAID"
              THEN [listings EXCEPT ![l].status = "DROPPED"] ELSE listings

\* markFrameListingDropped of a listing that is paid, and the catch block of
\* every caller: a throw is only logged.
markFrameListingDropped(l) ==
    \/ listings' = Dropped(l) /\ UNCHANGED used
    \/ UNCHANGED listings /\ Fault

-----------------------------------------------------------------------------
(* Captures *)

Busy == capture.purpose # "none"

\* queueItemFrameCapture: the structure is saved now and read later. While
\* another capture of the frame is pending the callback fails at once, and
\* every callback of a player then only reports it.
queueItemFrameCapture(c) ==
    IF Busy THEN UNCHANGED capture
    ELSE capture' = [c EXCEPT !.seen = frame, !.attempt = 1]

By(purpose, p, l) == [NoCapture EXCEPT !.purpose = purpose, !.by = {p},
                                       !.listing = l]

\* completeItemFrameCapture cannot read the structure: it is saved again, or
\* the callback is told of the failure. The frame may be gone by now, too.
retryCapture ==
    /\ todo = {} /\ Busy
    /\ capture.attempt < MaxAttempts
    /\ Use("unread")
    /\ capture' = [capture EXCEPT !.seen = frame, !.attempt = @ + 1]
    /\ UNCHANGED <<db, world, index, market, forms, settling, loaded, todo>>

Unreadable == \/ ~placed /\ UNCHANGED used
              \/ placed /\ Use("unread")

failedCapture ==
    /\ todo = {} /\ Busy
    /\ capture.purpose # "verify"
    /\ Unreadable
    /\ capture' = NoCapture
    /\ settling' = settling \ {capture.listing}
    /\ UNCHANGED <<db, world, index, market, forms, loaded, todo>>

\* A capture ends: callbacks that end here without an effect only report.
Completes(purpose) ==
    /\ todo = {}
    /\ capture.purpose = purpose
    /\ placed

NoConflict == ~market

\* Fault: the item is not compared with what the frame holds now.
ItemNotCompared == /\ binding = capture.listing
                   /\ Status(capture.listing) = "ACTIVE"

\* The listing to be bought is the bound one, and the frame holds its item.
StillOffered == /\ binding = capture.listing
                /\ Status(capture.listing) = "ACTIVE"
                /\ capture.seen = capture.item

Asker == CHOOSE p \in capture.by : TRUE

rejectCapture ==
    /\ todo = {} /\ placed
    /\ \/ capture.purpose = "price" /\ capture.seen = NoItem
       \/ /\ capture.purpose \in {"price", "save"}
          /\ capture.item # NoItem /\ capture.seen # capture.item
       \/ capture.purpose \in {"review", "buy"} /\ ~StillOffered
       \/ capture.purpose = "save" /\ ~NoConflict
       \/ capture.purpose = "buy" /\ ~MayPurchase(capture.listing, Asker)
       \/ /\ capture.purpose \in {"price", "review"}
          /\ forms[Asker] # NoForm
    /\ capture' = NoCapture
    /\ UNCHANGED <<db, world, index, market, forms, settling, loaded, todo,
                   used>>

-----------------------------------------------------------------------------
(* The price stick: listing, new price, cancel *)

\* handlePriceStick. The management form is opened a tick later, after the
\* same checks.
handlePriceStick(p) ==
    /\ Idle /\ placed /\ ~market
    /\ \/ /\ binding = 0
          /\ index' = 0
          /\ queueItemFrameCapture(By("price", p, 0))
          /\ UNCHANGED <<forms, todo>>
       \/ /\ binding # 0
          /\ index' = binding
          /\ todo' = IF Status(binding) \in Unsettled THEN {binding} ELSE {}
          /\ forms' = IF MayCancel(binding, p) /\ forms[p] = NoForm
                      THEN [forms EXCEPT ![p] = [NoForm EXCEPT
                              !.kind = "manage", !.listing = binding]]
                      ELSE forms
          /\ UNCHANGED capture
    /\ UNCHANGED <<db, world, market, settling, loaded, used>>

\* A form is answered. Nothing closes it when its listing is sold, canceled or
\* replaced meanwhile.
Answers(p, kind) ==
    /\ Idle
    /\ forms[p].kind = kind
    /\ forms' = [forms EXCEPT ![p] = NoForm]

CountStale(p) ==
    IF binding = forms[p].listing /\ Status(binding) = "ACTIVE"
    THEN UNCHANGED used ELSE Use("stale")

changePrice(p) ==
    /\ Answers(p, "manage")
    /\ queueItemFrameCapture([By("price", p, forms[p].listing) EXCEPT
                                !.item = listings[forms[p].listing].item])
    /\ CountStale(p)
    /\ UNCHANGED <<db, world, index, market, settling, loaded, todo>>

\* The cancel button: the index entry of the frame is erased when the call
\* returns.
cancelListing(p) ==
    /\ Answers(p, "manage")
    /\ \/ /\ MayCancel(forms[p].listing, p)
          /\ cancelFrameListing(forms[p].listing)
          /\ \/ index' = 0 /\ CountStale(p)
             \/ UNCHANGED index /\ Fault
       \/ /\ ~MayCancel(forms[p].listing, p)
          /\ CountStale(p)
          /\ UNCHANGED <<listings, binding, index>>
    /\ UNCHANGED <<balance, world, market, capture, settling, loaded, todo>>

closeForm(p) ==
    /\ todo = {}
    /\ forms[p] # NoForm
    /\ forms' = [forms EXCEPT ![p] = NoForm]
    /\ UNCHANGED <<db, world, index, market, capture, settling, loaded, todo,
                   used>>

\* The callback of queueFramePriceCapture: openFramePriceForm.
openPriceForm ==
    /\ Completes("price")
    /\ capture.seen # NoItem
    /\ capture.item \in {NoItem, capture.seen}
    /\ forms[Asker] = NoForm
    /\ capture' = NoCapture
    /\ forms' = [forms EXCEPT ![Asker] = [kind |-> "price",
                                          listing |-> capture.listing,
                                          item |-> capture.seen]]
    /\ UNCHANGED <<db, world, index, market, settling, loaded, todo, used>>

submitPrice(p, price) ==
    /\ Answers(p, "price")
    /\ queueItemFrameCapture([By("save", p, forms[p].listing) EXCEPT
                                !.item = forms[p].item, !.price = price])
    /\ UNCHANGED <<db, world, index, market, settling, loaded, todo, used>>

\* A new price keeps the seller of the listing it is for, also for an operator.
NewListing ==
    [seller |-> IF capture.listing = 0 THEN Asker
                                       ELSE listings[capture.listing].seller,
     buyer |-> {}, price |-> capture.price, item |-> capture.item,
     status |-> "ACTIVE"]

saveListing ==
    /\ Completes("save")
    /\ capture.seen = capture.item
    /\ NoConflict
    /\ capture' = NoCapture
    /\ \/ /\ MayUpsert(NewListing, Asker)
          /\ Len(listings) < MaxListings
          /\ upsertFrameListing(NewListing)
          /\ \/ index' = Len(listings) + 1 /\ UNCHANGED used
             \/ UNCHANGED index /\ Fault
       \/ /\ ~MayUpsert(NewListing, Asker) \/ Len(listings) = MaxListings
          /\ UNCHANGED <<listings, binding, index, used>>
    /\ UNCHANGED <<balance, world, market, forms, settling, loaded, todo>>

-----------------------------------------------------------------------------
(* Buying *)

\* A left click on a listed frame.
leftClick(p) ==
    /\ Idle /\ placed /\ index # 0
    /\ CASE Status(index) \in {"CLAIMED", "CANCELED"} ->
              index' = 0 /\ UNCHANGED <<capture, todo>>
         [] Status(index) \in Unsettled ->
              todo' = {index} /\ UNCHANGED <<index, capture>>
         [] OTHER ->
              /\ listings[index].seller # p
              /\ queueItemFrameCapture([By("review", p, index) EXCEPT
                                          !.item = listings[index].item])
              /\ UNCHANGED <<index, todo>>
    /\ UNCHANGED <<db, world, market, forms, settling, loaded, used>>

\* A right click on it: a hint, or another try to settle.
rightClick ==
    /\ Idle /\ placed /\ index # 0
    /\ Status(index) # "ACTIVE"
    /\ todo' = {index}
    /\ UNCHANGED <<db, world, index, market, forms, capture, settling, loaded,
                   used>>

openPurchaseReview ==
    /\ Completes("review")
    /\ StillOffered
    /\ forms[Asker] = NoForm
    /\ capture' = NoCapture
    /\ forms' = [forms EXCEPT ![Asker] = [kind |-> "review",
                                          listing |-> capture.listing,
                                          item |-> NoItem]]
    /\ UNCHANGED <<db, world, index, market, settling, loaded, todo, used>>

confirmPurchase(p) ==
    /\ Answers(p, "review")
    /\ queueItemFrameCapture([By("buy", p, forms[p].listing) EXCEPT
                                !.item = listings[forms[p].listing].item])
    /\ UNCHANGED <<db, world, index, market, settling, loaded, todo, used>>

\* The callback of queueFramePurchase. When the reply of the commit is lost the
\* settlement is left to the recovery task.
purchase ==
    /\ Completes("buy")
    /\ StillOffered
    /\ MayPurchase(capture.listing, Asker)
    /\ purchaseFrameListing(capture.listing, Asker)
    /\ capture' = NoCapture
    /\ \/ /\ index' = capture.listing
          /\ todo' = {capture.listing}
          /\ UNCHANGED used
       \/ Fault /\ UNCHANGED <<index, todo>>
    /\ UNCHANGED <<binding, world, market, forms, settling, loaded>>

-----------------------------------------------------------------------------
(* Settling a paid listing *)

\* findFrameSaleDrop: the game shows loaded actors only.
findFrameSaleDrop(l) == here[l] > stored[l]
CountMissed(l) == late' = (late \/ (here[l] > 0 /\ ~findFrameSaleDrop(l)))

\* spawnFrameSaleDrop: a drop that is found is adopted.
spawnFrameSaleDrop(l) ==
    /\ here' = IF findFrameSaleDrop(l) THEN here ELSE [here EXCEPT ![l] = @ + 1]
    /\ CountMissed(l)
    /\ UNCHANGED <<stored, saved>>
    /\ settling' = settling \ {l}
    /\ markFrameListingDropped(l)

\* settleFrameListing of the listing in todo.
Settles(l) == todo = {l} /\ todo' = {}

settleClosed(l) ==
    /\ Settles(l)
    /\ Status(l) \in {"CLAIMED", "CANCELED"}
    /\ index' = 0
    /\ UNCHANGED <<db, world, market, forms, capture, settling, loaded, used>>

adoptDrop(l) ==
    /\ Settles(l)
    /\ Status(l) \in Unsettled
    /\ findFrameSaleDrop(l)
    /\ markFrameListingDropped(l)
    /\ settling' = settling \ {l}
    /\ UNCHANGED <<binding, balance, world, index, market, forms, capture,
                   loaded>>

\* Nothing can be done now: it is being settled, the chunk is not loaded, or
\* another capture of the frame is pending.
settleLater(l) ==
    /\ Settles(l)
    /\ Status(l) \in Unsettled
    /\ ~findFrameSaleDrop(l)
    /\ l \in settling \/ ~loaded \/ (placed /\ Busy)
    /\ UNCHANGED <<db, world, index, market, forms, capture, settling, loaded,
                   used>>

settleWithoutFrame(l) ==
    /\ Settles(l)
    /\ Status(l) \in Unsettled
    /\ ~findFrameSaleDrop(l) /\ l \notin settling /\ loaded /\ ~placed
    /\ spawnFrameSaleDrop(l)
    /\ UNCHANGED <<binding, balance, frame, placed, away, held, index, market,
                   forms, capture, loaded>>

beginSettlement(l) ==
    /\ Settles(l)
    /\ Status(l) \in Unsettled
    /\ ~findFrameSaleDrop(l) /\ l \notin settling /\ loaded /\ placed /\ ~Busy
    /\ settling' = settling \cup {l}
    /\ capture' = [NoCapture EXCEPT !.purpose = "settle", !.listing = l,
                                    !.item = listings[l].item,
                                    !.seen = frame, !.attempt = 1]
    /\ CountMissed(l)
    /\ UNCHANGED <<db, frame, placed, here, stored, away, held, saved, index,
                   market, forms, loaded, used>>

\* Fault: the item is taken to be gone without a look.
AssumedGone == TRUE

Gone == capture.seen # capture.item

\* The item is still in the frame: the block is set anew, without it, and the
\* frame is captured once more.
clearFrame ==
    /\ Completes("settle")
    /\ capture.seen = capture.item
    /\ frame' = NoItem
    /\ capture' = [capture EXCEPT !.purpose = "verify", !.seen = NoItem,
                                  !.attempt = 1]
    /\ UNCHANGED <<db, placed, here, away, held, disk, index, market, forms,
                   settling, loaded, todo, used>>

\* The frame does not hold the item any more.
dropItem ==
    /\ capture.purpose \in {"settle", "verify"}
    /\ todo = {} /\ placed
    /\ Gone
    /\ spawnFrameSaleDrop(capture.listing)
    /\ capture' = NoCapture
    /\ UNCHANGED <<binding, balance, frame, placed, away, held, index, market,
                   forms, loaded, todo>>

\* The frame could not be captured: without a frame the item is dropped all
\* the same, otherwise the recovery task tries again.
verifyFails ==
    /\ todo = {}
    /\ capture.purpose = "verify"
    /\ capture' = NoCapture
    /\ \/ ~placed /\ spawnFrameSaleDrop(capture.listing)
       \/ /\ placed
          /\ IF Gone THEN Use("unread") ELSE UNCHANGED used
          /\ settling' = settling \ {capture.listing}
          /\ UNCHANGED <<listings, here, disk>>
    /\ UNCHANGED <<binding, balance, frame, placed, away, held, index, market,
                   forms, loaded, todo>>

\* Fault: a paid listing is forgotten until its drop is there.
PaidForgotten == {l \in DOMAIN listings : Status(l) = "DROPPED"}

unsettledFrameListings == {l \in DOMAIN listings : Status(l) \in Unsettled}

\* The periodic task.
recoverFrameListings ==
    /\ todo = {}
    /\ \E l \in unsettledFrameListings :
        /\ index' = l
        /\ todo' = {l}
    /\ UNCHANGED <<db, world, market, forms, capture, settling, loaded, used>>

\* Fault: a claimed listing keeps its frame.
KeepsBinding(l) ==
    /\ listings' = [listings EXCEPT ![l].status = "CLAIMED"]
    /\ UNCHANGED binding

completeFrameListingPickup(l) ==
    /\ listings' = [listings EXCEPT ![l].status = "CLAIMED"]
    /\ Unbind(l)

\* onPlayerPickupItem and, for an item that came out of a chest,
\* reconcileFrameSaleItems: DROPPED, CLAIMED, the index entry of the frame.
TakesItem(l) ==
    /\ completeFrameListingPickup(l)
    /\ index' = 0
    /\ held' = [held EXCEPT ![listings[l].item] = @ + 1]
    /\ used' = IF Status(l) = "CLAIMED"
               THEN [used EXCEPT !.kinds = @ \cup {"retaken"}] ELSE used

pickUp(l) ==
    /\ Idle
    /\ findFrameSaleDrop(l)
    /\ \/ TakesItem(l) /\ here' = [here EXCEPT ![l] = @ - 1]
       \/ \* markFrameListingDropped throws after its commit
          /\ listings' = Dropped(l) /\ Fault
          /\ UNCHANGED <<binding, index, held, here>>
       \/ \* completeFrameListingPickup or the query after it throws
          /\ completeFrameListingPickup(l) /\ Fault
          /\ UNCHANGED <<index, held, here>>
    /\ UNCHANGED <<balance, market, frame, placed, away, disk, forms, capture,
                   settling, loaded, todo>>

takeFromChest(l) ==
    /\ todo = {}
    /\ away[l] > 0
    /\ TakesItem(l)
    /\ away' = [away EXCEPT ![l] = @ - 1]
    /\ UNCHANGED <<balance, market, frame, placed, here, disk, forms, capture,
                   settling, loaded, todo>>

-----------------------------------------------------------------------------
(* Markets at the frame *)

\* The exchanger on a frame that is not listed: deactivate, or
\* queueItemFrameToggle.
toggleBlock(p) ==
    /\ Idle /\ placed /\ index = 0
    /\ p \in Ops
    /\ \/ /\ market
          /\ market' = FALSE
          /\ UNCHANGED <<capture, used>>
       \/ /\ ~market
          /\ Use("breaks")
          /\ queueItemFrameCapture(By("toggle", p, 0))
          /\ UNCHANGED market
    /\ UNCHANGED <<db, world, index, forms, settling, loaded, todo>>

\* activateMarket in the callback of queueItemFrameToggle; the market of an
\* empty frame is one for frames (prototypeForBlock).
activateFrame ==
    /\ Completes("toggle")
    /\ market' = TRUE
    /\ capture' = NoCapture
    /\ UNCHANGED <<db, world, index, forms, settling, loaded, todo, used>>

-----------------------------------------------------------------------------
(* The world and the process *)

\* Clicks and breaks are canceled for a frame that is in one of the indices.
Free == index = 0

putItem(i) ==
    /\ Idle /\ placed /\ Free /\ ~market
    /\ frame = NoItem
    /\ held[i] > 0
    /\ frame' = i
    /\ held' = [held EXCEPT ![i] = @ - 1]
    /\ UNCHANGED <<db, index, market, placed, here, away, disk, forms, capture,
                   settling, loaded, todo, used>>

Popped == IF frame = NoItem THEN held ELSE [held EXCEPT ![frame] = @ + 1]

takeItem ==
    /\ Idle /\ placed /\ Free /\ ~market
    /\ frame # NoItem
    /\ frame' = NoItem
    /\ held' = Popped
    /\ UNCHANGED <<db, index, market, placed, here, away, disk, forms, capture,
                   settling, loaded, todo, used>>

\* A frame that is gone leaves its item to the players.
FrameGone ==
    /\ placed' = FALSE
    /\ frame' = NoItem
    /\ held' = Popped
    /\ UNCHANGED <<db, index, here, away, disk, forms, capture, settling,
                   loaded, todo>>

\* A break retires a market at the frame; an explosion leaves it.
breakFrame ==
    /\ Idle /\ placed /\ Free
    /\ Use("breaks")
    /\ market' \in {FALSE, market}
    /\ FrameGone

\* The block the frame hangs on is removed, and the frame falls: an event of
\* another block than the listed one.
popFrame ==
    /\ Idle /\ placed
    /\ Use("pops")
    /\ UNCHANGED market
    /\ FrameGone

placeFrame ==
    /\ Idle /\ ~placed
    /\ placed' = TRUE
    /\ UNCHANGED <<db, index, market, frame, here, away, held, disk, forms,
                   capture, settling, loaded, todo, used>>

\* onChunkUnload, onChunkLoad; a capture pending at an unload is not modelled.
\* The drops go with the chunk.
unloadChunk ==
    /\ Idle /\ ~Busy
    /\ Use("breaks")
    /\ loaded' = FALSE
    /\ stored' = here
    /\ UNCHANGED <<db, index, market, frame, placed, here, late, away, held,
                   saved, forms, capture, settling, todo>>

loadChunk ==
    /\ todo = {} /\ ~loaded
    /\ loaded' = TRUE
    /\ UNCHANGED <<db, world, index, market, forms, capture, settling, todo,
                   used>>

\* The game brings back the drops of a loaded chunk, some ticks later.
dropsReturn ==
    /\ loaded
    /\ \E l \in Ids : stored[l] > 0
    /\ stored' = [l \in Ids |-> 0]
    /\ UNCHANGED <<db, index, market, frame, placed, here, late, away, held,
                   saved, forms, capture, settling, loaded, todo, used>>

\* A hopper takes the drop: no loaded item actor has the marker any more.
hopper(l) ==
    /\ Idle
    /\ findFrameSaleDrop(l)
    /\ Use("hoppers")
    /\ here' = [here EXCEPT ![l] = @ - 1]
    /\ away' = [away EXCEPT ![l] = @ + 1]
    /\ UNCHANGED <<db, index, market, frame, placed, held, disk, forms,
                   capture, settling, loaded, todo>>

\* Fault: the index starts empty.
IndexForgotten == 0

restoreFrameListingIndex == binding

\* The game saves the world, and does not again before a kill, which is counted
\* with it.
Now == [frame |-> frame, placed |-> placed, here |-> here, away |-> away,
        held |-> held]
lastSave ==
    /\ saved = {}
    /\ used.count + 1 < MaxMishaps
    /\ used' = [used EXCEPT !.count = @ + 2]
    /\ saved' = {Now}
    /\ UNCHANGED <<db, index, market, frame, placed, here, stored, late, away,
                   held, forms, capture, settling, loaded, todo>>

\* The world after a kill: chunks and players are saved each on their own.
Reload(chunk, players) ==
    /\ frame' = chunk.frame /\ placed' = chunk.placed
    /\ here' = chunk.here /\ stored' = chunk.here
    /\ away' = chunk.away
    /\ held' = players.held

\* The plugin's memory is gone; onEnable fills the index from the bindings.
restart ==
    /\ IF saved = {} THEN Use("kills")
       ELSE used' = [used EXCEPT !.kinds = @ \cup {"rollback"}]
    /\ \E chunk, players \in saved \cup {Now} : Reload(chunk, players)
    /\ saved' = {}
    /\ index' = restoreFrameListingIndex
    /\ forms' = [p \in Players |-> NoForm]
    /\ capture' = NoCapture
    /\ settling' = {}
    /\ todo' = {}
    /\ UNCHANGED <<db, market, late, loaded>>

-----------------------------------------------------------------------------
settleFrameListing ==
    \E l \in DOMAIN listings :
        \/ settleClosed(l) \/ adoptDrop(l) \/ settleLater(l)
        \/ settleWithoutFrame(l) \/ beginSettlement(l)

completeItemFrameCapture ==
    \/ retryCapture \/ failedCapture \/ rejectCapture
    \/ openPriceForm \/ saveListing \/ openPurchaseReview \/ purchase
    \/ clearFrame \/ dropItem \/ verifyFails \/ activateFrame

Next ==
    \/ settleFrameListing \/ completeItemFrameCapture \/ recoverFrameListings
    \/ \E p \in Players :
          \/ handlePriceStick(p) \/ changePrice(p) \/ cancelListing(p)
          \/ closeForm(p) \/ leftClick(p) \/ confirmPurchase(p)
          \/ toggleBlock(p)
          \/ \E price \in Prices : submitPrice(p, price)
    \/ \E l \in DOMAIN listings : pickUp(l) \/ takeFromChest(l) \/ hopper(l)
    \/ \E i \in Items : putItem(i)
    \/ rightClick \/ takeItem \/ breakFrame \/ popFrame \/ placeFrame
    \/ unloadChunk \/ loadChunk \/ dropsReturn \/ lastSave \/ restart

Spec == Init /\ [][Next]_vars

\* The scheduler runs the tasks it was given, and the recovery task again and
\* again, whatever other handlers run in between; a chunk that is unloaded is
\* loaded again.
FairSpec ==
    /\ Spec
    /\ WF_vars(settleFrameListing)
    /\ SF_vars(recoverFrameListings)
    /\ SF_vars(completeItemFrameCapture)
    /\ SF_vars(loadChunk)

-----------------------------------------------------------------------------
(* What must hold *)

\* The variables hold values of their types.
TypeOK ==
    /\ listings \in Seq(Listing)
    /\ binding \in 0 .. Len(listings) /\ index \in 0 .. Len(listings)
    /\ balance \in [Players -> Nat]
    /\ market \in BOOLEAN /\ placed \in BOOLEAN /\ loaded \in BOOLEAN
    /\ frame \in Items \cup {NoItem}
    /\ here \in [Ids -> Nat] /\ away \in [Ids -> Nat]
    /\ held \in [Items -> Nat]
    /\ stored \in [Ids -> Nat] /\ late \in BOOLEAN
    /\ saved \subseteq [frame: Items \cup {NoItem}, placed: BOOLEAN,
                       here: [Ids -> Nat], away: [Ids -> Nat],
                       held: [Items -> Nat]]
    /\ forms \in [Players -> Form]
    /\ capture \in Capture
    /\ settling \subseteq Ids /\ todo \subseteq Ids
    /\ used \in [count: Nat, kinds: SUBSET Remembered]

\* Only mishaps of these kinds have happened, besides those of no consequence.
Only(K) == used.kinds \subseteq K

\* What the exchange has sold and not yet handed out: neither in the frame nor
\* on the ground.
Owed(i) == Cardinality({l \in DOMAIN listings :
                           /\ Status(l) \in Unsettled
                           /\ listings[l].item = i /\ frame # i
                           /\ here[l] + away[l] = 0})
OfItem(i) == {l \in DOMAIN listings : listings[l].item = i}
DropsOf(i) == SumFunctionOnSet([l \in Ids |-> here[l] + away[l]], OfItem(i))

\* The one item is in the frame, dropped, in a player's hands or owed to the
\* buyer, never twice and never nowhere: not after a kill between clearing the
\* frame and spawning the drop, a capture that ended late, a price changed or a
\* frame broken in between (settleFrameListing, verifyFrameClearedAndDrop,
\* spawnFrameSaleDrop, onPlayerPickupItem). Services that fail do not change
\* this; six things do: findFrameSaleDrop sees neither a drop in a hopper nor one
\* that its chunk has not brought back (late), a kill may put chunk, chests or
\* players back to what the game saved before, an item that falls with its frame
\* is spawned once more, and a stale cancel, or the second pickup of an item
\* whose listing is CLAIMED already, takes the protection from a frame that is
\* listed anew.
ItemsExact == Only({"faults"}) /\ ~late =>
    \A i \in Items :
        held[i] + DropsOf(i) + Owed(i) + (IF frame = i THEN 1 ELSE 0) = Stock

\* Each player's balance is what the paid listings say: a sale moves its price
\* from the buyer to the seller, once (purchaseFrameListing).
PriceOf == [l \in DOMAIN listings |-> listings[l].price]
SoldBy(p) == {l \in DOMAIN listings : /\ listings[l].buyer # {}
                                      /\ listings[l].seller = p}
BoughtBy(p) == {l \in DOMAIN listings : listings[l].buyer = {p}}
MoneyExact ==
    \A p \in Players :
        balance[p] = Balance + SumFunctionOnSet(PriceOf, SoldBy(p))
                             - SumFunctionOnSet(PriceOf, BoughtBy(p))

\* The frame is bound to its one listing that is not over, if there is one: two
\* offers of one item cannot be open, and a sale that is paid keeps the frame
\* until the item is picked up (upsertFrameListing, completeFrameListingPickup).
BindingExact ==
    {l \in DOMAIN listings : Status(l) \in {"ACTIVE"} \cup Unsettled}
        = {binding} \ {0}

\* A listed frame is in the index that protects it from clicks, breaks and
\* explosions and lets players buy (onPlayerInteract, onListedFrameBreak,
\* protectListedFrames). The index is kept by the frame's key and not by the
\* listing: a stale cancel, or a pickup of an old item, erases the entry of a
\* newer listing, and a reply that is lost leaves the entry out. A frame that is
\* offered is no market target either, although neither activation nor sale
\* locks the frame while its form is open (queueItemFrameToggle,
\* openFramePriceForm).
Protected == Only({"pops", "hoppers", "rollback"}) =>
                 (binding # 0 => index = binding /\ ~market)

\* A buyer pays only for an item that is in the frame at that moment, although
\* what the callback compares was captured ticks before (queueFramePurchase):
\* the protection of the frame holds what the capture saw, also when replies
\* are lost or a hopper takes a drop, as long as the item of no CLAIMED listing
\* is picked up once more.
SoldFromFrame ==
    [][Only({"faults", "hoppers"}) => \A l \in DOMAIN listings :
          Status(l) = "ACTIVE" /\ listings'[l].status = "PAID"
              => frame = listings[l].item]_vars

\* No paid listing stays undropped for ever, whatever was killed, threw or could
\* not be read: again and again there is none (recoverFrameListings). At most
\* one listing of the frame is paid at a time, see BindingExact.
PaidArrives == []<>(\A l \in DOMAIN listings : Status(l) # "PAID")

=============================================================================
