--------------------------- MODULE FrameSaleProofs ---------------------------
(***************************************************************************)
(* What FrameSale promises, proved for every set of players and items, all *)
(* prices and any number of listings and mishaps: the types, the binding   *)
(* and the index of the frame, and where the money and the items are.      *)
(***************************************************************************)
EXTENDS FrameSale, FiniteSums, FiniteSetTheorems, SequenceTheorems, TLAPS

Statuses == {"ACTIVE", "PAID", "DROPPED", "CLAIMED", "CANCELED"}

-----------------------------------------------------------------------------
(* The rows *)

RowsType ==
    /\ listings \in Seq(Listing) /\ Len(listings) <= MaxListings
    /\ binding \in 0 .. Len(listings)
    /\ balance \in [Players -> Nat]

LEMMA BoundsAreNat ==
    /\ Stock \in Nat /\ Balance \in Nat /\ MaxListings \in Nat
    /\ MaxMishaps \in Nat /\ MaxAttempts \in Nat
    /\ Prices \subseteq Nat /\ Ops \subseteq Players /\ NoItem \notin Items
    BY ConstantsAssumption

LEMMA RowFacts ==
    ASSUME RowsType
    PROVE  /\ Len(listings) \in Nat /\ DOMAIN listings = 1 .. Len(listings)
           /\ DOMAIN listings \subseteq Ids
           /\ \A l \in DOMAIN listings :
                /\ listings[l] \in Listing
                /\ listings[l].seller \in Players
                /\ listings[l].buyer \in SUBSET Players
                /\ listings[l].price \in Nat /\ listings[l].price \in Prices
                /\ listings[l].item \in Items
                /\ listings[l].status \in Statuses
    <1>1. Len(listings) \in Nat /\ DOMAIN listings = 1 .. Len(listings)
        BY DEF RowsType
    <1>2. \A l \in DOMAIN listings : listings[l] \in Listing
        BY DEF RowsType
    <1>3. \A r \in Listing : /\ r.seller \in Players /\ r.buyer \in SUBSET Players
                             /\ r.price \in Nat /\ r.price \in Prices
                             /\ r.item \in Items /\ r.status \in Statuses
        BY BoundsAreNat DEF Listing, Statuses
    <1>4. DOMAIN listings \subseteq Ids
        BY <1>1, BoundsAreNat DEF RowsType, Ids
    <1> QED BY <1>1, <1>2, <1>3, <1>4

\* No row is deleted, and none changes what it offers.
SameOffers ==
    /\ Len(listings') >= Len(listings)
    /\ \A l \in DOMAIN listings :
        /\ listings'[l].seller = listings[l].seller
        /\ listings'[l].price = listings[l].price
        /\ listings'[l].item = listings[l].item

\* A row gets another status.
NewStatus(l, st) ==
    /\ Len(listings') = Len(listings)
    /\ \A k \in DOMAIN listings : k # l => listings'[k] = listings[k]
    /\ listings'[l].status = st
    /\ listings'[l].buyer = listings[l].buyer

LEMMA StatusSet ==
    ASSUME RowsType, NEW l \in DOMAIN listings, NEW st \in Statuses,
           listings' = [listings EXCEPT ![l].status = st]
    PROVE  /\ listings' \in Seq(Listing) /\ SameOffers /\ NewStatus(l, st)
    <1>1. /\ Len(listings) \in Nat /\ DOMAIN listings = 1 .. Len(listings)
          /\ listings[l] \in Listing
        BY RowFacts
    <1> DEFINE row == [listings[l] EXCEPT !.status = st]
    <1>2. /\ row \in Listing /\ row.status = st
          /\ row.buyer = listings[l].buyer /\ row.seller = listings[l].seller
          /\ row.price = listings[l].price /\ row.item = listings[l].item
        BY <1>1 DEF Listing, Statuses
    <1>3. listings' = [listings EXCEPT ![l] = row]
        OBVIOUS
    <1> HIDE DEF row
    <1>4. listings' \in Seq(Listing) /\ Len(listings') = Len(listings)
        <2>1. listings \in Seq(Listing) /\ row \in Listing /\ l \in 1 .. Len(listings)
            BY <1>1, <1>2 DEF RowsType
        <2> QED BY ONLY <1>3, <2>1, ExceptSeq
    <1>5. \A k \in DOMAIN listings :
              listings'[k] = IF k = l THEN row ELSE listings[k]
        BY <1>1, <1>3 DEF RowsType
    <1>6. SameOffers
        BY <1>1, <1>2, <1>4, <1>5 DEF SameOffers
    <1>7. NewStatus(l, st)
        BY <1>2, <1>4, <1>5 DEF NewStatus
    <1> QED BY <1>4, <1>6, <1>7

\* A row is paid for.
LEMMA BuyerSet ==
    ASSUME RowsType, NEW l \in DOMAIN listings, NEW p \in Players,
           listings' = [listings EXCEPT ![l].status = "PAID", ![l].buyer = {p}]
    PROVE  /\ listings' \in Seq(Listing) /\ SameOffers
           /\ Len(listings') = Len(listings)
           /\ \A k \in DOMAIN listings : k # l => listings'[k] = listings[k]
           /\ listings'[l].status = "PAID" /\ listings'[l].buyer = {p}
    <1>1. /\ Len(listings) \in Nat /\ DOMAIN listings = 1 .. Len(listings)
          /\ listings[l] \in Listing
        BY RowFacts
    <1> DEFINE row == [[listings[l] EXCEPT !.status = "PAID"] EXCEPT !.buyer = {p}]
    <1>2. /\ row \in Listing /\ row.status = "PAID"
          /\ row.buyer = {p} /\ row.seller = listings[l].seller
          /\ row.price = listings[l].price /\ row.item = listings[l].item
        BY <1>1 DEF Listing
    <1>3. listings' = [listings EXCEPT ![l] = row]
        OBVIOUS
    <1> HIDE DEF row
    <1>4. listings' \in Seq(Listing) /\ Len(listings') = Len(listings)
        <2>1. listings \in Seq(Listing) /\ row \in Listing /\ l \in 1 .. Len(listings)
            BY <1>1, <1>2 DEF RowsType
        <2> QED BY ONLY <1>3, <2>1, ExceptSeq
    <1>5. \A k \in DOMAIN listings :
              listings'[k] = IF k = l THEN row ELSE listings[k]
        BY <1>1, <1>3 DEF RowsType
    <1>6. SameOffers
        BY <1>1, <1>2, <1>4, <1>5 DEF SameOffers
    <1> QED BY <1>2, <1>4, <1>5, <1>6

\* A listing is added; the one bound so far is canceled.
LEMMA RowAdded ==
    ASSUME RowsType, NEW row \in Listing, Len(listings) < MaxListings,
           upsertFrameListing(row)
    PROVE  /\ listings' \in Seq(Listing) /\ SameOffers
           /\ Len(listings') = Len(listings) + 1
           /\ \A l \in DOMAIN listings :
                 /\ l # binding => listings'[l] = listings[l]
                 /\ l = binding => listings'[l].status = "CANCELED"
                 /\ listings'[l].buyer = listings[l].buyer
           /\ listings'[Len(listings) + 1] = row
           /\ binding' = Len(listings) + 1
    <1>1. /\ Len(listings) \in Nat /\ DOMAIN listings = 1 .. Len(listings)
          /\ \A l \in DOMAIN listings : listings[l] \in Listing
        BY RowFacts
    <1> DEFINE over(l) == [listings[l] EXCEPT !.status = "CANCELED"]
               kept == [l \in DOMAIN listings |->
                            IF l = binding THEN over(l) ELSE listings[l]]
    <1>2. \A l \in DOMAIN listings :
              /\ over(l) \in Listing /\ over(l).status = "CANCELED"
              /\ over(l).buyer = listings[l].buyer
              /\ over(l).seller = listings[l].seller
              /\ over(l).price = listings[l].price
              /\ over(l).item = listings[l].item
        BY <1>1 DEF Listing
    <1>3. \A l \in DOMAIN listings :
              kept[l] = IF l = binding THEN over(l) ELSE listings[l]
        OBVIOUS
    <1>4. listings' = Append(kept, row) /\ binding' = Len(listings) + 1
        BY DEF upsertFrameListing
    <1>5. kept \in Seq(Listing) /\ Len(kept) = Len(listings)
        <2>1. kept = [l \in 1 .. Len(listings) |->
                          IF l = binding THEN over(l) ELSE listings[l]]
            BY <1>1
        <2>2. \A l \in 1 .. Len(listings) :
                  (IF l = binding THEN over(l) ELSE listings[l]) \in Listing
            BY <1>1, <1>2
        <2> HIDE DEF over
        <2>3. kept \in [1 .. Len(listings) -> Listing]
            BY <2>1, <2>2
        <2> HIDE DEF kept
        <2> QED BY ONLY <1>1, <2>3, SMT
    <1> HIDE DEF over, kept
    <1>6. /\ listings' \in Seq(Listing) /\ Len(listings') = Len(listings) + 1
          /\ \A l \in DOMAIN listings : listings'[l] = kept[l]
          /\ listings'[Len(listings) + 1] = row
        BY ONLY <1>1, <1>4, <1>5, row \in Listing, SMT
    <1>7. SameOffers
        BY <1>1, <1>2, <1>3, <1>6 DEF SameOffers
    <1> QED BY <1>2, <1>3, <1>4, <1>6, <1>7

-----------------------------------------------------------------------------
(* What a step does to the rows *)

Cancels(l) ==
    /\ Status(l) \in {"ACTIVE", "CANCELED"}
    /\ cancelFrameListing(l) /\ UNCHANGED balance
Drops(l) == listings' = Dropped(l) /\ UNCHANGED <<binding, balance>>
Claims(l) ==
    here[l] + away[l] > 0 /\ completeFrameListingPickup(l) /\ UNCHANGED balance
Buys(l, p) ==
    MayPurchase(l, p) /\ purchaseFrameListing(l, p) /\ UNCHANGED binding
Upserts(row) ==
    /\ row.status = "ACTIVE" /\ row.buyer = {}
    /\ binding # 0 => Status(binding) = "ACTIVE"
    /\ Len(listings) < MaxListings
    /\ upsertFrameListing(row) /\ UNCHANGED balance

RowEffect ==
    \/ UNCHANGED db
    \/ \E l \in DOMAIN listings :
          \/ Cancels(l) \/ Drops(l) \/ Claims(l)
          \/ \E p \in Players : Buys(l, p)
    \/ \E row \in Listing : Upserts(row)

\* The forms and captures that are open are about rows that exist, and those
\* that are a player's are one player's.
GoodForm(f, n) ==
    /\ f \in Form
    /\ f.kind \in {"manage", "review"} => f.listing \in 1 .. n
    /\ f.kind = "price" => f.listing \in 0 .. n /\ f.item \in Items

FormsType ==
    /\ forms \in [Players -> Form]
    /\ \A p \in Players : GoodForm(forms[p], Len(listings))

GoodCapture(c, rows) ==
    /\ c \in Capture
    /\ c.purpose \in {"toggle", "price", "save", "review", "buy"}
          => \E p \in Players : c.by = {p}
    /\ c.purpose \in {"review", "buy", "settle", "verify"}
          => c.listing \in 1 .. Len(rows) /\ c.item = rows[c.listing].item
    /\ c.purpose \in {"price", "save"} => c.listing \in 0 .. Len(rows)
    /\ c.purpose = "save" => c.item \in Items /\ c.price \in Prices

CaptureType == GoodCapture(capture, listings)

PlanType ==
    /\ index \in 0 .. Len(listings) /\ market \in BOOLEAN /\ loaded \in BOOLEAN
    /\ settling \subseteq DOMAIN listings /\ todo \subseteq DOMAIN listings

WorldType ==
    /\ frame \in Items \cup {NoItem} /\ placed \in BOOLEAN
    /\ here \in [Ids -> Nat] /\ away \in [Ids -> Nat] /\ held \in [Items -> Nat]

UseType == used \in [count: Nat, kinds: SUBSET Remembered]

\* What the game saves of the world.
Scene == [frame: Items \cup {NoItem}, placed: BOOLEAN, here: [Ids -> Nat],
          away: [Ids -> Nat], held: [Items -> Nat]]

DiskType ==
    stored \in [Ids -> Nat] /\ late \in BOOLEAN /\ saved \subseteq Scene

TypeInv ==
    /\ RowsType /\ FormsType /\ CaptureType /\ PlanType /\ WorldType
    /\ UseType /\ DiskType

\* A drop that is found is there.
LEMMA FoundIsThere ==
    ASSUME TypeInv, NEW l \in DOMAIN listings, findFrameSaleDrop(l)
    PROVE  here[l] \in Nat /\ here[l] > 0
    <1>1. here[l] \in Nat /\ stored[l] \in Nat
        BY RowFacts DEF TypeInv, WorldType, DiskType
    <1> QED BY <1>1 DEF findFrameSaleDrop

LEMMA AskerIsPlayer ==
    ASSUME CaptureType,
           capture.purpose \in {"toggle", "price", "save", "review", "buy"}
    PROVE  Asker \in Players /\ capture.by = {Asker}
    BY DEF CaptureType, GoodCapture, Asker

LEMMA EffectsOfSettling ==
    ASSUME TypeInv,
           \/ settleFrameListing \/ dropItem \/ verifyFails
    PROVE  RowEffect
    <1>1. CASE dropItem
        <2>1. capture.listing \in DOMAIN listings
            BY <1>1, RowFacts DEF dropItem, TypeInv, CaptureType, GoodCapture
        <2>2. /\ listings' = Dropped(capture.listing) \/ UNCHANGED listings
              /\ UNCHANGED <<binding, balance>>
            BY <1>1 DEF dropItem, spawnFrameSaleDrop, markFrameListingDropped
        <2> QED BY <2>1, <2>2 DEF RowEffect, Drops, db
    <1>2. CASE verifyFails
        <2>1. capture.listing \in DOMAIN listings
            BY <1>2, RowFacts DEF verifyFails, TypeInv, CaptureType, GoodCapture
        <2>2. /\ listings' = Dropped(capture.listing) \/ UNCHANGED listings
              /\ UNCHANGED <<binding, balance>>
            BY <1>2 DEF verifyFails, spawnFrameSaleDrop, markFrameListingDropped
        <2> QED BY <2>1, <2>2 DEF RowEffect, Drops, db
    <1>3. ASSUME NEW l \in DOMAIN listings,
                 settleClosed(l) \/ settleLater(l) \/ beginSettlement(l)
          PROVE  RowEffect
        BY <1>3 DEF settleClosed, settleLater, beginSettlement, RowEffect
    <1>4. ASSUME NEW l \in DOMAIN listings, adoptDrop(l) \/ settleWithoutFrame(l)
          PROVE  RowEffect
        <2>1. /\ listings' = Dropped(l) \/ UNCHANGED listings
              /\ UNCHANGED <<binding, balance>>
            BY <1>4 DEF adoptDrop, settleWithoutFrame, spawnFrameSaleDrop,
                        markFrameListingDropped
        <2> QED BY <2>1 DEF RowEffect, Drops, db
    <1> QED BY <1>1, <1>2, <1>3, <1>4 DEF settleFrameListing

LEMMA EffectsOfForms ==
    ASSUME TypeInv, NEW p \in Players, cancelListing(p)
    PROVE  RowEffect
    <1>1. forms[p].listing \in DOMAIN listings
        BY RowFacts DEF cancelListing, Answers, TypeInv, FormsType, GoodForm
    <1>2. CASE MayCancel(forms[p].listing, p)
        <2>1. Cancels(forms[p].listing)
            BY <1>2 DEF cancelListing, MayCancel, Cancels
        <2> QED BY <1>1, <2>1 DEF RowEffect
    <1>3. CASE ~MayCancel(forms[p].listing, p)
        BY <1>3 DEF cancelListing, RowEffect, db
    <1> QED BY <1>2, <1>3

LEMMA EffectsOfSave ==
    ASSUME TypeInv, saveListing
    PROVE  RowEffect
    <1>1. CASE MayUpsert(NewListing, Asker) /\ Len(listings) < MaxListings
        <2>1. /\ Asker \in Players
              /\ capture.item \in Items /\ capture.price \in Prices
              /\ capture.listing # 0 => capture.listing \in DOMAIN listings
            <3>1. capture.purpose = "save"
                BY DEF saveListing, Completes
            <3>2. CaptureType /\ Len(listings) \in Nat
                  /\ DOMAIN listings = 1 .. Len(listings)
                BY RowFacts DEF TypeInv
            <3> QED BY <3>1, <3>2, AskerIsPlayer DEF CaptureType, GoodCapture
        <2>2. NewListing \in Listing
            BY <2>1, RowFacts DEF NewListing, Listing, TypeInv
        <2>3. NewListing.status = "ACTIVE" /\ NewListing.buyer = {}
            BY DEF NewListing
        <2>4. Upserts(NewListing)
            BY <1>1, <2>3 DEF saveListing, MayUpsert, Upserts
        <2> QED BY <2>2, <2>4 DEF RowEffect
    <1>2. CASE ~(MayUpsert(NewListing, Asker) /\ Len(listings) < MaxListings)
        BY <1>2 DEF saveListing, RowEffect, db
    <1> QED BY <1>1, <1>2

LEMMA EffectsOfPickup ==
    ASSUME TypeInv, NEW l \in DOMAIN listings, pickUp(l) \/ takeFromChest(l)
    PROVE  RowEffect
    <1>1. /\ here[l] \in Nat /\ away[l] \in Nat
          /\ here[l] > 0 \/ away[l] > 0
        BY RowFacts, FoundIsThere
           DEF TypeInv, WorldType, pickUp, takeFromChest
    <1>2. here[l] + away[l] > 0
        BY <1>1
    <1>3. Claims(l) \/ Drops(l)
        BY <1>2 DEF pickUp, takeFromChest, TakesItem, Claims, Drops
    <1> QED BY <1>3 DEF RowEffect

LEMMA RowEffects ==
    ASSUME TypeInv, [Next]_vars
    PROVE  RowEffect
    <1>1. CASE purchase
        <2>1. Asker \in Players /\ capture.listing \in DOMAIN listings
            BY <1>1, AskerIsPlayer, RowFacts
               DEF purchase, Completes, TypeInv, CaptureType, GoodCapture
        <2>2. Buys(capture.listing, Asker)
            BY <1>1 DEF purchase, Buys
        <2> QED BY <2>1, <2>2 DEF RowEffect
    <1>2. CASE UNCHANGED db
        BY <1>2 DEF RowEffect
    <1>3. CASE retryCapture \/ failedCapture \/ rejectCapture \/ openPriceForm
               \/ openPurchaseReview \/ clearFrame \/ activateFrame
        BY <1>2, <1>3 DEF retryCapture, failedCapture, rejectCapture,
           openPriceForm, openPurchaseReview, clearFrame, activateFrame
    <1>4. ASSUME NEW p \in Players,
                 \/ handlePriceStick(p) \/ changePrice(p) \/ closeForm(p)
                 \/ leftClick(p) \/ confirmPurchase(p) \/ toggleBlock(p)
                 \/ \E price \in Prices : submitPrice(p, price)
          PROVE  UNCHANGED db
        BY <1>4 DEF handlePriceStick, changePrice, closeForm, leftClick,
           confirmPurchase, toggleBlock, submitPrice
    <1>5. ASSUME NEW l \in DOMAIN listings, hopper(l)
          PROVE  UNCHANGED db
        BY <1>5 DEF hopper
    <1>6. ASSUME NEW i \in Items, putItem(i)
          PROVE  UNCHANGED db
        BY <1>6 DEF putItem
    <1>7. CASE rightClick \/ takeItem \/ breakFrame \/ popFrame \/ placeFrame
               \/ unloadChunk \/ loadChunk \/ dropsReturn \/ lastSave \/ restart
               \/ recoverFrameListings \/ UNCHANGED vars
        BY <1>2, <1>7 DEF rightClick, takeItem, breakFrame, popFrame, placeFrame,
           unloadChunk, loadChunk, dropsReturn, lastSave, restart,
           recoverFrameListings, FrameGone, vars, db
    <1> QED BY <1>1, <1>2, <1>3, <1>4, <1>5, <1>6, <1>7, EffectsOfSettling,
               EffectsOfForms, EffectsOfSave, EffectsOfPickup
               DEF Next, completeItemFrameCapture

-----------------------------------------------------------------------------
(* The rows after a step *)

\* A row that is offered has no buyer.
NoBuyerYet ==
    \A l \in DOMAIN listings : Status(l) = "ACTIVE" => listings[l].buyer = {}

LEMMA CancelsRow ==
    ASSUME RowsType, NEW l \in DOMAIN listings, Cancels(l)
    PROVE  /\ listings' \in Seq(Listing) /\ SameOffers
           /\ NewStatus(l, "CANCELED") /\ Unbind(l) /\ UNCHANGED balance
    BY StatusSet DEF Cancels, cancelFrameListing, Statuses

LEMMA ClaimsRow ==
    ASSUME RowsType, NEW l \in DOMAIN listings, Claims(l)
    PROVE  /\ listings' \in Seq(Listing) /\ SameOffers
           /\ NewStatus(l, "CLAIMED") /\ Unbind(l) /\ UNCHANGED balance
    BY StatusSet DEF Claims, completeFrameListingPickup, Statuses

LEMMA DropsRow ==
    ASSUME RowsType, NEW l \in DOMAIN listings, Drops(l)
    PROVE  /\ listings' \in Seq(Listing) /\ SameOffers
           /\ UNCHANGED <<binding, balance>>
           /\ \/ UNCHANGED listings
              \/ Status(l) = "PAID" /\ NewStatus(l, "DROPPED")
    <1>1. CASE Status(l) = "PAID"
        <2>1. listings' = [listings EXCEPT ![l].status = "DROPPED"]
            BY <1>1 DEF Drops, Dropped
        <2>2. listings' \in Seq(Listing) /\ SameOffers /\ NewStatus(l, "DROPPED")
            BY <2>1, StatusSet DEF Statuses
        <2> QED BY <1>1, <2>2 DEF Drops
    <1>2. CASE Status(l) # "PAID"
        <2>1. UNCHANGED listings
            BY <1>2 DEF Drops, Dropped
        <2>2. SameOffers
            BY <2>1, RowFacts DEF SameOffers
        <2> QED BY <2>1, <2>2 DEF Drops, RowsType
    <1> QED BY <1>1, <1>2

LEMMA BuysRow ==
    ASSUME RowsType, NEW l \in DOMAIN listings, NEW p \in Players, Buys(l, p)
    PROVE  /\ listings' \in Seq(Listing) /\ SameOffers
           /\ Len(listings') = Len(listings)
           /\ \A k \in DOMAIN listings : k # l => listings'[k] = listings[k]
           /\ listings'[l].status = "PAID" /\ listings'[l].buyer = {p}
           /\ Status(l) = "ACTIVE" /\ listings[l].seller # p
           /\ balance[p] >= listings[l].price
           /\ UNCHANGED binding /\ binding = l
           /\ balance' = [balance EXCEPT ![p] = @ - listings[l].price,
                                         ![listings[l].seller] =
                                                @ + listings[l].price]
    BY BuyerSet DEF Buys, purchaseFrameListing, MayPurchase

LEMMA SameOffersKept == RowsType /\ UNCHANGED listings => SameOffers
    BY RowFacts DEF SameOffers

LEMMA RowsTypeStep ==
    ASSUME RowsType, RowEffect
    PROVE  RowsType' /\ SameOffers
    <1>1. CASE UNCHANGED db
        BY <1>1, SameOffersKept DEF RowsType, db
    <1>2. ASSUME NEW l \in DOMAIN listings, Cancels(l) \/ Claims(l)
          PROVE  RowsType' /\ SameOffers
        <2>1. /\ listings' \in Seq(Listing) /\ SameOffers
              /\ Len(listings') = Len(listings)
              /\ Unbind(l) /\ UNCHANGED balance
            BY <1>2, CancelsRow, ClaimsRow DEF NewStatus
        <2> QED BY <2>1 DEF RowsType, Unbind
    <1>3. ASSUME NEW l \in DOMAIN listings, Drops(l)
          PROVE  RowsType' /\ SameOffers
        <2>1. /\ listings' \in Seq(Listing) /\ SameOffers
              /\ Len(listings') = Len(listings)
              /\ UNCHANGED <<binding, balance>>
            BY <1>3, DropsRow DEF NewStatus
        <2> QED BY <2>1 DEF RowsType
    <1>4. ASSUME NEW l \in DOMAIN listings, NEW p \in Players, Buys(l, p)
          PROVE  RowsType' /\ SameOffers
        <2>1. /\ listings' \in Seq(Listing) /\ SameOffers
              /\ Len(listings') = Len(listings) /\ UNCHANGED binding
            BY <1>4, BuysRow
        <2>2. balance' \in [Players -> Nat]
            <3> DEFINE s == listings[l].seller
                       c == listings[l].price
            <3>1. s \in Players /\ s # p /\ c \in Nat /\ balance[p] >= c
                  /\ balance \in [Players -> Nat]
                BY <1>4, BuysRow, RowFacts DEF RowsType
            <3>2. balance' = [balance EXCEPT ![p] = @ - c, ![s] = @ + c]
                BY <1>4, BuysRow
            <3> QED BY ONLY <3>1, <3>2, p \in Players
        <2> QED BY <2>1, <2>2 DEF RowsType
    <1>5. ASSUME NEW row \in Listing, Upserts(row)
          PROVE  RowsType' /\ SameOffers
        <2>1. /\ listings' \in Seq(Listing) /\ SameOffers
              /\ Len(listings') = Len(listings) + 1
              /\ binding' = Len(listings) + 1
            BY <1>5, RowAdded DEF Upserts
        <2>2. Len(listings) < MaxListings /\ UNCHANGED balance
            BY <1>5 DEF Upserts
        <2> QED BY <2>1, <2>2, RowFacts, BoundsAreNat DEF RowsType
    <1> QED BY <1>1, <1>2, <1>3, <1>4, <1>5 DEF RowEffect

Open == {"ACTIVE", "PAID", "DROPPED"}
BoundInv ==
    /\ \A l \in DOMAIN listings : Status(l) \in Open <=> l = binding
    /\ NoBuyerYet

LEMMA BoundInvExact == RowsType /\ BoundInv => BindingExact
    BY RowFacts DEF RowsType, BoundInv, BindingExact, Open, Unsettled

LEMMA BoundStep ==
    ASSUME RowsType, BoundInv, RowEffect
    PROVE  BoundInv'
    <1>0. /\ Len(listings) \in Nat /\ DOMAIN listings = 1 .. Len(listings)
          /\ Len(listings') \in Nat /\ DOMAIN listings' = 1 .. Len(listings')
          /\ binding \in 0 .. Len(listings)
        BY RowFacts, RowsTypeStep DEF RowsType
    <1>1. CASE UNCHANGED db
        BY <1>1 DEF BoundInv, NoBuyerYet, Status, db
    <1>2. ASSUME NEW l \in DOMAIN listings, NEW st \in {"CANCELED", "CLAIMED"},
                 NewStatus(l, st), Unbind(l)
          PROVE  BoundInv'
        <2>1. DOMAIN listings' = DOMAIN listings
            BY <1>0, <1>2 DEF NewStatus
        <2>2. \A k \in DOMAIN listings : Status(k)' \in Open <=> k = binding'
            BY <1>0, <1>2 DEF NewStatus, Unbind, BoundInv, Open, Status
        <2>3. NoBuyerYet'
            BY <1>2, <2>1 DEF NewStatus, BoundInv, NoBuyerYet, Status
        <2> QED BY <2>1, <2>2, <2>3 DEF BoundInv
    <1>3. ASSUME NEW l \in DOMAIN listings, Drops(l)
          PROVE  BoundInv'
        <2>1. CASE UNCHANGED listings
            BY <1>3, <2>1, DropsRow DEF BoundInv, NoBuyerYet, Status
        <2>2. CASE Status(l) = "PAID" /\ NewStatus(l, "DROPPED")
            <3>1. DOMAIN listings' = DOMAIN listings /\ UNCHANGED binding
                BY <1>0, <1>3, <2>2, DropsRow DEF NewStatus
            <3> QED BY <2>2, <3>1 DEF NewStatus, BoundInv, NoBuyerYet, Open, Status
        <2> QED BY <1>3, <2>1, <2>2, DropsRow
    <1>4. ASSUME NEW l \in DOMAIN listings, NEW p \in Players, Buys(l, p)
          PROVE  BoundInv'
        <2>1. DOMAIN listings' = DOMAIN listings /\ UNCHANGED binding
            BY <1>0, <1>4, BuysRow
        <2>2. /\ \A k \in DOMAIN listings : k # l => listings'[k] = listings[k]
              /\ listings'[l].status = "PAID" /\ binding = l
            BY <1>4, BuysRow
        <2> QED BY <2>1, <2>2 DEF BoundInv, NoBuyerYet, Open, Status
    <1>5. ASSUME NEW row \in Listing, Upserts(row)
          PROVE  BoundInv'
        <2>1. /\ Len(listings') = Len(listings) + 1
              /\ binding' = Len(listings) + 1
              /\ listings'[Len(listings) + 1] = row
              /\ \A l \in DOMAIN listings :
                   /\ l # binding => listings'[l] = listings[l]
                   /\ l = binding => listings'[l].status = "CANCELED"
            BY <1>5, RowAdded DEF Upserts
        <2>2. row.status = "ACTIVE" /\ row.buyer = {}
            BY <1>5 DEF Upserts
        <2>3. \A k \in DOMAIN listings' :
                  k \in DOMAIN listings \/ k = Len(listings) + 1
            BY <1>0, <2>1
        <2>4. \A k \in DOMAIN listings : k # binding'
            BY <1>0, <2>1
        <2> QED BY <2>1, <2>2, <2>3, <2>4 DEF BoundInv, NoBuyerYet, Open, Status
    <1> QED BY <1>1, <1>2, <1>3, <1>4, <1>5, CancelsRow, ClaimsRow DEF RowEffect

-----------------------------------------------------------------------------
(* Types *)

LEMMA GoodFormKept ==
    ASSUME NEW f, NEW n \in Nat, NEW m \in Nat, m >= n, GoodForm(f, n)
    PROVE  GoodForm(f, m)
    BY DEF GoodForm

LEMMA GoodCaptureKept ==
    ASSUME RowsType, SameOffers, Len(listings') \in Nat,
           NEW c, GoodCapture(c, listings)
    PROVE  GoodCapture(c, listings')
    BY RowFacts DEF GoodCapture, SameOffers

LEMMA NoFormGood == ASSUME NEW n \in Nat PROVE GoodForm(NoForm, n)
    BY DEF GoodForm, NoForm, Form

LEMMA NoCaptureGood == GoodCapture(NoCapture, listings)
    BY DEF GoodCapture, NoCapture, Capture, Purposes

\* Every form after the step is one of before, or one about the rows of before.
LEMMA FormsTypeStep ==
    ASSUME TypeInv, RowEffect, NEW p \in Players,
           NEW f, GoodForm(f, Len(listings)), forms' = [forms EXCEPT ![p] = f]
    PROVE  FormsType'
    <1>1. /\ forms \in [Players -> Form] /\ Len(listings) \in Nat
          /\ Len(listings') \in Nat /\ Len(listings') >= Len(listings)
          /\ \A q \in Players : GoodForm(forms[q], Len(listings))
        BY RowFacts, RowsTypeStep
           DEF TypeInv, FormsType, RowsType, SameOffers
    <1>2. f \in Form
        BY DEF GoodForm
    <1>3. \A q \in Players : GoodForm(forms'[q], Len(listings))
        BY <1>1
    <1>4. \A q \in Players : GoodForm(forms'[q], Len(listings'))
        BY <1>1, <1>3, GoodFormKept
    <1>5. forms' \in [Players -> Form]
        BY <1>1, <1>2
    <1> QED BY <1>4, <1>5 DEF FormsType

LEMMA FormsTypeKept ==
    ASSUME TypeInv, RowEffect, UNCHANGED forms
    PROVE  FormsType'
    <1>1. /\ Len(listings) \in Nat
          /\ Len(listings') \in Nat /\ Len(listings') >= Len(listings)
          /\ \A q \in Players : GoodForm(forms[q], Len(listings))
        BY RowFacts, RowsTypeStep
           DEF TypeInv, FormsType, RowsType, SameOffers
    <1>2. \A q \in Players : GoodForm(forms[q], Len(listings'))
        BY <1>1, GoodFormKept
    <1> QED BY <1>2 DEF TypeInv, FormsType

LEMMA CaptureTypeStep ==
    ASSUME TypeInv, RowEffect, GoodCapture(capture', listings)
    PROVE  CaptureType'
    <1>1. RowsType /\ SameOffers /\ Len(listings') \in Nat
        BY RowsTypeStep DEF TypeInv, RowsType
    <1> QED BY <1>1, GoodCaptureKept DEF CaptureType

LEMMA CaptureTypeKept ==
    ASSUME TypeInv, RowEffect, UNCHANGED capture
    PROVE  CaptureType'
    BY CaptureTypeStep DEF TypeInv, CaptureType

LEMMA PlanTypeStep ==
    ASSUME TypeInv, RowEffect, market' \in BOOLEAN, loaded' \in BOOLEAN,
           index' \in 0 .. Len(listings) \/ index' \in 0 .. Len(listings'),
           settling' \subseteq DOMAIN listings, todo' \subseteq DOMAIN listings
    PROVE  PlanType'
    <1>1. /\ Len(listings) \in Nat /\ DOMAIN listings = 1 .. Len(listings)
          /\ Len(listings') \in Nat /\ DOMAIN listings' = 1 .. Len(listings')
          /\ Len(listings') >= Len(listings)
        BY RowFacts, RowsTypeStep DEF TypeInv, RowsType, SameOffers
    <1>2. DOMAIN listings \subseteq DOMAIN listings'
        BY <1>1
    <1>3. index' \in 0 .. Len(listings')
        BY <1>1
    <1> QED BY <1>2, <1>3 DEF PlanType

LEMMA UseCounts ==
    ASSUME UseType, NEW f, Use(f)
    PROVE  /\ UseType' /\ used.kinds \subseteq used'.kinds
           /\ f \in Remembered => f \in used'.kinds
    <1>1. used.count \in Nat /\ used.kinds \in SUBSET Remembered
        BY DEF UseType
    <1>2. used' = [count |-> used.count + 1,
                   kinds |-> used.kinds \cup ({f} \cap Remembered)]
        BY DEF Use
    <1> QED BY <1>1, <1>2 DEF UseType

\* queueItemFrameCapture keeps a capture that is pending.
LEMMA QueueType ==
    ASSUME TypeInv, NEW c, GoodCapture(c, listings), queueItemFrameCapture(c)
    PROVE  GoodCapture(capture', listings)
    <1>1. CASE Busy
        BY <1>1 DEF queueItemFrameCapture, TypeInv, CaptureType
    <1>2. CASE ~Busy
        <2>1. capture' = [[c EXCEPT !.seen = frame] EXCEPT !.attempt = 1]
            BY <1>2 DEF queueItemFrameCapture
        <2>2. frame \in Items \cup {NoItem} /\ c \in Capture
            BY DEF TypeInv, WorldType, GoodCapture
        <2>3. /\ capture' \in Capture /\ capture'.purpose = c.purpose
              /\ capture'.by = c.by /\ capture'.listing = c.listing
              /\ capture'.item = c.item /\ capture'.price = c.price
            BY <2>1, <2>2 DEF Capture
        <2> QED BY <2>3 DEF GoodCapture
    <1> QED BY <1>1, <1>2

\* The captures a player asks for: of the frame as it is, of one item in it, and
\* of an item that is to be listed.
LEMMA AskedType ==
    ASSUME RowsType, NEW p \in Players, NEW l \in 0 .. Len(listings),
           NEW purpose \in {"toggle", "price", "save", "review", "buy"}
    PROVE  /\ By(purpose, p, l) \in Capture
           /\ By(purpose, p, l).purpose = purpose
           /\ By(purpose, p, l).by = {p} /\ By(purpose, p, l).listing = l
    <1>1. Len(listings) \in Nat /\ l \in Nat
        BY RowFacts
    <1> QED BY <1>1 DEF By, NoCapture, Capture, Purposes

LEMMA AskedGood ==
    ASSUME RowsType, NEW p \in Players, NEW l \in 0 .. Len(listings),
           NEW purpose \in {"toggle", "price"}
    PROVE  GoodCapture(By(purpose, p, l), listings)
    BY AskedType DEF GoodCapture

LEMMA AskedItemGood ==
    ASSUME RowsType, NEW p \in Players, NEW l \in 1 .. Len(listings),
           NEW purpose \in {"price", "review", "buy"}
    PROVE  GoodCapture([By(purpose, p, l) EXCEPT !.item = listings[l].item],
                       listings)
    <1> DEFINE c == By(purpose, p, l)
               d == [c EXCEPT !.item = listings[l].item]
    <1>1. /\ c \in Capture /\ c.purpose = purpose
          /\ c.by = {p} /\ c.listing = l
        <2>1. l \in 0 .. Len(listings)
            BY RowFacts
        <2> QED BY <2>1, AskedType
    <1>2. listings[l].item \in Items
        BY RowFacts
    <1> HIDE DEF c
    <1>3. /\ d \in Capture /\ d.purpose = purpose /\ d.by = {p}
          /\ d.listing = l /\ d.item = listings[l].item
        BY <1>1, <1>2 DEF Capture
    <1> HIDE DEF d
    <1>4. l \in 0 .. Len(listings)
        BY RowFacts
    <1>5. GoodCapture(d, listings)
        BY <1>3, <1>4 DEF GoodCapture
    <1> QED BY <1>5 DEF c, d

LEMMA AskedSaveGood ==
    ASSUME RowsType, NEW p \in Players, NEW l \in 0 .. Len(listings),
           NEW i \in Items, NEW price \in Prices
    PROVE  GoodCapture([By("save", p, l) EXCEPT !.item = i, !.price = price],
                       listings)
    <1> DEFINE c == By("save", p, l)
               e == [c EXCEPT !.item = i]
               d == [e EXCEPT !.price = price]
    <1>1. /\ c \in Capture /\ c.purpose = "save"
          /\ c.by = {p} /\ c.listing = l
        BY AskedType
    <1> HIDE DEF c
    <1>2. /\ e \in Capture /\ e.purpose = "save" /\ e.by = {p}
          /\ e.listing = l /\ e.item = i
        BY <1>1 DEF Capture
    <1> HIDE DEF e
    <1>3. price \in Nat
        BY BoundsAreNat
    <1>4. /\ d \in Capture /\ d.purpose = "save" /\ d.by = {p}
          /\ d.listing = l /\ d.item = i /\ d.price = price
        BY <1>2, <1>3 DEF Capture
    <1> HIDE DEF d
    <1>5. GoodCapture(d, listings)
        BY <1>4 DEF GoodCapture
    <1> QED BY <1>5 DEF c, d, e

SameScene == UNCHANGED <<frame, placed, here, away, held>>

LEMMA SceneKept == WorldType /\ SameScene => WorldType'
    BY DEF WorldType, SameScene

LEMMA WorldTypeKept == WorldType /\ UNCHANGED world => WorldType'
    BY DEF WorldType, world

LEMMA NowType == WorldType => Now \in Scene
    BY DEF WorldType, Now, Scene

\* A drop that is not found is counted as missed, or is not there.
LEMMA MissedOrNone ==
    ASSUME TypeInv, NEW l \in DOMAIN listings, CountMissed(l),
           ~findFrameSaleDrop(l)
    PROVE  late' \/ here[l] = 0
    <1>1. here[l] \in Nat
        BY RowFacts DEF TypeInv, WorldType
    <1>2. CASE here[l] > 0
        BY <1>2, Zenon DEF CountMissed
    <1> QED BY <1>1, <1>2

\* The world after a kill.
LEMMA ReloadType ==
    ASSUME WorldType, DiskType, restart
    PROVE  WorldType' /\ stored' \in [Ids -> Nat]
    <1>1. PICK chunk \in saved \cup {Now}, players \in saved \cup {Now} :
              Reload(chunk, players)
        BY DEF restart
    <1>2. chunk \in Scene /\ players \in Scene
        BY NowType DEF DiskType
    <1> QED BY <1>1, <1>2 DEF Reload, Scene, WorldType

\* A drop that was missed stays missed, and only the present world is saved.
LEMMA DiskTypeStep ==
    ASSUME TypeInv, [Next]_vars
    PROVE  DiskType' /\ (late => late') /\ saved' \subseteq saved \cup {Now}
    <1>p. WorldType /\ DiskType /\ DOMAIN listings \subseteq Ids
        BY RowFacts DEF TypeInv
    <1>1. CASE UNCHANGED disk
        BY <1>p, <1>1 DEF DiskType, disk
    <1>2. CASE UNCHANGED <<stored, saved>> /\ \E l : CountMissed(l)
        <2>1. PICK l : CountMissed(l)
            BY <1>2
        <2>2. late' \in BOOLEAN /\ (late => late')
            BY <2>1, Zenon DEF CountMissed
        <2> QED BY <1>p, <1>2, <2>2 DEF DiskType
    <1>3. ASSUME NEW l \in DOMAIN listings,
                 \/ settleClosed(l) \/ adoptDrop(l) \/ settleLater(l)
                 \/ settleWithoutFrame(l) \/ beginSettlement(l)
          PROVE  DiskType' /\ (late => late') /\ saved' \subseteq saved \cup {Now}
        BY <1>1, <1>2, <1>3 DEF settleClosed, adoptDrop, settleLater,
           settleWithoutFrame, beginSettlement, spawnFrameSaleDrop, world, disk
    <1>4. CASE retryCapture \/ failedCapture \/ rejectCapture \/ openPriceForm
               \/ saveListing \/ openPurchaseReview \/ purchase
               \/ activateFrame \/ recoverFrameListings \/ rightClick
        BY <1>1, <1>4 DEF retryCapture, failedCapture, rejectCapture,
           openPriceForm, saveListing, openPurchaseReview, purchase,
           activateFrame, recoverFrameListings, rightClick, world, disk
    <1>5. CASE clearFrame \/ dropItem \/ verifyFails
        BY <1>1, <1>2, <1>5 DEF clearFrame, dropItem, verifyFails,
           spawnFrameSaleDrop, disk
    <1>6. ASSUME NEW p \in Players,
                 \/ handlePriceStick(p) \/ changePrice(p) \/ closeForm(p)
                 \/ leftClick(p) \/ confirmPurchase(p) \/ toggleBlock(p)
                 \/ cancelListing(p) \/ \E price \in Prices : submitPrice(p, price)
          PROVE  DiskType' /\ (late => late') /\ saved' \subseteq saved \cup {Now}
        BY <1>1, <1>6 DEF handlePriceStick, changePrice, closeForm, leftClick,
           confirmPurchase, toggleBlock, cancelListing, submitPrice, world, disk
    <1>7. ASSUME NEW l \in DOMAIN listings,
                 pickUp(l) \/ takeFromChest(l) \/ hopper(l)
          PROVE  DiskType' /\ (late => late') /\ saved' \subseteq saved \cup {Now}
        BY <1>1, <1>7 DEF pickUp, takeFromChest, hopper
    <1>8. ASSUME NEW i \in Items, putItem(i)
          PROVE  DiskType' /\ (late => late') /\ saved' \subseteq saved \cup {Now}
        BY <1>1, <1>8 DEF putItem
    <1>9. CASE takeItem \/ breakFrame \/ popFrame \/ placeFrame \/ loadChunk
               \/ UNCHANGED vars
        BY <1>1, <1>9 DEF takeItem, breakFrame, popFrame, placeFrame, loadChunk,
           FrameGone, vars, world, disk
    <1>10. CASE unloadChunk \/ dropsReturn
        BY <1>p, <1>10 DEF unloadChunk, dropsReturn, WorldType, DiskType
    <1>11. CASE lastSave
        BY <1>p, <1>11, NowType DEF lastSave, DiskType
    <1>12. CASE restart
        BY <1>p, <1>12, ReloadType DEF restart, DiskType
    <1> QED BY <1>3, <1>4, <1>5, <1>6, <1>7, <1>8, <1>9, <1>10, <1>11, <1>12
            DEF Next, settleFrameListing, completeItemFrameCapture

LEMMA PoppedType ==
    WorldType => Popped \in [Items -> Nat]
    <1>1. ASSUME WorldType, frame = NoItem PROVE Popped \in [Items -> Nat]
        BY <1>1 DEF Popped, WorldType
    <1>2. ASSUME WorldType, frame # NoItem PROVE Popped \in [Items -> Nat]
        <2>1. frame \in Items /\ held \in [Items -> Nat] /\ held[frame] + 1 \in Nat
            BY <1>2 DEF WorldType
        <2>2. Popped = [held EXCEPT ![frame] = held[frame] + 1]
            BY <1>2 DEF Popped
        <2> QED BY ONLY <2>1, <2>2
    <1> QED BY <1>1, <1>2

LEMMA DropType ==
    ASSUME TypeInv, NEW l \in DOMAIN listings, spawnFrameSaleDrop(l)
    PROVE  here' \in [Ids -> Nat] /\ settling' \subseteq DOMAIN listings
           /\ UseType'
    <1>1. l \in Ids /\ here \in [Ids -> Nat] /\ settling \subseteq DOMAIN listings
          /\ UseType
        BY RowFacts DEF TypeInv, WorldType, PlanType
    <1>2. here' \in [Ids -> Nat]
        BY <1>1 DEF spawnFrameSaleDrop
    <1>3. UseType'
        BY <1>1, UseCounts DEF spawnFrameSaleDrop, markFrameListingDropped, Fault,
                               UseType
    <1> QED BY <1>1, <1>2, <1>3 DEF spawnFrameSaleDrop

\* The parts of the type that settling a listing changes.
LEMMA SettlingType ==
    ASSUME TypeInv, RowEffect, RowsType', DiskType', settleFrameListing
    PROVE  TypeInv'
    <1>p. /\ PlanType /\ WorldType /\ UseType /\ CaptureType /\ Len(listings) \in Nat
          /\ index \in 0 .. Len(listings)
        BY RowFacts DEF TypeInv, PlanType
    <1>f. FormsType' /\ loaded' \in BOOLEAN /\ market' \in BOOLEAN
          /\ todo' \subseteq DOMAIN listings
        BY <1>p, FormsTypeKept DEF settleFrameListing, settleClosed, adoptDrop,
           settleLater, settleWithoutFrame, beginSettlement, PlanType, Settles
    <1>1. ASSUME NEW l \in DOMAIN listings, settleClosed(l) \/ settleLater(l)
          PROVE  TypeInv'
        <2>1. /\ UNCHANGED <<capture, settling, used, world>>
              /\ index' \in 0 .. Len(listings)
            BY <1>p, <1>1 DEF settleClosed, settleLater
        <2>2. PlanType'
            BY <1>p, <1>f, <2>1, PlanTypeStep DEF PlanType
        <2>3. UseType'
            BY <1>p, <2>1 DEF UseType
        <2> QED BY <1>f, <1>p, <2>1, <2>2, <2>3, CaptureTypeKept, WorldTypeKept
                DEF TypeInv
    <1>2. ASSUME NEW l \in DOMAIN listings, adoptDrop(l)
          PROVE  TypeInv'
        <2>1. /\ UNCHANGED <<capture, index, world>>
              /\ settling' \subseteq DOMAIN listings
            BY <1>p, <1>2 DEF adoptDrop, PlanType
        <2>2. PlanType'
            BY <1>p, <1>f, <2>1, PlanTypeStep
        <2>3. UseType'
            BY <1>p, <1>2, UseCounts
               DEF adoptDrop, markFrameListingDropped, Fault, UseType
        <2> QED BY <1>f, <1>p, <2>1, <2>2, <2>3, CaptureTypeKept, WorldTypeKept
                DEF TypeInv
    <1>3. ASSUME NEW l \in DOMAIN listings, settleWithoutFrame(l)
          PROVE  TypeInv'
        <2>1. /\ here' \in [Ids -> Nat] /\ settling' \subseteq DOMAIN listings
              /\ UseType'
            BY <1>3, DropType DEF settleWithoutFrame
        <2>2. UNCHANGED <<capture, index, frame, placed, away, held>>
            BY <1>3 DEF settleWithoutFrame
        <2>3. PlanType'
            BY <1>p, <1>f, <2>1, <2>2, PlanTypeStep
        <2>4. WorldType'
            BY <1>p, <2>1, <2>2 DEF WorldType
        <2> QED BY <1>f, <2>1, <2>2, <2>3, <2>4, CaptureTypeKept DEF TypeInv
    <1>4. ASSUME NEW l \in DOMAIN listings, beginSettlement(l)
          PROVE  TypeInv'
        <2>1. /\ UNCHANGED <<index, used>> /\ SameScene
              /\ settling' \subseteq DOMAIN listings
            BY <1>p, <1>4 DEF beginSettlement, PlanType, SameScene
        <2>2. PlanType'
            BY <1>p, <1>f, <2>1, PlanTypeStep
        <2>3. GoodCapture(capture', listings)
            <3> DEFINE c1 == [NoCapture EXCEPT !.purpose = "settle"]
                       c2 == [c1 EXCEPT !.listing = l]
                       c3 == [c2 EXCEPT !.item = listings[l].item]
                       c4 == [c3 EXCEPT !.seen = frame]
                       c5 == [c4 EXCEPT !.attempt = 1]
            <3>1. capture' = c5
                BY <1>4 DEF beginSettlement
            <3>2. l \in Nat /\ l \in 1 .. Len(listings) /\ listings[l].item \in Items
                  /\ frame \in Items \cup {NoItem}
                BY <1>p, RowFacts DEF TypeInv, WorldType
            <3>3. c2 \in Capture /\ c2.purpose = "settle" /\ c2.listing = l
                BY <3>2 DEF NoCapture, Capture, Purposes
            <3> HIDE DEF c2
            <3>4. c3 \in Capture /\ c3.purpose = "settle" /\ c3.listing = l
                  /\ c3.item = listings[l].item
                BY <3>2, <3>3 DEF Capture
            <3> HIDE DEF c3
            <3>5. c5 \in Capture /\ c5.purpose = "settle" /\ c5.listing = l
                  /\ c5.item = listings[l].item
                BY <3>2, <3>4 DEF Capture
            <3> QED BY <3>1, <3>2, <3>5 DEF GoodCapture
        <2>4. UseType'
            BY <1>p, <2>1 DEF UseType
        <2> QED BY <1>f, <1>p, <2>1, <2>2, <2>3, <2>4, CaptureTypeStep,
                   SceneKept DEF TypeInv
    <1> QED BY <1>1, <1>2, <1>3, <1>4 DEF settleFrameListing

\* The parts of the type that a completed capture changes.
LEMMA CaptureDoneType ==
    ASSUME TypeInv, RowEffect, RowsType', DiskType', completeItemFrameCapture
    PROVE  TypeInv'
    <1>p. /\ PlanType /\ WorldType /\ UseType /\ CaptureType /\ Len(listings) \in Nat
          /\ index \in 0 .. Len(listings) /\ market \in BOOLEAN
          /\ loaded \in BOOLEAN /\ settling \subseteq DOMAIN listings
          /\ todo \subseteq DOMAIN listings /\ frame \in Items \cup {NoItem}
          /\ GoodCapture(capture, listings) /\ capture \in Capture
          /\ DOMAIN listings = 1 .. Len(listings)
          /\ index' \in 0 .. Len(listings) /\ settling' \subseteq DOMAIN listings
             /\ todo' \subseteq DOMAIN listings
                /\ market' \in BOOLEAN /\ loaded' \in BOOLEAN => PlanType'
        BY RowFacts, PlanTypeStep
           DEF TypeInv, PlanType, WorldType, CaptureType, GoodCapture
    <1>n. capture' = NoCapture => CaptureType'
        BY CaptureTypeStep, NoCaptureGood
    <1>1. CASE retryCapture
        <2>1. capture' = [[capture EXCEPT !.seen = frame]
                              EXCEPT !.attempt = capture.attempt + 1]
            BY <1>1 DEF retryCapture
        <2>2. /\ capture' \in Capture /\ capture'.purpose = capture.purpose
              /\ capture'.by = capture.by /\ capture'.listing = capture.listing
              /\ capture'.item = capture.item /\ capture'.price = capture.price
            <3> DEFINE c == [capture EXCEPT !.seen = frame]
            <3>1. capture.attempt \in Nat
                BY <1>p DEF Capture
            <3>2. /\ c \in Capture /\ c.purpose = capture.purpose
                  /\ c.by = capture.by /\ c.listing = capture.listing
                  /\ c.item = capture.item /\ c.price = capture.price
                BY <1>p DEF Capture
            <3>3. capture' = [c EXCEPT !.attempt = capture.attempt + 1]
                BY <2>1
            <3>4. capture.attempt + 1 \in Nat
                BY <3>1
            <3> HIDE DEF c
            <3> QED BY ONLY <3>2, <3>3, <3>4 DEF Capture
        <2>3. GoodCapture(capture', listings)
            BY <1>p, <2>2 DEF GoodCapture
        <2>4. UseType'
            BY <1>p, <1>1, UseCounts DEF retryCapture
        <2> QED BY <1>1, <1>p, <2>3, <2>4, FormsTypeKept, CaptureTypeStep,
                   WorldTypeKept DEF retryCapture, TypeInv
    <1>2. CASE failedCapture
        <2>1. UseType'
            BY <1>p, <1>2, UseCounts DEF failedCapture, Unreadable, UseType
        <2> QED BY <1>2, <1>p, <1>n, <2>1, FormsTypeKept, WorldTypeKept
                DEF failedCapture, TypeInv
    <1>3. CASE rejectCapture
        BY <1>3, <1>p, <1>n, FormsTypeKept, WorldTypeKept
           DEF rejectCapture, TypeInv, UseType
    <1>4. CASE openPriceForm
        <2> DEFINE f == [kind |-> "price", listing |-> capture.listing,
                         item |-> capture.seen]
        <2>1. GoodForm(f, Len(listings))
            <3>1. capture.purpose = "price" /\ capture.seen # NoItem
                BY <1>4 DEF openPriceForm, Completes
            <3>2. capture.listing \in 0 .. Len(listings) /\ capture.seen \in Items
                BY <1>p, <3>1 DEF GoodCapture, Capture
            <3> QED BY <1>p, <3>2 DEF GoodForm, Form
        <2>2. Asker \in Players
            BY <1>4, <1>p, AskerIsPlayer DEF openPriceForm, Completes
        <2>3. FormsType'
            BY <1>4, <2>1, <2>2, FormsTypeStep DEF openPriceForm
        <2> QED BY <1>4, <1>p, <1>n, <2>3, WorldTypeKept
                DEF openPriceForm, TypeInv, UseType
    <1>5. CASE saveListing
        <2>1. UseType'
            BY <1>p, <1>5, UseCounts DEF saveListing, Fault, UseType
        <2>2. index' \in 0 .. Len(listings')
            <3>1. Len(listings') \in Nat /\ Len(listings') >= Len(listings)
                BY RowsTypeStep DEF TypeInv, SameOffers, RowsType
            <3>2. UNCHANGED index \/ index' = binding'
                BY <1>5 DEF saveListing, upsertFrameListing
            <3>3. binding' \in 0 .. Len(listings')
                BY DEF RowsType
            <3> QED BY <1>p, <3>1, <3>2, <3>3
        <2>3. PlanType'
            BY <1>5, <1>p, <2>2, PlanTypeStep DEF saveListing
        <2> QED BY <1>5, <1>p, <1>n, <2>1, <2>3, FormsTypeKept, WorldTypeKept
                DEF saveListing, TypeInv
    <1>6. CASE openPurchaseReview
        <2> DEFINE f == [kind |-> "review", listing |-> capture.listing,
                         item |-> NoItem]
        <2>1. GoodForm(f, Len(listings))
            <3>1. capture.purpose = "review"
                BY <1>6 DEF openPurchaseReview, Completes
            <3>2. capture.listing \in 1 .. Len(listings)
                BY <1>p, <3>1 DEF GoodCapture
            <3> QED BY <1>p, <3>2 DEF GoodForm, Form
        <2>2. Asker \in Players
            BY <1>6, <1>p, AskerIsPlayer DEF openPurchaseReview, Completes
        <2>3. FormsType'
            BY <1>6, <2>1, <2>2, FormsTypeStep DEF openPurchaseReview
        <2> QED BY <1>6, <1>p, <1>n, <2>3, WorldTypeKept
                DEF openPurchaseReview, TypeInv, UseType
    <1>7. CASE purchase
        <2>1. capture.listing \in 1 .. Len(listings)
            BY <1>7, <1>p DEF purchase, Completes, GoodCapture
        <2>2. index' \in 0 .. Len(listings) /\ todo' \subseteq DOMAIN listings
            BY <1>7, <1>p, <2>1 DEF purchase
        <2>3. PlanType'
            BY <1>7, <1>p, <2>2 DEF purchase
        <2>4. UseType'
            BY <1>p, <1>7, UseCounts DEF purchase, Fault, UseType
        <2> QED BY <1>7, <1>p, <1>n, <2>3, <2>4, FormsTypeKept, WorldTypeKept
                DEF purchase, TypeInv
    <1>8. CASE clearFrame
        <2>1. capture' = [[[capture EXCEPT !.purpose = "verify"]
                              EXCEPT !.seen = NoItem] EXCEPT !.attempt = 1]
            BY <1>8 DEF clearFrame
        <2>2. /\ capture' \in Capture /\ capture'.purpose = "verify"
              /\ capture'.listing = capture.listing
              /\ capture'.item = capture.item
            BY <1>p, <2>1 DEF Capture, Purposes
        <2>3. capture.purpose = "settle"
            BY <1>8 DEF clearFrame, Completes
        <2>4. GoodCapture(capture', listings)
            BY <1>p, <2>2, <2>3 DEF GoodCapture
        <2>5. WorldType'
            BY <1>8, <1>p DEF clearFrame, WorldType
        <2> QED BY <1>8, <1>p, <2>4, <2>5, FormsTypeKept, CaptureTypeStep
                DEF clearFrame, TypeInv, UseType
    <1>9. CASE dropItem
        <2>1. capture.listing \in DOMAIN listings
            BY <1>9, <1>p DEF dropItem, GoodCapture
        <2>2. here' \in [Ids -> Nat] /\ settling' \subseteq DOMAIN listings
              /\ UseType'
            BY <1>9, <2>1, DropType DEF dropItem
        <2>3. WorldType'
            BY <1>9, <1>p, <2>2 DEF dropItem, WorldType
        <2> QED BY <1>9, <1>p, <1>n, <2>2, <2>3, FormsTypeKept
                DEF dropItem, TypeInv
    <1>10. CASE verifyFails
        <2>1. capture.listing \in DOMAIN listings
            BY <1>10, <1>p DEF verifyFails, GoodCapture
        <2>2. here' \in [Ids -> Nat] /\ settling' \subseteq DOMAIN listings
              /\ UseType'
            <3>1. CASE spawnFrameSaleDrop(capture.listing)
                BY <2>1, <3>1, DropType
            <3>2. CASE ~spawnFrameSaleDrop(capture.listing)
                <4>1. UNCHANGED here /\ settling' \subseteq settling
                      /\ (Use("unread") \/ UNCHANGED used)
                    BY <1>10, <3>2 DEF verifyFails
                <4> QED BY <1>p, <4>1, UseCounts DEF WorldType, UseType
            <3> QED BY <3>1, <3>2
        <2>3. WorldType'
            BY <1>10, <1>p, <2>2 DEF verifyFails, WorldType
        <2> QED BY <1>10, <1>p, <1>n, <2>2, <2>3, FormsTypeKept
                DEF verifyFails, TypeInv
    <1>11. CASE activateFrame
        BY <1>11, <1>p, <1>n, FormsTypeKept, WorldTypeKept
           DEF activateFrame, TypeInv, UseType
    <1> QED BY <1>1, <1>2, <1>3, <1>4, <1>5, <1>6, <1>7, <1>8, <1>9, <1>10,
               <1>11 DEF completeItemFrameCapture

\* The parts of the type that a player's event changes.
LEMMA PlayersType ==
    ASSUME TypeInv, RowEffect, RowsType', DiskType', NEW p \in Players,
           \/ handlePriceStick(p) \/ changePrice(p) \/ cancelListing(p)
           \/ closeForm(p) \/ leftClick(p) \/ confirmPurchase(p)
           \/ toggleBlock(p)
           \/ \E price \in Prices : submitPrice(p, price)
    PROVE  TypeInv'
    <1>p. /\ RowsType
          /\ PlanType /\ WorldType /\ UseType /\ CaptureType /\ Len(listings) \in Nat
          /\ index \in 0 .. Len(listings) /\ market \in BOOLEAN
          /\ loaded \in BOOLEAN /\ settling \subseteq DOMAIN listings
          /\ todo \subseteq DOMAIN listings
          /\ binding \in 0 .. Len(listings)
          /\ GoodCapture(capture, listings)
          /\ DOMAIN listings = 1 .. Len(listings)
          /\ GoodForm(forms[p], Len(listings))
          /\ 0 \in 0 .. Len(listings)
          /\ index' \in 0 .. Len(listings) /\ settling' \subseteq DOMAIN listings
             /\ todo' \subseteq DOMAIN listings
                /\ market' \in BOOLEAN /\ loaded' \in BOOLEAN => PlanType'
        <2>1. /\ RowsType /\ PlanType /\ WorldType /\ UseType /\ CaptureType
              /\ FormsType
            BY DEF TypeInv
        <2>2. Len(listings) \in Nat /\ DOMAIN listings = 1 .. Len(listings)
            BY <2>1, RowFacts
        <2>3. index' \in 0 .. Len(listings) /\ settling' \subseteq DOMAIN listings
                 /\ todo' \subseteq DOMAIN listings
                    /\ market' \in BOOLEAN /\ loaded' \in BOOLEAN => PlanType'
            BY PlanTypeStep
        <2> QED BY <2>1, <2>2, <2>3
                DEF PlanType, CaptureType, RowsType, FormsType
    <1>w. WorldType'
        BY <1>p, WorldTypeKept DEF handlePriceStick, changePrice, cancelListing,
           closeForm, leftClick, confirmPurchase, toggleBlock, submitPrice
    <1>o. forms' = [forms EXCEPT ![p] = NoForm] => FormsType'
        BY <1>p, FormsTypeStep, NoFormGood
    <1>1. CASE handlePriceStick(p)
        <2>1. GoodCapture(capture', listings)
            <3>1. GoodCapture(By("price", p, 0), listings)
                BY <1>p, AskedGood
            <3> QED BY <1>1, <1>p, <3>1, QueueType DEF handlePriceStick
        <2>2. FormsType'
            <3> DEFINE f == [[NoForm EXCEPT !.kind = "manage"]
                                 EXCEPT !.listing = binding]
            <3>1. CASE forms' = [forms EXCEPT ![p] = f] /\ binding # 0
                <4>1. binding \in 1 .. Len(listings) /\ binding \in Nat
                    BY <1>p, <3>1
                <4>2. f \in Form /\ f.kind = "manage" /\ f.listing = binding
                    BY <4>1 DEF NoForm, Form
                <4> HIDE DEF f
                <4>3. GoodForm(f, Len(listings))
                    BY <4>1, <4>2 DEF GoodForm
                <4> QED BY <3>1, <4>3, FormsTypeStep
            <3>2. CASE UNCHANGED forms
                BY <3>2, FormsTypeKept
            <3> QED BY <1>1, <3>1, <3>2 DEF handlePriceStick
        <2>3. index' \in 0 .. Len(listings) /\ todo' \subseteq DOMAIN listings
            BY <1>1, <1>p DEF handlePriceStick
        <2> QED BY <1>1, <1>p, <1>w, <2>1, <2>2, <2>3, CaptureTypeStep
                DEF handlePriceStick, TypeInv, UseType
    <1>2. CASE changePrice(p)
        <2>1. GoodCapture(capture', listings)
            <3>1. forms[p].listing \in 1 .. Len(listings)
                BY <1>2, <1>p DEF changePrice, Answers, GoodForm
            <3>2. GoodCapture([By("price", p, forms[p].listing) EXCEPT
                                  !.item = listings[forms[p].listing].item],
                              listings)
                BY <1>p, <3>1, AskedItemGood
            <3> QED BY <1>2, <3>2, QueueType DEF changePrice
        <2>2. UseType'
            BY <1>2, <1>p, UseCounts DEF changePrice, CountStale, UseType
        <2>3. FormsType'
            BY <1>2, <1>o DEF changePrice, Answers
        <2> QED BY <1>2, <1>p, <1>w, <2>1, <2>2, <2>3, CaptureTypeStep
                DEF changePrice, TypeInv
    <1>3. CASE cancelListing(p)
        <2>1. UseType'
            BY <1>3, <1>p, UseCounts DEF cancelListing, CountStale, Fault, UseType
        <2>2. index' \in 0 .. Len(listings)
            BY <1>3, <1>p DEF cancelListing
        <2>3. FormsType'
            BY <1>3, <1>o DEF cancelListing, Answers
        <2> QED BY <1>3, <1>p, <1>w, <2>1, <2>2, <2>3, CaptureTypeKept
                DEF cancelListing, TypeInv
    <1>4. CASE closeForm(p)
        <2>1. FormsType'
            BY <1>4, <1>o DEF closeForm
        <2> QED BY <1>4, <1>p, <1>w, <2>1, CaptureTypeKept
                DEF closeForm, TypeInv, UseType
    <1>5. CASE leftClick(p)
        <2>1. index \in 1 .. Len(listings)
            BY <1>5, <1>p DEF leftClick
        <2>2. index' \in 0 .. Len(listings) /\ todo' \subseteq DOMAIN listings
            BY <1>5, <1>p, <2>1 DEF leftClick
        <2>3. GoodCapture(capture', listings)
            <3>1. GoodCapture([By("review", p, index) EXCEPT
                                  !.item = listings[index].item], listings)
                BY <1>p, <2>1, AskedItemGood
            <3> QED BY <1>5, <1>p, <3>1, QueueType DEF leftClick
        <2> QED BY <1>5, <1>p, <1>w, <2>2, <2>3, FormsTypeKept, CaptureTypeStep
                DEF leftClick, TypeInv, UseType
    <1>6. CASE confirmPurchase(p)
        <2>1. forms[p].listing \in 1 .. Len(listings)
            BY <1>6, <1>p DEF confirmPurchase, Answers, GoodForm
        <2>2. GoodCapture(capture', listings)
            <3>1. GoodCapture([By("buy", p, forms[p].listing) EXCEPT
                                  !.item = listings[forms[p].listing].item],
                              listings)
                BY <1>p, <2>1, AskedItemGood
            <3> QED BY <1>6, <3>1, QueueType DEF confirmPurchase
        <2>3. FormsType'
            BY <1>6, <1>o DEF confirmPurchase, Answers
        <2> QED BY <1>6, <1>p, <1>w, <2>2, <2>3, CaptureTypeStep
                DEF confirmPurchase, TypeInv, UseType
    <1>7. CASE toggleBlock(p)
        <2>1. GoodCapture(capture', listings)
            <3>1. GoodCapture(By("toggle", p, 0), listings)
                BY <1>p, AskedGood
            <3> QED BY <1>7, <1>p, <3>1, QueueType DEF toggleBlock
        <2>2. UseType' /\ market' \in BOOLEAN
            BY <1>7, <1>p, UseCounts DEF toggleBlock, UseType
        <2> QED BY <1>7, <1>p, <1>w, <2>1, <2>2, FormsTypeKept, CaptureTypeStep
                DEF toggleBlock, TypeInv
    <1>8. ASSUME NEW price \in Prices, submitPrice(p, price) PROVE TypeInv'
        <2>1. forms[p].listing \in 0 .. Len(listings) /\ forms[p].item \in Items
            BY <1>8, <1>p DEF submitPrice, Answers, GoodForm
        <2>2. GoodCapture(capture', listings)
            <3>1. GoodCapture([By("save", p, forms[p].listing) EXCEPT
                                  !.item = forms[p].item, !.price = price],
                              listings)
                BY <1>p, <2>1, AskedSaveGood
            <3> QED BY <1>8, <3>1, QueueType DEF submitPrice
        <2>3. FormsType'
            BY <1>8, <1>o DEF submitPrice, Answers
        <2> QED BY <1>8, <1>p, <1>w, <2>2, <2>3, CaptureTypeStep
                DEF submitPrice, TypeInv, UseType
    <1> QED BY <1>1, <1>2, <1>3, <1>4, <1>5, <1>6, <1>7, <1>8

\* The parts of the type that pickups, the world and the process change.
LEMMA WorldsType ==
    ASSUME TypeInv, RowEffect, RowsType', DiskType',
           \/ \E l \in DOMAIN listings :
                 pickUp(l) \/ takeFromChest(l) \/ hopper(l)
           \/ \E i \in Items : putItem(i)
           \/ takeItem \/ breakFrame \/ popFrame \/ placeFrame
           \/ unloadChunk \/ loadChunk \/ dropsReturn \/ lastSave \/ restart
           \/ rightClick \/ recoverFrameListings
    PROVE  TypeInv'
    <1>p. /\ PlanType /\ WorldType /\ UseType /\ CaptureType /\ Len(listings) \in Nat
          /\ index \in 0 .. Len(listings) /\ market \in BOOLEAN
          /\ loaded \in BOOLEAN /\ settling \subseteq DOMAIN listings
          /\ todo \subseteq DOMAIN listings
          /\ binding \in 0 .. Len(listings)
          /\ DOMAIN listings = 1 .. Len(listings) /\ DOMAIN listings \subseteq Ids
          /\ 0 \in 0 .. Len(listings)
          /\ index' \in 0 .. Len(listings) /\ settling' \subseteq DOMAIN listings
             /\ todo' \subseteq DOMAIN listings
                /\ market' \in BOOLEAN /\ loaded' \in BOOLEAN => PlanType'
        BY RowFacts, PlanTypeStep
           DEF TypeInv, PlanType, WorldType, CaptureType, RowsType
    <1>h. Popped \in [Items -> Nat]
        BY <1>p, PoppedType
    <1>i. \A l \in DOMAIN listings : listings[l].item \in Items
        BY <1>p, RowFacts DEF TypeInv
    <1>1. ASSUME NEW l \in DOMAIN listings, TakesItem(l)
          PROVE  /\ held' \in [Items -> Nat] /\ index' \in 0 .. Len(listings)
                 /\ UseType'
        <2>1. held' \in [Items -> Nat] /\ index' \in 0 .. Len(listings)
            BY <1>1, <1>i, <1>p DEF TakesItem, WorldType
        <2>2. UseType'
            <3>1. CASE used' = used
                BY <1>p, <3>1 DEF UseType
            <3>2. CASE used' = [used EXCEPT !.kinds = @ \cup {"retaken"}]
                BY <1>p, <3>2 DEF UseType, Remembered
            <3> QED BY <1>1, <3>1, <3>2 DEF TakesItem
        <2> QED BY <2>1, <2>2
    <1>2. ASSUME NEW l \in DOMAIN listings, pickUp(l) PROVE TypeInv'
        <2>1. l \in Ids /\ here[l] > 0 /\ here \in [Ids -> Nat]
            BY <1>2, <1>p, FoundIsThere DEF pickUp, WorldType
        <2>2. /\ here' \in [Ids -> Nat] /\ held' \in [Items -> Nat]
              /\ index' \in 0 .. Len(listings) /\ UseType'
            <3>1. CASE TakesItem(l) /\ here' = [here EXCEPT ![l] = @ - 1]
                BY <1>1, <2>1, <3>1
            <3>2. CASE Fault /\ UNCHANGED <<index, held, here>>
                BY <1>p, <2>1, <3>2, UseCounts DEF Fault, WorldType
            <3> QED BY <1>2, <3>1, <3>2 DEF pickUp
        <2>3. WorldType'
            BY <1>2, <1>p, <2>2 DEF pickUp, WorldType
        <2> QED BY <1>2, <1>p, <2>2, <2>3, FormsTypeKept, CaptureTypeKept
                DEF pickUp, TypeInv
    <1>3. ASSUME NEW l \in DOMAIN listings, takeFromChest(l) PROVE TypeInv'
        <2>1. l \in Ids /\ away[l] > 0 /\ away \in [Ids -> Nat]
            BY <1>3, <1>p DEF takeFromChest, WorldType
        <2>2. /\ held' \in [Items -> Nat] /\ away' \in [Ids -> Nat]
              /\ index' \in 0 .. Len(listings) /\ UseType'
            BY <1>1, <1>3, <2>1 DEF takeFromChest
        <2>3. WorldType'
            BY <1>3, <1>p, <2>2 DEF takeFromChest, WorldType
        <2> QED BY <1>3, <1>p, <2>2, <2>3, FormsTypeKept, CaptureTypeKept
                DEF takeFromChest, TypeInv
    <1>4. ASSUME NEW l \in DOMAIN listings, hopper(l) PROVE TypeInv'
        <2>1. /\ l \in Ids /\ here[l] \in Nat /\ away[l] \in Nat /\ here[l] > 0
              /\ here \in [Ids -> Nat] /\ away \in [Ids -> Nat]
            BY <1>4, <1>p, FoundIsThere DEF hopper, WorldType
        <2>3. /\ here' = [here EXCEPT ![l] = here[l] - 1]
              /\ away' = [away EXCEPT ![l] = away[l] + 1]
            BY <1>4 DEF hopper
        <2>4. here' \in [Ids -> Nat] /\ away' \in [Ids -> Nat]
            BY ONLY <2>1, <2>3
        <2>5. WorldType'
            BY <1>4, <1>p, <2>4 DEF hopper, WorldType
        <2>2. UseType'
            BY <1>4, <1>p, UseCounts DEF hopper
        <2> QED BY <1>4, <1>p, <2>5, <2>2, FormsTypeKept, CaptureTypeKept
                DEF hopper, TypeInv
    <1>5. ASSUME NEW i \in Items, putItem(i) PROVE TypeInv'
        <2>1. WorldType'
            BY <1>5, <1>p DEF putItem, WorldType
        <2> QED BY <1>5, <1>p, <2>1, FormsTypeKept, CaptureTypeKept
                DEF putItem, TypeInv, UseType
    <1>6. CASE takeItem
        <2>1. WorldType'
            BY <1>6, <1>h, <1>p DEF takeItem, WorldType
        <2> QED BY <1>6, <1>p, <2>1, FormsTypeKept, CaptureTypeKept
                DEF takeItem, TypeInv, UseType
    <1>7. CASE breakFrame \/ popFrame
        <2>1. WorldType'
            BY <1>7, <1>h, <1>p DEF breakFrame, popFrame, FrameGone, WorldType
        <2>2. UseType' /\ market' \in BOOLEAN
            BY <1>7, <1>p, UseCounts DEF breakFrame, popFrame
        <2> QED BY <1>7, <1>p, <2>1, <2>2, FormsTypeKept, CaptureTypeKept
                DEF breakFrame, popFrame, FrameGone, TypeInv
    <1>8. CASE placeFrame
        <2>1. WorldType'
            BY <1>8, <1>p DEF placeFrame, WorldType
        <2> QED BY <1>8, <1>p, <2>1, FormsTypeKept, CaptureTypeKept
                DEF placeFrame, TypeInv, UseType
    <1>9. CASE unloadChunk \/ loadChunk
        <2>1. UseType'
            BY <1>9, <1>p, UseCounts DEF unloadChunk, loadChunk, UseType
        <2>2. WorldType'
            BY <1>9, <1>p, SceneKept, WorldTypeKept
               DEF unloadChunk, loadChunk, SameScene
        <2> QED BY <1>9, <1>p, <2>1, <2>2, FormsTypeKept, CaptureTypeKept
                DEF unloadChunk, loadChunk, TypeInv
    <1>12. CASE dropsReturn \/ lastSave
        <2>1. UseType'
            BY <1>12, <1>p DEF dropsReturn, lastSave, UseType
        <2>2. WorldType'
            BY <1>12, <1>p, SceneKept DEF dropsReturn, lastSave, SameScene
        <2> QED BY <1>12, <1>p, <2>1, <2>2, FormsTypeKept, CaptureTypeKept
                DEF dropsReturn, lastSave, TypeInv
    <1>10. CASE restart
        <2>1. UseType'
            <3>1. CASE saved = {}
                BY <1>10, <1>p, <3>1, UseCounts DEF restart
            <3>2. CASE saved # {}
                BY <1>10, <1>p, <3>2 DEF restart, UseType, Remembered
            <3> QED BY <3>1, <3>2
        <2>4. WorldType'
            BY <1>10, <1>p, ReloadType DEF TypeInv
        <2>2. CaptureType'
            BY <1>10, CaptureTypeStep, NoCaptureGood DEF restart
        <2>3. FormsType'
            <3>1. forms' = [q \in Players |-> NoForm]
                BY <1>10 DEF restart
            <3>2. Len(listings') \in Nat
                BY DEF RowsType
            <3>3. GoodForm(NoForm, Len(listings')) /\ NoForm \in Form
                BY <3>2, NoFormGood DEF GoodForm
            <3> QED BY <3>1, <3>3 DEF FormsType
        <2> QED BY <1>10, <1>p, <2>1, <2>2, <2>3, <2>4
                DEF restart, restoreFrameListingIndex, TypeInv
    <1>11. CASE rightClick \/ recoverFrameListings
        <2>1. index' \in 0 .. Len(listings) /\ todo' \subseteq DOMAIN listings
            BY <1>11, <1>p DEF rightClick, recoverFrameListings,
                               unsettledFrameListings
        <2> QED BY <1>11, <1>p, <2>1, FormsTypeKept, CaptureTypeKept,
                   WorldTypeKept
                DEF rightClick, recoverFrameListings, TypeInv, UseType
    <1> QED BY <1>2, <1>3, <1>4, <1>5, <1>6, <1>7, <1>8, <1>9, <1>10, <1>11,
               <1>12

LEMMA TypeStep == TypeInv /\ [Next]_vars => TypeInv'
    <1> SUFFICES ASSUME TypeInv, [Next]_vars PROVE TypeInv'
        OBVIOUS
    <1>1. RowEffect /\ RowsType' /\ DiskType'
        BY RowEffects, RowsTypeStep, DiskTypeStep DEF TypeInv
    <1>2. CASE UNCHANGED vars
        <2>1. UNCHANGED <<listings, binding, balance, index, market, frame,
                          placed, here, away, held, forms, capture, settling,
                          loaded, todo, used>>
            BY <1>2 DEF vars
        <2> QED BY <1>1, <2>1, FormsTypeKept, CaptureTypeKept
                DEF TypeInv, PlanType, WorldType, UseType
    <1> QED BY <1>1, <1>2, SettlingType, CaptureDoneType, PlayersType,
               WorldsType DEF Next

LEMMA TypeInit == Init => TypeInv
    <1> SUFFICES ASSUME Init PROVE TypeInv
        OBVIOUS
    <1> USE BoundsAreNat
    <1>1. RowsType
        BY DEF Init, RowsType
    <1>2. FormsType
        <2>1. NoForm \in Form /\ GoodForm(NoForm, Len(listings))
            BY <1>1, RowFacts, NoFormGood DEF GoodForm
        <2> QED BY <2>1 DEF Init, FormsType
    <1>3. CaptureType
        BY NoCaptureGood DEF Init, CaptureType
    <1>4. PlanType
        <2>1. Len(listings) \in Nat
            BY <1>1, RowFacts
        <2>2. index = 0 /\ settling = {} /\ todo = {}
            BY DEF Init
        <2>3. market \in BOOLEAN
            BY Zenon DEF Init
        <2>4. loaded \in BOOLEAN
            BY Zenon DEF Init
        <2> QED BY <2>1, <2>2, <2>3, <2>4 DEF PlanType
    <1>5. WorldType
        BY DEF Init, WorldType
    <1>6. UseType
        BY DEF Init, UseType, NoUse
    <1>7. DiskType
        <2>1. stored \in [Ids -> Nat] /\ saved \subseteq Scene
            BY DEF Init
        <2>2. late \in BOOLEAN
            BY Zenon DEF Init
        <2> QED BY <2>1, <2>2 DEF DiskType
    <1> QED BY <1>1, <1>2, <1>3, <1>4, <1>5, <1>6, <1>7 DEF TypeInv

LEMMA TypeAlways == Spec => []TypeInv
    BY TypeInit, TypeStep, PTL DEF Spec

\* Every variable keeps its type: no balance, stock of items or drop count goes
\* below zero, and forms, captures and tasks are about listings that exist.
THEOREM TypeCorrect == Spec => []TypeOK
    <1>1. TypeInv => TypeOK
        <2> SUFFICES ASSUME TypeInv PROVE TypeOK
            OBVIOUS
        <2>1. DOMAIN listings \subseteq Ids
            BY RowFacts DEF TypeInv
        <2> QED BY <2>1 DEF TypeInv, RowsType, FormsType, CaptureType,
                    GoodCapture, PlanType, WorldType, UseType, DiskType, Scene,
                    TypeOK
    <1> QED BY <1>1, TypeAlways, PTL

\* Offers and bindings agree: one listing of the frame is open at most, and a
\* paid sale keeps its frame until the item is picked up.
THEOREM BindingExactHolds == Spec => []BindingExact
    <1>1. Init => BoundInv
        BY DEF Init, BoundInv, NoBuyerYet
    <1>2. TypeInv /\ BoundInv /\ [Next]_vars => BoundInv'
        BY BoundStep, RowEffects DEF TypeInv
    <1>3. TypeInv /\ BoundInv => BindingExact
        BY BoundInvExact DEF TypeInv
    <1> QED BY <1>1, <1>2, <1>3, TypeAlways, PTL DEF Spec

-----------------------------------------------------------------------------
(* The money *)

\* Sums of prices over rows do not change with the step that is taken.
LEMMA SamePrices ==
    ASSUME RowsType, RowsType', SameOffers, NEW S \in SUBSET DOMAIN listings
    PROVE  /\ SumFunctionOnSet(PriceOf', S) = SumFunctionOnSet(PriceOf, S)
           /\ SumFunctionOnSet(PriceOf, S) \in Int
           /\ IsFiniteSet(S)
           /\ \A l \in DOMAIN listings : PriceOf[l] = listings[l].price
    <1>1. /\ Len(listings) \in Nat /\ DOMAIN listings = 1 .. Len(listings)
          /\ \A l \in DOMAIN listings : listings[l].price \in Nat
        BY RowFacts
    <1>2. Len(listings') \in Nat /\ DOMAIN listings' = 1 .. Len(listings')
        BY DEF RowsType
    <1>3. IsFiniteSet(S)
        <2>1. IsFiniteSet(1 .. Len(listings))
            BY <1>1, FS_Interval
        <2> QED BY <1>1, <2>1, FS_Subset
    <1>4. \A l \in DOMAIN listings : /\ PriceOf[l] = listings[l].price
                                     /\ PriceOf'[l] = PriceOf[l]
                                     /\ PriceOf[l] \in Int
        BY <1>1, <1>2 DEF PriceOf, SameOffers
    <1>5. SumFunctionOnSet(PriceOf', S) = SumFunctionOnSet(PriceOf, S)
        <2> DEFINE f == PriceOf
                   g == PriceOf'
        <2>1. \A y \in S : g[y] = f[y]
            BY <1>4
        <2> HIDE DEF f, g
        <2>2. SumFunctionOnSet(g, S) = SumFunctionOnSet(f, S)
            BY <1>3, <2>1, SumEqual
        <2> QED BY <2>2 DEF f, g
    <1>6. SumFunctionOnSet(PriceOf, S) \in Int
        BY <1>3, <1>4, SumInt
    <1> QED BY <1>3, <1>4, <1>5, <1>6

\* One more row adds its price.
LEMMA OnePriceMore ==
    ASSUME RowsType, RowsType', SameOffers, NEW S \in SUBSET DOMAIN listings,
           NEW l \in DOMAIN listings, l \notin S
    PROVE  SumFunctionOnSet(PriceOf', S \cup {l})
               = SumFunctionOnSet(PriceOf, S) + listings[l].price
    <1> DEFINE T == S \cup {l}
    <1>1. T \in SUBSET DOMAIN listings
        OBVIOUS
    <1>2. /\ SumFunctionOnSet(PriceOf', T) = SumFunctionOnSet(PriceOf, T)
          /\ \A k \in DOMAIN listings : PriceOf[k] = listings[k].price
        <2> HIDE DEF T
        <2> QED BY <1>1, SamePrices
    <1>3. IsFiniteSet(S)
        BY SamePrices
    <1>4. \A y \in S \cup {l} : PriceOf[y] \in Int
        BY <1>2, RowFacts
    <1>5. SumFunctionOnSet(PriceOf, S \cup {l})
              = SumFunctionOnSet(PriceOf, S) + PriceOf[l]
        <2> DEFINE f == PriceOf
        <2>1. \A y \in S \cup {l} : f[y] \in Int
            BY <1>4
        <2> HIDE DEF f
        <2>2. SumFunctionOnSet(f, S \cup {l}) = SumFunctionOnSet(f, S) + f[l]
            BY <1>3, <2>1, SumAdd
        <2> QED BY <2>2 DEF f
    <1> QED BY <1>2, <1>5

\* Steps that are no sales leave who has bought what.
BuyersKept ==
    /\ UNCHANGED balance
    /\ \A l \in DOMAIN listings : listings'[l].buyer = listings[l].buyer
    /\ \A l \in DOMAIN listings' \ DOMAIN listings : listings'[l].buyer = {}

LEMMA BuyersAre ==
    ASSUME RowsType, RowEffect
    PROVE  \/ BuyersKept
           \/ \E l \in DOMAIN listings, p \in Players : Buys(l, p)
    <1>0. /\ Len(listings) \in Nat /\ DOMAIN listings = 1 .. Len(listings)
          /\ Len(listings') \in Nat /\ DOMAIN listings' = 1 .. Len(listings')
        BY RowFacts, RowsTypeStep DEF RowsType
    <1>1. CASE UNCHANGED db
        BY <1>1 DEF BuyersKept, db
    <1>2. ASSUME NEW l \in DOMAIN listings, NEW st, NewStatus(l, st),
                 UNCHANGED balance
          PROVE  BuyersKept
        BY <1>0, <1>2 DEF NewStatus, BuyersKept
    <1>3. ASSUME NEW l \in DOMAIN listings, Cancels(l) \/ Claims(l)
          PROVE  BuyersKept
        BY <1>2, <1>3, CancelsRow, ClaimsRow
    <1>4. ASSUME NEW l \in DOMAIN listings, Drops(l)
          PROVE  BuyersKept
        <2>1. CASE UNCHANGED listings
            BY <1>4, <2>1, DropsRow DEF BuyersKept
        <2>2. CASE NewStatus(l, "DROPPED")
            BY <1>2, <1>4, <2>2, DropsRow
        <2> QED BY <1>4, <2>1, <2>2, DropsRow
    <1>5. ASSUME NEW row \in Listing, Upserts(row)
          PROVE  BuyersKept
        <2>1. /\ Len(listings') = Len(listings) + 1
              /\ listings'[Len(listings) + 1] = row
              /\ \A l \in DOMAIN listings : listings'[l].buyer = listings[l].buyer
              /\ row.buyer = {} /\ UNCHANGED balance
            BY <1>5, RowAdded DEF Upserts
        <2>2. \A k \in DOMAIN listings' \ DOMAIN listings : k = Len(listings) + 1
            BY <1>0, <2>1
        <2> QED BY <2>1, <2>2 DEF BuyersKept
    <1> QED BY <1>1, <1>3, <1>4, <1>5 DEF RowEffect

LEMMA MoneyStep ==
    ASSUME RowsType, BoundInv, RowEffect, MoneyExact
    PROVE  MoneyExact'
    <1>0. RowsType' /\ SameOffers
        BY RowsTypeStep
    <1>d. DOMAIN listings \subseteq DOMAIN listings'
        BY <1>0 DEF RowsType, SameOffers
    <1>s. \A q \in Players : /\ SoldBy(q) \in SUBSET DOMAIN listings
                             /\ BoughtBy(q) \in SUBSET DOMAIN listings
        BY DEF SoldBy, BoughtBy
    <1> SUFFICES ASSUME NEW q \in Players
                 PROVE  balance'[q] =
                          Balance + SumFunctionOnSet(PriceOf', SoldBy(q)')
                                  - SumFunctionOnSet(PriceOf', BoughtBy(q)')
        BY DEF MoneyExact
    <1>q. /\ balance[q] = Balance + SumFunctionOnSet(PriceOf, SoldBy(q))
                                  - SumFunctionOnSet(PriceOf, BoughtBy(q))
          /\ SumFunctionOnSet(PriceOf, SoldBy(q)) \in Int
          /\ SumFunctionOnSet(PriceOf, BoughtBy(q)) \in Int
          /\ SumFunctionOnSet(PriceOf', SoldBy(q))
                = SumFunctionOnSet(PriceOf, SoldBy(q))
          /\ SumFunctionOnSet(PriceOf', BoughtBy(q))
                = SumFunctionOnSet(PriceOf, BoughtBy(q))
        BY <1>0, <1>s, SamePrices DEF MoneyExact
    <1>1. CASE BuyersKept
        <2>1. SoldBy(q)' = SoldBy(q) /\ BoughtBy(q)' = BoughtBy(q)
            BY <1>0, <1>1, <1>d DEF BuyersKept, SoldBy, BoughtBy, SameOffers
        <2> QED BY <1>1, <1>q, <2>1 DEF BuyersKept
    <1>2. ASSUME NEW l \in DOMAIN listings, NEW p \in Players, Buys(l, p)
          PROVE  balance'[q] =
                    Balance + SumFunctionOnSet(PriceOf', SoldBy(q)')
                            - SumFunctionOnSet(PriceOf', BoughtBy(q)')
        <2> DEFINE s == listings[l].seller
                   c == listings[l].price
        <2>1. /\ s \in Players /\ s # p /\ c \in Nat
              /\ balance \in [Players -> Nat]
              /\ balance' = [balance EXCEPT ![p] = @ - c, ![s] = @ + c]
            BY <1>2, BuysRow, RowFacts DEF RowsType
        <2>2. /\ DOMAIN listings' = DOMAIN listings
              /\ \A k \in DOMAIN listings : k # l => listings'[k] = listings[k]
              /\ listings'[l].buyer = {p} /\ listings'[l].seller = s
              /\ listings[l].buyer = {}
            BY <1>0, <1>2, BuysRow DEF RowsType, SameOffers, BoundInv, NoBuyerYet
        <2>3. l \notin SoldBy(q) /\ l \notin BoughtBy(q)
            BY <2>2 DEF SoldBy, BoughtBy
        <2>4. SoldBy(q)' = IF q = s THEN SoldBy(q) \cup {l} ELSE SoldBy(q)
            BY <2>2 DEF SoldBy
        <2>5. BoughtBy(q)' = IF q = p THEN BoughtBy(q) \cup {l} ELSE BoughtBy(q)
            BY <2>2 DEF BoughtBy
        <2>6. /\ SumFunctionOnSet(PriceOf', SoldBy(q) \cup {l})
                    = SumFunctionOnSet(PriceOf, SoldBy(q)) + c
              /\ SumFunctionOnSet(PriceOf', BoughtBy(q) \cup {l})
                    = SumFunctionOnSet(PriceOf, BoughtBy(q)) + c
            BY <1>0, <1>s, <2>3, OnePriceMore
        <2> HIDE DEF s, c
        <2>7. balance'[q] = IF q = p THEN balance[q] - c
                            ELSE IF q = s THEN balance[q] + c ELSE balance[q]
            BY <2>1
        <2>8. Balance \in Nat
            BY BoundsAreNat
        <2>9. CASE q = p
            BY <1>q, <2>1, <2>4, <2>5, <2>6, <2>7, <2>8, <2>9
        <2>10. CASE q = s
            BY <1>q, <2>1, <2>4, <2>5, <2>6, <2>7, <2>8, <2>10
        <2>11. CASE q # p /\ q # s
            BY <1>q, <2>4, <2>5, <2>7, <2>11
        <2> QED BY <2>9, <2>10, <2>11
    <1> QED BY <1>1, <1>2, BuyersAre

LEMMA MoneyInit == Init => MoneyExact
    <1> SUFFICES ASSUME Init, NEW p \in Players
                 PROVE  balance[p] = Balance
                                     + SumFunctionOnSet(PriceOf, SoldBy(p))
                                     - SumFunctionOnSet(PriceOf, BoughtBy(p))
        BY DEF MoneyExact
    <1>1. SoldBy(p) = {} /\ BoughtBy(p) = {} /\ balance[p] = Balance
        BY DEF Init, SoldBy, BoughtBy
    <1>2. SumFunctionOnSet(PriceOf, {}) = 0
        BY SumEmpty
    <1> QED BY <1>1, <1>2, BoundsAreNat

LEMMA BoundAlways == Spec => []BoundInv
    <1>1. Init => BoundInv
        BY DEF Init, BoundInv, NoBuyerYet
    <1>2. TypeInv /\ BoundInv /\ [Next]_vars => BoundInv'
        BY BoundStep, RowEffects DEF TypeInv
    <1> QED BY <1>1, <1>2, TypeAlways, PTL DEF Spec

\* A sale moves its price from the buyer to the seller, once, whatever throws,
\* is stale or is killed: each balance is what the paid listings say.
THEOREM MoneyExactHolds == Spec => []MoneyExact
    <1>1. TypeInv /\ BoundInv /\ MoneyExact /\ [Next]_vars => MoneyExact'
        BY MoneyStep, RowEffects DEF TypeInv
    <1> QED BY <1>1, MoneyInit, TypeAlways, BoundAlways, PTL DEF Spec

-----------------------------------------------------------------------------
(* What a step does to the capture *)

ForItem == {"settle", "verify"}

\* A new capture saves the frame as it is, and is asked for by a player ...
Asks ==
    /\ ~Busy /\ UNCHANGED <<listings, binding, here, away, frame, settling>>
    /\ capture'.seen = frame
    /\ \/ capture'.purpose = "toggle" /\ index = 0 /\ UNCHANGED index
       \/ capture'.purpose \in {"price", "save"}
       \/ /\ capture'.purpose = "review"
          /\ capture'.listing = index /\ UNCHANGED index
       \/ /\ capture'.purpose = "buy"
          /\ \E p \in Players : /\ forms[p].kind = "review"
                                /\ capture'.listing = forms[p].listing
\* ... or begins the settlement of a paid listing that has no drop.
Begins(l) ==
    /\ ~Busy /\ UNCHANGED <<listings, binding, index, here, away, frame>>
    /\ Status(l) \in Unsettled /\ (late' \/ here[l] = 0)
    /\ capture'.seen = frame /\ capture'.purpose = "settle"
    /\ capture'.listing = l /\ capture'.item = listings[l].item
    /\ settling' = settling \cup {l}

\* A pending one is saved again, after its frame was cleared, too.
Resaves ==
    /\ Busy /\ UNCHANGED <<listings, binding, index, here, away, settling>>
    /\ capture'.listing = capture.listing /\ capture'.item = capture.item
    /\ capture'.seen = frame'
    /\ \/ capture'.purpose = capture.purpose /\ UNCHANGED frame
       \/ /\ capture.purpose = "settle" /\ capture'.purpose = "verify"
          /\ capture.seen = capture.item /\ frame' = NoItem

CaptureEffect ==
    \/ UNCHANGED capture
    \/ capture' = NoCapture
    \/ Asks
    \/ \E l \in DOMAIN listings : Begins(l)
    \/ Resaves

LEMMA Queued ==
    ASSUME NEW c \in Capture, queueItemFrameCapture(c)
    PROVE  \/ UNCHANGED capture
           \/ /\ ~Busy /\ capture'.seen = frame
              /\ capture'.purpose = c.purpose /\ capture'.listing = c.listing
    <1>1. CASE Busy
        BY <1>1 DEF queueItemFrameCapture
    <1>2. CASE ~Busy
        <2> DEFINE d == [c EXCEPT !.seen = frame]
        <2>1. capture' = [d EXCEPT !.attempt = 1]
            BY <1>2 DEF queueItemFrameCapture
        <2>2. d.seen = frame /\ d.purpose = c.purpose /\ d.listing = c.listing
              /\ DOMAIN d = DOMAIN c
            BY DEF Capture
        <2> QED BY <1>2, <2>1, <2>2 DEF Capture
    <1> QED BY <1>1, <1>2

LEMMA AskedItem ==
    ASSUME RowsType, NEW p \in Players, NEW l \in 0 .. Len(listings),
           NEW purpose \in {"toggle", "price", "save", "review", "buy"},
           NEW i \in Items
    PROVE  LET c == [By(purpose, p, l) EXCEPT !.item = i]
           IN  c \in Capture /\ c.purpose = purpose /\ c.listing = l
    <1> DEFINE b == By(purpose, p, l)
               c == [b EXCEPT !.item = i]
    <1>1. b \in Capture /\ b.purpose = purpose /\ b.listing = l
        BY AskedType
    <1> HIDE DEF b
    <1>2. c \in Capture /\ c.purpose = purpose /\ c.listing = l
        BY <1>1 DEF Capture
    <1> QED BY <1>2 DEF b, c

LEMMA PlayersAsk ==
    ASSUME TypeInv, NEW p \in Players,
           \/ handlePriceStick(p) \/ changePrice(p) \/ cancelListing(p)
           \/ closeForm(p) \/ leftClick(p) \/ confirmPurchase(p)
           \/ toggleBlock(p)
           \/ \E price \in Prices : submitPrice(p, price)
    PROVE  UNCHANGED capture \/ Asks
    <1>p. /\ RowsType /\ Len(listings) \in Nat /\ index \in 0 .. Len(listings)
          /\ DOMAIN listings = 1 .. Len(listings)
          /\ GoodForm(forms[p], Len(listings))
          /\ 0 \in 0 .. Len(listings)
          /\ \A l \in DOMAIN listings : listings[l].item \in Items
        BY RowFacts DEF TypeInv, PlanType, FormsType
    <1>1. CASE handlePriceStick(p)
        <2>1. CASE queueItemFrameCapture(By("price", p, 0)) /\ binding = 0
            <3>2. By("price", p, 0) \in Capture /\ By("price", p, 0).purpose = "price"
                BY <1>p, AskedType
            <3> QED BY <1>1, <2>1, <3>2, Queued DEF handlePriceStick, Asks, db, world
        <2> QED BY <1>1, <2>1 DEF handlePriceStick
    <1>2. CASE changePrice(p)
        <2> DEFINE c == [By("price", p, forms[p].listing) EXCEPT
                            !.item = listings[forms[p].listing].item]
        <2>1. forms[p].listing \in 1 .. Len(listings)
            BY <1>2, <1>p DEF changePrice, Answers, GoodForm
        <2>i. listings[forms[p].listing].item \in Items /\ forms[p].listing \in 0 .. Len(listings)
            BY <1>p, <2>1
        <2>2. c \in Capture /\ c.purpose = "price"
            BY <1>p, <2>1, <2>i, AskedItem
        <2>3. queueItemFrameCapture(c)
            BY <1>2 DEF changePrice
        <2> HIDE DEF c
        <2> QED BY <1>2, <2>2, <2>3, Queued DEF changePrice, Asks, db, world
    <1>3. CASE cancelListing(p) \/ closeForm(p)
        BY <1>3 DEF cancelListing, closeForm
    <1>4. CASE leftClick(p)
        <2> DEFINE c == [By("review", p, index) EXCEPT
                            !.item = listings[index].item]
        <2>1. index \in 1 .. Len(listings)
            BY <1>4, <1>p DEF leftClick
        <2>i. listings[index].item \in Items /\ index \in 0 .. Len(listings)
            BY <1>p, <2>1
        <2>2. c \in Capture /\ c.purpose = "review" /\ c.listing = index
            BY <1>p, <2>1, <2>i, AskedItem
        <2>3. UNCHANGED capture \/ (queueItemFrameCapture(c) /\ UNCHANGED index)
            BY <1>4 DEF leftClick
        <2> HIDE DEF c
        <2> QED BY <1>4, <2>2, <2>3, Queued DEF leftClick, Asks, db, world
    <1>5. CASE confirmPurchase(p)
        <2> DEFINE c == [By("buy", p, forms[p].listing) EXCEPT
                            !.item = listings[forms[p].listing].item]
        <2>1. forms[p].listing \in 1 .. Len(listings) /\ forms[p].kind = "review"
            BY <1>5, <1>p DEF confirmPurchase, Answers, GoodForm
        <2>i. listings[forms[p].listing].item \in Items /\ forms[p].listing \in 0 .. Len(listings)
            BY <1>p, <2>1
        <2>2. c \in Capture /\ c.purpose = "buy" /\ c.listing = forms[p].listing
            BY <1>p, <2>1, <2>i, AskedItem
        <2>3. queueItemFrameCapture(c)
            BY <1>5 DEF confirmPurchase
        <2> HIDE DEF c
        <2> QED BY <1>5, <2>1, <2>2, <2>3, Queued DEF confirmPurchase, Asks, db, world
    <1>6. CASE toggleBlock(p)
        <2>1. By("toggle", p, 0) \in Capture /\ By("toggle", p, 0).purpose = "toggle"
            BY <1>p, AskedType
        <2>2. /\ index = 0
              /\ UNCHANGED capture \/ queueItemFrameCapture(By("toggle", p, 0))
            BY <1>6 DEF toggleBlock
        <2> QED BY <1>6, <2>1, <2>2, Queued DEF toggleBlock, Asks, db, world
    <1>7. ASSUME NEW price \in Prices, submitPrice(p, price)
          PROVE  UNCHANGED capture \/ Asks
        <2> DEFINE c == [By("save", p, forms[p].listing) EXCEPT
                            !.item = forms[p].item, !.price = price]
        <2>1. forms[p].listing \in 0 .. Len(listings) /\ forms[p].item \in Items
              /\ price \in Nat
            BY <1>7, <1>p, BoundsAreNat DEF submitPrice, Answers, GoodForm
        <2>2. c \in Capture /\ c.purpose = "save"
            <3> DEFINE b == [By("save", p, forms[p].listing) EXCEPT
                                !.item = forms[p].item]
            <3>1. b \in Capture /\ b.purpose = "save"
                BY <1>p, <2>1, AskedItem
            <3>2. c = [b EXCEPT !.price = price]
                OBVIOUS
            <3> HIDE DEF b, c
            <3> QED BY <2>1, <3>1, <3>2 DEF Capture
        <2>3. queueItemFrameCapture(c)
            BY <1>7 DEF submitPrice
        <2> HIDE DEF c
        <2> QED BY <1>7, <2>2, <2>3, Queued DEF submitPrice, Asks, db, world
    <1> QED BY <1>1, <1>2, <1>3, <1>4, <1>5, <1>6, <1>7

LEMMA CaptureEffects ==
    ASSUME TypeInv, [Next]_vars
    PROVE  CaptureEffect
    <1>1. CASE retryCapture
        <2> DEFINE c == [capture EXCEPT !.seen = frame]
        <2>1. capture \in Capture /\ capture' = [c EXCEPT !.attempt = capture.attempt + 1]
            BY <1>1 DEF retryCapture, TypeInv, CaptureType, GoodCapture
        <2>2. /\ DOMAIN c = DOMAIN capture
              /\ c.purpose = capture.purpose /\ c.listing = capture.listing
              /\ c.item = capture.item /\ c.seen = frame
            BY <2>1 DEF Capture
        <2>3. /\ capture'.purpose = capture.purpose
              /\ capture'.listing = capture.listing
              /\ capture'.item = capture.item /\ capture'.seen = frame
            BY <2>1, <2>2 DEF Capture
        <2> QED BY <1>1, <2>3 DEF retryCapture, CaptureEffect, Resaves, db, world
    <1>2. CASE clearFrame
        <2> DEFINE c == [capture EXCEPT !.purpose = "verify"]
                   d == [c EXCEPT !.seen = NoItem]
        <2>1. capture \in Capture /\ capture' = [d EXCEPT !.attempt = 1]
            BY <1>2 DEF clearFrame, TypeInv, CaptureType, GoodCapture
        <2>2. /\ DOMAIN c = DOMAIN capture
              /\ c.purpose = "verify" /\ c.listing = capture.listing
              /\ c.item = capture.item
            BY <2>1 DEF Capture
        <2>3. /\ DOMAIN d = DOMAIN capture
              /\ d.purpose = "verify" /\ d.listing = capture.listing
              /\ d.item = capture.item /\ d.seen = NoItem
            BY <2>1, <2>2 DEF Capture
        <2>4. /\ capture'.purpose = "verify"
              /\ capture'.listing = capture.listing
              /\ capture'.item = capture.item /\ capture'.seen = NoItem
            BY <2>1, <2>3 DEF Capture
        <2> QED BY <1>2, <2>4 DEF clearFrame, Completes, Busy, CaptureEffect,
                Resaves, db, world
    <1>3. ASSUME NEW l \in DOMAIN listings, beginSettlement(l)
          PROVE  CaptureEffect
        <2> DEFINE c1 == [NoCapture EXCEPT !.purpose = "settle"]
                   c2 == [c1 EXCEPT !.listing = l]
                   c3 == [c2 EXCEPT !.item = listings[l].item]
                   c4 == [c3 EXCEPT !.seen = frame]
        <2>1. capture' = [c4 EXCEPT !.attempt = 1]
            BY <1>3 DEF beginSettlement
        <2>2. /\ DOMAIN c2 = DOMAIN NoCapture
              /\ c2.purpose = "settle" /\ c2.listing = l
            BY DEF NoCapture
        <2>3. /\ DOMAIN c3 = DOMAIN NoCapture /\ c3.item = listings[l].item
              /\ c3.purpose = "settle" /\ c3.listing = l
            BY <2>2 DEF NoCapture
        <2> HIDE DEF c3
        <2>4. /\ DOMAIN c4 = DOMAIN NoCapture /\ c4.item = listings[l].item
              /\ c4.purpose = "settle" /\ c4.listing = l /\ c4.seen = frame
            BY <2>3 DEF NoCapture
        <2> HIDE DEF c4
        <2>5. /\ capture'.item = listings[l].item /\ capture'.purpose = "settle"
              /\ capture'.listing = l /\ capture'.seen = frame
            BY <2>1, <2>4 DEF NoCapture
        <2>6. late' \/ here[l] = 0
            BY <1>3, MissedOrNone DEF beginSettlement
        <2>7. Begins(l)
            BY <1>3, <2>5, <2>6 DEF beginSettlement, Begins, db
        <2> QED BY <2>7 DEF CaptureEffect
    <1>4. CASE failedCapture \/ rejectCapture \/ openPriceForm \/ saveListing
               \/ openPurchaseReview \/ purchase \/ dropItem \/ verifyFails
               \/ activateFrame
        BY <1>4 DEF failedCapture, rejectCapture, openPriceForm, saveListing,
           openPurchaseReview, purchase, dropItem, verifyFails, activateFrame,
           CaptureEffect
    <1>5. ASSUME NEW l \in DOMAIN listings,
                 \/ settleClosed(l) \/ adoptDrop(l) \/ settleLater(l)
                 \/ settleWithoutFrame(l)
          PROVE  CaptureEffect
        BY <1>5 DEF settleClosed, adoptDrop, settleLater, settleWithoutFrame,
           CaptureEffect
    <1>6. ASSUME NEW p \in Players,
                 \/ handlePriceStick(p) \/ changePrice(p) \/ cancelListing(p)
                 \/ closeForm(p) \/ leftClick(p) \/ confirmPurchase(p)
                 \/ toggleBlock(p)
                 \/ \E price \in Prices : submitPrice(p, price)
          PROVE  CaptureEffect
        BY <1>6, PlayersAsk DEF CaptureEffect
    <1>7. CASE \/ \E l \in DOMAIN listings :
                     pickUp(l) \/ takeFromChest(l) \/ hopper(l)
               \/ \E i \in Items : putItem(i)
        BY <1>7 DEF pickUp, takeFromChest, hopper, putItem, CaptureEffect
    <1>8. CASE rightClick \/ takeItem \/ breakFrame \/ popFrame \/ placeFrame
               \/ unloadChunk \/ loadChunk \/ dropsReturn \/ lastSave \/ restart
               \/ recoverFrameListings \/ UNCHANGED vars
        BY <1>8 DEF rightClick, takeItem, breakFrame, popFrame, placeFrame,
           unloadChunk, loadChunk, dropsReturn, lastSave, restart,
           recoverFrameListings, FrameGone, vars, CaptureEffect
    <1> QED BY <1>1, <1>2, <1>3, <1>4, <1>5, <1>6, <1>7, <1>8
            DEF Next, settleFrameListing, completeItemFrameCapture

-----------------------------------------------------------------------------
(* What a step does to the items *)

Stays == UNCHANGED <<held, frame, here, away>>

\* The drop of a paid listing is spawned, without a frame or after its capture.
Spawns(l) ==
    /\ late' \/ here[l] = 0
    /\ here' = [here EXCEPT ![l] = @ + 1]
    /\ UNCHANGED <<away, held, frame, binding>>
    /\ UNCHANGED listings \/ Drops(l)
    /\ \/ /\ Status(l) \in Unsettled /\ l \notin settling /\ ~placed
          /\ UNCHANGED capture
       \/ /\ capture.purpose \in ForItem /\ l = capture.listing
          /\ capture' = NoCapture
          /\ ~placed \/ capture.seen # capture.item

\* A player gets the item from the ground or out of a chest.
Takes(l) ==
    /\ completeFrameListingPickup(l) /\ index' = 0 /\ UNCHANGED <<frame, capture>>
    /\ held' = [held EXCEPT ![listings[l].item] = @ + 1]
    /\ \/ /\ here[l] > 0 /\ here' = [here EXCEPT ![l] = @ - 1]
          /\ UNCHANGED away
       \/ /\ away[l] > 0 /\ away' = [away EXCEPT ![l] = @ - 1]
          /\ UNCHANGED here
    /\ Status(l) = "CLAIMED" => "retaken" \in used'.kinds

Moves(l) ==
    /\ here[l] > 0 /\ "hoppers" \in used'.kinds
    /\ here' = [here EXCEPT ![l] = @ - 1]
    /\ away' = [away EXCEPT ![l] = @ + 1]
    /\ UNCHANGED <<held, frame, listings, capture>>

Puts(i) ==
    /\ index = 0 /\ frame = NoItem /\ held[i] > 0
    /\ frame' = i /\ held' = [held EXCEPT ![i] = @ - 1]
    /\ UNCHANGED <<here, away, listings, binding, index>>

\* The players get what is in the frame.
Empties ==
    /\ index = 0 \/ "pops" \in used'.kinds
    /\ frame' = NoItem /\ held' = Popped
    /\ UNCHANGED <<here, away, listings, binding, index>>

Clears ==
    /\ capture.purpose = "settle" /\ capture.seen = capture.item
    /\ capture'.seen = NoItem /\ frame' = NoItem
    /\ UNCHANGED <<held, here, away, listings, binding>>

\* A kill leaves what was saved of the frame, the drops and the chests.
Reverts ==
    /\ "rollback" \in used'.kinds
    /\ UNCHANGED <<listings, binding>> /\ capture' = NoCapture
    /\ \E w \in saved \cup {Now} :
          /\ frame' = w.frame /\ placed' = w.placed
          /\ here' = w.here /\ away' = w.away

ItemEffect ==
    \/ Stays \/ Reverts
    \/ \E l \in DOMAIN listings : Spawns(l) \/ Takes(l) \/ Moves(l)
    \/ \E i \in Items : Puts(i)
    \/ Empties
    \/ Clears

LEMMA DropSpawned ==
    ASSUME TypeInv, NEW l \in DOMAIN listings, spawnFrameSaleDrop(l)
    PROVE  \/ UNCHANGED here
           \/ (late' \/ here[l] = 0) /\ here' = [here EXCEPT ![l] = @ + 1]
    BY MissedOrNone DEF spawnFrameSaleDrop

LEMMA RetakenIsSeen ==
    ASSUME TypeInv, NEW l \in DOMAIN listings, TakesItem(l),
           Status(l) = "CLAIMED"
    PROVE  "retaken" \in used'.kinds
    <1>1. used' = [used EXCEPT !.kinds = @ \cup {"retaken"}]
        BY DEF TakesItem
    <1> QED BY <1>1 DEF TypeInv, UseType

LEMMA ItemEffects ==
    ASSUME TypeInv, [Next]_vars
    PROVE  ItemEffect
    <1>1. ASSUME NEW l \in DOMAIN listings, settleWithoutFrame(l)
          PROVE  ItemEffect
        <2>1. spawnFrameSaleDrop(l) /\ UNCHANGED <<balance, binding, held, frame, away>>
            BY <1>1 DEF settleWithoutFrame
        <2>2. UNCHANGED listings \/ Drops(l)
            BY <2>1 DEF spawnFrameSaleDrop, markFrameListingDropped, Drops
        <2>3. CASE UNCHANGED here
            BY <2>1, <2>3 DEF ItemEffect, Stays
        <2>4. CASE (late' \/ here[l] = 0) /\ here' = [here EXCEPT ![l] = @ + 1]
            BY <1>1, <2>1, <2>2, <2>4 DEF settleWithoutFrame, ItemEffect, Spawns
        <2> QED BY <2>1, <2>3, <2>4, DropSpawned
    <1>2. CASE dropItem \/ verifyFails
        <2> DEFINE l == capture.listing
        <2>1. l \in DOMAIN listings
            BY <1>2, RowFacts DEF dropItem, verifyFails, TypeInv, CaptureType, GoodCapture
        <2>2. UNCHANGED <<balance, binding, held, frame, away>> /\ capture' = NoCapture
              /\ capture.purpose \in ForItem
            BY <1>2 DEF dropItem, verifyFails, ForItem
        <2>3. CASE spawnFrameSaleDrop(l) /\ (~placed \/ Gone)
            <3>1. UNCHANGED listings \/ Drops(l)
                BY <2>2, <2>3 DEF spawnFrameSaleDrop, markFrameListingDropped, Drops
            <3>2. CASE UNCHANGED here
                BY <2>2, <3>2 DEF ItemEffect, Stays
            <3>3. CASE (late' \/ here[l] = 0) /\ here' = [here EXCEPT ![l] = @ + 1]
                <4>1. Spawns(l)
                    BY <2>2, <2>3, <3>1, <3>3 DEF Spawns, Gone
                <4> HIDE DEF l
                <4> QED BY <2>1, <4>1 DEF ItemEffect
            <3> HIDE DEF l
            <3> QED BY <2>1, <2>3, <3>2, <3>3, DropSpawned
        <2>4. CASE UNCHANGED here
            BY <2>2, <2>4 DEF ItemEffect, Stays
        <2> QED BY <1>2, <2>3, <2>4 DEF dropItem, verifyFails
    <1>3. ASSUME NEW l \in DOMAIN listings, pickUp(l) \/ takeFromChest(l)
          PROVE  ItemEffect
        <2>1. CASE TakesItem(l)
            <3>1. Takes(l) \/ UNCHANGED <<held, here, away>>
                BY <1>3, <2>1, RetakenIsSeen, FoundIsThere DEF pickUp, takeFromChest, TakesItem, Takes
            <3>2. UNCHANGED frame
                BY <1>3 DEF pickUp, takeFromChest
            <3> QED BY <3>1, <3>2 DEF ItemEffect, Stays
        <2>2. CASE ~TakesItem(l)
            BY <1>3, <2>2 DEF pickUp, takeFromChest, ItemEffect, Stays
        <2> QED BY <2>1, <2>2
    <1>4. ASSUME NEW l \in DOMAIN listings, hopper(l)
          PROVE  ItemEffect
        <2>1. "hoppers" \in used'.kinds
            BY <1>4, UseCounts DEF hopper, TypeInv, Remembered
        <2> QED BY <1>4, <2>1, FoundIsThere DEF hopper, ItemEffect, Moves, db
    <1>5. ASSUME NEW i \in Items, putItem(i)
          PROVE  ItemEffect
        BY <1>5 DEF putItem, Free, ItemEffect, Puts, db
    <1>6. CASE takeItem \/ breakFrame \/ popFrame
        <2>1. index = 0 \/ "pops" \in used'.kinds
            BY <1>6, UseCounts DEF takeItem, breakFrame, popFrame, Free, TypeInv,
                                   Remembered
        <2> QED BY <1>6, <2>1 DEF takeItem, breakFrame, popFrame, FrameGone,
                                  ItemEffect, Empties, db
    <1>7. CASE clearFrame
        <2>1. capture'.seen = NoItem
            <3>1. capture' = [[[capture EXCEPT !.purpose = "verify"]
                                  EXCEPT !.seen = NoItem] EXCEPT !.attempt = 1]
                BY <1>7 DEF clearFrame
            <3> QED BY <3>1 DEF TypeInv, CaptureType, GoodCapture, Capture
        <2> QED BY <1>7, <2>1 DEF clearFrame, Completes, ItemEffect, Clears, db
    <1>8. ASSUME NEW p \in Players,
                 \/ handlePriceStick(p) \/ changePrice(p) \/ cancelListing(p)
                 \/ closeForm(p) \/ leftClick(p) \/ confirmPurchase(p)
                 \/ toggleBlock(p)
                 \/ \E price \in Prices : submitPrice(p, price)
          PROVE  ItemEffect
        BY <1>8 DEF handlePriceStick, changePrice, cancelListing, closeForm,
           leftClick, confirmPurchase, toggleBlock, submitPrice, world,
           ItemEffect, Stays
    <1>9. ASSUME NEW l \in DOMAIN listings,
                 \/ settleClosed(l) \/ adoptDrop(l) \/ settleLater(l)
                 \/ beginSettlement(l)
          PROVE  ItemEffect
        BY <1>9 DEF settleClosed, adoptDrop, settleLater, beginSettlement, world,
           ItemEffect, Stays
    <1>10. CASE retryCapture \/ failedCapture \/ rejectCapture \/ openPriceForm
                \/ saveListing \/ openPurchaseReview \/ purchase \/ activateFrame
        BY <1>10 DEF retryCapture, failedCapture, rejectCapture, openPriceForm,
           saveListing, openPurchaseReview, purchase, activateFrame, world,
           ItemEffect, Stays
    <1>11. CASE rightClick \/ placeFrame \/ unloadChunk \/ loadChunk
                \/ dropsReturn \/ lastSave \/ recoverFrameListings
                \/ UNCHANGED vars
        BY <1>11 DEF rightClick, placeFrame, unloadChunk, loadChunk, dropsReturn,
           lastSave, recoverFrameListings, vars, world, ItemEffect, Stays
    <1>12. CASE restart
        <2>1. CASE saved = {}
            <3>1. Reload(Now, Now)
                BY <1>12, <2>1 DEF restart
            <3> QED BY <3>1 DEF Reload, Now, ItemEffect, Stays
        <2>2. CASE saved # {}
            <3>1. "rollback" \in used'.kinds
                BY <1>12, <2>2 DEF restart, TypeInv, UseType
            <3> QED BY <1>12, <3>1 DEF restart, Reload, db, ItemEffect, Reverts
        <2> QED BY <2>1, <2>2
    <1> QED BY <1>1, <1>2, <1>3, <1>4, <1>5, <1>6, <1>7, <1>8, <1>9, <1>10,
               <1>11, <1>12 DEF Next, settleFrameListing, completeItemFrameCapture

\* What went wrong is not forgotten.
LEMMA KindsGrow ==
    ASSUME TypeInv, [Next]_vars
    PROVE  used.kinds \subseteq used'.kinds
    <1>u. UseType
        BY DEF TypeInv
    <1>1. ASSUME NEW f, Use(f) PROVE used.kinds \subseteq used'.kinds
        BY <1>u, <1>1, UseCounts
    <1>2. CASE \/ \E l \in DOMAIN listings :
                     pickUp(l) \/ takeFromChest(l) \/ hopper(l)
        <2>1. ASSUME NEW l \in DOMAIN listings, TakesItem(l)
              PROVE  used.kinds \subseteq used'.kinds
            BY <1>u, <2>1 DEF TakesItem, UseType
        <2> QED BY <1>1, <1>2, <2>1 DEF pickUp, takeFromChest, hopper, Fault
    <1>3. CASE settleFrameListing
        BY <1>1, <1>3 DEF settleFrameListing, settleClosed, adoptDrop, settleLater,
           settleWithoutFrame, beginSettlement, spawnFrameSaleDrop,
           markFrameListingDropped, Fault
    <1>4. CASE \/ retryCapture \/ failedCapture \/ rejectCapture \/ openPriceForm
               \/ saveListing \/ openPurchaseReview
        BY <1>1, <1>4 DEF retryCapture, failedCapture, Unreadable, rejectCapture,
           openPriceForm, saveListing, openPurchaseReview, Fault
    <1>5. CASE \/ purchase \/ clearFrame \/ dropItem \/ verifyFails \/ activateFrame
        BY <1>1, <1>5 DEF purchase, clearFrame, dropItem, verifyFails,
           activateFrame, spawnFrameSaleDrop, markFrameListingDropped, Fault
    <1>6. ASSUME NEW p \in Players,
                 \/ handlePriceStick(p) \/ changePrice(p) \/ cancelListing(p)
                 \/ closeForm(p) \/ leftClick(p) \/ confirmPurchase(p)
                 \/ toggleBlock(p)
                 \/ \E price \in Prices : submitPrice(p, price)
          PROVE  used.kinds \subseteq used'.kinds
        BY <1>1, <1>6 DEF handlePriceStick, changePrice, cancelListing, closeForm,
           leftClick, confirmPurchase, toggleBlock, submitPrice, CountStale, Fault
    <1>7. CASE \/ \E i \in Items : putItem(i)
               \/ rightClick \/ takeItem \/ breakFrame \/ popFrame \/ placeFrame
               \/ unloadChunk \/ loadChunk \/ dropsReturn \/ recoverFrameListings
               \/ UNCHANGED vars
        BY <1>1, <1>7 DEF putItem, rightClick, takeItem, breakFrame, popFrame,
           placeFrame, unloadChunk, loadChunk, dropsReturn, recoverFrameListings,
           FrameGone, vars
    <1>8. CASE lastSave \/ restart
        BY <1>u, <1>1, <1>8 DEF lastSave, restart, UseType
    <1> QED BY <1>2, <1>3, <1>4, <1>5, <1>6, <1>7, <1>8
            DEF Next, completeItemFrameCapture

-----------------------------------------------------------------------------
(* Drops and settlements are of listings that were sold *)

Claimed == {"PAID", "DROPPED", "CLAIMED"}

\* As long as no drop was missed, a listing has one drop at most, and none while
\* it is being settled.
SettlingInv ==
    late \/ settling = IF capture.purpose \in ForItem
                       THEN {capture.listing} ELSE {}
SettledInv ==
    capture.purpose \in ForItem =>
        /\ late \/ here[capture.listing] = 0
        /\ Status(capture.listing) \in Claimed
SoldDrops(h, a) ==
    \A l \in Ids :
        /\ late \/ h[l] \in {0, 1}
        /\ h[l] + a[l] > 0 => l \in DOMAIN listings /\ Status(l) \in Claimed
DropInv ==
    SoldDrops(here, away) /\ \A w \in saved : SoldDrops(w.here, w.away)
SoldInv == SettlingInv /\ SettledInv /\ DropInv

LEMMA SettlingStep ==
    ASSUME TypeInv, SoldInv, [Next]_vars
    PROVE  SettlingInv'
    <1> SUFFICES ASSUME ~late' PROVE SettlingInv'
        BY DEF SettlingInv
    <1>l. ~late
        BY DiskTypeStep
    <1>s. settling = IF capture.purpose \in ForItem THEN {capture.listing} ELSE {}
        BY <1>l DEF SoldInv, SettlingInv
    <1>h. capture.purpose \in ForItem => here[capture.listing] = 0
        BY <1>l DEF SoldInv, SettledInv
    <1>n. NoCapture.purpose \notin ForItem
        BY DEF NoCapture, ForItem
    <1>1. CASE UNCHANGED <<capture, settling>>
        BY <1>1, <1>s DEF SettlingInv
    <1>2. ASSUME NEW l, UNCHANGED capture, settling' = settling \ {l},
                 here[l] > 0 \/ l \notin settling
          PROVE  SettlingInv'
        <2>1. l \notin settling
            BY <1>2, <1>h, <1>s
        <2> QED BY <1>2, <1>s, <2>1 DEF SettlingInv
    <1>3. CASE /\ capture' = NoCapture
               /\ \/ UNCHANGED settling /\ capture.purpose \notin ForItem
                  \/ settling' = settling \ {capture.listing}
                  \/ settling' = {}
        BY <1>3, <1>s, <1>n DEF SettlingInv
    <1>4. CASE Asks
        BY <1>4, <1>s DEF Asks, Busy, ForItem, SettlingInv
    <1>5. ASSUME NEW l \in DOMAIN listings, Begins(l) PROVE SettlingInv'
        BY <1>5, <1>s DEF Begins, Busy, ForItem, SettlingInv
    <1>6. CASE Resaves
        BY <1>6, <1>s DEF Resaves, ForItem, SettlingInv
    <1>7. CASE settleFrameListing
        <2>1. ASSUME NEW l \in DOMAIN listings, adoptDrop(l) \/ settleWithoutFrame(l)
              PROVE  SettlingInv'
            <3>1. /\ UNCHANGED capture /\ settling' = settling \ {l}
                  /\ here[l] > 0 \/ l \notin settling
                BY <2>1, FoundIsThere
                   DEF adoptDrop, settleWithoutFrame, spawnFrameSaleDrop
            <3> QED BY <1>2, <3>1
        <2>2. ASSUME NEW l \in DOMAIN listings, settleClosed(l) \/ settleLater(l)
              PROVE  SettlingInv'
            BY <1>1, <2>2 DEF settleClosed, settleLater
        <2>3. ASSUME NEW l \in DOMAIN listings, beginSettlement(l)
              PROVE  SettlingInv'
            <3>1. settling' = settling \cup {l} /\ ~Busy /\ settling = {}
                BY <2>3, <1>s DEF beginSettlement, Busy, ForItem
            <3>2. capture'.purpose = "settle" /\ capture'.listing = l
                BY <2>3 DEF beginSettlement, NoCapture
            <3> QED BY <3>1, <3>2 DEF SettlingInv, ForItem
        <2> QED BY <1>7, <2>1, <2>2, <2>3 DEF settleFrameListing
    <1>8. CASE retryCapture \/ clearFrame
        <2>1. capture' # capture => (Resaves \/ capture' = NoCapture \/ Asks
                                     \/ \E l \in DOMAIN listings : Begins(l))
            BY CaptureEffects DEF CaptureEffect
        <2>2. UNCHANGED settling /\ Busy
            BY <1>8 DEF retryCapture, clearFrame, Completes, Busy
        <2>3. capture' # NoCapture
            <3>1. CASE retryCapture
                <4>1. capture'.purpose = capture.purpose
                    BY <3>1 DEF retryCapture, TypeInv, CaptureType, GoodCapture, Capture
                <4> QED BY <4>1, <2>2 DEF Busy, NoCapture
            <3>2. CASE clearFrame
                <4>1. capture'.purpose = "verify"
                    BY <3>2 DEF clearFrame, TypeInv, CaptureType, GoodCapture, Capture
                <4> QED BY <4>1 DEF NoCapture
            <3> QED BY <1>8, <3>1, <3>2
        <2> QED BY <1>1, <1>6, <2>1, <2>2, <2>3 DEF Asks, Begins
    <1>9. CASE rejectCapture \/ openPriceForm \/ saveListing
               \/ openPurchaseReview \/ purchase \/ activateFrame
        BY <1>3, <1>9 DEF rejectCapture, openPriceForm, saveListing,
           openPurchaseReview, purchase, activateFrame, Completes, ForItem
    <1>10. CASE failedCapture \/ dropItem \/ verifyFails
        BY <1>3, <1>10 DEF failedCapture, dropItem, verifyFails, spawnFrameSaleDrop
    <1>11. ASSUME NEW p \in Players,
                 \/ handlePriceStick(p) \/ changePrice(p) \/ cancelListing(p)
                 \/ closeForm(p) \/ leftClick(p) \/ confirmPurchase(p)
                 \/ toggleBlock(p)
                 \/ \E price \in Prices : submitPrice(p, price)
          PROVE  SettlingInv'
        <2>1. UNCHANGED settling
            BY <1>11 DEF handlePriceStick, changePrice, cancelListing, closeForm,
               leftClick, confirmPurchase, toggleBlock, submitPrice
        <2> QED BY <1>1, <1>4, <1>11, <2>1, PlayersAsk
    <1>12. CASE \/ \E l \in DOMAIN listings :
                      pickUp(l) \/ takeFromChest(l) \/ hopper(l)
                \/ \E i \in Items : putItem(i)
        BY <1>1, <1>12 DEF pickUp, takeFromChest, hopper, putItem
    <1>13. CASE rightClick \/ takeItem \/ breakFrame \/ popFrame \/ placeFrame
                \/ unloadChunk \/ loadChunk \/ dropsReturn \/ lastSave
                \/ recoverFrameListings \/ UNCHANGED vars
        BY <1>1, <1>13 DEF rightClick, takeItem, breakFrame, popFrame, placeFrame,
           unloadChunk, loadChunk, dropsReturn, lastSave, recoverFrameListings,
           FrameGone, vars
    <1>14. CASE restart
        BY <1>3, <1>14 DEF restart
    <1> QED BY <1>7, <1>8, <1>9, <1>10, <1>11, <1>12, <1>13, <1>14
            DEF Next, completeItemFrameCapture

\* A listing that was sold is never offered or canceled again.
LEMMA ClaimedStays ==
    ASSUME RowsType, BoundInv, RowEffect,
           NEW l \in DOMAIN listings, Status(l) \in Claimed
    PROVE  l \in DOMAIN listings' /\ Status(l)' \in Claimed
    <1>0. /\ Len(listings) \in Nat /\ DOMAIN listings = 1 .. Len(listings)
          /\ Len(listings') \in Nat /\ DOMAIN listings' = 1 .. Len(listings')
          /\ Len(listings') >= Len(listings)
        BY RowFacts, RowsTypeStep DEF RowsType, SameOffers
    <1>d. l \in DOMAIN listings'
        BY <1>0
    <1>1. CASE UNCHANGED db
        BY <1>1, <1>d DEF Status, db
    <1>2. ASSUME NEW k \in DOMAIN listings, Cancels(k) PROVE Status(l)' \in Claimed
        <2>1. k # l /\ NewStatus(k, "CANCELED")
            BY <1>2, CancelsRow DEF Cancels, Claimed
        <2> QED BY <2>1 DEF NewStatus, Status
    <1>3. ASSUME NEW k \in DOMAIN listings, Claims(k) PROVE Status(l)' \in Claimed
        <2>1. NewStatus(k, "CLAIMED")
            BY <1>3, ClaimsRow
        <2> QED BY <2>1 DEF NewStatus, Status, Claimed
    <1>4. ASSUME NEW k \in DOMAIN listings, Drops(k) PROVE Status(l)' \in Claimed
        <2>1. UNCHANGED listings \/ NewStatus(k, "DROPPED")
            BY <1>4, DropsRow
        <2> QED BY <2>1 DEF NewStatus, Status, Claimed
    <1>5. ASSUME NEW k \in DOMAIN listings, NEW p \in Players, Buys(k, p)
          PROVE  Status(l)' \in Claimed
        <2>1. /\ k # l => listings'[l] = listings[l]
              /\ listings'[k].status = "PAID"
            BY <1>5, BuysRow
        <2> QED BY <2>1 DEF Status, Claimed
    <1>6. ASSUME NEW row \in Listing, Upserts(row) PROVE Status(l)' \in Claimed
        <2>1. /\ l # binding => listings'[l] = listings[l]
              /\ binding # 0 => Status(binding) = "ACTIVE"
            BY <1>6, RowAdded DEF Upserts
        <2>2. l # binding
            BY <1>0, <2>1 DEF Claimed
        <2> QED BY <2>1, <2>2 DEF Status
    <1> QED BY <1>d, <1>1, <1>2, <1>3, <1>4, <1>5, <1>6 DEF RowEffect

\* Where drops can be after a step, in terms of the rows before it.
LEMMA DropsAreOfSold ==
    ASSUME TypeInv, SoldInv, ItemEffect, late => late', NEW l \in Ids
    PROVE  /\ late' \/ here'[l] \in {0, 1}
           /\ here'[l] + away'[l] > 0 => l \in DOMAIN listings /\ Status(l) \in Claimed
    <1>t. /\ here \in [Ids -> Nat] /\ away \in [Ids -> Nat]
          /\ here[l] \in Nat /\ away[l] \in Nat /\ DOMAIN listings \subseteq Ids
        BY RowFacts DEF TypeInv, WorldType
    <1>i. /\ late' \/ here[l] \in {0, 1}
          /\ here[l] + away[l] > 0 => l \in DOMAIN listings /\ Status(l) \in Claimed
        BY DEF SoldInv, DropInv, SoldDrops
    <1>4. CASE Reverts
        <2>1. PICK w \in saved \cup {Now} : here' = w.here /\ away' = w.away
            BY <1>4 DEF Reverts
        <2>2. CASE w = Now
            BY <1>i, <2>1, <2>2 DEF Now
        <2>3. CASE w \in saved
            BY <2>1, <2>3 DEF SoldInv, DropInv, SoldDrops
        <2> QED BY <2>2, <2>3
    <1>1. CASE UNCHANGED <<here, away>>
        BY <1>1, <1>i
    <1>2. ASSUME NEW k \in DOMAIN listings, Spawns(k)
          PROVE  /\ late' \/ here'[l] \in {0, 1}
                 /\ here'[l] + away'[l] > 0
                        => l \in DOMAIN listings /\ Status(l) \in Claimed
        <2>1. CASE k = l
            <3>1. Status(k) \in Claimed
                BY <1>2 DEF Spawns, Unsettled, SoldInv, SettledInv, Claimed
            <3>2. late' \/ here'[l] = 1
                BY <1>2, <1>t, <2>1 DEF Spawns
            <3> QED BY <2>1, <3>1, <3>2
        <2>2. CASE k # l
            BY <1>2, <1>i, <1>t, <2>2 DEF Spawns
        <2> QED BY <2>1, <2>2
    <1>3. ASSUME NEW k \in DOMAIN listings, Takes(k) \/ Moves(k)
          PROVE  /\ late' \/ here'[l] \in {0, 1}
                 /\ here'[l] + away'[l] > 0
                        => l \in DOMAIN listings /\ Status(l) \in Claimed
        <2>1. CASE k # l
            <3>1. here'[l] = here[l] /\ away'[l] = away[l]
                BY <1>3, <1>t, <2>1 DEF Takes, Moves
            <3> QED BY <1>i, <3>1
        <2>2. CASE k = l
            <3>1. here[l] + away[l] > 0
                BY <1>3, <1>t, <2>2 DEF Takes, Moves
            <3>2. here'[l] \in {here[l], here[l] - 1} /\ (here'[l] = here[l] \/ here[l] > 0)
                BY <1>3, <1>t, <2>2 DEF Takes, Moves
            <3> QED BY <1>i, <1>t, <3>1, <3>2
        <2> QED BY <2>1, <2>2
    <1> QED BY <1>1, <1>2, <1>3, <1>4
            DEF ItemEffect, Stays, Puts, Empties, Clears

LEMMA SettledStep ==
    ASSUME TypeInv, BoundInv, SoldInv, RowEffect, ItemEffect, CaptureEffect,
           late => late'
    PROVE  SettledInv'
    <1> SUFFICES ASSUME capture'.purpose \in ForItem
                 PROVE  /\ late' \/ here'[capture'.listing] = 0
                        /\ listings'[capture'.listing].status \in Claimed
        BY DEF SettledInv, Status
    <1>t. /\ here \in [Ids -> Nat] /\ away \in [Ids -> Nat]
          /\ DOMAIN listings \subseteq Ids /\ RowsType
        BY RowFacts DEF TypeInv, WorldType
    <1>n. NoCapture.purpose \notin ForItem
        BY DEF NoCapture, ForItem
    <1>1. CASE UNCHANGED capture
        <2> DEFINE l == capture.listing
        <2>1. /\ l \in DOMAIN listings /\ Status(l) \in Claimed
              /\ late' \/ (here[l] = 0 /\ settling = {l})
            BY <1>1, RowFacts DEF SoldInv, SettledInv, SettlingInv, ForItem,
                                  TypeInv, CaptureType, GoodCapture
        <2>2. listings'[l].status \in Claimed
            BY <1>t, <2>1, ClaimedStays DEF Status
        <2>3. late' \/ \A k \in DOMAIN listings : ~(Spawns(k) /\ k = l)
            BY <1>1, <1>n, <2>1 DEF Spawns
        <2> HIDE DEF l
        <2>4. late' \/ here'[l] = here[l]
            <3> SUFFICES ASSUME ~late' PROVE here'[l] = here[l]
                OBVIOUS
            <3>1. CASE UNCHANGED here
                BY <3>1
            <3>3. ~Reverts
                BY <1>1, <1>n DEF Reverts
            <3>2. ASSUME NEW k \in DOMAIN listings,
                         Spawns(k) \/ Takes(k) \/ Moves(k)
                  PROVE  here'[l] = here[l]
                BY <1>t, <2>1, <2>3, <3>2 DEF Spawns, Takes, Moves
            <3> QED BY <3>1, <3>2, <3>3
                    DEF ItemEffect, Stays, Puts, Empties, Clears
        <2> QED BY <1>1, <2>1, <2>2, <2>4 DEF l
    <1>2. CASE capture' = NoCapture
        BY <1>2, <1>n
    <1>3. CASE Asks
        BY <1>3 DEF Asks, ForItem
    <1>4. ASSUME NEW l \in DOMAIN listings, Begins(l)
          PROVE  /\ late' \/ here'[capture'.listing] = 0
                 /\ listings'[capture'.listing].status \in Claimed
        BY <1>4 DEF Begins, Status, Claimed, Unsettled
    <1>5. CASE Resaves
        <2>1. capture.purpose \in ForItem
            BY <1>5 DEF Resaves, ForItem
        <2> QED BY <1>5, <2>1 DEF Resaves, SoldInv, SettledInv, Status
    <1> QED BY <1>1, <1>2, <1>3, <1>4, <1>5 DEF CaptureEffect

LEMMA SoldStep == TypeInv /\ BoundInv /\ SoldInv /\ [Next]_vars => SoldInv'
    <1> SUFFICES ASSUME TypeInv, BoundInv, SoldInv, [Next]_vars PROVE SoldInv'
        OBVIOUS
    <1>1. /\ RowsType /\ RowEffect /\ ItemEffect /\ CaptureEffect
          /\ (late => late') /\ saved' \subseteq saved \cup {Now}
        BY RowEffects, ItemEffects, CaptureEffects, DiskTypeStep DEF TypeInv
    <1>3. ASSUME NEW h, NEW a,
                 \A l \in Ids :
                     /\ late' \/ h[l] \in {0, 1}
                     /\ h[l] + a[l] > 0
                            => l \in DOMAIN listings /\ Status(l) \in Claimed
          PROVE  SoldDrops(h, a)'
        <2>1. \A l \in DOMAIN listings : Status(l) \in Claimed
                    => l \in DOMAIN listings' /\ Status(l)' \in Claimed
            BY <1>1, ClaimedStays
        <2> QED BY <1>3, <2>1 DEF SoldDrops, Ids
    <1>2. DropInv'
        <2>1. \A l \in Ids :
                  /\ late' \/ here'[l] \in {0, 1}
                  /\ here'[l] + away'[l] > 0
                         => l \in DOMAIN listings /\ Status(l) \in Claimed
            BY <1>1, DropsAreOfSold
        <2>2. SoldDrops(here, away)'
            BY <2>1, <1>3
        <2>3. ASSUME NEW w \in saved' PROVE SoldDrops(w.here, w.away)'
            <3>1. SoldDrops(w.here, w.away)
                BY <1>1 DEF SoldInv, DropInv, Now
            <3> QED BY <1>1, <1>3, <3>1 DEF SoldDrops
        <2> QED BY <2>2, <2>3 DEF DropInv
    <1> QED BY <1>1, <1>2, SettlingStep, SettledStep DEF SoldInv

LEMMA SoldAlways == Spec => []SoldInv
    <1>1. Init => SoldInv
        BY DEF Init, SoldInv, SettlingInv, SettledInv, DropInv, SoldDrops,
               NoCapture, ForItem
    <1> QED BY <1>1, SoldStep, TypeAlways, BoundAlways, PTL DEF Spec

-----------------------------------------------------------------------------
(* What a step does to the index *)

TodoInv == todo \subseteq {index}

LEMMA TodoStep == TypeInv /\ TodoInv /\ [Next]_vars => TodoInv'
    <1> SUFFICES ASSUME TypeInv, TodoInv, [Next]_vars PROVE TodoInv'
        OBVIOUS
    <1>1. CASE todo' = {} \/ todo' = {index'}
        BY <1>1 DEF TodoInv
    <1>2. CASE UNCHANGED todo /\ (todo = {} \/ UNCHANGED index)
        BY <1>2 DEF TodoInv
    <1>3. CASE settleFrameListing \/ restart
        BY <1>1, <1>3 DEF settleFrameListing, settleClosed, adoptDrop, settleLater,
           settleWithoutFrame, beginSettlement, Settles, restart
    <1>4. CASE retryCapture \/ failedCapture \/ rejectCapture \/ openPriceForm
               \/ saveListing \/ openPurchaseReview
        BY <1>2, <1>4 DEF retryCapture, failedCapture, rejectCapture, openPriceForm,
           saveListing, openPurchaseReview, Completes
    <1>5. CASE purchase \/ clearFrame \/ dropItem \/ verifyFails \/ activateFrame
        BY <1>1, <1>2, <1>5 DEF purchase, clearFrame, dropItem, verifyFails,
           activateFrame, Completes
    <1>6. ASSUME NEW p \in Players, leftClick(p) PROVE TodoInv'
        <2>1. todo = {} /\ (UNCHANGED todo \/ (todo' = {index} /\ UNCHANGED index))
            BY <1>6 DEF leftClick, Idle
        <2> QED BY <1>1, <1>2, <2>1
    <1>7. ASSUME NEW p \in Players,
                 \/ handlePriceStick(p) \/ changePrice(p) \/ cancelListing(p)
                 \/ closeForm(p) \/ confirmPurchase(p) \/ toggleBlock(p)
                 \/ \E price \in Prices : submitPrice(p, price)
          PROVE  TodoInv'
        BY <1>1, <1>2, <1>7 DEF handlePriceStick, changePrice, cancelListing,
           closeForm, confirmPurchase, toggleBlock, submitPrice, Answers, Idle
    <1>8. CASE \/ \E l \in DOMAIN listings :
                     pickUp(l) \/ takeFromChest(l) \/ hopper(l)
               \/ \E i \in Items : putItem(i)
        BY <1>2, <1>8 DEF pickUp, takeFromChest, hopper, putItem, Idle
    <1>9. CASE rightClick \/ takeItem \/ breakFrame \/ popFrame \/ placeFrame
               \/ unloadChunk \/ loadChunk \/ dropsReturn \/ lastSave
               \/ recoverFrameListings \/ UNCHANGED vars
        BY <1>1, <1>2, <1>9 DEF rightClick, takeItem, breakFrame, popFrame,
           placeFrame, unloadChunk, loadChunk, dropsReturn, lastSave,
           recoverFrameListings, FrameGone, Idle, vars
    <1> QED BY <1>3, <1>4, <1>5, <1>6, <1>7, <1>8, <1>9
            DEF Next, completeItemFrameCapture

LEMMA TodoAlways == Spec => []TodoInv
    <1>1. Init => TodoInv
        BY DEF Init, TodoInv
    <1> QED BY <1>1, TodoStep, TypeAlways, PTL DEF Spec

IndexEffect ==
    \/ UNCHANGED <<index, binding>>
    \/ index' = binding'
    \/ index' = 0 /\ UNCHANGED binding /\ index # binding
    \/ UNCHANGED index /\ binding' = 0
    \/ /\ UNCHANGED index /\ "faults" \in used'.kinds
       /\ binding' = Len(listings) + 1

LEMMA IndexEffects ==
    ASSUME TypeInv, BoundInv, SoldInv, TodoInv, [Next]_vars,
           "stale" \notin used'.kinds, "retaken" \notin used'.kinds
    PROVE  IndexEffect
    <1>t. /\ RowsType /\ Len(listings) \in Nat
          /\ DOMAIN listings = 1 .. Len(listings)
          /\ DOMAIN listings \subseteq Ids
          /\ binding \in 0 .. Len(listings) /\ index \in 0 .. Len(listings)
          /\ \A l \in DOMAIN listings : Status(l) \in Open <=> l = binding
        BY RowFacts DEF TypeInv, RowsType, PlanType, BoundInv
    <1>f. Fault => "faults" \in used'.kinds
        BY UseCounts DEF Fault, TypeInv, Remembered
    <1>1. ASSUME NEW p \in Players, cancelListing(p) PROVE IndexEffect
        <2> DEFINE l == forms[p].listing
        <2>1. CASE cancelFrameListing(l) /\ index' = 0 /\ CountStale(p)
            <3>1. binding = l
                BY <2>1, UseCounts DEF CountStale, TypeInv, Remembered
            <3> QED BY <2>1, <3>1 DEF cancelFrameListing, Unbind, IndexEffect
        <2>2. CASE cancelFrameListing(l) /\ UNCHANGED index
            BY <2>2 DEF cancelFrameListing, Unbind, IndexEffect
        <2>3. CASE UNCHANGED <<binding, index>>
            BY <2>3 DEF IndexEffect
        <2> QED BY <1>1, <2>1, <2>2, <2>3 DEF cancelListing
    <1>2. ASSUME NEW l \in DOMAIN listings, pickUp(l) \/ takeFromChest(l)
          PROVE  IndexEffect
        <2>1. CASE TakesItem(l)
            <3>1. Status(l) # "CLAIMED"
                BY <2>1, RetakenIsSeen
            <3>2. /\ here[l] \in Nat /\ away[l] \in Nat
                  /\ here[l] > 0 \/ away[l] > 0
                BY <1>2, <1>t, FoundIsThere
                   DEF TypeInv, WorldType, pickUp, takeFromChest
            <3>3. here[l] + away[l] > 0
                BY <3>2
            <3>4. Status(l) \in Claimed
                BY <1>t, <3>3 DEF SoldInv, DropInv, SoldDrops
            <3>5. l = binding
                BY <1>t, <3>1, <3>4 DEF Claimed, Open
            <3> QED BY <2>1, <3>5 DEF TakesItem, completeFrameListingPickup,
                    Unbind, IndexEffect
        <2>2. CASE ~TakesItem(l)
            BY <1>2, <2>2 DEF pickUp, takeFromChest, completeFrameListingPickup,
                              Unbind, IndexEffect
        <2> QED BY <2>1, <2>2
    <1>3. ASSUME NEW p \in Players, handlePriceStick(p) PROVE IndexEffect
        BY <1>3 DEF handlePriceStick, db, IndexEffect
    <1>4. ASSUME NEW p \in Players, leftClick(p) PROVE IndexEffect
        <2>1. \/ UNCHANGED index
              \/ index' = 0 /\ Status(index) \in {"CLAIMED", "CANCELED"}
            BY <1>4 DEF leftClick
        <2>2. index \in DOMAIN listings /\ UNCHANGED binding
            BY <1>4, <1>t DEF leftClick, db
        <2>3. Status(index) \in {"CLAIMED", "CANCELED"} => index # binding
            BY <1>t, <2>2 DEF Open
        <2> QED BY <2>1, <2>2, <2>3 DEF IndexEffect
    <1>5. ASSUME NEW l \in DOMAIN listings, settleClosed(l) PROVE IndexEffect
        <2>1. l = index
            BY <1>5 DEF settleClosed, Settles, TodoInv
        <2>2. l # binding
            BY <1>5, <1>t DEF settleClosed, Open
        <2> QED BY <1>5, <2>1, <2>2 DEF settleClosed, db, IndexEffect
    <1>6. CASE purchase
        BY <1>6 DEF purchase, StillOffered, IndexEffect
    <1>7. CASE recoverFrameListings
        <2>1. PICK l \in unsettledFrameListings : index' = l
            BY <1>7 DEF recoverFrameListings
        <2>2. l = binding
            BY <1>t, <2>1 DEF unsettledFrameListings, Unsettled, Open
        <2> QED BY <1>7, <2>1, <2>2 DEF recoverFrameListings, db, IndexEffect
    <1>8. CASE restart
        BY <1>8 DEF restart, restoreFrameListingIndex, db, IndexEffect
    <1>9. CASE saveListing
        BY <1>9, <1>f DEF saveListing, upsertFrameListing, IndexEffect
    <1>10. ASSUME NEW l \in DOMAIN listings,
                  \/ adoptDrop(l) \/ settleLater(l) \/ settleWithoutFrame(l)
                  \/ beginSettlement(l) \/ hopper(l)
           PROVE  IndexEffect
        BY <1>10 DEF adoptDrop, settleLater, settleWithoutFrame, beginSettlement,
           hopper, db, IndexEffect
    <1>11. CASE retryCapture \/ failedCapture \/ rejectCapture \/ openPriceForm
               \/ openPurchaseReview \/ clearFrame \/ dropItem \/ verifyFails
               \/ activateFrame
        BY <1>11 DEF retryCapture, failedCapture, rejectCapture, openPriceForm,
           openPurchaseReview, clearFrame, dropItem, verifyFails, activateFrame,
           db, IndexEffect
    <1>12. ASSUME NEW p \in Players,
                 \/ changePrice(p) \/ closeForm(p) \/ confirmPurchase(p)
                 \/ toggleBlock(p)
                 \/ \E price \in Prices : submitPrice(p, price)
          PROVE  IndexEffect
        BY <1>12 DEF changePrice, closeForm, confirmPurchase, toggleBlock,
           submitPrice, db, IndexEffect
    <1>13. CASE \E i \in Items : putItem(i)
        BY <1>13 DEF putItem, db, IndexEffect
    <1>14. CASE rightClick \/ takeItem \/ breakFrame \/ popFrame \/ placeFrame
                \/ unloadChunk \/ loadChunk \/ dropsReturn \/ lastSave
                \/ UNCHANGED vars
        BY <1>14 DEF rightClick, takeItem, breakFrame, popFrame, placeFrame,
           unloadChunk, loadChunk, dropsReturn, lastSave, FrameGone, db, vars,
           IndexEffect
    <1> QED BY <1>1, <1>2, <1>3, <1>4, <1>5, <1>6, <1>7, <1>8, <1>9, <1>10,
               <1>11, <1>12, <1>13, <1>14
            DEF Next, settleFrameListing, completeItemFrameCapture

-----------------------------------------------------------------------------
(* The protection of the frame *)

LEMMA MarketEffects ==
    ASSUME TypeInv, [Next]_vars, ~market, market'
    PROVE  capture.purpose = "toggle" /\ UNCHANGED binding
    <1>1. CASE activateFrame
        BY <1>1 DEF activateFrame, Completes, db
    <1>2. CASE settleFrameListing
        BY <1>2 DEF settleFrameListing, settleClosed, adoptDrop, settleLater,
           settleWithoutFrame, beginSettlement
    <1>3. CASE retryCapture \/ failedCapture \/ rejectCapture \/ openPriceForm
               \/ saveListing \/ openPurchaseReview \/ purchase \/ clearFrame
               \/ dropItem \/ verifyFails
        BY <1>3 DEF retryCapture, failedCapture, rejectCapture, openPriceForm,
           saveListing, openPurchaseReview, purchase, clearFrame, dropItem,
           verifyFails
    <1>4. ASSUME NEW p \in Players,
                 \/ handlePriceStick(p) \/ changePrice(p) \/ cancelListing(p)
                 \/ closeForm(p) \/ leftClick(p) \/ confirmPurchase(p)
                 \/ toggleBlock(p)
                 \/ \E price \in Prices : submitPrice(p, price)
          PROVE  FALSE
        BY <1>4 DEF handlePriceStick, changePrice, cancelListing, closeForm,
           leftClick, confirmPurchase, toggleBlock, submitPrice
    <1>5. CASE \/ \E l \in DOMAIN listings :
                     pickUp(l) \/ takeFromChest(l) \/ hopper(l)
               \/ \E i \in Items : putItem(i)
        BY <1>5 DEF pickUp, takeFromChest, hopper, putItem
    <1>6. CASE rightClick \/ takeItem \/ breakFrame \/ popFrame \/ placeFrame
               \/ unloadChunk \/ loadChunk \/ dropsReturn \/ lastSave \/ restart
               \/ recoverFrameListings \/ UNCHANGED vars
        BY <1>6 DEF rightClick, takeItem, breakFrame, popFrame, placeFrame,
           unloadChunk, loadChunk, dropsReturn, lastSave, restart,
           recoverFrameListings, vars
    <1> QED BY <1>1, <1>2, <1>3, <1>4, <1>5, <1>6
            DEF Next, completeItemFrameCapture

\* The frame is bound to another listing only when one is saved.
LEMMA BindingEffects ==
    ASSUME TypeInv, [Next]_vars, binding' # binding, binding' # 0
    PROVE  saveListing
    <1>1. CASE settleFrameListing
        BY <1>1 DEF settleFrameListing, settleClosed, adoptDrop, settleLater,
           settleWithoutFrame, beginSettlement, db
    <1>2. CASE retryCapture \/ failedCapture \/ rejectCapture \/ openPriceForm
               \/ openPurchaseReview \/ purchase \/ clearFrame
               \/ dropItem \/ verifyFails \/ activateFrame
        BY <1>2 DEF retryCapture, failedCapture, rejectCapture, openPriceForm,
           openPurchaseReview, purchase, clearFrame, dropItem,
           verifyFails, activateFrame, db
    <1>3. ASSUME NEW p \in Players,
                 \/ handlePriceStick(p) \/ changePrice(p) \/ cancelListing(p)
                 \/ closeForm(p) \/ leftClick(p) \/ confirmPurchase(p)
                 \/ toggleBlock(p)
                 \/ \E price \in Prices : submitPrice(p, price)
          PROVE  FALSE
        BY <1>3 DEF handlePriceStick, changePrice, cancelListing, closeForm,
           leftClick, confirmPurchase, toggleBlock, submitPrice, db,
           cancelFrameListing, Unbind
    <1>4. CASE \/ \E l \in DOMAIN listings :
                     pickUp(l) \/ takeFromChest(l) \/ hopper(l)
               \/ \E i \in Items : putItem(i)
        BY <1>4 DEF pickUp, takeFromChest, hopper, putItem, TakesItem, db,
                    completeFrameListingPickup, Unbind
    <1>5. CASE rightClick \/ takeItem \/ breakFrame \/ popFrame \/ placeFrame
               \/ unloadChunk \/ loadChunk \/ dropsReturn \/ lastSave \/ restart
               \/ recoverFrameListings \/ UNCHANGED vars
        BY <1>5 DEF rightClick, takeItem, breakFrame, popFrame, placeFrame,
           unloadChunk, loadChunk, dropsReturn, lastSave, restart,
           recoverFrameListings, FrameGone, db, vars
    <1> QED BY <1>1, <1>2, <1>3, <1>4, <1>5 DEF Next, completeItemFrameCapture

\* While the frame is listed no activation of a market is under way.
ProtectedInv == Only({"pops", "hoppers", "rollback"}) =>
    /\ binding # 0 => index = binding /\ ~market
    /\ capture.purpose = "toggle" => binding = 0

LEMMA ProtectedStep ==
    TypeInv /\ BoundInv /\ SoldInv /\ TodoInv /\ ProtectedInv /\ [Next]_vars
        => ProtectedInv'
    <1> SUFFICES ASSUME TypeInv, BoundInv, SoldInv, TodoInv, ProtectedInv,
                        [Next]_vars,
                        used'.kinds \subseteq {"pops", "hoppers", "rollback"}
                 PROVE  /\ binding' # 0 => index' = binding' /\ ~market'
                        /\ capture'.purpose = "toggle" => binding' = 0
        BY DEF ProtectedInv, Only
    <1>1. /\ binding # 0 => index = binding /\ ~market
          /\ capture.purpose = "toggle" => binding = 0
        BY KindsGrow DEF ProtectedInv, Only
    <1>2. IndexEffect /\ CaptureEffect
        BY IndexEffects, CaptureEffects
    <1>3. \/ UNCHANGED binding
          \/ binding' = 0
          \/ ~market /\ ~market' /\ capture' = NoCapture
        BY BindingEffects DEF saveListing, NoConflict
    <1>4. ~market /\ market' => capture.purpose = "toggle" /\ UNCHANGED binding
        BY MarketEffects
    <1>5. binding' # 0 => index' = binding'
        BY <1>1, <1>2 DEF IndexEffect
    <1>6. binding' # 0 => ~market'
        BY <1>1, <1>3, <1>4
    <1>7. capture'.purpose = "toggle" => binding' = 0
        <2>1. capture'.purpose = "toggle" => capture' # NoCapture
            BY DEF NoCapture
        <2>2. capture'.purpose = "toggle" => binding = 0
            BY <1>1, <1>2, <2>1 DEF CaptureEffect, Asks, Begins, Resaves
        <2> QED BY <1>3, <2>1, <2>2
    <1> QED BY <1>5, <1>6, <1>7

\* A frame that is offered or paid is in the index that protects it, and is no
\* market target, as long as no reply is lost, no management form is answered
\* late and no item of a CLAIMED listing is picked up once more.
THEOREM ProtectedHolds == Spec => []Protected
    <1>1. Init => ProtectedInv
        BY DEF Init, ProtectedInv, NoCapture
    <1>2. ProtectedInv => Protected
        BY DEF ProtectedInv, Protected
    <1> QED BY <1>1, <1>2, ProtectedStep, TypeAlways, BoundAlways, SoldAlways,
               TodoAlways, PTL DEF Spec

-----------------------------------------------------------------------------
(* Sales from the frame *)

\* A review form is open because it was, or a review was captured.
LEMMA ReviewEffects ==
    ASSUME TypeInv, [Next]_vars, NEW q \in Players, forms'[q].kind = "review"
    PROVE  \/ forms[q].kind = "review" /\ forms'[q].listing = forms[q].listing
           \/ capture.purpose = "review" /\ capture.listing = forms'[q].listing
    <1>f. forms \in [Players -> Form]
        BY DEF TypeInv, FormsType
    <1>k. CASE UNCHANGED forms
        BY <1>k
    <1>n. ASSUME NEW p \in Players, forms' = [forms EXCEPT ![p] = NoForm]
          PROVE  forms[q].kind = "review" /\ forms'[q].listing = forms[q].listing
        BY <1>f, <1>n DEF NoForm
    <1>1. CASE openPurchaseReview
        <2>1. Asker \in Players /\ capture.purpose = "review"
            BY <1>1, AskerIsPlayer DEF openPurchaseReview, Completes, TypeInv
        <2>2. forms'[q] = IF q = Asker
                          THEN [kind |-> "review", listing |-> capture.listing,
                                item |-> NoItem]
                          ELSE forms[q]
            BY <1>1, <1>f, <2>1 DEF openPurchaseReview
        <2> QED BY <2>1, <2>2
    <1>2. CASE openPriceForm
        <2>1. Asker \in Players
            BY <1>2, AskerIsPlayer DEF openPriceForm, Completes, TypeInv
        <2>2. forms'[q] = IF q = Asker
                          THEN [kind |-> "price", listing |-> capture.listing,
                                item |-> capture.seen]
                          ELSE forms[q]
            BY <1>2, <1>f, <2>1 DEF openPriceForm
        <2> QED BY <2>2
    <1>3. ASSUME NEW p \in Players, handlePriceStick(p)
          PROVE  forms[q].kind = "review" /\ forms'[q].listing = forms[q].listing
        <2> DEFINE f == [[NoForm EXCEPT !.kind = "manage"]
                             EXCEPT !.listing = binding]
        <2>1. f.kind = "manage"
            BY DEF NoForm
        <2>2. UNCHANGED forms \/ forms' = [forms EXCEPT ![p] = f]
            BY <1>3 DEF handlePriceStick
        <2> HIDE DEF f
        <2> QED BY <1>f, <2>1, <2>2
    <1>4. ASSUME NEW p \in Players,
                 \/ changePrice(p) \/ cancelListing(p) \/ closeForm(p)
                 \/ confirmPurchase(p)
                 \/ \E price \in Prices : submitPrice(p, price)
          PROVE  forms' = [forms EXCEPT ![p] = NoForm]
        BY <1>4 DEF changePrice, cancelListing, closeForm, confirmPurchase,
           submitPrice, Answers
    <1>5. ASSUME NEW p \in Players, leftClick(p) \/ toggleBlock(p)
          PROVE  UNCHANGED forms
        BY <1>5 DEF leftClick, toggleBlock
    <1>6. CASE settleFrameListing
        BY <1>k, <1>6 DEF settleFrameListing, settleClosed, adoptDrop, settleLater,
           settleWithoutFrame, beginSettlement
    <1>7. CASE retryCapture \/ failedCapture \/ rejectCapture \/ saveListing
               \/ purchase \/ clearFrame \/ dropItem \/ verifyFails
               \/ activateFrame
        BY <1>k, <1>7 DEF retryCapture, failedCapture, rejectCapture,
           saveListing, purchase, clearFrame, dropItem, verifyFails, activateFrame
    <1>8. CASE \/ \E l \in DOMAIN listings :
                     pickUp(l) \/ takeFromChest(l) \/ hopper(l)
               \/ \E i \in Items : putItem(i)
        BY <1>k, <1>8 DEF pickUp, takeFromChest, hopper, putItem
    <1>9. CASE rightClick \/ takeItem \/ breakFrame \/ popFrame \/ placeFrame
               \/ unloadChunk \/ loadChunk \/ dropsReturn \/ lastSave
               \/ recoverFrameListings \/ UNCHANGED vars
        BY <1>k, <1>9 DEF rightClick, takeItem, breakFrame, popFrame, placeFrame,
           unloadChunk, loadChunk, dropsReturn, lastSave, recoverFrameListings,
           FrameGone, vars
    <1>10. CASE restart
        BY <1>10 DEF restart, NoForm
    <1> QED BY <1>k, <1>n, <1>1, <1>2, <1>3, <1>4, <1>5, <1>6, <1>7, <1>8, <1>9,
               <1>10 DEF Next, completeItemFrameCapture

\* Only a purchase makes a listing one that is to be settled.
LEMMA SaleEffects ==
    ASSUME TypeInv, BoundInv, [Next]_vars, NEW l \in DOMAIN listings,
           Status(l) \notin Unsettled, listings'[l].status \in Unsettled
    PROVE  purchase /\ l = capture.listing
    <1>r. RowsType
        BY DEF TypeInv
    <1>k. ASSUME UNCHANGED listings PROVE FALSE
        BY <1>k DEF Status
    <1>n. ASSUME NEW k \in DOMAIN listings, Cancels(k) \/ Claims(k) \/ Drops(k)
          PROVE  FALSE
        <2>1. CASE Cancels(k) \/ Claims(k)
            <3>1. NewStatus(k, "CANCELED") \/ NewStatus(k, "CLAIMED")
                BY <1>r, <2>1, CancelsRow, ClaimsRow
            <3> QED BY <3>1 DEF NewStatus, Status, Unsettled
        <2>2. CASE Drops(k)
            <3>1. UNCHANGED listings
                  \/ (Status(k) = "PAID" /\ NewStatus(k, "DROPPED"))
                BY <1>r, <2>2, DropsRow
            <3> QED BY <1>k, <3>1 DEF NewStatus, Status, Unsettled
        <2> QED BY <1>n, <2>1, <2>2
    <1>1. CASE purchase
        <2>1. Asker \in Players /\ capture.listing \in DOMAIN listings
            BY <1>1, AskerIsPlayer, RowFacts
               DEF purchase, Completes, TypeInv, CaptureType, GoodCapture
        <2>2. Buys(capture.listing, Asker)
            BY <1>1 DEF purchase, Buys
        <2>3. l # capture.listing => listings'[l] = listings[l]
            BY <1>r, <2>1, <2>2, BuysRow
        <2> QED BY <1>1, <2>3 DEF Status
    <1>2. CASE saveListing
        <2>1. UNCHANGED listings \/ \E row \in Listing : Upserts(row)
            <3>1. RowEffect /\ (UNCHANGED listings
                                  \/ upsertFrameListing(NewListing))
                BY <1>2, RowEffects DEF saveListing
            <3>2. ASSUME NEW p \in Players, NEW k \in DOMAIN listings, Buys(k, p),
                         upsertFrameListing(NewListing)
                  PROVE  FALSE
                <4>1. UNCHANGED binding /\ binding \in 0 .. Len(listings)
                      /\ Len(listings) \in Nat
                    BY <1>r, <3>2, RowFacts DEF Buys, RowsType
                <4> QED BY <3>2, <4>1 DEF upsertFrameListing
            <3> QED BY <1>n, <3>1, <3>2 DEF RowEffect, db
        <2>2. ASSUME NEW row \in Listing, Upserts(row) PROVE FALSE
            <3>1. /\ l # binding => listings'[l] = listings[l]
                  /\ l = binding => listings'[l].status = "CANCELED"
                BY <1>r, <2>2, RowAdded DEF Upserts
            <3> QED BY <3>1 DEF Status, Unsettled
        <2> QED BY <1>k, <2>1, <2>2
    <1>3. ASSUME \/ settleFrameListing \/ dropItem \/ verifyFails
                 \/ \E p \in Players : cancelListing(p)
                 \/ \E k \in DOMAIN listings : pickUp(k) \/ takeFromChest(k)
          PROVE  FALSE
        <2>1. RowEffect /\ UNCHANGED balance
            BY <1>3, RowEffects DEF settleFrameListing, settleClosed, adoptDrop,
               settleLater, settleWithoutFrame, beginSettlement, dropItem,
               verifyFails, cancelListing, pickUp, takeFromChest, db
        <2>2. \/ binding' = binding \/ binding' = 0
            BY <1>3 DEF settleFrameListing, settleClosed, adoptDrop,
               settleLater, settleWithoutFrame, beginSettlement, dropItem,
               verifyFails, cancelListing, pickUp, takeFromChest, TakesItem,
               completeFrameListingPickup, cancelFrameListing, Unbind, db
        <2>3. ASSUME NEW row \in Listing, Upserts(row) PROVE FALSE
            <3>1. binding' = Len(listings) + 1 /\ Len(listings) \in Nat
                  /\ binding \in 0 .. Len(listings)
                BY <1>r, <2>3, RowAdded, RowFacts DEF Upserts, RowsType
            <3> QED BY <2>2, <3>1
        <2>4. ASSUME NEW k \in DOMAIN listings, NEW p \in Players, Buys(k, p)
              PROVE  FALSE
            <3>1. /\ balance' = [balance EXCEPT ![p] = @ - listings[k].price,
                                    ![listings[k].seller] = @ + listings[k].price]
                  /\ listings[k].seller # p /\ listings[k].price \in Nat \ {0}
                  /\ balance \in [Players -> Nat]
                BY <1>r, <2>4, BuysRow, RowFacts, ConstantsAssumption DEF RowsType
            <3>2. balance'[p] = balance[p] - listings[k].price
                BY <3>1
            <3> QED BY <2>1, <3>1, <3>2
        <2> QED BY <1>k, <1>n, <2>1, <2>3, <2>4 DEF RowEffect, db
    <1>4. CASE retryCapture \/ failedCapture \/ rejectCapture \/ openPriceForm
               \/ openPurchaseReview \/ clearFrame \/ activateFrame
        BY <1>k, <1>4 DEF retryCapture, failedCapture, rejectCapture,
           openPriceForm, openPurchaseReview, clearFrame, activateFrame, db
    <1>5. ASSUME NEW p \in Players,
                 \/ handlePriceStick(p) \/ changePrice(p) \/ closeForm(p)
                 \/ leftClick(p) \/ confirmPurchase(p) \/ toggleBlock(p)
                 \/ \E price \in Prices : submitPrice(p, price)
          PROVE  UNCHANGED listings
        BY <1>5 DEF handlePriceStick, changePrice, closeForm, leftClick,
           confirmPurchase, toggleBlock, submitPrice, db
    <1>6. CASE \/ \E k \in DOMAIN listings : hopper(k)
               \/ \E i \in Items : putItem(i)
        BY <1>k, <1>6 DEF hopper, putItem, db
    <1>7. CASE rightClick \/ takeItem \/ breakFrame \/ popFrame \/ placeFrame
               \/ unloadChunk \/ loadChunk \/ dropsReturn \/ lastSave \/ restart
               \/ recoverFrameListings \/ UNCHANGED vars
        BY <1>k, <1>7 DEF rightClick, takeItem, breakFrame, popFrame, placeFrame,
           unloadChunk, loadChunk, dropsReturn, lastSave, restart,
           recoverFrameListings, FrameGone, db, vars
    <1> QED BY <1>k, <1>1, <1>2, <1>3, <1>4, <1>5, <1>6, <1>7
            DEF Next, completeItemFrameCapture

\* What may still pay, or be settled, for a listing.
Reviewed(l) == \E p \in Players : /\ forms[p].kind = "review"
                                  /\ forms[p].listing = l
Asked(l) == capture.purpose \in {"review", "buy"} /\ capture.listing = l
Paid(l) == l \in DOMAIN listings /\ Status(l) \in Unsettled
Pending(l) == Reviewed(l) \/ Asked(l) \/ Paid(l)

\* The bound listing has its entry in the index while a purchase or settlement
\* of it is under way, and the frame holds what a capture for it has seen.
PendingInv == Only({"faults", "hoppers"}) =>
    /\ Pending(binding) => index = binding
    /\ capture.purpose \in {"review", "buy"} \cup ForItem
           /\ capture.listing = binding => capture.seen = frame

LEMMA PendingIsListing ==
    ASSUME TypeInv, NEW l, Pending(l)
    PROVE  l \in DOMAIN listings /\ l # 0
    <1>1. Len(listings) \in Nat /\ DOMAIN listings = 1 .. Len(listings)
        BY RowFacts DEF TypeInv
    <1>2. l \in 1 .. Len(listings)
        BY <1>1 DEF Pending, Reviewed, Asked, Paid, TypeInv, FormsType, GoodForm,
                    CaptureType, GoodCapture
    <1> QED BY <1>1, <1>2

PendingNotZero == Pending(binding) => binding # 0
LEMMA PendingIsNotZero == TypeInv => PendingNotZero
    BY PendingIsListing DEF PendingNotZero

LEMMA PendingEffects ==
    ASSUME TypeInv, BoundInv, [Next]_vars, NEW l \in DOMAIN listings,
           Reviewed(l)' \/ Asked(l)' \/ listings'[l].status \in Unsettled
    PROVE  Pending(l) \/ (l = index /\ UNCHANGED index)
    <1>1. ASSUME NEW p \in Players, forms'[p].kind = "review",
                 forms'[p].listing = l
          PROVE  Pending(l)
        BY <1>1, ReviewEffects DEF Pending, Reviewed, Asked
    <1>2. CASE Asked(l)'
        <2>1. CaptureEffect
            BY CaptureEffects
        <2>2. capture'.purpose \in {"review", "buy"} /\ capture'.listing = l
            BY <1>2 DEF Asked
        <2>3. CASE UNCHANGED capture
            BY <2>2, <2>3 DEF Pending, Asked
        <2>4. CASE Asks
            BY <2>2, <2>4 DEF Asks, Pending, Reviewed
        <2>5. CASE Resaves
            BY <2>2, <2>5 DEF Resaves, Pending, Asked
        <2> QED BY <2>1, <2>2, <2>3, <2>4, <2>5
                DEF CaptureEffect, Begins, NoCapture
    <1>3. CASE listings'[l].status \in Unsettled
        <2>1. CASE Status(l) \in Unsettled
            BY <2>1 DEF Pending, Paid
        <2>2. CASE Status(l) \notin Unsettled
            BY <1>3, <2>2, SaleEffects DEF purchase, Completes, Pending, Asked
        <2> QED BY <2>1, <2>2
    <1> QED BY <1>1, <1>2, <1>3 DEF Reviewed

\* A listing that was just saved is not being bought.
LEMMA NewIsNotPending ==
    ASSUME TypeInv, TypeInv', BoundInv, saveListing, binding' # binding
    PROVE  ~Pending(binding)'
    <1>1. /\ RowsType /\ Len(listings) \in Nat
          /\ binding \in 0 .. Len(listings)
          /\ DOMAIN listings = 1 .. Len(listings)
        BY RowFacts DEF TypeInv, RowsType
    <1>2. /\ binding' = Len(listings) + 1 /\ capture' = NoCapture
          /\ UNCHANGED forms /\ upsertFrameListing(NewListing)
          /\ Len(listings) < MaxListings
        BY DEF saveListing, upsertFrameListing
    <1>3. listings'[Len(listings) + 1].status = "ACTIVE"
        <2>1. /\ Asker \in Players
              /\ capture.item \in Items /\ capture.price \in Prices
              /\ capture.listing # 0 => capture.listing \in DOMAIN listings
            <3>1. capture.purpose = "save"
                BY DEF saveListing, Completes
            <3>2. CaptureType
                BY DEF TypeInv
            <3> QED BY <1>1, <3>1, <3>2, AskerIsPlayer DEF CaptureType, GoodCapture
        <2>2. NewListing \in Listing
            BY <1>1, <2>1, RowFacts DEF NewListing, Listing
        <2>3. listings'[Len(listings) + 1] = NewListing
            BY <1>1, <1>2, <2>2, RowAdded
        <2> QED BY <2>3 DEF NewListing
    <1>4. \A p \in Players : forms[p].kind = "review"
                                => forms[p].listing \in 1 .. Len(listings)
        BY DEF TypeInv, FormsType, GoodForm
    <1> DEFINE n == binding'
    <1>5. ~(\E p \in Players : forms'[p].kind = "review" /\ forms'[p].listing = n)
        BY <1>1, <1>2, <1>4
    <1>6. capture'.purpose \notin {"review", "buy"}
        BY <1>2 DEF NoCapture
    <1>7. listings'[n].status \notin Unsettled
        BY <1>2, <1>3 DEF Unsettled
    <1> QED BY <1>5, <1>6, <1>7 DEF Pending, Reviewed, Asked, Paid, Status

LEMMA PendingStep ==
    TypeInv /\ BoundInv /\ SoldInv /\ TodoInv /\ PendingInv /\ [Next]_vars
        => PendingInv'
    <1> SUFFICES ASSUME TypeInv, BoundInv, SoldInv, TodoInv, PendingInv,
                        [Next]_vars, used'.kinds \subseteq {"faults", "hoppers"}
                 PROVE  /\ Pending(binding)' => index' = binding'
                        /\ capture'.purpose \in {"review", "buy"} \cup ForItem
                              /\ capture'.listing = binding'
                                  => capture'.seen = frame'
        BY DEF PendingInv, Only
    <1>0. TypeInv' /\ IndexEffect /\ CaptureEffect /\ ItemEffect
        BY TypeStep, IndexEffects, CaptureEffects, ItemEffects
    <1>1. /\ Pending(binding) => index = binding
          /\ capture.purpose \in {"review", "buy"} \cup ForItem
                 /\ capture.listing = binding => capture.seen = frame
        BY KindsGrow DEF PendingInv, Only
    <1>2. ASSUME Pending(binding)' PROVE index' = binding'
        <2>1. binding' # 0
            <3>1. TypeInv' => PendingNotZero'
                BY PendingIsNotZero, PTL
            <3> QED BY <1>0, <1>2, <3>1 DEF PendingNotZero
        <2>2. UNCHANGED binding
            BY <1>0, <1>2, <2>1, BindingEffects, NewIsNotPending
        <2>3. binding \in DOMAIN listings
            BY <2>1, <2>2, RowFacts DEF TypeInv, RowsType
        <2>4. Reviewed(binding)' \/ Asked(binding)'
                  \/ listings'[binding'].status \in Unsettled
            BY <1>2 DEF Pending, Paid, Status
        <2>5. \/ \E p \in Players : /\ forms'[p].kind = "review"
                                    /\ forms'[p].listing = binding
              \/ /\ capture'.purpose \in {"review", "buy"}
                 /\ capture'.listing = binding
              \/ listings'[binding].status \in Unsettled
            BY <2>2, <2>4 DEF Reviewed, Asked
        <2>6. ASSUME NEW l \in DOMAIN listings, l = binding
              PROVE  Pending(l) \/ (l = index /\ UNCHANGED index)
            <3>1. Reviewed(l)' \/ Asked(l)' \/ listings'[l].status \in Unsettled
                BY <2>5, <2>6 DEF Reviewed, Asked
            <3> QED BY <3>1, PendingEffects
        <2>7. index = binding
            BY <1>1, <2>3, <2>6
        <2> QED BY <1>0, <2>1, <2>2, <2>7 DEF IndexEffect
    <1>3. ASSUME capture'.purpose \in {"review", "buy"} \cup ForItem,
                 capture'.listing = binding'
          PROVE  capture'.seen = frame'
        <2>1. CASE capture' = NoCapture
            BY <1>3, <2>1 DEF NoCapture, ForItem
        <2>2. CASE Asks \/ (\E l \in DOMAIN listings : Begins(l)) \/ Resaves
            BY <2>2 DEF Asks, Begins, Resaves
        <2>3. CASE UNCHANGED capture
            <3>1. capture.listing \in DOMAIN listings /\ 0 \notin DOMAIN listings
                BY <1>3, <2>3, RowFacts DEF ForItem, TypeInv, CaptureType, GoodCapture
            <3>2. UNCHANGED binding
                <4>1. binding' # binding => saveListing
                    BY <1>3, <2>3, <3>1, BindingEffects
                <4>2. ~saveListing
                    BY <1>3, <2>3 DEF saveListing, Completes, ForItem
                <4> QED BY <4>1, <4>2
            <3>3. capture.seen = frame
                BY <1>1, <1>3, <2>3, <3>2
            <3>4. Pending(binding)
                <4>1. CASE capture.purpose \in {"review", "buy"}
                    BY <1>3, <2>3, <3>2, <4>1 DEF Pending, Asked
                <4>2. CASE capture.purpose \in ForItem
                    <5>1. Status(binding) \in Claimed /\ binding \in DOMAIN listings
                        BY <1>3, <2>3, <3>1, <3>2, <4>2 DEF SoldInv, SettledInv
                    <5>2. Status(binding) \in Unsettled
                        BY <5>1 DEF BoundInv, Open, Claimed, Unsettled
                    <5> QED BY <5>1, <5>2 DEF Pending, Paid
                <4> QED BY <1>3, <2>3, <4>1, <4>2
            <3>5. index # 0
                BY <1>1, <1>3, <2>3, <3>1, <3>2, <3>4
            <3>6. "pops" \notin used'.kinds
                OBVIOUS
            <3>7. frame' = frame \/ Clears
                BY <1>0, <3>5, <3>6 DEF ItemEffect, Stays, Reverts, Spawns,
                                        Takes, Moves, Puts, Empties
            <3> QED BY <2>3, <3>3, <3>7 DEF Clears
        <2> QED BY <1>0, <2>1, <2>2, <2>3 DEF CaptureEffect
    <1> QED BY <1>2, <1>3

LEMMA PendingAlways == Spec => []PendingInv
    <1>1. Init => PendingInv
        <2> SUFFICES ASSUME Init PROVE PendingInv
            OBVIOUS
        <2>1. \A p \in Players : forms[p].kind = "none"
            BY DEF Init, NoForm
        <2>2. capture.purpose = "none" /\ DOMAIN listings = {}
            BY DEF Init, NoCapture
        <2> QED BY <2>1, <2>2 DEF PendingInv, Pending, Reviewed, Asked, Paid, ForItem
    <1> QED BY <1>1, PendingStep, TypeAlways, BoundAlways, SoldAlways,
               TodoAlways, PTL DEF Spec

\* A buyer pays for the item only while it is in the frame, although the capture
\* the purchase compares with is of an earlier tick: the entry in the index kept
\* everybody away from the frame in between.
THEOREM SoldFromFrameHolds == Spec => SoldFromFrame
    <1>1. TypeInv /\ BoundInv /\ PendingInv /\ [Next]_vars =>
            [Only({"faults", "hoppers"}) => \A l \in DOMAIN listings :
                Status(l) = "ACTIVE" /\ listings'[l].status = "PAID"
                    => frame = listings[l].item]_vars
        <2> SUFFICES ASSUME TypeInv, BoundInv, PendingInv, [Next]_vars,
                            Only({"faults", "hoppers"}), NEW l \in DOMAIN listings,
                            Status(l) = "ACTIVE", listings'[l].status = "PAID"
                     PROVE  frame = listings[l].item
            OBVIOUS
        <2>1. purchase /\ l = capture.listing
            BY SaleEffects DEF Unsettled
        <2>2. /\ capture.purpose = "buy" /\ capture.listing = binding
              /\ capture.seen = capture.item
            BY <2>1 DEF purchase, Completes, StillOffered
        <2>3. capture.item = listings[l].item
            BY <2>1, <2>2 DEF TypeInv, CaptureType, GoodCapture
        <2> QED BY <2>2, <2>3 DEF PendingInv
    <1> QED BY <1>1, TypeAlways, BoundAlways, PendingAlways, PTL
            DEF Spec, SoldFromFrame

-----------------------------------------------------------------------------
(* The items *)

\* A frame that is gone holds nothing, in what was saved neither.
GoneInv ==
    /\ ~placed => frame = NoItem
    /\ \A w \in saved : ~w.placed => w.frame = NoItem

LEMMA GoneStep == TypeInv /\ GoneInv /\ [Next]_vars => GoneInv'
    <1> SUFFICES ASSUME TypeInv, GoneInv, [Next]_vars PROVE GoneInv'
        OBVIOUS
    <1>s. \A w \in saved \cup {Now} : ~w.placed => w.frame = NoItem
        BY DEF GoneInv, Now
    <1>g. (~placed' => frame' = NoItem) => GoneInv'
        BY <1>s, DiskTypeStep DEF GoneInv
    <1>1. CASE UNCHANGED <<frame, placed>>
        BY <1>g, <1>1 DEF GoneInv
    <1>2. CASE placed' \/ frame' = NoItem
        BY <1>g, <1>2
    <1>3. CASE settleFrameListing
        BY <1>1, <1>3 DEF settleFrameListing, settleClosed, adoptDrop, settleLater,
           settleWithoutFrame, beginSettlement, world
    <1>4. CASE retryCapture \/ failedCapture \/ rejectCapture \/ openPriceForm
               \/ saveListing \/ openPurchaseReview \/ purchase \/ clearFrame
               \/ dropItem \/ verifyFails \/ activateFrame
        BY <1>1, <1>2, <1>4 DEF retryCapture, failedCapture, rejectCapture,
           openPriceForm, saveListing, openPurchaseReview, purchase, clearFrame,
           dropItem, verifyFails, activateFrame, world
    <1>5. ASSUME NEW p \in Players,
                 \/ handlePriceStick(p) \/ changePrice(p) \/ cancelListing(p)
                 \/ closeForm(p) \/ leftClick(p) \/ confirmPurchase(p)
                 \/ toggleBlock(p)
                 \/ \E price \in Prices : submitPrice(p, price)
          PROVE  UNCHANGED <<frame, placed>>
        BY <1>5 DEF handlePriceStick, changePrice, cancelListing, closeForm,
           leftClick, confirmPurchase, toggleBlock, submitPrice, world
    <1>6. CASE \E l \in DOMAIN listings :
                   pickUp(l) \/ takeFromChest(l) \/ hopper(l)
        BY <1>1, <1>6 DEF pickUp, takeFromChest, hopper
    <1>7. ASSUME NEW i \in Items, putItem(i) PROVE GoneInv'
        BY <1>2, <1>7 DEF putItem
    <1>8. CASE rightClick \/ takeItem \/ breakFrame \/ popFrame \/ placeFrame
               \/ unloadChunk \/ loadChunk \/ dropsReturn \/ lastSave
               \/ recoverFrameListings \/ UNCHANGED vars
        BY <1>1, <1>2, <1>8 DEF rightClick, takeItem, breakFrame, popFrame,
           placeFrame, unloadChunk, loadChunk, dropsReturn, lastSave,
           recoverFrameListings, FrameGone, world, vars
    <1>9. CASE restart
        BY <1>g, <1>s, <1>9 DEF restart, Reload
    <1> QED BY <1>1, <1>3, <1>4, <1>5, <1>6, <1>7, <1>8, <1>9
            DEF Next, completeItemFrameCapture

\* A paid listing without a drop stays one until its drop is there.
LEMMA UnsettledStays ==
    ASSUME RowsType, BoundInv, RowEffect, NEW l \in DOMAIN listings,
           Status(l) \in Unsettled, ~(here[l] + away[l] > 0)
    PROVE  listings'[l].status \in Unsettled
    <1>1. CASE UNCHANGED db
        BY <1>1 DEF Status, db
    <1>2. ASSUME NEW k \in DOMAIN listings, Cancels(k)
          PROVE  listings'[l].status \in Unsettled
        <2>1. k # l /\ NewStatus(k, "CANCELED")
            BY <1>2, CancelsRow DEF Cancels, Unsettled
        <2> QED BY <2>1 DEF NewStatus, Status
    <1>3. ASSUME NEW k \in DOMAIN listings, Claims(k)
          PROVE  listings'[l].status \in Unsettled
        <2>1. k # l /\ NewStatus(k, "CLAIMED")
            BY <1>3, ClaimsRow DEF Claims
        <2> QED BY <2>1 DEF NewStatus, Status
    <1>4. ASSUME NEW k \in DOMAIN listings, Drops(k)
          PROVE  listings'[l].status \in Unsettled
        <2>1. UNCHANGED listings \/ NewStatus(k, "DROPPED")
            BY <1>4, DropsRow
        <2> QED BY <2>1 DEF NewStatus, Status, Unsettled
    <1>5. ASSUME NEW k \in DOMAIN listings, NEW p \in Players, Buys(k, p)
          PROVE  listings'[l].status \in Unsettled
        <2>1. /\ k # l => listings'[l] = listings[l]
              /\ listings'[k].status = "PAID"
            BY <1>5, BuysRow
        <2> QED BY <2>1 DEF Status, Unsettled
    <1>6. ASSUME NEW row \in Listing, Upserts(row)
          PROVE  listings'[l].status \in Unsettled
        <2>1. /\ l # binding => listings'[l] = listings[l]
              /\ binding # 0 => Status(binding) = "ACTIVE"
            BY <1>6, RowAdded DEF Upserts
        <2>2. l # binding
            BY <2>1, RowFacts DEF Unsettled
        <2> QED BY <2>1, <2>2 DEF Status
    <1> QED BY <1>1, <1>2, <1>3, <1>4, <1>5, <1>6 DEF RowEffect

\* As long as every drop is seen, a settlement is of a listing that still needs
\* it.
SeenInv == Only({"faults"}) /\ ~late =>
    /\ \A l \in Ids : away[l] = 0
    /\ capture.purpose \in ForItem => Status(capture.listing) \in Unsettled

LEMMA SeenStep ==
    TypeInv /\ BoundInv /\ SoldInv /\ SeenInv /\ [Next]_vars => SeenInv'
    <1> SUFFICES ASSUME TypeInv, BoundInv, SoldInv, SeenInv, [Next]_vars,
                        used'.kinds \subseteq {"faults"}, ~late'
                 PROVE  /\ \A l \in Ids : away'[l] = 0
                        /\ capture'.purpose \in ForItem
                              => listings'[capture'.listing].status \in Unsettled
        BY DEF SeenInv, Only, Status, Ids
    <1>0. RowEffect /\ ItemEffect /\ CaptureEffect
        BY RowEffects, ItemEffects, CaptureEffects
    <1>l. ~late
        BY DiskTypeStep
    <1>1. /\ \A l \in Ids : away[l] = 0
          /\ capture.purpose \in ForItem => Status(capture.listing) \in Unsettled
        BY <1>l, KindsGrow DEF SeenInv, Only
    <1>t. RowsType /\ DOMAIN listings \subseteq Ids
        BY RowFacts DEF TypeInv
    <1>2. UNCHANGED away
        <2>1. ASSUME NEW l \in DOMAIN listings, Spawns(l) \/ Takes(l) \/ Moves(l)
              PROVE  UNCHANGED away
            <3>1. "hoppers" \notin used'.kinds /\ away[l] = 0
                BY <1>1, <1>t
            <3> QED BY <2>1, <3>1 DEF Spawns, Takes, Moves
        <2>2. ~Reverts
            BY DEF Reverts
        <2> QED BY <1>0, <2>1, <2>2 DEF ItemEffect, Stays, Puts, Empties, Clears
    <1>3. ASSUME capture'.purpose \in ForItem
          PROVE  listings'[capture'.listing].status \in Unsettled
        <2>1. CASE UNCHANGED capture
            <3> DEFINE l == capture.listing
            <3>1. /\ l \in DOMAIN listings /\ Status(l) \in Unsettled
                  /\ here[l] = 0 /\ away[l] = 0
                BY <1>1, <1>3, <1>l, <1>t, <2>1, RowFacts DEF SoldInv, SettledInv,
                   ForItem, TypeInv, CaptureType, GoodCapture
            <3> HIDE DEF l
            <3>2. listings'[l].status \in Unsettled
                BY <1>0, <1>t, <3>1, UnsettledStays
            <3> QED BY <2>1, <3>2 DEF l
        <2>2. CASE capture' = NoCapture \/ Asks
            BY <1>3, <2>2 DEF NoCapture, Asks, ForItem
        <2>3. ASSUME NEW l \in DOMAIN listings, Begins(l)
              PROVE  listings'[capture'.listing].status \in Unsettled
            BY <2>3 DEF Begins, Status
        <2>4. CASE Resaves
            <3>1. capture.purpose \in ForItem
                BY <1>3, <2>4 DEF Resaves, ForItem
            <3> QED BY <1>1, <2>4, <3>1 DEF Resaves, Status
        <2> QED BY <1>0, <2>1, <2>2, <2>3, <2>4 DEF CaptureEffect
    <1> QED BY <1>1, <1>2, <1>3

LEMMA SeenAlways == Spec => [](GoneInv /\ SeenInv)
    <1>1. Init => GoneInv /\ SeenInv
        BY DEF Init, GoneInv, SeenInv, NoCapture, ForItem
    <1> QED BY <1>1, GoneStep, SeenStep, TypeAlways, BoundAlways, SoldAlways, PTL
            DEF Spec

\* The drops of an item's listings, and how they change.
LEMMA DropsFacts ==
    ASSUME TypeInv, NEW i \in Items
    PROVE  /\ OfItem(i) \in SUBSET DOMAIN listings /\ OfItem(i) \in SUBSET Ids
           /\ IsFiniteSet(OfItem(i))
           /\ \A l \in Ids : here[l] + away[l] \in Int
           /\ DropsOf(i) \in Int
    <1>1. /\ Len(listings) \in Nat /\ DOMAIN listings = 1 .. Len(listings)
          /\ DOMAIN listings \subseteq Ids
          /\ here \in [Ids -> Nat] /\ away \in [Ids -> Nat]
        BY RowFacts DEF TypeInv, WorldType
    <1>2. OfItem(i) \in SUBSET DOMAIN listings /\ OfItem(i) \in SUBSET Ids
        BY <1>1 DEF OfItem
    <1>3. IsFiniteSet(OfItem(i))
        <2>1. IsFiniteSet(1 .. Len(listings))
            BY <1>1, FS_Interval
        <2> QED BY <1>1, <1>2, <2>1, FS_Subset
    <1>4. \A l \in Ids : here[l] + away[l] \in Int
        BY <1>1
    <1>5. DropsOf(i) \in Int
        <2> DEFINE f == [l \in Ids |-> here[l] + away[l]]
                   S == OfItem(i)
        <2>1. \A l \in S : f[l] \in Int
            BY <1>2, <1>4
        <2>2. IsFiniteSet(S)
            BY <1>3
        <2> HIDE DEF f, S
        <2>3. SumFunctionOnSet(f, S) \in Int
            BY <2>1, <2>2, SumInt
        <2> QED BY <2>3 DEF f, S, DropsOf
    <1> QED BY <1>2, <1>3, <1>4, <1>5

LEMMA DropsChange ==
    ASSUME TypeInv, TypeInv', SameOffers, Len(listings') = Len(listings),
           NEW k \in DOMAIN listings, NEW d \in Int,
           here'[k] + away'[k] = here[k] + away[k] + d,
           \A l \in DOMAIN listings \ {k} : here'[l] + away'[l] = here[l] + away[l],
           NEW i \in Items
    PROVE  DropsOf(i)' = DropsOf(i) + (IF listings[k].item = i THEN d ELSE 0)
    <1>1. /\ DOMAIN listings' = DOMAIN listings /\ DOMAIN listings \subseteq Ids
        BY RowFacts DEF TypeInv, RowsType
    <1>2. OfItem(i)' = OfItem(i)
        BY <1>1 DEF OfItem, SameOffers
    <1> DEFINE f == [l \in Ids |-> here[l] + away[l]]
               g == [l \in Ids |-> here'[l] + away'[l]]
               S == OfItem(i)
    <1>3. /\ IsFiniteSet(S) /\ S \in SUBSET DOMAIN listings
          /\ \A l \in S : f[l] \in Int
          /\ DropsOf(i) = SumFunctionOnSet(f, S)
          /\ DropsOf(i)' = SumFunctionOnSet(g, S)
          /\ DropsOf(i) \in Int
        BY <1>2, DropsFacts DEF DropsOf, Ids
    <1>4. \A l \in DOMAIN listings : g[l] = IF l = k THEN f[l] + d ELSE f[l]
        BY <1>1
    <1>5. k \in S <=> listings[k].item = i
        BY DEF OfItem
    <1> HIDE DEF f, g, S
    <1>6. CASE k \in S
        <2>1. \A y \in S \ {k} : g[y] = f[y]
            BY <1>3, <1>4
        <2>2. g[k] = f[k] + d /\ f[k] \in Int /\ g[k] \in Int
            BY <1>3, <1>4, <1>6
        <2>3. SumFunctionOnSet(g, S) = SumFunctionOnSet(f, S) + g[k] - f[k]
            BY <1>3, <1>6, <2>1, <2>2, SumChange
        <2> QED BY <1>3, <1>5, <1>6, <2>2, <2>3
    <1>7. CASE k \notin S
        <2>1. \A y \in S : f[y] = g[y]
            BY <1>3, <1>4, <1>7
        <2>2. SumFunctionOnSet(f, S) = SumFunctionOnSet(g, S)
            BY <1>3, <2>1, SumEqual
        <2> QED BY <1>3, <1>5, <1>7, <2>2
    <1> QED BY <1>6, <1>7

\* Steps that move no drop, also those that add a listing, which has none.
LEMMA DropsKept ==
    ASSUME TypeInv, TypeInv', SoldInv, SameOffers,
           Len(listings') \in {Len(listings), Len(listings) + 1},
           UNCHANGED <<here, away>>, NEW i \in Items
    PROVE  DropsOf(i)' = DropsOf(i)
    <1> DEFINE f == [l \in Ids |-> here[l] + away[l]]
               S == OfItem(i)
               n == Len(listings) + 1
    <1>1. /\ Len(listings) \in Nat /\ DOMAIN listings = 1 .. Len(listings)
          /\ DOMAIN listings' = 1 .. Len(listings') /\ DOMAIN listings' \subseteq Ids
        <2>1. TypeInv' => (DOMAIN listings \subseteq Ids)'
            BY RowFacts DEF TypeInv, RowsType, Ids
        <2> QED BY <2>1, RowFacts, BoundsAreNat DEF TypeInv, RowsType, Ids
    <1>2. /\ IsFiniteSet(S) /\ S \in SUBSET DOMAIN listings
          /\ \A l \in Ids : f[l] \in Int
          /\ DropsOf(i) = SumFunctionOnSet(f, S)
          /\ DropsOf(i)' = SumFunctionOnSet(f, OfItem(i)')
        BY DropsFacts DEF DropsOf, Ids
    <1>3. CASE OfItem(i)' = S
        BY <1>2, <1>3
    <1>4. CASE OfItem(i)' = S \cup {n} /\ n \in DOMAIN listings'
        <2>2. n \notin DOMAIN listings
            <3>0. \A m \in Nat : m + 1 \notin 1 .. m
                OBVIOUS
            <3>1. Len(listings) + 1 \notin 1 .. Len(listings)
                BY <1>1, <3>0
            <3> QED BY <1>1, <3>1
        <2>0. DOMAIN listings \subseteq Ids
            BY RowFacts DEF TypeInv, RowsType
        <2>1. n \notin S /\ n \in Ids
            <3> HIDE DEF n, S
            <3> QED BY <1>1, <1>2, <1>4, <2>2
        <2>3. f[n] = 0
            <3>1. here[n] \in Nat /\ away[n] \in Nat
                BY <2>1 DEF TypeInv, WorldType
            <3>2. ~(here[n] + away[n] > 0)
                BY <2>1, <2>2 DEF SoldInv, DropInv, SoldDrops
            <3> QED BY <2>1, <3>1, <3>2
        <2> HIDE DEF f, S, n
        <2>4. \A y \in S \cup {n} : f[y] \in Int
            BY <1>2, <2>0, <2>1
        <2>5. /\ SumFunctionOnSet(f, S \cup {n}) = SumFunctionOnSet(f, S) + f[n]
              /\ SumFunctionOnSet(f, S) \in Int
            BY <1>2, <2>1, <2>4, SumAdd
        <2> QED BY <1>2, <1>4, <2>3, <2>5
    <1>5. OfItem(i)' = S \/ (OfItem(i)' = S \cup {n} /\ n \in DOMAIN listings')
        <2>1. CASE Len(listings') = Len(listings)
            BY <1>1, <2>1 DEF OfItem, SameOffers
        <2>2. CASE Len(listings') = Len(listings) + 1
            <3>1. DOMAIN listings' = DOMAIN listings \cup {n} /\ n \notin DOMAIN listings
                <4> DEFINE m == Len(listings)
                <4>1. m \in Nat /\ DOMAIN listings = 1 .. m /\ DOMAIN listings' = 1 .. (m + 1)
                    BY <1>1, <2>2
                <4> HIDE DEF m
                <4>2. 1 .. (m + 1) = (1 .. m) \cup {m + 1} /\ m + 1 \notin 1 .. m
                    BY <4>1
                <4> QED BY <4>1, <4>2 DEF m
            <3>2. \A l \in DOMAIN listings : listings'[l].item = listings[l].item
                BY DEF SameOffers
            <3> HIDE DEF n
            <3>3. CASE listings'[n].item = i
                BY <3>1, <3>2, <3>3 DEF OfItem
            <3>4. CASE listings'[n].item # i
                BY <3>1, <3>2, <3>4 DEF OfItem
            <3> QED BY <3>3, <3>4
        <2> QED BY <2>1, <2>2
    <1> QED BY <1>3, <1>4, <1>5

\* What is owed is at most the item of the one bound listing.
Owes(l, i) ==
    /\ Status(l) \in Unsettled /\ listings[l].item = i
    /\ frame # i /\ here[l] + away[l] = 0

OwedExact == \A i \in Items :
    Owed(i) = IF \E l \in DOMAIN listings : Owes(l, i) THEN 1 ELSE 0

LEMMA OwedIsExact == TypeInv /\ BoundInv => OwedExact
    <1> SUFFICES ASSUME TypeInv, BoundInv, NEW i \in Items
                 PROVE  Owed(i) = IF \E l \in DOMAIN listings : Owes(l, i)
                                  THEN 1 ELSE 0
        BY DEF OwedExact
    <1> DEFINE S == {l \in DOMAIN listings : Owes(l, i)}
    <1>1. Owed(i) = Cardinality(S)
        <2>1. S = {l \in DOMAIN listings : /\ Status(l) \in Unsettled
                                           /\ listings[l].item = i /\ frame # i
                                           /\ here[l] + away[l] = 0}
            BY DEF Owes
        <2> QED BY <2>1 DEF Owed
    <1>2. S \subseteq {binding}
        BY DEF Owes, BoundInv, Open, Unsettled
    <1>3. CASE \E l \in DOMAIN listings : Owes(l, i)
        <2>1. S = {binding}
            BY <1>2, <1>3
        <2> QED BY <1>1, <1>3, <2>1, FS_Singleton
    <1>4. CASE ~ \E l \in DOMAIN listings : Owes(l, i)
        <2>1. S = {}
            BY <1>4
        <2> QED BY <1>1, <1>4, <2>1, FS_EmptySet
    <1> QED BY <1>3, <1>4

LEMMA RowsGrow ==
    ASSUME TypeInv, TypeInv', RowEffect
    PROVE  /\ SameOffers
           /\ Len(listings') \in {Len(listings), Len(listings) + 1}
           /\ DOMAIN listings \subseteq DOMAIN listings'
           /\ \A l \in DOMAIN listings' \ DOMAIN listings :
                    listings'[l].status = "ACTIVE"
    <1>1. /\ RowsType /\ Len(listings) \in Nat /\ Len(listings') \in Nat
          /\ DOMAIN listings = 1 .. Len(listings)
          /\ DOMAIN listings' = 1 .. Len(listings')
        BY RowFacts DEF TypeInv, RowsType
    <1>2. SameOffers
        BY <1>1, RowsTypeStep
    <1>3. CASE Len(listings') = Len(listings)
        BY <1>1, <1>2, <1>3
    <1>4. ASSUME NEW row \in Listing, Upserts(row)
          PROVE  /\ Len(listings') = Len(listings) + 1
                 /\ DOMAIN listings \subseteq DOMAIN listings'
                 /\ \A l \in DOMAIN listings' \ DOMAIN listings :
                          listings'[l].status = "ACTIVE"
        <2>1. /\ Len(listings') = Len(listings) + 1
              /\ listings'[Len(listings) + 1].status = "ACTIVE"
            BY <1>1, <1>4, RowAdded DEF Upserts
        <2> DEFINE n == Len(listings)
        <2>2. n \in Nat /\ DOMAIN listings = 1 .. n /\ DOMAIN listings' = 1 .. (n + 1)
            BY <1>1, <2>1
        <2> HIDE DEF n
        <2>3. DOMAIN listings' = DOMAIN listings \cup {n + 1}
            BY <2>2
        <2> QED BY <2>1, <2>3 DEF n
    <1>5. Len(listings') = Len(listings) \/ \E row \in Listing : Upserts(row)
        BY <1>1, CancelsRow, ClaimsRow, DropsRow, BuysRow DEF RowEffect, NewStatus, db
    <1> QED BY <1>2, <1>3, <1>4, <1>5

-----------------------------------------------------------------------------
(* Each item is somewhere, once *)

ItemsKnown ==
    /\ TypeInv /\ BoundInv /\ SoldInv /\ TodoInv /\ PendingInv /\ GoneInv
    /\ SeenInv

\* A step, services that fail apart without a mishap, and no drop is missed.
CalmStep ==
    ItemsKnown /\ [Next]_vars /\ used'.kinds \subseteq {"faults"} /\ ~late'

LEMMA CalmFacts ==
    ASSUME CalmStep
    PROVE  /\ TypeInv /\ TypeInv' /\ BoundInv /\ BoundInv' /\ SoldInv
           /\ RowEffect /\ ItemEffect
           /\ Only({"faults"}) /\ Only({"faults", "hoppers"}) /\ ~late
           /\ \A l \in DOMAIN listings : away[l] = 0
           /\ \A l \in DOMAIN listings : Status(l) \in Unsettled => l = binding
           /\ binding # 0 /\ index # binding => ~Paid(binding)
           /\ here \in [Ids -> Nat] /\ away \in [Ids -> Nat]
           /\ held \in [Items -> Nat] /\ DOMAIN listings \subseteq Ids
    <1>1. TypeInv /\ BoundInv /\ SoldInv /\ [Next]_vars
        BY DEF CalmStep, ItemsKnown
    <1>2. RowsType /\ RowEffect /\ ItemEffect /\ TypeInv'
        BY <1>1, TypeStep, RowEffects, ItemEffects DEF TypeInv
    <1>3. BoundInv'
        BY <1>1, <1>2, BoundStep
    <1>4. Only({"faults"}) /\ Only({"faults", "hoppers"})
        BY <1>1, KindsGrow DEF CalmStep, Only
    <1>l. ~late
        BY <1>1, DiskTypeStep DEF CalmStep
    <1>5. DOMAIN listings \subseteq Ids /\ \A l \in Ids : away[l] = 0
        BY <1>2, <1>4, <1>l, RowFacts DEF CalmStep, ItemsKnown, SeenInv
    <1>6. \A l \in DOMAIN listings : Status(l) \in Unsettled => l = binding
        BY <1>1 DEF BoundInv, Open, Unsettled
    <1>7. Paid(binding) => index = binding
        BY <1>4 DEF CalmStep, ItemsKnown, PendingInv, Pending
    <1> QED BY <1>1, <1>2, <1>3, <1>4, <1>5, <1>6, <1>7, <1>l
            DEF TypeInv, WorldType

\* What is owed after a step, in terms of the rows before it.
LEMMA OwedAfter ==
    ASSUME CalmStep, NEW i \in Items
    PROVE  /\ Owed(i) = IF \E l \in DOMAIN listings : Owes(l, i) THEN 1 ELSE 0
           /\ Owed(i)' = IF \E l \in DOMAIN listings :
                               /\ listings'[l].status \in Unsettled
                               /\ listings[l].item = i /\ frame' # i
                               /\ here'[l] + away'[l] = 0
                         THEN 1 ELSE 0
    <1>1. /\ TypeInv /\ TypeInv' /\ BoundInv /\ BoundInv' /\ RowEffect
        BY CalmFacts
    <1>2. OwedExact /\ OwedExact'
        <2>1. TypeInv' /\ BoundInv' => OwedExact'
            BY OwedIsExact, PTL
        <2> QED BY <1>1, <2>1, OwedIsExact
    <1>3. /\ SameOffers /\ DOMAIN listings \subseteq DOMAIN listings'
          /\ \A l \in DOMAIN listings' \ DOMAIN listings :
                   listings'[l].status = "ACTIVE"
        BY <1>1, RowsGrow
    <1>4. (\E l \in DOMAIN listings' : Owes(l, i)')
              <=> \E l \in DOMAIN listings :
                        /\ listings'[l].status \in Unsettled
                        /\ listings[l].item = i /\ frame' # i
                        /\ here'[l] + away'[l] = 0
        BY <1>3 DEF Owes, Status, Unsettled, SameOffers
    <1> QED BY <1>2, <1>4 DEF OwedExact

\* A listing becomes one to be settled while its item is in the frame, and
\* stays one until its drop is there.
LEMMA DueStays ==
    ASSUME CalmStep, NEW l \in DOMAIN listings, here[l] + away[l] = 0,
           frame # listings[l].item
    PROVE  listings'[l].status \in Unsettled <=> Status(l) \in Unsettled
    <1>1. /\ TypeInv /\ BoundInv /\ RowEffect /\ Only({"faults", "hoppers"})
          /\ RowsType
        BY CalmFacts DEF TypeInv
    <1>2. CASE Status(l) \in Unsettled
        <2>1. ~(here[l] + away[l] > 0)
            OBVIOUS
        <2> QED BY <1>1, <1>2, <2>1, UnsettledStays
    <1>3. CASE Status(l) \notin Unsettled /\ listings'[l].status \in Unsettled
        <2>1. purchase /\ l = capture.listing
            BY <1>1, <1>3, SaleEffects DEF CalmStep
        <2>2. /\ capture.purpose = "buy" /\ capture.listing = binding
              /\ capture.seen = capture.item
            BY <2>1 DEF purchase, Completes, StillOffered
        <2>3. capture.item = listings[l].item
            BY <1>1, <2>1, <2>2 DEF TypeInv, CaptureType, GoodCapture
        <2>4. capture.seen = frame
            BY <1>1, <2>2 DEF CalmStep, ItemsKnown, PendingInv
        <2> QED BY <2>2, <2>3, <2>4
    <1> QED BY <1>2, <1>3

Holds(i) == IF frame = i THEN 1 ELSE 0
Total(i) == held[i] + DropsOf(i) + Owed(i) + Holds(i)

LEMMA TotalParts ==
    ASSUME CalmStep, NEW i \in Items
    PROVE  /\ held[i] \in Int /\ DropsOf(i) \in Int
           /\ Owed(i) \in {0, 1} /\ Owed(i)' \in {0, 1}
           /\ Holds(i) \in {0, 1} /\ Holds(i)' \in {0, 1}
    BY CalmFacts, OwedAfter, DropsFacts DEF Holds

\* Nothing is owed of an item whose frame, drops and due listing are as before.
LEMMA StaysOwed ==
    ASSUME CalmStep, NEW i \in Items,
           frame' = i <=> frame = i,
           \A l \in DOMAIN listings : listings[l].item = i =>
                \/ here'[l] + away'[l] = here[l] + away[l]
                \/ /\ here[l] + away[l] # 0
                   /\ \/ here'[l] + away'[l] # 0
                      \/ listings'[l].status \notin Unsettled
    PROVE  Owed(i)' = Owed(i)
    <1>1. ASSUME NEW l \in DOMAIN listings, listings[l].item = i
          PROVE  (/\ listings'[l].status \in Unsettled /\ frame' # i
                  /\ here'[l] + away'[l] = 0) <=> Owes(l, i)
        <2>1. CASE here[l] + away[l] = 0 /\ frame # i
            <3>1. here'[l] + away'[l] = 0
                BY <1>1, <2>1
            <3>2. listings'[l].status \in Unsettled <=> Status(l) \in Unsettled
                BY <1>1, <2>1, DueStays
            <3> QED BY <1>1, <2>1, <3>1, <3>2 DEF Owes
        <2>2. CASE here[l] + away[l] # 0
            BY <1>1, <2>2 DEF Owes
        <2>3. CASE frame = i
            BY <2>3 DEF Owes
        <2> QED BY <2>1, <2>2, <2>3
    <1>2. (\E l \in DOMAIN listings : Owes(l, i))
              <=> \E l \in DOMAIN listings :
                        /\ listings'[l].status \in Unsettled
                        /\ listings[l].item = i /\ frame' # i
                        /\ here'[l] + away'[l] = 0
        BY <1>1 DEF Owes
    <1> QED BY <1>2, OwedAfter

LEMMA KeptByStays ==
    ASSUME CalmStep, Stays, NEW i \in Items
    PROVE  Total(i)' = Total(i)
    <1>1. DropsOf(i)' = DropsOf(i)
        BY CalmFacts, RowsGrow, DropsKept DEF Stays
    <1>2. Owed(i)' = Owed(i)
        BY StaysOwed DEF Stays
    <1> QED BY <1>1, <1>2 DEF Stays, Total, Holds

\* The drop is spawned while the item is owed, and is not in the frame.
LEMMA KeptBySpawn ==
    ASSUME CalmStep, NEW k \in DOMAIN listings, Spawns(k), NEW i \in Items
    PROVE  Total(i)' = Total(i)
    <1>t. /\ TypeInv /\ TypeInv' /\ BoundInv /\ RowsType
          /\ here \in [Ids -> Nat] /\ k \in Ids /\ away[k] = 0
          /\ Only({"faults"}) /\ Only({"faults", "hoppers"}) /\ ~late
          /\ listings[k].item \in Items
        BY CalmFacts, RowFacts DEF TypeInv
    <1>1. /\ here[k] = 0 /\ here' = [here EXCEPT ![k] = 1]
          /\ UNCHANGED <<away, held, frame>>
        <2>1. ~late'
            BY DEF CalmStep
        <2>2. /\ here[k] = 0 /\ here' = [here EXCEPT ![k] = here[k] + 1]
              /\ UNCHANGED <<away, held, frame>>
            BY <2>1 DEF Spawns
        <2>3. here[k] + 1 = 1
            BY <2>2
        <2> QED BY <2>2, <2>3
    <1>2. /\ here'[k] = 1
          /\ \A l \in DOMAIN listings \ {k} : here'[l] = here[l]
        BY <1>t, <1>1, CalmFacts
    <1>3. Status(k) \in Unsettled /\ k = binding
        <2>1. Status(k) \in Unsettled
            BY <1>t DEF Spawns, CalmStep, ItemsKnown, SeenInv
        <2> QED BY <2>1, CalmFacts
    <1>4. frame # listings[k].item
        <2>1. CASE ~placed
            BY <1>t, <2>1, BoundsAreNat DEF CalmStep, ItemsKnown, GoneInv
        <2>2. CASE /\ capture.purpose \in ForItem /\ k = capture.listing
                   /\ capture.seen # capture.item
            <3>1. capture.seen = frame
                BY <1>t, <1>3, <2>2 DEF CalmStep, ItemsKnown, PendingInv
            <3>2. capture.item = listings[k].item
                BY <1>t, <2>2 DEF TypeInv, CaptureType, GoodCapture, ForItem
            <3> QED BY <2>2, <3>1, <3>2
        <2> QED BY <2>1, <2>2 DEF Spawns
    <1>5. /\ SameOffers /\ Len(listings') = Len(listings)
        <2>1. CASE UNCHANGED listings
            BY <1>t, <2>1, SameOffersKept
        <2>2. CASE Drops(k)
            BY <1>t, <2>2, DropsRow DEF NewStatus
        <2> QED BY <2>1, <2>2 DEF Spawns
    <1>6. DropsOf(i)' = DropsOf(i) + (IF listings[k].item = i THEN 1 ELSE 0)
        <2>1. here'[k] + away'[k] = here[k] + away[k] + 1
            BY <1>t, <1>1, <1>2
        <2>2. \A l \in DOMAIN listings \ {k} : here'[l] + away'[l] = here[l] + away[l]
            BY <1>1, <1>2
        <2>3. 1 \in Int
            OBVIOUS
        <2> QED BY ONLY <1>t, <1>5, <2>1, <2>2, <2>3, DropsChange, i \in Items,
                        k \in DOMAIN listings
    <1>7. CASE listings[k].item = i
        <2>1. Owes(k, i)
            BY <1>t, <1>1, <1>3, <1>4, <1>7 DEF Owes
        <2>2. Owed(i) = 1
            BY <2>1, OwedAfter
        <2>3. Owed(i)' = 0
            <3> SUFFICES ASSUME NEW l \in DOMAIN listings,
                                listings'[l].status \in Unsettled,
                                listings[l].item = i, here'[l] + away'[l] = 0
                         PROVE  FALSE
                BY OwedAfter
            <3>1. CASE l = k
                BY <1>t, <1>1, <1>2, <3>1
            <3>2. CASE l # k
                <4>1. here[l] + away[l] = 0 /\ frame # listings[l].item
                    BY <1>1, <1>2, <1>4, <1>7, <3>2
                <4>2. Status(l) \in Unsettled
                    BY <4>1, DueStays
                <4> QED BY <1>3, <3>2, <4>2, CalmFacts
            <3> QED BY <3>1, <3>2
        <2> QED BY <1>1, <1>6, <1>7, <2>2, <2>3, TotalParts DEF Total, Holds
    <1>8. CASE listings[k].item # i
        <2>1. Owed(i)' = Owed(i)
            BY <1>1, <1>2, <1>8, StaysOwed
        <2> QED BY <1>1, <1>6, <1>8, <2>1, TotalParts DEF Total, Holds
    <1> QED BY <1>7, <1>8

\* The drop becomes an item of a player.
LEMMA KeptByTake ==
    ASSUME CalmStep, NEW k \in DOMAIN listings, Takes(k), NEW i \in Items
    PROVE  Total(i)' = Total(i)
    <1>t. /\ TypeInv /\ TypeInv' /\ RowsType
          /\ here \in [Ids -> Nat] /\ away \in [Ids -> Nat] /\ k \in Ids
          /\ here[k] \in Nat /\ away[k] \in Nat
          /\ held \in [Items -> Nat] /\ listings[k].item \in Items
        BY CalmFacts, RowFacts DEF TypeInv
    <1>1. /\ SameOffers /\ Len(listings') = Len(listings)
          /\ listings'[k].status = "CLAIMED"
        <2>1. listings' = [listings EXCEPT ![k].status = "CLAIMED"]
            BY DEF Takes, completeFrameListingPickup
        <2> QED BY <1>t, <2>1, StatusSet DEF Statuses, NewStatus
    <1>2. /\ UNCHANGED frame
          /\ held' = [held EXCEPT ![listings[k].item] = @ + 1]
        BY DEF Takes
    <1>3. \A l \in DOMAIN listings \ {k} : here'[l] = here[l] /\ away'[l] = away[l]
        BY <1>t, CalmFacts DEF Takes
    <1>4. /\ here'[k] + away'[k] = here[k] + away[k] + (-1)
          /\ here[k] + away[k] # 0
        <2>1. CASE here[k] > 0 /\ here' = [here EXCEPT ![k] = @ - 1] /\ UNCHANGED away
            BY <1>t, <2>1
        <2>2. CASE away[k] > 0 /\ away' = [away EXCEPT ![k] = @ - 1] /\ UNCHANGED here
            BY <1>t, <2>2
        <2> QED BY <2>1, <2>2 DEF Takes
    <1>5. DropsOf(i)' = DropsOf(i) + (IF listings[k].item = i THEN -1 ELSE 0)
        <2>1. \A l \in DOMAIN listings \ {k} : here'[l] + away'[l] = here[l] + away[l]
            BY <1>3
        <2>2. -1 \in Int
            OBVIOUS
        <2> QED BY ONLY <1>t, <1>1, <1>4, <2>1, <2>2, DropsChange, i \in Items,
                        k \in DOMAIN listings
    <1>6. Owed(i)' = Owed(i)
        <2>1. listings'[k].status \notin Unsettled
            BY <1>1 DEF Unsettled
        <2> QED BY <1>2, <1>3, <1>4, <2>1, StaysOwed
    <1>7. held'[i] = held[i] + (IF listings[k].item = i THEN 1 ELSE 0)
        BY <1>t, <1>2
    <1> QED BY <1>2, <1>5, <1>6, <1>7, TotalParts DEF Total, Holds

\* While the frame is not in the index nothing is owed of any item.
LEMMA NothingDue ==
    ASSUME CalmStep, index = 0, UNCHANGED <<listings, here, away>>,
           NEW i \in Items
    PROVE  Owed(i) = 0 /\ Owed(i)' = 0
    <1>1. \A l \in DOMAIN listings : Status(l) \notin Unsettled
        <2> SUFFICES ASSUME NEW l \in DOMAIN listings, Status(l) \in Unsettled
                     PROVE  FALSE
            OBVIOUS
        <2>1. l = binding /\ l # 0
            BY CalmFacts, RowFacts DEF TypeInv
        <2> QED BY <2>1, CalmFacts DEF Paid
    <1> QED BY <1>1, OwedAfter DEF Owes, Status

LEMMA KeptByPut ==
    ASSUME CalmStep, NEW j \in Items, Puts(j), NEW i \in Items
    PROVE  Total(i)' = Total(i)
    <1>1. DropsOf(i)' = DropsOf(i)
        BY CalmFacts, RowsGrow, DropsKept DEF Puts
    <1>2. Owed(i)' = 0 /\ Owed(i) = 0
        BY NothingDue DEF Puts
    <1>3. held'[i] = held[i] - (IF i = j THEN 1 ELSE 0)
        BY CalmFacts DEF Puts
    <1>4. Holds(i) = 0 /\ Holds(i)' = (IF i = j THEN 1 ELSE 0)
        BY BoundsAreNat DEF Puts, Holds
    <1> QED BY <1>1, <1>2, <1>3, <1>4, TotalParts DEF Total

LEMMA KeptByEmptying ==
    ASSUME CalmStep, Empties, NEW i \in Items
    PROVE  Total(i)' = Total(i)
    <1>1. DropsOf(i)' = DropsOf(i)
        BY CalmFacts, RowsGrow, DropsKept DEF Empties
    <1>2. Owed(i)' = 0 /\ Owed(i) = 0
        BY NothingDue DEF Empties, CalmStep
    <1>3. held'[i] = held[i] + Holds(i)
        <2>1. held' = Popped /\ held \in [Items -> Nat]
            BY CalmFacts DEF Empties
        <2> QED BY <2>1, BoundsAreNat DEF Popped, Holds
    <1>4. Holds(i)' = 0
        BY BoundsAreNat DEF Empties, Holds
    <1> QED BY <1>1, <1>2, <1>3, <1>4, TotalParts DEF Total

\* What is taken out of the frame is owed until its drop is there.
LEMMA KeptByClearing ==
    ASSUME CalmStep, Clears, NEW i \in Items
    PROVE  Total(i)' = Total(i)
    <1> DEFINE k == capture.listing
    <1>1. /\ k \in DOMAIN listings /\ Status(k) \in Unsettled /\ k = binding
          /\ listings[k].item = frame /\ here[k] = 0 /\ away[k] = 0
        <2>1. /\ TypeInv /\ Only({"faults"}) /\ Only({"faults", "hoppers"})
              /\ ~late /\ capture.purpose = "settle" /\ capture.seen = capture.item
            BY CalmFacts DEF Clears
        <2>2. /\ k \in DOMAIN listings /\ capture.item = listings[k].item
            BY <2>1, RowFacts DEF TypeInv, CaptureType, GoodCapture
        <2>3. Status(k) \in Unsettled /\ here[k] = 0
            BY <2>1 DEF CalmStep, ItemsKnown, SeenInv, SoldInv, SettledInv, ForItem
        <2>4. k = binding
            BY <2>2, <2>3, CalmFacts
        <2>5. capture.seen = frame
            BY <2>1, <2>4 DEF CalmStep, ItemsKnown, PendingInv, ForItem
        <2> QED BY <2>1, <2>2, <2>3, <2>4, <2>5, CalmFacts
    <1> HIDE DEF k
    <1>2. DropsOf(i)' = DropsOf(i)
        BY CalmFacts, RowsGrow, DropsKept DEF Clears
    <1>3. Owed(i) = 0
        BY <1>1, CalmFacts, OwedAfter DEF Owes
    <1>4. Owed(i)' = Holds(i)
        <2>1. \A l \in DOMAIN listings :
                  /\ listings'[l].status \in Unsettled <=> l = k
                  /\ here'[l] + away'[l] = here[l] + away[l]
            BY <1>1, CalmFacts DEF Clears, Status
        <2>2. frame' # i
            BY BoundsAreNat DEF Clears
        <2> QED BY <1>1, <2>1, <2>2, OwedAfter DEF Holds
    <1>5. Holds(i)' = 0
        BY BoundsAreNat DEF Clears, Holds
    <1>6. UNCHANGED held
        BY DEF Clears
    <1> QED BY <1>2, <1>3, <1>4, <1>5, <1>6, TotalParts DEF Total

LEMMA ItemsStep == ItemsKnown /\ ItemsExact /\ [Next]_vars => ItemsExact'
    <1> SUFFICES ASSUME ItemsKnown, ItemsExact, [Next]_vars,
                        used'.kinds \subseteq {"faults"}, ~late', NEW i \in Items
                 PROVE  Total(i)' = Stock
        BY DEF ItemsExact, Only, Total, Holds
    <1>1. CalmStep
        BY DEF CalmStep
    <1>2. Total(i) = Stock
        BY <1>1, CalmFacts DEF ItemsExact, Total, Holds
    <1>3. ASSUME NEW k \in DOMAIN listings, Moves(k)
          PROVE  FALSE
        BY <1>3 DEF Moves
    <1>6. ~Reverts
        BY DEF Reverts
    <1>4. ItemEffect
        BY <1>1, CalmFacts
    <1>5. Total(i)' = Total(i)
        BY <1>1, <1>3, <1>4, <1>6, KeptByStays, KeptBySpawn, KeptByTake, KeptByPut,
           KeptByEmptying, KeptByClearing DEF ItemEffect
    <1> QED BY <1>2, <1>5

LEMMA ItemsInit == Init => ItemsExact
    <1> SUFFICES ASSUME Init, NEW i \in Items
                 PROVE  held[i] + DropsOf(i) + Owed(i)
                            + (IF frame = i THEN 1 ELSE 0) = Stock
        BY DEF ItemsExact
    <1>1. DOMAIN listings = {} /\ held[i] = Stock /\ frame # i
        BY BoundsAreNat DEF Init
    <1>2. DropsOf(i) = 0
        <2> DEFINE f == [l \in Ids |-> here[l] + away[l]]
        <2>1. OfItem(i) = {}
            BY <1>1 DEF OfItem
        <2> HIDE DEF f
        <2>2. SumFunctionOnSet(f, {}) = 0
            BY SumEmpty
        <2> QED BY <2>1, <2>2 DEF DropsOf, f
    <1>3. Owed(i) = 0
        <2>1. {l \in DOMAIN listings : /\ Status(l) \in Unsettled
                                       /\ listings[l].item = i /\ frame # i
                                       /\ here[l] + away[l] = 0} = {}
            BY <1>1
        <2> QED BY <2>1, FS_EmptySet DEF Owed
    <1> QED BY <1>1, <1>2, <1>3, BoundsAreNat

\* Each item is in a player's hands, in the frame, on the ground or owed, once:
\* every step moves it from one of these to another. Kills, unreadable captures,
\* broken frames, unloaded chunks and service calls that fail are in it, as long
\* as findFrameSaleDrop has missed no drop (late), no kill took back what was not
\* saved (rollback), and no hopper, stale cancel, falling frame or second pickup
\* came in between.
THEOREM ItemsExactHolds == Spec => []ItemsExact
    <1> QED BY ItemsInit, ItemsStep, TypeAlways, BoundAlways, SoldAlways,
               TodoAlways, PendingAlways, SeenAlways, PTL DEF Spec, ItemsKnown

=============================================================================
