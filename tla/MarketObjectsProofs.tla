------------------------- MODULE MarketObjectsProofs -------------------------
(***************************************************************************)
(* What MarketObjects promises, proved for every number of market ids, of  *)
(* states of the order book and of events: the types, that a market can be *)
(* closed where it was opened, that no label stays above what is not a     *)
(* market, and that a label never goes back to an older book.              *)
(***************************************************************************)
EXTENDS MarketObjects, TLAPS

Books == [of: 0 .. MaxIds, read: Unread .. MaxVersions]
Tasks == ({"first", "second"} \X Nat) \cup ({"recreate"} \X Ids)
Use == [events: Nat, loads: Nat, faults: BOOLEAN, torn: BOOLEAN,
        toggles: Nat]

-----------------------------------------------------------------------------
(* The operators the actions share *)

\* refreshHologram touches the label of one market in a loaded chunk, and what
\* it writes there is the version it was given.
LEMMA RefreshLabel ==
    ASSUME NEW here \in [Ids -> Nat], NEW m \in Ids, NEW v,
           NEW spawns \in BOOLEAN, refreshHologram(here, m, v, spawns)
    PROVE  /\ labels' \in [Ids -> Nat]
           /\ \A k \in Ids : k # m => labels'[k] = here[k]
           /\ text' = text \/ text' = v
           /\ ~loaded => labels' = here
    BY DEF refreshHologram, targetLocation

\* An event counts against the bound, and a fault is remembered.
LEMMA EventUse ==
    ASSUME used \in Use, NEW load \in Nat, NEW fault \in BOOLEAN,
           Event(load, fault)
    PROVE  /\ used' \in Use
           /\ used'.loads = used.loads + load
           /\ used'.faults = (used.faults \/ fault)
           /\ used'.torn = (used.torn \/ fault)
    <1>1. used.events \in Nat /\ used.loads \in Nat /\ used.faults \in BOOLEAN
          /\ used.torn \in BOOLEAN /\ used.toggles \in Nat
        BY DEF Use
    <1>2. used' = [used EXCEPT !.events = used.events + 1,
                               !.loads = used.loads + load,
                               !.faults = used.faults \/ fault,
                               !.torn = used.torn \/ fault]
        BY DEF Event
    <1>3. (used.faults \/ fault) \in BOOLEAN /\ (used.torn \/ fault) \in BOOLEAN
        OBVIOUS
    <1>4. used' \in Use
        <2>1. PICK f, g \in BOOLEAN :
                  f = (used.faults \/ fault) /\ g = (used.torn \/ fault)
            BY <1>3
        <2>2. used' = [used EXCEPT !.events = used.events + 1,
                                   !.loads = used.loads + load, !.faults = f,
                                   !.torn = g]
            BY <1>2, <2>1
        <2>3. [used EXCEPT !.events = used.events + 1] \in Use
            BY <1>1 DEF Use
        <2>4. \A u \in Use : [u EXCEPT !.loads = used.loads + load] \in Use
            BY <1>1 DEF Use
        <2>5. \A u \in Use : [u EXCEPT !.faults = f] \in Use
            BY DEF Use
        <2>6. \A u \in Use : [u EXCEPT !.torn = g] \in Use
            BY DEF Use
        <2> QED BY <2>2, <2>3, <2>4, <2>5, <2>6
    <1>5. used'.loads = used.loads + load
        BY <1>2 DEF Use
    <1>6. used'.faults = (used.faults \/ fault)
        BY <1>2 DEF Use
    <1>7. used'.torn = (used.torn \/ fault)
        BY <1>2 DEF Use
    <1> QED BY <1>4, <1>5, <1>6, <1>7

LEMMA EventNoLoad ==
    ASSUME used \in Use, Event(0, FALSE)
    PROVE  used'.loads = used.loads
    <1>1. used'.loads = used.loads + 0
        BY EventUse
    <1>2. used.loads \in Nat
        BY DEF Use
    <1> QED BY <1>1, <1>2

LEMMA FaultUse ==
    ASSUME used \in Use, Fault
    PROVE  /\ used' \in Use /\ used'.loads = used.loads
           /\ used'.faults = TRUE /\ used'.torn = TRUE
    <1>1. Event(0, TRUE)
        BY DEF Fault
    <1>2. /\ used' \in Use
          /\ used'.loads = used.loads + 0
          /\ used'.faults = (used.faults \/ TRUE)
          /\ used'.torn = (used.torn \/ TRUE)
        BY <1>1, EventUse
    <1>3. used.loads \in Nat
        BY DEF Use
    <1>4. used'.loads = used.loads
        BY <1>2, <1>3, SMT
    <1>5. used'.faults = TRUE /\ used'.torn = TRUE
        BY <1>2, Zenon
    <1> QED BY <1>2, <1>4, <1>5

\* An opening counts against its bound and is no event.
LEMMA ToggleUse ==
    ASSUME used \in Use, used' = [used EXCEPT !.toggles = @ + 1]
    PROVE  used' \in Use /\ used'.loads = used.loads
           /\ used'.faults = used.faults /\ used'.torn = used.torn
    BY DEF Use

\* A start forgets the calls that threw, never that the object was torn.
LEMMA RestartUse ==
    ASSUME used \in Use, restart
    PROVE  /\ used' \in Use /\ used'.loads = used.loads
           /\ ~used'.torn => /\ ~used.torn
                            /\ <<bound', exists', tag'>> = <<bound, exists, tag>>
    <1> DEFINE moved == <<bound', exists', tag'>> # <<bound, exists, tag>>
    <1>1. used' = [used EXCEPT !.events = used.events + 1, !.faults = FALSE,
                               !.torn = used.torn \/ moved]
        BY DEF restart
    <1>2. used.events \in Nat /\ (used.torn \/ moved) \in BOOLEAN
        BY DEF Use
    <1> HIDE DEF moved
    <1>3. used' \in Use
        <2>1. PICK g \in BOOLEAN : g = (used.torn \/ moved)
            BY <1>2
        <2>2. used' = [used EXCEPT !.events = used.events + 1,
                                   !.faults = FALSE, !.torn = g]
            BY <1>1, <2>1
        <2>3. [used EXCEPT !.events = used.events + 1] \in Use
            BY <1>2 DEF Use
        <2>4. FALSE \in BOOLEAN
            OBVIOUS
        <2>5. \A u \in Use, f \in BOOLEAN : [u EXCEPT !.faults = f] \in Use
            BY DEF Use
        <2>6. \A u \in Use : [u EXCEPT !.torn = g] \in Use
            BY DEF Use
        <2> QED BY <2>2, <2>3, <2>4, <2>5, <2>6
    <1>4. used'.loads = used.loads
        BY <1>1 DEF Use
    <1>5. used'.torn = (used.torn \/ moved)
        BY <1>1 DEF Use
    <1>6. ~used'.torn => ~used.torn /\ ~moved
        BY <1>5
    <1> QED BY <1>3, <1>4, <1>6 DEF moved

\* The version that a snapshot gives for a market.
LEMMA BookOfType ==
    ASSUME NEW b \in Books, NEW m \in Ids, b.of # 0 => b.read # Unread,
           MaxIds \in Nat, MaxVersions \in Nat
    PROVE  /\ BookOf(b, m) \in 0 .. MaxVersions
           /\ BookOf(b, m) # 0 => b.of = m /\ BookOf(b, m) = b.read
    BY DEF BookOf, Books, Unread, Ids

-----------------------------------------------------------------------------
(* Types *)

\* What was published was read.
Published(b) == b.of # 0 => b.read # Unread

\* The tags of the object's kind: a block has none, whatever was saved of it.
KindTags == IF IsBlock THEN {NoTag} ELSE 0 .. MaxIds
ObjectType ==
    /\ exists \in BOOLEAN /\ tag \in NoTag .. MaxIds
    /\ older \subseteq BOOLEAN \X KindTags
MarketType ==
    /\ bound \in 0 .. MaxIds /\ known \in 0 .. MaxIds
    /\ id \in 1 .. MaxIds + 1 /\ ObjectType
QueryType ==
    /\ version \in 1 .. MaxVersions
    /\ workers \subseteq Books /\ (\A v, w \in workers : v = w)
    /\ snapshot \in Books /\ Published(snapshot)
    /\ books \in Books /\ Published(books)
    /\ late \in BOOLEAN
DisplayType == labels \in [Ids -> Nat] /\ text \in 0 .. MaxVersions
ChunkType ==
    /\ stored \in [Ids -> Nat] /\ loaded \in BOOLEAN /\ ready \in BOOLEAN
    /\ tasks \subseteq Tasks
PlayerType == pending \subseteq Ids /\ joined \in BOOLEAN
TypeInv ==
    /\ MarketType /\ QueryType /\ DisplayType /\ ChunkType /\ PlayerType
    /\ used \in Use

LEMMA BoundsAreNat ==
    /\ MaxIds \in Nat /\ MaxVersions \in Nat /\ MaxToggles \in Nat
    /\ MaxEvents \in Nat /\ MaxVersions > 0
    BY ConstantsAssumption

LEMMA TypeOKFromParts == TypeInv => TypeOK
    <1> SUFFICES ASSUME TypeInv PROVE TypeOK
        OBVIOUS
    <1> USE BoundsAreNat
    <1>1. /\ {bound, known} \subseteq 0 .. MaxIds /\ tag \in NoTag .. MaxIds
          /\ id \in 1 .. MaxIds + 1
        BY DEF TypeInv, MarketType, ObjectType
    <1>2. {exists, loaded, ready, joined, late} \subseteq BOOLEAN
        BY DEF TypeInv, MarketType, ObjectType, QueryType, ChunkType, PlayerType
    <1>3. older \subseteq BOOLEAN \X (NoTag .. MaxIds)
        <2>1. KindTags \subseteq NoTag .. MaxIds
            BY DEF KindTags, NoTag
        <2> QED BY <2>1 DEF TypeInv, MarketType, ObjectType
    <1>4. /\ version \in 1 .. MaxVersions /\ text \in 0 .. MaxVersions
          /\ workers \cup {snapshot, books} \subseteq Books
          /\ \A v, w \in workers : v = w
        BY DEF TypeInv, QueryType, DisplayType
    <1>5. /\ labels \in [Ids -> Nat] /\ stored \in [Ids -> Nat]
          /\ pending \subseteq Ids /\ tasks \subseteq Tasks /\ used \in Use
        BY DEF TypeInv, DisplayType, ChunkType, PlayerType
    <1> QED BY <1>1, <1>2, <1>3, <1>4, <1>5 DEF TypeOK, Books, Tasks, Use

LEMMA ReconcileTasks ==
    ASSUME NEW n \in Nat
    PROVE  queueLoadedChunkReconcile(n) \subseteq Tasks
    <1>1. <<"first", n>> \in Tasks /\ <<"second", n>> \in Tasks
        BY DEF Tasks
    <1> QED BY <1>1 DEF queueLoadedChunkReconcile

LEMMA TypeInit == Init => TypeInv
    <1> SUFFICES ASSUME Init PROVE TypeInv
        OBVIOUS
    <1> USE BoundsAreNat DEF Init
    <1>1. MarketType
        BY DEF MarketType, ObjectType, NoTag
    <1>2. QueryType
        <2>1. late \in BOOLEAN
            OBVIOUS
        <2> QED BY <2>1 DEF QueryType, Published, NoBooks, Books, Unread
    <1>3. DisplayType
        BY DEF DisplayType, NoLabels
    <1>4. ChunkType
        <2>1. tasks \subseteq Tasks
            BY ReconcileTasks
        <2> QED BY <2>1 DEF ChunkType, NoLabels
    <1>5. PlayerType
        BY DEF PlayerType
    <1>6. used \in Use
        BY DEF NoUse, Use
    <1> QED BY <1>1, <1>2, <1>3, <1>4, <1>5, <1>6 DEF TypeInv

LEMMA MarketTypeKept ==
    MarketType /\ UNCHANGED market => MarketType'
    BY DEF MarketType, ObjectType, KindTags, IsBlock, market

LEMMA QueryTypeKept ==
    QueryType /\ UNCHANGED query => QueryType'
    BY DEF QueryType, query, Published

LEMMA DisplayTypeKept ==
    DisplayType /\ UNCHANGED display => DisplayType'
    BY DEF DisplayType, display

LEMMA ChunkTypeKept ==
    ChunkType /\ UNCHANGED chunk => ChunkType'
    BY DEF ChunkType, chunk

LEMMA PlayerTypeKept ==
    PlayerType /\ UNCHANGED <<pending, joined>> => PlayerType'
    BY DEF PlayerType

\* A step that calls refreshHologram with a version that exists.
LEMMA DisplayTypeRefreshed ==
    ASSUME DisplayType, NEW here \in [Ids -> Nat], NEW m \in Ids,
           NEW v \in 0 .. MaxVersions, NEW spawns \in BOOLEAN,
           refreshHologram(here, m, v, spawns)
    PROVE  DisplayType'
    BY RefreshLabel DEF DisplayType

\* A query is started for a market or for none.
LEMMA StartedType ==
    ASSUME QueryType, NEW m \in 0 .. MaxIds, workers' = Started(m)
    PROVE  workers' \subseteq Books /\ (\A v, w \in workers' : v = w)
    BY BoundsAreNat DEF QueryType, Started, MayQuery, Books, Unread

\* What becomes of block or actor, and what the game saved of it before, has a
\* tag of its kind.
LEMMA TagsOfKind ==
    ASSUME MarketType
    PROVE  /\ tag \in KindTags /\ Untagged \in KindTags
           /\ \A m \in Ids : targetTag(m) \in KindTags
           /\ \A t \in KindTags : t \in NoTag .. MaxIds
           /\ \A t \in KindTags : (t = NoTag) = IsBlock
    BY BoundsAreNat DEF MarketType, ObjectType, KindTags, IsBlock, Untagged, NoTag,
                        targetTag, Ids

LEMMA BecomesType ==
    ASSUME MarketType, NEW e \in BOOLEAN, NEW t \in KindTags, Becomes(e, t)
    PROVE  ObjectType' /\ IsBlock' = IsBlock
    <1>1. /\ exists' = e /\ tag' = t
          /\ older' = (older \cup {<<exists, tag>>}) \ {<<e, t>>}
        BY DEF Becomes
    <1>2. exists \in BOOLEAN /\ older \subseteq BOOLEAN \X KindTags
        BY DEF MarketType, ObjectType
    <1>3. older' \subseteq BOOLEAN \X KindTags
        BY <1>1, <1>2, TagsOfKind
    <1>4. IsBlock' = IsBlock
        <2>1. (tag' = NoTag) = IsBlock
            BY <1>1, TagsOfKind
        <2> QED BY <2>1 DEF IsBlock
    <1>5. KindTags' = KindTags
        BY <1>4 DEF KindTags
    <1>6. exists' \in BOOLEAN /\ tag' \in NoTag .. MaxIds
        BY <1>1, TagsOfKind
    <1> QED BY <1>3, <1>4, <1>5, <1>6 DEF ObjectType

\* After a kill the object is one that was saved, or as the kill found it.
LEMMA KilledType ==
    ASSUME MarketType, killed
    PROVE  /\ ObjectType' /\ IsBlock' = IsBlock
           /\ bound' \in {bound, id} /\ bound' \in 0 .. MaxIds
    <1>1. exists' \in BOOLEAN /\ tag' \in KindTags
        <2>1. CASE \E o \in older \cup {<<exists, tag>>} :
                       exists' = o[1] /\ tag' = o[2]
            <3>1. PICK o \in older \cup {<<exists, tag>>} :
                      exists' = o[1] /\ tag' = o[2]
                BY <2>1
            <3>2. o \in BOOLEAN \X KindTags
                BY TagsOfKind DEF MarketType, ObjectType
            <3> QED BY <3>1, <3>2
        <2>2. CASE tag' = Untagged /\ UNCHANGED exists
            BY <2>2, TagsOfKind DEF MarketType, ObjectType
        <2> QED BY <2>1, <2>2 DEF killed
    <1>2. older' = {}
        BY DEF killed
    <1>3. IsBlock' = IsBlock
        <2>1. (tag' = NoTag) = IsBlock
            BY <1>1, TagsOfKind
        <2> QED BY <2>1 DEF IsBlock
    <1>4. tag' \in NoTag .. MaxIds
        BY <1>1, TagsOfKind
    <1>5. bound' \in {bound, id} /\ bound' \in 0 .. MaxIds
        BY BoundsAreNat DEF killed, MayOpen, MarketType
    <1> QED BY <1>1, <1>2, <1>3, <1>4, <1>5 DEF ObjectType

\* deactivate, whatever the service did.
LEMMA DeactivateType ==
    ASSUME TypeInv, NEW m \in Ids, NEW next \in 1 .. MaxIds + 1,
           deactivate(m, next), ObjectType'
    PROVE  MarketType' /\ DisplayType' /\ used' \in Use
    <1> USE BoundsAreNat
    <1>2. /\ bound' \in 0 .. MaxIds
          /\ id' \in 1 .. MaxIds + 1
          /\ known' \in 0 .. MaxIds
        BY DEF deactivate, Unbound, TypeInv, MarketType
    <1>3. MarketType'
        BY <1>2 DEF MarketType
    <1>4. DisplayType'
        BY DEF deactivate, removeHologram, display, TypeInv, DisplayType
    <1>5. used' \in Use
        BY FaultUse DEF deactivate, TypeInv
    <1> QED BY <1>3, <1>4, <1>5

LEMMA TypeStep == TypeInv /\ [Next]_vars => TypeInv'
    <1> SUFFICES ASSUME TypeInv, [Next]_vars PROVE TypeInv'
        OBVIOUS
    <1> USE BoundsAreNat
    <1>p. /\ MarketType /\ QueryType /\ DisplayType /\ ChunkType
          /\ PlayerType /\ used \in Use
        BY DEF TypeInv
    <1>b. /\ known \in 0 .. MaxIds
          /\ \A m \in Ids : BookOf(books, m) \in 0 .. MaxVersions
          /\ \A m \in Ids : snapshot.of = m => snapshot.read \in 0 .. MaxVersions
          /\ known # 0 => known \in Ids
          /\ NoBooks \in Books /\ Published(NoBooks)
        <2>1. \A m \in Ids : BookOf(books, m) \in 0 .. MaxVersions
            BY <1>p, BookOfType DEF QueryType, Published
        <2>2. known \in 0 .. MaxIds /\ (known # 0 => known \in Ids)
            BY <1>p DEF MarketType, Ids
        <2>3. \A m \in Ids : snapshot.of = m => snapshot.read \in 0 .. MaxVersions
            BY <1>p DEF QueryType, Published, Books, Unread, Ids
        <2>4. NoBooks \in Books /\ Published(NoBooks)
            BY DEF NoBooks, Books, Unread, Published
        <2> QED BY <2>1, <2>2, <2>3, <2>4
    <1>d. labels \in [Ids -> Nat] /\ text \in 0 .. MaxVersions
          /\ WithoutStrangers \in [Ids -> Nat]
          /\ \A m \in Ids : removeHologram(m) \in [Ids -> Nat]
        BY <1>p DEF DisplayType, WithoutStrangers, removeHologram
    <1>r. ASSUME NEW isReady \in BOOLEAN, reconcileLoadedChunk(isReady)
          PROVE  DisplayType'
        <2>1. CASE ~loaded
            BY <1>r, <1>p, <2>1, DisplayTypeKept DEF reconcileLoadedChunk
        <2>2. CASE loaded /\ known = 0
            BY <1>r, <1>d, <2>2 DEF reconcileLoadedChunk, DisplayType
        <2>3. CASE loaded /\ known # 0
            <3>1. refreshHologram(WithoutStrangers, known, BookOf(books, known),
                                  isReady /\ known \notin pending)
                BY <1>r, <2>3 DEF reconcileLoadedChunk
            <3>2. (isReady /\ known \notin pending) \in BOOLEAN
                OBVIOUS
            <3> QED BY <1>p, <1>b, <1>d, <2>3, <3>1, <3>2, DisplayTypeRefreshed
        <2> QED BY <2>1, <2>2, <2>3
    <1>1. CASE refreshHolograms
        <2>1. /\ MarketType' /\ ChunkType' /\ PlayerType' /\ used' \in Use
            BY <1>p, <1>1, MarketTypeKept, ChunkTypeKept, PlayerTypeKept
               DEF refreshHolograms
        <2>2. workers' \subseteq Books /\ (\A v, w \in workers' : v = w)
            BY <1>p, <1>b, <1>1, StartedType DEF refreshHolograms
        <2>5. late' \in BOOLEAN
            BY <1>1 DEF refreshHolograms
        <2>3. QueryType'
            BY <1>p, <1>b, <1>1, <2>2, <2>5
               DEF refreshHolograms, QueryType, Published
        <2>4. DisplayType'
            <3>1. CASE known # 0 /\ snapshot.of = known
                <4>1. refreshHologram(labels, known, snapshot.read, Spawns(known))
                    BY <1>1, <3>1 DEF refreshHolograms
                <4>2. Spawns(known) \in BOOLEAN
                    BY DEF Spawns
                <4> QED BY <1>p, <1>b, <1>d, <3>1, <4>1, <4>2,
                           DisplayTypeRefreshed
            <3>2. CASE ~(known # 0 /\ snapshot.of = known)
                BY <1>p, <1>1, <3>2, DisplayTypeKept DEF refreshHolograms
            <3> QED BY <3>1, <3>2
        <2> QED BY <2>1, <2>3, <2>4 DEF TypeInv
    <1>2. CASE topOfBooks \/ publishSnapshot
        <2>1. /\ MarketType' /\ DisplayType' /\ ChunkType' /\ PlayerType'
              /\ used' \in Use
            BY <1>p, <1>2, MarketTypeKept, DisplayTypeKept, ChunkTypeKept,
               PlayerTypeKept DEF topOfBooks, publishSnapshot
        <2>2. ASSUME topOfBooks PROVE QueryType'
            <3>1. PICK w \in workers :
                      workers' = (workers \ {w}) \cup
                          {[w EXCEPT !.read = IF w.of = 0 THEN 0 ELSE version]}
                BY <2>2 DEF topOfBooks
            <3>2. [w EXCEPT !.read = IF w.of = 0 THEN 0 ELSE version] \in Books
                BY <1>p DEF QueryType, Books, Unread
            <3>3. workers \ {w} = {}
                BY <1>p DEF QueryType
            <3>4. workers' \subseteq Books /\ (\A v, x \in workers' : v = x)
                BY <3>1, <3>2, <3>3
            <3> QED BY <1>p, <2>2, <3>4 DEF topOfBooks, QueryType, Published
        <2>3. ASSUME publishSnapshot PROVE QueryType'
            BY <1>p, <2>3 DEF publishSnapshot, QueryType, Published
        <2> QED BY <1>2, <2>1, <2>2, <2>3 DEF TypeInv
    <1>3. CASE queryFails
        <2>1. used' \in Use
            BY <1>p, <1>3, EventUse DEF queryFails
        <2>2. QueryType'
            BY <1>p, <1>3 DEF queryFails, QueryType, Published
        <2> QED BY <1>p, <1>3, <2>1, <2>2, MarketTypeKept, DisplayTypeKept,
                   ChunkTypeKept, PlayerTypeKept DEF queryFails, TypeInv
    <1>4. CASE activate
        <2>1. used' \in Use
            BY <1>p, <1>4, ToggleUse DEF activate
        <2>2. id \in Ids
            BY <1>p, <1>4 DEF activate, MayOpen, MarketType, Ids
        <2>3. MarketType'
            <3>1. ObjectType'
                <4>1. exists \in BOOLEAN /\ Becomes(exists, targetTag(id))
                    BY <1>p, <1>4 DEF activate, MarketType, ObjectType
                <4> QED BY <1>p, <2>2, <4>1, TagsOfKind, BecomesType
            <3> QED BY <1>p, <1>4, <2>2, <3>1 DEF activate, MarketType, Ids
        <2>7. late' \in BOOLEAN
            BY <1>4 DEF activate
        <2>4. workers' \subseteq Books /\ (\A v, w \in workers' : v = w)
            BY <1>p, <1>4, <2>2, StartedType DEF activate, Ids
        <2>5. QueryType'
            BY <1>p, <1>b, <1>4, <2>4, <2>7 DEF activate, QueryType, Published
        <2>6. DisplayType'
            <3>1. refreshHologram(labels, id,
                       IF snapshot.of = id THEN snapshot.read
                       ELSE BookOf(books, id), Spawns(id))
                BY <1>4 DEF activate
            <3>2. Spawns(id) \in BOOLEAN
                BY DEF Spawns
            <3>3. (IF snapshot.of = id THEN snapshot.read ELSE BookOf(books, id))
                      \in 0 .. MaxVersions
                BY <1>b, <2>2
            <3> QED BY <1>p, <1>d, <2>2, <3>1, <3>2, <3>3, DisplayTypeRefreshed
        <2> QED BY <1>p, <1>4, <2>1, <2>3, <2>5, <2>6, ChunkTypeKept,
                   PlayerTypeKept DEF activate, TypeInv
    <1>5. CASE activateLost
        <2>1. used' \in Use
            BY <1>p, <1>5, FaultUse DEF activateLost
        <2>2. MarketType'
            BY <1>p, <1>5 DEF activateLost, MayOpen, MarketType, ObjectType,
                              KindTags, IsBlock
        <2> QED BY <1>p, <1>5, <2>1, <2>2, QueryTypeKept, DisplayTypeKept,
                   ChunkTypeKept, PlayerTypeKept DEF activateLost, TypeInv
    <1>6. CASE closeMarket
        <2>1. known \in Ids /\ id \in 1 .. MaxIds + 1 /\ deactivate(known, id)
              /\ ObjectType'
            <3>1. exists \in BOOLEAN /\ Becomes(exists, Untagged)
                BY <1>p, <1>6 DEF closeMarket, MarketType, ObjectType
            <3>2. ObjectType'
                BY <1>p, <3>1, TagsOfKind, BecomesType
            <3> QED BY <1>p, <1>b, <1>6, <3>2
                    DEF closeMarket, MayClose, MarketType
        <2>2. MarketType' /\ DisplayType' /\ used' \in Use
            BY <2>1, DeactivateType
        <2> QED BY <1>p, <1>6, <2>2, QueryTypeKept, ChunkTypeKept,
                   PlayerTypeKept DEF closeMarket, TypeInv
    <1>7. CASE removeTarget
        <2>3. ObjectType'
            <3>1. Becomes(FALSE, Untagged) /\ FALSE \in BOOLEAN
                BY <1>7 DEF removeTarget
            <3> QED BY <1>p, <3>1, TagsOfKind, BecomesType
        <2>1. CASE marketIdForTarget # 0
            <3>1. known \in Ids
                BY <1>b, <2>1 DEF marketIdForTarget
            <3>2. known + 1 \in 1 .. MaxIds + 1 /\ ObjectType'
                BY <2>3, <3>1 DEF Ids
            <3>3. deactivate(known, known + 1)
                BY <1>7, <2>1 DEF removeTarget
            <3>4. MarketType' /\ DisplayType' /\ used' \in Use
                BY <3>1, <3>2, <3>3, DeactivateType
            <3> QED BY <1>p, <1>7, <3>4, QueryTypeKept, ChunkTypeKept,
                       PlayerTypeKept DEF removeTarget, TypeInv
        <2>2. CASE marketIdForTarget = 0
            <3>1. MarketType'
                <4>1. UNCHANGED <<bound, id, known>>
                    BY <1>7, <2>2 DEF removeTarget
                <4> QED BY <1>p, <2>3, <4>1 DEF MarketType
            <3> QED BY <1>p, <1>7, <2>2, <3>1, QueryTypeKept, DisplayTypeKept,
                       ChunkTypeKept, PlayerTypeKept DEF removeTarget, TypeInv
        <2> QED BY <2>1, <2>2
    <1>8. CASE explodeBlock \/ placeBlock
        <2>1. MarketType'
            <3>1. UNCHANGED <<bound, id, known>>
                  /\ \E e \in BOOLEAN : Becomes(e, tag)
                BY <1>8 DEF explodeBlock, placeBlock
            <3>2. ObjectType'
                BY <1>p, <3>1, TagsOfKind, BecomesType
            <3> QED BY <1>p, <3>1, <3>2 DEF MarketType
        <2> QED BY <1>p, <1>8, <2>1, QueryTypeKept, DisplayTypeKept,
                   ChunkTypeKept, PlayerTypeKept
                   DEF explodeBlock, placeBlock, TypeInv
    <1>9. CASE bookChanges
        <2>1. QueryType'
            BY <1>p, <1>9 DEF bookChanges, QueryType, Published
        <2> QED BY <1>p, <1>9, <2>1, MarketTypeKept, DisplayTypeKept,
                   ChunkTypeKept, PlayerTypeKept DEF bookChanges, TypeInv
    <1>10. CASE onChunkLoad
        <2>1. used' \in Use
            BY <1>p, <1>10, EventUse DEF onChunkLoad
        <2>2. queueLoadedChunkReconcile(used.loads + 1) \subseteq Tasks
            BY <1>p, ReconcileTasks DEF Use
        <2>3. ChunkType'
            BY <1>p, <1>10, <2>2 DEF onChunkLoad, ChunkType
        <2> QED BY <1>p, <1>10, <2>1, <2>3, MarketTypeKept, QueryTypeKept,
                   DisplayTypeKept, PlayerTypeKept DEF onChunkLoad, TypeInv
    <1>11. CASE onChunkUnload
        <2>1. /\ \/ /\ known \in Ids
                    /\ stored' = [m \in Ids |-> stored[m] + removeHologram(known)[m]]
                 \/ stored' = [m \in Ids |-> stored[m] + labels[m]]
              /\ \/ pending' = pending \ {known} \/ pending' = pending
            BY <1>b, <1>11 DEF onChunkUnload
        <2>2. stored' \in [Ids -> Nat]
            BY <1>p, <1>d, <2>1 DEF ChunkType
        <2>4. ChunkType' /\ PlayerType'
            <3>1. loaded' = FALSE /\ ready' = FALSE /\ UNCHANGED <<tasks, joined>>
                BY <1>11 DEF onChunkUnload
            <3> QED BY <1>p, <2>1, <2>2, <3>1 DEF ChunkType, PlayerType
        <2>3. DisplayType'
            BY <1>p, <1>11 DEF onChunkUnload, DisplayType, NoLabels
        <2>5. MarketType'
            BY <1>p, <1>11 DEF onChunkUnload, MarketType, ObjectType
        <2> QED BY <1>p, <1>11, <2>4, <2>3, <2>5, QueryTypeKept
                   DEF onChunkUnload, TypeInv
    <1>12. CASE actorsReturn
        <2>1. ChunkType' /\ DisplayType'
            BY <1>p, <1>12 DEF actorsReturn, ChunkType, DisplayType, NoLabels
        <2> QED BY <1>p, <1>12, <2>1, MarketTypeKept, QueryTypeKept,
                   PlayerTypeKept DEF actorsReturn, TypeInv
    <1>13. ASSUME NEW n \in 0 .. MaxEvents,
                  firstReconcile(n) \/ secondReconcile(n)
           PROVE  TypeInv'
        <2>1. /\ reconcileLoadedChunk(ready) \/ reconcileLoadedChunk(loaded)
              /\ tasks' \subseteq tasks /\ UNCHANGED <<stored, loaded>>
              /\ ready' \in {ready, loaded}
              /\ UNCHANGED <<market, query, pending, joined, used>>
            BY <1>13 DEF firstReconcile, secondReconcile
        <2>2. DisplayType'
            BY <1>p, <1>r, <2>1 DEF ChunkType
        <2>3. ChunkType'
            BY <1>p, <2>1 DEF ChunkType
        <2> QED BY <1>p, <2>1, <2>2, <2>3, MarketTypeKept, QueryTypeKept,
                   PlayerTypeKept DEF TypeInv
    <1>14. ASSUME NEW m \in Ids, recreateHologram(m) PROVE TypeInv'
        <2>1. ChunkType' /\ PlayerType'
            BY <1>p, <1>14
               DEF recreateHologram, ChunkType, PlayerType, Released
        <2>2. DisplayType'
            <3>1. CASE known = m /\ ready
                <4>1. refreshHologram(labels, m, BookOf(books, m),
                                      m \notin Released(m))
                    BY <1>14, <3>1 DEF recreateHologram
                <4>2. (m \notin Released(m)) \in BOOLEAN
                    OBVIOUS
                <4> QED BY <1>p, <1>b, <1>d, <4>1, <4>2, DisplayTypeRefreshed
            <3>2. CASE ~(known = m /\ ready)
                BY <1>p, <1>14, <3>2, DisplayTypeKept DEF recreateHologram
            <3> QED BY <3>1, <3>2
        <2> QED BY <1>p, <1>14, <2>1, <2>2, MarketTypeKept, QueryTypeKept
                   DEF recreateHologram, TypeInv
    <1>15. CASE onPlayerJoin
        <2>1. used' \in Use
            BY <1>p, <1>15, EventUse DEF onPlayerJoin
        <2>2. PlayerType'
            BY <1>p, <1>15 DEF onPlayerJoin, PlayerType, ChunkType
        <2> QED BY <1>p, <1>15, <2>1, <2>2, MarketTypeKept, QueryTypeKept,
                   DisplayTypeKept, ChunkTypeKept DEF onPlayerJoin, TypeInv
    <1>16. CASE recreateHologramsNearPlayer
        <2>1. known \in Ids
            BY <1>b, <1>16 DEF recreateHologramsNearPlayer
        <2>2. <<"recreate", known>> \in Tasks
            BY <2>1 DEF Tasks
        <2>4. /\ pending' \subseteq Ids /\ joined' = FALSE
              /\ labels' \in {labels, removeHologram(known)}
              /\ text' \in {text, 0}
              /\ tasks' \subseteq tasks \cup {<<"recreate", known>>}
              /\ UNCHANGED <<stored, loaded, ready>>
            BY <1>p, <1>16, <2>1
               DEF recreateHologramsNearPlayer, PlayerType, display
        <2>5. FALSE \in BOOLEAN /\ 0 \in 0 .. MaxVersions
            OBVIOUS
        <2>3. ChunkType' /\ PlayerType' /\ DisplayType'
            BY <1>p, <1>d, <2>1, <2>2, <2>4, <2>5
               DEF ChunkType, PlayerType, DisplayType
        <2> QED BY <1>p, <1>16, <2>3, MarketTypeKept, QueryTypeKept
                   DEF recreateHologramsNearPlayer, TypeInv
    <1>17. CASE restart
        <2>1. used' \in Use
            BY <1>p, <1>17, RestartUse
        <2>2. MarketType'
            <3>1. killed /\ known' = bound'
                BY <1>17 DEF restart, activeMarkets
            <3>2. ObjectType' /\ bound' \in 0 .. MaxIds
                BY <1>p, <3>1, KilledType
            <3> QED BY <1>p, <3>1, <3>2 DEF killed, MarketType
        <2>3. [of |-> known', read |-> Unread] \in Books
            BY <2>2 DEF Books, Unread, MarketType
        <2>4. workers' = {[of |-> known', read |-> Unread]}
            BY <1>17 DEF restart
        <2>9. late' = FALSE /\ late' \in BOOLEAN
            BY <1>17 DEF restart
        <2>5. QueryType'
            BY <1>p, <1>b, <1>17, <2>3, <2>4, <2>9
               DEF restart, QueryType, Published
        <2>6. queueLoadedChunkReconcile(used.loads) \subseteq Tasks
            BY <1>p, ReconcileTasks DEF Use
        <2>7. ChunkType'
            <3>1. [m \in Ids |-> stored[m] + labels[m]] \in [Ids -> Nat]
                BY <1>p, <1>d DEF ChunkType
            <3>2. stored' \in {stored, [m \in Ids |-> stored[m] + labels[m]]}
                BY <1>17 DEF restart
            <3>3. loaded' \in BOOLEAN /\ ready' = FALSE
                  /\ tasks' \in {queueLoadedChunkReconcile(used.loads), {}}
                BY <1>17 DEF restart
            <3> QED BY <1>p, <2>6, <3>1, <3>2, <3>3 DEF ChunkType
        <2>8. DisplayType' /\ PlayerType'
            <3>1. labels' = NoLabels /\ text' = 0 /\ pending' = {}
                  /\ joined' = FALSE
                BY <1>17 DEF restart
            <3>2. joined' \in BOOLEAN
                BY <3>1
            <3>3. PlayerType'
                BY <3>1, <3>2 DEF PlayerType
            <3> QED BY <3>1, <3>3 DEF DisplayType, NoLabels
        <2> QED BY <2>1, <2>2, <2>5, <2>7, <2>8 DEF TypeInv
    <1>18. CASE UNCHANGED vars
        BY <1>p, <1>18, MarketTypeKept, QueryTypeKept, DisplayTypeKept,
           ChunkTypeKept, PlayerTypeKept
           DEF TypeInv, vars, market, query, display, chunk
    <1> QED BY <1>1, <1>2, <1>3, <1>4, <1>5, <1>6, <1>7, <1>8, <1>9, <1>10,
               <1>11, <1>12, <1>13, <1>14, <1>15, <1>16, <1>17, <1>18
               DEF Next, worker, runTask

LEMMA TypeAlways == Spec => []TypeInv
    BY TypeInit, TypeStep, PTL DEF Spec

\* Every variable keeps its type, and at most one worker reads the order book:
\* query_running is enough, although a call may fail and the server restart.
THEOREM TypeCorrect == Spec => []TypeOK
    BY TypeAlways, TypeOKFromParts, PTL

-----------------------------------------------------------------------------
(* The market and its target *)

\* The steps that change which market the object is, or seems to be.
LEMMA MarketSteps ==
    ASSUME [Next]_vars
    PROVE  \/ UNCHANGED <<bound, id, known, exists, tag>>
           \/ activate \/ activateLost \/ closeMarket \/ removeTarget
           \/ explodeBlock \/ placeBlock \/ restart
    <1>1. CASE refreshHolograms \/ worker \/ queryFails \/ bookChanges
        BY <1>1 DEF refreshHolograms, worker, topOfBooks, publishSnapshot,
                    queryFails, bookChanges, market
    <1>2. CASE runTask
        BY <1>2 DEF runTask, firstReconcile, secondReconcile, recreateHologram,
                    market
    <1>3. CASE onChunkLoad \/ onChunkUnload \/ actorsReturn
               \/ onPlayerJoin \/ recreateHologramsNearPlayer
        BY <1>3 DEF onChunkLoad, onChunkUnload, actorsReturn, onPlayerJoin,
                    recreateHologramsNearPlayer, market
    <1>4. CASE UNCHANGED vars
        BY <1>4 DEF vars, market
    <1> QED BY <1>1, <1>2, <1>3, <1>4 DEF Next

\* What a step counts.
LEMMA UseSteps ==
    ASSUME used \in Use, [Next]_vars
    PROVE  \/ restart
           \/ used'.faults = used.faults /\ used'.torn = used.torn
           \/ Fault
    <1>1. CASE UNCHANGED used
        BY <1>1
    <1>2. CASE activate
        BY <1>2, ToggleUse DEF activate
    <1>3. ASSUME NEW load \in Nat, Event(load, FALSE)
          PROVE  used'.faults = used.faults /\ used'.torn = used.torn
        <2>1. /\ used'.faults = (used.faults \/ FALSE)
              /\ used'.torn = (used.torn \/ FALSE)
              /\ used.faults \in BOOLEAN /\ used.torn \in BOOLEAN
            BY <1>3, EventUse DEF Use
        <2> QED BY <2>1, Zenon
    <1>4. CASE refreshHolograms \/ worker \/ bookChanges \/ runTask
        BY <1>1, <1>4 DEF refreshHolograms, worker, topOfBooks,
           publishSnapshot, bookChanges, runTask, firstReconcile,
           secondReconcile, recreateHologram
    <1>5. CASE activateLost
        BY <1>5 DEF activateLost
    <1>6. CASE closeMarket \/ removeTarget
        BY <1>1, <1>6 DEF closeMarket, removeTarget, deactivate
    <1>7. CASE onChunkUnload \/ actorsReturn \/ recreateHologramsNearPlayer
               \/ explodeBlock \/ placeBlock \/ UNCHANGED vars
        BY <1>1, <1>7 DEF onChunkUnload, actorsReturn, explodeBlock, placeBlock,
           recreateHologramsNearPlayer, vars
    <1>8. CASE onChunkLoad \/ onPlayerJoin \/ queryFails
        BY <1>3, <1>8 DEF onChunkLoad, onPlayerJoin, queryFails
    <1> QED BY <1>2, <1>4, <1>5, <1>6, <1>7, <1>8 DEF Next

\* A bound market is the one activateMarket would resume, the index knows it or
\* no market, and an actor that is there is known by that market or by none.
MarketInv ==
    /\ bound # 0 => bound = id /\ known \in {0, bound}
    /\ known # 0 /\ exists /\ ~IsBlock => id = known

\* Since the last start and without a fault the index is the database; an actor
\* that was never torn wears its tag.
TagInv ==
    /\ ~used.faults => bound = known
    /\ ~used.torn /\ ~IsBlock /\ exists /\ bound # 0 => tag = bound

LEMMA MarketInit == Init => MarketInv /\ TagInv
    BY DEF Init, MarketInv, TagInv, IsBlock

\* A block stays a block and an actor an actor.
LEMMA KindKept == TypeInv /\ [Next]_vars => IsBlock' = IsBlock
    <1> SUFFICES ASSUME TypeInv, [Next]_vars PROVE IsBlock' = IsBlock
        OBVIOUS
    <1>1. MarketType
        BY DEF TypeInv
    <1>2. CASE UNCHANGED tag
        BY <1>2 DEF IsBlock
    <1>3. CASE activate
        <2>1. tag' = targetTag(id) /\ id \in Ids
            BY <1>1, <1>3 DEF activate, Becomes, MayOpen, MarketType, Ids
        <2> QED BY <1>1, <2>1, TagsOfKind DEF IsBlock
    <1>4. CASE closeMarket \/ removeTarget
        <2>1. tag' = Untagged
            BY <1>4 DEF closeMarket, removeTarget, Becomes
        <2> QED BY <1>1, <2>1, TagsOfKind DEF IsBlock
    <1>5. CASE restart
        BY <1>1, <1>5, KilledType DEF restart
    <1>6. CASE activateLost \/ explodeBlock \/ placeBlock
        BY <1>2, <1>6 DEF activateLost, explodeBlock, placeBlock, Becomes
    <1> QED BY <1>2, <1>3, <1>4, <1>5, <1>6, MarketSteps

LEMMA MarketStep == TypeInv /\ MarketInv /\ [Next]_vars => MarketInv'
    <1> SUFFICES ASSUME TypeInv, MarketInv, [Next]_vars PROVE MarketInv'
        OBVIOUS
    <1>1. MarketType /\ IsBlock' = IsBlock
        BY KindKept DEF TypeInv
    <1>2. CASE UNCHANGED <<bound, id, known, exists, tag>>
        BY <1>2 DEF MarketInv, IsBlock
    <1>3. CASE activate
        BY <1>1, <1>3 DEF activate, MarketInv
    <1>4. CASE activateLost
        BY <1>1, <1>4
           DEF activateLost, MarketInv, marketIdForTarget, MayOpen, Here
    <1>5. CASE closeMarket
        <2>1. bound' \in {0, bound} /\ id' = id /\ known' \in {0, known}
              /\ exists' = exists
            BY <1>5 DEF closeMarket, deactivate, Unbound, display, Becomes
        <2> QED BY <1>1, <2>1 DEF MarketInv
    <1>6. CASE removeTarget
        <2>1. /\ exists' = FALSE
              /\ \/ UNCHANGED <<bound, id, known>>
                 \/ /\ known # 0
                    /\ bound' = (IF bound = known THEN 0 ELSE bound)
            BY <1>6 DEF removeTarget, deactivate, Unbound, marketIdForTarget,
                        display, Becomes
        <2> QED BY <1>1, <2>1 DEF MarketInv
    <1>7. CASE explodeBlock \/ placeBlock
        BY <1>1, <1>7 DEF explodeBlock, placeBlock, MarketInv, Becomes
    <1>8. CASE restart
        <2>1. known' = bound' /\ id' = id /\ (bound' = bound \/ bound' = id)
            BY <1>8 DEF restart, activeMarkets, killed
        <2> QED BY <1>1, <2>1 DEF MarketInv
    <1> QED BY <1>2, <1>3, <1>4, <1>5, <1>6, <1>7, <1>8, MarketSteps

LEMMA TagStep == TypeInv /\ TagInv /\ [Next]_vars => TagInv'
    <1> SUFFICES ASSUME TypeInv, TagInv, [Next]_vars PROVE TagInv'
        OBVIOUS
    <1>1. MarketType /\ used \in Use /\ IsBlock' = IsBlock
        BY KindKept DEF TypeInv
    <1>2. CASE restart
        <2>1. bound' = known'
            BY <1>2 DEF restart, activeMarkets
        <2>2. ASSUME ~used'.torn
              PROVE  ~used.torn /\ UNCHANGED <<bound, exists, tag>>
            BY <1>1, <1>2, <2>2, RestartUse
        <2> QED BY <1>1, <2>1, <2>2 DEF TagInv
    <1>3. CASE Fault
        BY <1>1, <1>3, FaultUse DEF TagInv
    <1>4. CASE /\ ~restart /\ ~Fault
               /\ used'.faults = used.faults /\ used'.torn = used.torn
        <2>1. CASE UNCHANGED <<bound, id, known, exists, tag>>
            BY <1>4, <2>1 DEF TagInv, IsBlock
        <2>2. CASE activate
            BY <1>1, <2>2 DEF activate, targetTag, Becomes, TagInv
        <2>3. CASE activateLost
            BY <1>4, <2>3 DEF activateLost
        <2>4. CASE closeMarket
            <3>1. known' = 0 /\ bound' = (IF bound = known THEN 0 ELSE bound)
                  /\ tag' = Untagged
                BY <1>4, <2>4 DEF closeMarket, deactivate, Unbound, Becomes
            <3>2. ~used.faults => bound' = 0
                BY <3>1 DEF TagInv
            <3>3. CASE bound = known
                BY <3>1, <3>3 DEF TagInv
            <3>4. CASE bound # known
                <4>1. known # 0 /\ marketIdForTarget = known /\ exists
                    BY <2>4 DEF closeMarket, MayClose, Here
                <4>2. ~IsBlock => tag = known
                    BY <4>1 DEF marketIdForTarget
                <4> QED BY <1>1, <1>4, <3>1, <3>2, <3>4, <4>1, <4>2 DEF TagInv
            <3> QED BY <3>3, <3>4
        <2>5. CASE removeTarget
            <3>1. exists' = FALSE
                BY <2>5 DEF removeTarget, Becomes
            <3>2. ~used.faults => bound' = known'
                BY <1>4, <2>5 DEF removeTarget, deactivate, Unbound, TagInv
            <3> QED BY <1>4, <3>1, <3>2 DEF TagInv
        <2>6. CASE explodeBlock \/ placeBlock
            BY <1>1, <1>4, <2>6 DEF explodeBlock, placeBlock, Becomes, TagInv
        <2> QED BY <1>4, <2>1, <2>2, <2>3, <2>4, <2>5, <2>6, MarketSteps
    <1> QED BY <1>1, <1>2, <1>3, <1>4, UseSteps

LEMMA MarketAlways == Spec => [](TypeInv /\ MarketInv /\ TagInv)
    BY TypeInit, TypeStep, MarketInit, MarketStep, TagStep, PTL DEF Spec

\* After every start and as long as no toggle threw since, the exchanger finds at
\* a block the market that is bound to it, whatever was killed before, and at an
\* actor that no kill and no toggle that threw left behind its market.
THEOREM ClosableHolds == Spec => []Closable
    <1>1. TypeInv /\ TagInv => Closable
        BY DEF TypeInv, TagInv, Closable, marketIdForTarget
    <1> QED BY <1>1, MarketAlways, PTL

-----------------------------------------------------------------------------
(* Labels above what is not a market *)

\* No label is shown but the one of the object's market.
Quiet == \A m \in Ids : labels[m] > 0 => m = known

\* Labels stand in loaded chunks only. As long as one is shown that belongs to
\* no market, or may still come back, the second task of the last load is there.
LabelInv ==
    /\ ~loaded => labels = NoLabels
    /\ loaded /\ ~(Quiet /\ stored = NoLabels)
          => <<"second", used.loads>> \in tasks

LEMMA LabelInit == Init => LabelInv
    BY DEF Init, LabelInv, queueLoadedChunkReconcile, NoUse

\* A step that leaves the load of the chunk and its second task alone and shows
\* no label of another market than before.
NothingNew ==
    /\ UNCHANGED <<loaded, stored>> /\ used'.loads = used.loads
    /\ <<"second", used.loads>> \in tasks => <<"second", used.loads>> \in tasks'
    /\ ~loaded => labels' = labels
    /\ \A m \in Ids : labels'[m] > 0 /\ m # known' => labels[m] > 0 /\ m # known

LEMMA NothingNewKeeps == LabelInv /\ NothingNew => LabelInv'
    BY DEF LabelInv, NothingNew, Quiet, NoLabels, Ids

\* deactivate removes the label with the index entry, or leaves both.
LEMMA DeactivateLabels ==
    ASSUME TypeInv, NEW m \in Ids, m = known, NEW next, loaded,
           deactivate(m, next), UNCHANGED chunk
    PROVE  NothingNew
    <1>1. labels \in [Ids -> Nat] /\ used \in Use
        BY DEF TypeInv, DisplayType
    <1>2. used'.loads = used.loads
        BY <1>1, FaultUse DEF deactivate
    <1>3. \A k \in Ids : labels'[k] > 0 /\ k # known' => labels[k] > 0 /\ k # known
        BY <1>1 DEF deactivate, removeHologram, display
    <1> QED BY <1>2, <1>3 DEF NothingNew, chunk

LEMMA LabelStep == TypeInv /\ MarketInv /\ LabelInv /\ [Next]_vars => LabelInv'
    <1> SUFFICES ASSUME TypeInv, MarketInv, LabelInv, [Next]_vars
                 PROVE  LabelInv'
        OBVIOUS
    <1>p. /\ labels \in [Ids -> Nat] /\ used \in Use /\ used.loads \in Nat
          /\ known \in 0 .. MaxIds /\ (known # 0 => known \in Ids)
          /\ MarketType /\ MaxIds \in Nat /\ stored \in [Ids -> Nat]
          /\ loaded \in BOOLEAN
        BY BoundsAreNat
           DEF TypeInv, DisplayType, MarketType, ChunkType, Use, Ids
    <1>1. CASE refreshHolograms
        <2>1. CASE known # 0 /\ snapshot.of = known
            <3>1. refreshHologram(labels, known, snapshot.read, Spawns(known))
                BY <1>1, <2>1 DEF refreshHolograms
            <3>2. Spawns(known) \in BOOLEAN /\ known \in Ids
                BY <1>p, <2>1 DEF Spawns
            <3>3. /\ \A k \in Ids : k # known => labels'[k] = labels[k]
                  /\ ~loaded => labels' = labels
                BY <1>p, <3>1, <3>2, RefreshLabel
            <3>4. NothingNew
                BY <1>1, <3>3 DEF refreshHolograms, NothingNew, market, chunk
            <3> QED BY <3>4, NothingNewKeeps
        <2>2. CASE ~(known # 0 /\ snapshot.of = known)
            BY <1>1, <2>2, NothingNewKeeps
               DEF refreshHolograms, NothingNew, market, chunk, display
        <2> QED BY <2>1, <2>2
    <1>2. CASE worker \/ bookChanges \/ UNCHANGED vars
        BY <1>2, NothingNewKeeps DEF worker, topOfBooks, publishSnapshot,
           bookChanges, NothingNew, market, chunk, display, vars
    <1>3. CASE queryFails
        BY <1>p, <1>3, EventNoLoad, NothingNewKeeps
           DEF queryFails, NothingNew, market, chunk, display
    <1>4. CASE activate
        <2>1. refreshHologram(labels, id,
                   IF snapshot.of = id THEN snapshot.read
                   ELSE BookOf(books, id), Spawns(id))
            BY <1>4 DEF activate
        <2>2. Spawns(id) \in BOOLEAN /\ id \in Ids
            BY <1>p, <1>4 DEF Spawns, activate, MayOpen, MarketType, Ids
        <2>3. \A k \in Ids : k # id => labels'[k] = labels[k]
            BY <1>p, <2>1, <2>2, RefreshLabel
        <2>4. known # 0 => known = id
            BY <1>4 DEF activate, MayOpen, Here, marketIdForTarget, MarketInv
        <2>5. \A k \in Ids : labels'[k] > 0 /\ k # known'
                                => labels[k] > 0 /\ k # known
            <3>1. known' = id
                BY <1>4 DEF activate
            <3> QED BY <2>3, <2>4, <3>1 DEF Ids
        <2>6. used'.loads = used.loads
            BY <1>p, <1>4, ToggleUse DEF activate
        <2>7. NothingNew
            BY <1>4, <2>5, <2>6 DEF activate, MayOpen, Here, NothingNew, chunk
        <2> QED BY <2>7, NothingNewKeeps
    <1>5. CASE activateLost
        BY <1>p, <1>5, FaultUse, NothingNewKeeps
           DEF activateLost, NothingNew, chunk, display
    <1>6. CASE closeMarket
        <2>1. known \in Ids /\ deactivate(known, id) /\ UNCHANGED chunk /\ loaded
            BY <1>p, <1>6 DEF closeMarket, MayClose, Here
        <2>2. NothingNew
            BY <2>1, DeactivateLabels
        <2> QED BY <2>2, NothingNewKeeps
    <1>7. CASE removeTarget
        <2>1. CASE marketIdForTarget # 0
            <3>1. known \in Ids
                BY <1>p, <2>1 DEF marketIdForTarget
            <3>2. deactivate(known, known + 1) /\ UNCHANGED chunk /\ loaded
                BY <1>7, <2>1 DEF removeTarget, Here
            <3>3. NothingNew
                BY <3>1, <3>2, DeactivateLabels
            <3> QED BY <3>3, NothingNewKeeps
        <2>2. CASE marketIdForTarget = 0
            BY <1>7, <2>2, NothingNewKeeps
               DEF removeTarget, NothingNew, chunk, display
        <2> QED BY <2>1, <2>2
    <1>8. CASE explodeBlock \/ placeBlock
        BY <1>8, NothingNewKeeps
           DEF explodeBlock, placeBlock, NothingNew, chunk, display
    <1>9. CASE onChunkLoad
        <2>1. used'.loads = used.loads + 1
            BY <1>p, <1>9, EventUse DEF onChunkLoad
        <2>2. <<"second", used'.loads>> \in tasks' /\ loaded'
            BY <1>9, <2>1 DEF onChunkLoad, queueLoadedChunkReconcile
        <2> QED BY <2>2 DEF LabelInv
    <1>10. CASE onChunkUnload
        BY <1>10 DEF onChunkUnload, LabelInv
    <1>11. CASE actorsReturn
        BY <1>11 DEF actorsReturn, LabelInv
    <1>12. ASSUME NEW isReady \in BOOLEAN, reconcileLoadedChunk(isReady), loaded,
                  UNCHANGED known
           PROVE  Quiet'
        <2>1. /\ WithoutStrangers \in [Ids -> Nat]
              /\ \A m \in Ids : m # known => WithoutStrangers[m] = 0
            BY <1>p DEF WithoutStrangers
        <2>2. CASE known = 0
            BY <1>12, <2>1, <2>2 DEF reconcileLoadedChunk, Quiet
        <2>3. CASE known # 0
            <3>1. refreshHologram(WithoutStrangers, known, BookOf(books, known),
                                  isReady /\ known \notin pending)
                BY <1>12, <2>3 DEF reconcileLoadedChunk
            <3>2. (isReady /\ known \notin pending) \in BOOLEAN /\ known \in Ids
                BY <1>p, <2>3
            <3>3. \A k \in Ids : k # known => labels'[k] = WithoutStrangers[k]
                BY <2>1, <3>1, <3>2, RefreshLabel
            <3> QED BY <1>12, <2>1, <3>3 DEF Quiet
        <2> QED BY <2>2, <2>3
    <1>13. ASSUME NEW n \in 0 .. MaxEvents, firstReconcile(n) PROVE LabelInv'
        <2>1. /\ UNCHANGED <<known, stored, loaded, used>>
              /\ <<"second", used.loads>> \in tasks
                    => <<"second", used.loads>> \in tasks'
              /\ reconcileLoadedChunk(ready)
            BY <1>13 DEF firstReconcile, market
        <2>2. CASE ~loaded
            BY <2>1, <2>2 DEF reconcileLoadedChunk, LabelInv, display
        <2>3. CASE loaded
            <3>1. Quiet'
                BY <1>12, <2>1, <2>3 DEF TypeInv, ChunkType
            <3> QED BY <2>1, <2>3, <3>1 DEF LabelInv
        <2> QED BY <2>2, <2>3
    <1>14. ASSUME NEW n \in 0 .. MaxEvents, secondReconcile(n) PROVE LabelInv'
        <2>1. /\ UNCHANGED <<known, stored, loaded, used>>
              /\ n = used.loads /\ loaded => stored = NoLabels
              /\ tasks' = tasks \ {<<"second", n>>}
              /\ reconcileLoadedChunk(loaded)
            BY <1>14 DEF secondReconcile, market
        <2>2. CASE ~loaded
            BY <2>1, <2>2 DEF reconcileLoadedChunk, LabelInv, display
        <2>3. CASE loaded
            <3>1. Quiet'
                BY <1>p, <1>12, <2>1, <2>3
            <3>2. stored # NoLabels => <<"second", used.loads>> \in tasks'
                BY <2>1, <2>3 DEF LabelInv
            <3> QED BY <2>1, <2>3, <3>1, <3>2 DEF LabelInv, NoLabels
        <2> QED BY <2>2, <2>3 DEF LabelInv
    <1>15. ASSUME NEW m \in Ids, recreateHologram(m) PROVE LabelInv'
        <2>1. /\ UNCHANGED <<known, stored, loaded, used>>
              /\ tasks' = tasks \ {<<"recreate", m>>}
            BY <1>15 DEF recreateHologram, market
        <2>2. \A k \in Ids : labels'[k] > 0 /\ k # known => labels[k] > 0
            <3>1. CASE known = m /\ ready
                <4>1. refreshHologram(labels, m, BookOf(books, m),
                                      m \notin Released(m))
                    BY <1>15, <3>1 DEF recreateHologram
                <4>2. (m \notin Released(m)) \in BOOLEAN
                    OBVIOUS
                <4>3. \A k \in Ids : k # m => labels'[k] = labels[k]
                    BY <1>p, <4>1, <4>2, RefreshLabel
                <4> QED BY <3>1, <4>3
            <3>2. CASE ~(known = m /\ ready)
                BY <1>15, <3>2 DEF recreateHologram, display
            <3> QED BY <3>1, <3>2
        <2>3. ~loaded => labels' = labels
            BY <1>15 DEF recreateHologram, refreshHologram, targetLocation,
                         display
        <2>4. <<"second", used.loads>> # <<"recreate", m>>
            OBVIOUS
        <2>5. NothingNew
            BY <2>1, <2>2, <2>3, <2>4 DEF NothingNew
        <2> QED BY <2>5, NothingNewKeeps
    <1>16. CASE onPlayerJoin
        <2>1. used'.loads = used.loads
            BY <1>p, <1>16, EventNoLoad DEF onPlayerJoin
        <2> QED BY <1>16, <2>1, NothingNewKeeps
                DEF onPlayerJoin, NothingNew, market, chunk, display
    <1>17. CASE recreateHologramsNearPlayer
        <2>1. \A k \in Ids : labels'[k] > 0 => labels[k] > 0
            <3>1. labels' = labels \/ labels' = [labels EXCEPT ![known] = 0]
                BY <1>17
                   DEF recreateHologramsNearPlayer, removeHologram, display
            <3>2. known \in Ids
                BY <1>p, <1>17 DEF recreateHologramsNearPlayer
            <3> QED BY <1>p, <3>1, <3>2
        <2>2. loaded
            BY <1>17 DEF recreateHologramsNearPlayer, targetLocation
        <2>3. NothingNew
            BY <1>17, <2>1, <2>2
               DEF recreateHologramsNearPlayer, NothingNew, market
        <2> QED BY <2>3, NothingNewKeeps
    <1>18. CASE restart
        <2>1. used'.loads = used.loads
            BY <1>p, <1>18, RestartUse
        <2>2. loaded' => <<"second", used'.loads>> \in tasks'
            BY <1>18, <2>1 DEF restart, queueLoadedChunkReconcile
        <2>3. labels' = NoLabels
            BY <1>18 DEF restart
        <2> QED BY <2>2, <2>3 DEF LabelInv, NoLabels
    <1> QED BY <1>1, <1>2, <1>3, <1>4, <1>5, <1>6, <1>7, <1>8, <1>9, <1>10,
               <1>11, <1>13, <1>14, <1>15, <1>16, <1>17, <1>18
               DEF Next, runTask

LEMMA LabelsAlways == Spec => []LabelInv
    BY MarketAlways, LabelInit, LabelStep, PTL DEF Spec

\* Once the tasks of a chunk's load ran and its actors are back, no label is
\* shown above an object that is not a market, whatever was killed, unloaded or
\* failed in between.
THEOREM NoStrangeLabelHolds == Spec => []NoStrangeLabel
    <1>1. LabelInv => NoStrangeLabel
        BY DEF LabelInv, NoStrangeLabel, Settled, Quiet
    <1> QED BY <1>1, LabelsAlways, PTL

-----------------------------------------------------------------------------
(* A label never goes back to an older book *)

\* What was read of the object's market; the empty book of others is none.
Read(b) == b.of # 0 /\ b.read # Unread

\* Versions pass in order from the database to a worker, from there to the
\* snapshot, to the books of the main thread and to the label. With two workers
\* the one that read first could publish last.
MonoInv ==
    /\ text <= version
    /\ \A w \in workers :
        Read(w) => /\ text <= w.read /\ w.read <= version
                   /\ Read(snapshot) => snapshot.read <= w.read
                   /\ Read(books) => books.read <= w.read
    /\ Read(snapshot) => /\ text <= snapshot.read /\ snapshot.read <= version
                         /\ Read(books) => books.read <= snapshot.read
    /\ Read(books) => text <= books.read /\ books.read <= version

LEMMA MonoInit == Init => MonoInv
    BY DEF Init, MonoInv, Read, NoBooks

\* What a label is given by the books is empty or not older than the label.
LEMMA BooksNotOlder ==
    ASSUME TypeInv, MonoInv, NEW m \in Ids
    PROVE  LET v == BookOf(books, m)
           IN  v = 0 \/ (Read(books) /\ v = books.read /\ v >= text)
    <1>1. books \in Books /\ Published(books) /\ text \in 0 .. MaxVersions
        BY DEF TypeInv, QueryType, DisplayType
    <1> QED BY <1>1 DEF BookOf, MonoInv, Read, Published, Books, Ids, Unread

\* What a step may put on the label.
NotOlder == text' = 0 \/ text' >= text
FromBooks ==
    \/ text' = text \/ text' = 0
    \/ Read(books) /\ text' = books.read /\ text' >= text

LEMMA QueryFacts ==
    ASSUME TypeInv
    PROVE  /\ version \in Nat /\ text \in Nat
           /\ \A b \in workers \cup {snapshot, books} :
                /\ Read(b) => b.read \in Nat
                /\ b.read \in Int /\ b.of \in Nat
           /\ \A b \in {snapshot, books} : b.of # 0 => Read(b)
           /\ \A v, w \in workers : v = w
    <1>1. /\ version \in 1 .. MaxVersions /\ text \in 0 .. MaxVersions
          /\ workers \subseteq Books /\ snapshot \in Books /\ books \in Books
          /\ Published(snapshot) /\ Published(books)
          /\ \A v, w \in workers : v = w
        BY DEF TypeInv, QueryType, DisplayType
    <1>2. \A b \in Books : /\ Read(b) => b.read \in Nat
                           /\ b.read \in Int /\ b.of \in Nat
        BY BoundsAreNat DEF Books, Read, Unread
    <1>3. \A b \in {snapshot, books} : b.of # 0 => Read(b)
        BY <1>1 DEF Read, Published
    <1>4. version \in Nat /\ text \in Nat
        BY <1>1, BoundsAreNat
    <1>5. \A b \in workers \cup {snapshot, books} : b \in Books
        BY <1>1
    <1> QED BY <1>1, <1>2, <1>3, <1>4, <1>5

LEMMA MonoKeptByDisplay ==
    ASSUME TypeInv, MonoInv, UNCHANGED query, FromBooks
    PROVE  MonoInv' /\ NotOlder
    <1>1. /\ version \in Nat /\ text \in Nat
          /\ \A w \in workers : Read(w) => w.read \in Nat
          /\ Read(snapshot) => snapshot.read \in Nat
          /\ Read(books) => books.read \in Nat
        BY QueryFacts
    <1>2. UNCHANGED <<version, workers, snapshot, books>>
        BY DEF query
    <1>3. MonoInv'
        BY <1>1, <1>2 DEF MonoInv, FromBooks, Read
    <1> QED BY <1>1, <1>3 DEF NotOlder, FromBooks

\* A label refreshed from the books.
LEMMA RefreshedFromBooks ==
    ASSUME TypeInv, MonoInv, NEW here \in [Ids -> Nat], NEW m \in Ids,
           NEW spawns \in BOOLEAN,
           refreshHologram(here, m, BookOf(books, m), spawns)
    PROVE  FromBooks
    <1>1. text' = text \/ text' = BookOf(books, m)
        BY RefreshLabel
    <1> QED BY <1>1, BooksNotOlder DEF FromBooks

\* The main thread takes the snapshot, writes no label or one of a version that
\* is not older, and starts a worker unless one is running.
LEMMA MonoKeptByTaking ==
    ASSUME TypeInv, MonoInv, NEW m \in 0 .. MaxIds, UNCHANGED version,
           books' = (IF snapshot = NoBooks THEN books ELSE snapshot),
           snapshot' = NoBooks, workers' = Started(m),
           FromBooks \/ (Read(snapshot) /\ text' = snapshot.read)
    PROVE  MonoInv' /\ NotOlder
    <1>1. /\ version \in Nat /\ text \in Nat
          /\ \A w \in workers : Read(w) => w.read \in Nat
          /\ Read(snapshot) => snapshot.read \in Nat
          /\ Read(books) => books.read \in Nat
        BY QueryFacts
    <1>2. ~Read(snapshot') /\ ~Read(NoBooks)
        BY DEF Read, NoBooks
    <1>3. \A w \in workers' : Read(w) => w \in workers
        BY DEF Started, Read
    <1>4. NotOlder
        BY <1>1 DEF NotOlder, FromBooks, MonoInv
    <1>5. text' <= version
        BY <1>1 DEF FromBooks, MonoInv
    <1>6. \A w \in workers : Read(w) => text' <= w.read
        BY <1>1 DEF FromBooks, MonoInv
    <1>7. Read(snapshot) => text' <= snapshot.read
        BY <1>1 DEF FromBooks, MonoInv
    <1>8. Read(books) => text' <= books.read \/ Read(snapshot)
        BY <1>1 DEF FromBooks, MonoInv
    <1>9. Read(books') => text' <= books'.read /\ books'.read <= version
        <2>1. CASE snapshot = NoBooks
            BY <1>1, <1>2, <1>8, <2>1 DEF MonoInv, Read
        <2>2. CASE snapshot # NoBooks
            BY <1>1, <1>7, <2>2 DEF MonoInv, Read
        <2> QED BY <2>1, <2>2
    <1>10. \A w \in workers' :
               Read(w) => /\ text' <= w.read /\ w.read <= version
                          /\ Read(books') => books'.read <= w.read
        BY <1>1, <1>3, <1>6 DEF MonoInv, Read
    <1> QED BY <1>2, <1>4, <1>5, <1>9, <1>10 DEF MonoInv, Read

LEMMA MonoStep ==
    ASSUME TypeInv, MonoInv, [Next]_vars
    PROVE  MonoInv' /\ NotOlder
    <1>t. text \in Nat /\ text >= 0 /\ text >= text
        BY QueryFacts
    <1>p. /\ labels \in [Ids -> Nat] /\ known \in 0 .. MaxIds
          /\ (known # 0 => known \in Ids) /\ MarketType
          /\ ready \in BOOLEAN /\ loaded \in BOOLEAN
          /\ WithoutStrangers \in [Ids -> Nat] /\ MaxIds \in Nat
        BY BoundsAreNat DEF TypeInv, DisplayType, MarketType, ChunkType, Ids,
                            WithoutStrangers
    <1>1. CASE refreshHolograms
        <2>1. FromBooks \/ (Read(snapshot) /\ text' = snapshot.read)
            <3>1. CASE known # 0 /\ snapshot.of = known
                <4>1. refreshHologram(labels, known, snapshot.read, Spawns(known))
                    BY <1>1, <3>1 DEF refreshHolograms
                <4>2. Spawns(known) \in BOOLEAN /\ known \in Ids
                    BY <1>p, <3>1 DEF Spawns
                <4>3. text' = text \/ text' = snapshot.read
                    BY <1>p, <4>1, <4>2, RefreshLabel
                <4> QED BY <3>1, <4>3, QueryFacts DEF FromBooks
            <3>2. CASE ~(known # 0 /\ snapshot.of = known)
                BY <1>1, <3>2 DEF refreshHolograms, display, FromBooks
            <3> QED BY <3>1, <3>2
        <2>2. /\ UNCHANGED version /\ snapshot' = NoBooks
              /\ books' = (IF snapshot = NoBooks THEN books ELSE snapshot)
              /\ workers' = Started(known)
            BY <1>1 DEF refreshHolograms
        <2> QED BY <1>p, <2>1, <2>2, MonoKeptByTaking
    <1>2. CASE topOfBooks
        <2>1. PICK w \in workers :
                  /\ w.read = Unread
                  /\ workers' = (workers \ {w}) \cup
                        {[w EXCEPT !.read = IF w.of = 0 THEN 0 ELSE version]}
            BY <1>2 DEF topOfBooks
        <2>2. /\ UNCHANGED <<version, snapshot, books, text>>
            BY <1>2 DEF topOfBooks, display
        <2>3. workers \ {w} = {} /\ w \in Books
            BY DEF TypeInv, QueryType
        <2>4. \A x \in workers' : Read(x) => x.read = version
            BY <2>1, <2>3 DEF Read, Books
        <2>5. MonoInv'
            BY <2>2, <2>4, QueryFacts DEF MonoInv, Read
        <2> QED BY <1>t, <2>2, <2>5 DEF NotOlder
    <1>3. CASE publishSnapshot
        <2>1. PICK w \in workers : snapshot' = w /\ workers' = workers \ {w}
            BY <1>3 DEF publishSnapshot
        <2>2. UNCHANGED <<version, books, text>>
            BY <1>3 DEF publishSnapshot, display
        <2>3. workers' = {}
            BY <2>1 DEF TypeInv, QueryType
        <2>4. MonoInv'
            BY <2>1, <2>2, <2>3 DEF MonoInv, Read
        <2> QED BY <1>t, <2>2, <2>4 DEF NotOlder
    <1>4. CASE queryFails
        <2>1. workers' \subseteq workers /\ UNCHANGED <<version, snapshot, books, text>>
            BY <1>4 DEF queryFails, display
        <2>2. MonoInv'
            BY <2>1 DEF MonoInv, Read
        <2> QED BY <1>t, <2>1, <2>2 DEF NotOlder
    <1>5. CASE bookChanges
        <2>1. version' = version + 1 /\ UNCHANGED <<workers, snapshot, books, text>>
            BY <1>5 DEF bookChanges, display
        <2>2. MonoInv'
            BY <2>1, QueryFacts DEF MonoInv, Read
        <2> QED BY <1>t, <2>1, <2>2 DEF NotOlder
    <1>6. CASE activate
        <2>1. id \in Ids /\ id # 0
            BY <1>p, <1>6 DEF activate, MayOpen, MarketType, Ids
        <2>2. FromBooks \/ (Read(snapshot) /\ text' = snapshot.read)
            <3>1. refreshHologram(labels, id,
                       IF snapshot.of = id THEN snapshot.read
                       ELSE BookOf(books, id), Spawns(id))
                BY <1>6 DEF activate
            <3>2. Spawns(id) \in BOOLEAN
                BY DEF Spawns
            <3>3. CASE snapshot.of = id
                <4>1. text' = text \/ text' = snapshot.read
                    BY <1>p, <2>1, <3>1, <3>2, <3>3, RefreshLabel
                <4> QED BY <2>1, <3>3, <4>1, QueryFacts DEF FromBooks
            <3>4. CASE snapshot.of # id
                <4>1. refreshHologram(labels, id, BookOf(books, id), Spawns(id))
                    BY <3>1, <3>4
                <4> QED BY <1>p, <2>1, <3>2, <4>1, RefreshedFromBooks
            <3> QED BY <3>3, <3>4
        <2>3. /\ UNCHANGED version /\ snapshot' = NoBooks
              /\ books' = (IF snapshot = NoBooks THEN books ELSE snapshot)
              /\ workers' = Started(id) /\ id \in 0 .. MaxIds
            BY <1>6, <2>1 DEF activate, Ids
        <2> QED BY <2>2, <2>3, MonoKeptByTaking
    <1>7. CASE UNCHANGED query /\ UNCHANGED text
        BY <1>7, MonoKeptByDisplay DEF FromBooks
    <1>13. CASE UNCHANGED query /\ (text' = text \/ text' = 0)
        BY <1>13, MonoKeptByDisplay DEF FromBooks
    <1>8. CASE closeMarket \/ removeTarget
        BY <1>13, <1>8 DEF closeMarket, removeTarget, deactivate, display
    <1>9. CASE activateLost \/ explodeBlock \/ placeBlock \/ onChunkLoad
               \/ onChunkUnload \/ actorsReturn \/ onPlayerJoin
               \/ recreateHologramsNearPlayer \/ UNCHANGED vars
        BY <1>13, <1>9 DEF activateLost, explodeBlock, placeBlock, onChunkLoad,
           onChunkUnload, actorsReturn, onPlayerJoin,
           recreateHologramsNearPlayer, display, vars, query
    <1>10. ASSUME NEW n \in 0 .. MaxEvents,
                  firstReconcile(n) \/ secondReconcile(n)
           PROVE  MonoInv' /\ NotOlder
        <2>1. PICK isReady \in BOOLEAN : reconcileLoadedChunk(isReady)
            BY <1>p, <1>10 DEF firstReconcile, secondReconcile
        <2>2. UNCHANGED query
            BY <1>10 DEF firstReconcile, secondReconcile
        <2>3. CASE loaded /\ known # 0
            <3>1. refreshHologram(WithoutStrangers, known, BookOf(books, known),
                                  isReady /\ known \notin pending)
                BY <2>1, <2>3 DEF reconcileLoadedChunk
            <3>2. (isReady /\ known \notin pending) \in BOOLEAN /\ known \in Ids
                BY <1>p, <2>3
            <3>3. FromBooks
                BY <1>p, <3>1, <3>2, RefreshedFromBooks
            <3> QED BY <2>2, <3>3, MonoKeptByDisplay
        <2>4. CASE ~(loaded /\ known # 0)
            BY <1>7, <2>1, <2>2, <2>4 DEF reconcileLoadedChunk, display
        <2> QED BY <2>3, <2>4
    <1>11. ASSUME NEW m \in Ids, recreateHologram(m) PROVE MonoInv' /\ NotOlder
        <2>1. UNCHANGED query
            BY <1>11 DEF recreateHologram
        <2>2. CASE known = m /\ ready
            <3>1. refreshHologram(labels, m, BookOf(books, m),
                                  m \notin Released(m))
                BY <1>11, <2>2 DEF recreateHologram
            <3>2. (m \notin Released(m)) \in BOOLEAN
                OBVIOUS
            <3>3. FromBooks
                BY <1>p, <3>1, <3>2, RefreshedFromBooks
            <3> QED BY <2>1, <3>3, MonoKeptByDisplay
        <2>3. CASE ~(known = m /\ ready)
            BY <1>7, <1>11, <2>1, <2>3 DEF recreateHologram, display
        <2> QED BY <2>2, <2>3
    <1>12. CASE restart
        <2>1. /\ text' = 0 /\ UNCHANGED version
              /\ snapshot' = NoBooks /\ books' = NoBooks
              /\ workers' = {[of |-> known', read |-> Unread]}
            BY <1>12 DEF restart
        <2>2. version >= 0 /\ ~Read(NoBooks) /\ \A w \in workers' : ~Read(w)
            BY <2>1, QueryFacts DEF Read, NoBooks
        <2>3. MonoInv'
            BY <2>1, <2>2, QueryFacts DEF MonoInv, Read
        <2> QED BY <2>1, <2>3 DEF NotOlder
    <1> QED BY <1>1, <1>2, <1>3, <1>4, <1>5, <1>6, <1>8, <1>9, <1>10, <1>11,
               <1>12 DEF Next, worker, runTask

LEMMA MonoAlways == Spec => [](TypeInv /\ MonoInv)
    <1>1. TypeInv /\ MonoInv /\ [Next]_vars => MonoInv'
        BY MonoStep
    <1> QED BY <1>1, TypeAlways, MonoInit, PTL DEF Spec

\* While a snapshot waits no worker runs.
OneQuery == snapshot # NoBooks => workers = {}

\* The text is that of a label of the market that is shown.
TextShown == text # 0 => known # 0 /\ labels[known] > 0

\* Unless the query was under way when the market was opened, whoever reads reads
\* the market, and what the label says is in hologram_books_.
Asked ==
    known # 0 /\ ~late =>
        /\ \A w \in workers : w.of = known
        /\ snapshot # NoBooks => snapshot.of = known
        /\ text # 0 => books.of = known

LateInv == OneQuery /\ TextShown /\ Asked

LEMMA LateInit == Init => LateInv
    BY DEF Init, LateInv, OneQuery, TextShown, Asked

\* refreshHologram leaves the label alone or draws it.
LEMMA RefreshDraws ==
    ASSUME NEW here \in [Ids -> Nat], NEW m \in Ids, NEW v,
           NEW spawns \in BOOLEAN, refreshHologram(here, m, v, spawns)
    PROVE  \/ text' = v /\ labels'[m] > 0
           \/ /\ text' = text /\ labels' = here
              /\ ~(targetLocation /\ here[m] > 0)
    BY DEF refreshHologram

\* What a step does to the label of the market, other than the two that take the
\* snapshot: it hides it, leaves it, or draws what hologram_books_ say.
Hides == text' = 0 /\ (known # 0 /\ known' = known => labels'[known] = 0)
Leaves ==
    /\ UNCHANGED <<text, known>>
    /\ known # 0 /\ labels[known] > 0 => labels'[known] > 0
Draws ==
    /\ known' = known /\ known # 0
    /\ text' = BookOf(books, known) /\ labels'[known] > 0

LEMMA LabelSteps ==
    ASSUME TypeInv, [Next]_vars
    PROVE  refreshHolograms \/ activate \/ Hides \/ Leaves \/ Draws
    <1>p. /\ labels \in [Ids -> Nat] /\ known \in 0 .. MaxIds
          /\ (known # 0 => known \in Ids) /\ stored \in [Ids -> Nat]
          /\ ready \in BOOLEAN /\ loaded \in BOOLEAN
          /\ WithoutStrangers \in [Ids -> Nat] /\ MaxIds \in Nat
          /\ \A m \in Ids : removeHologram(m)[m] = 0
        BY BoundsAreNat DEF TypeInv, DisplayType, MarketType, ChunkType, Ids,
                            WithoutStrangers, removeHologram
    <1>1. CASE topOfBooks \/ publishSnapshot \/ queryFails \/ bookChanges
               \/ activateLost \/ explodeBlock \/ placeBlock \/ onChunkLoad
               \/ onPlayerJoin \/ UNCHANGED vars
        BY <1>1 DEF topOfBooks, publishSnapshot, queryFails, bookChanges,
           activateLost, explodeBlock, placeBlock, onChunkLoad, onPlayerJoin,
           vars, market, display, Leaves
    <1>2. CASE closeMarket \/ removeTarget
        BY <1>p, <1>2 DEF closeMarket, removeTarget, deactivate, display,
           Hides, Leaves
    <1>3. CASE onChunkUnload \/ restart
        BY <1>p, <1>3 DEF onChunkUnload, restart, NoLabels, Hides
    <1>4. CASE actorsReturn
        BY <1>p, <1>4 DEF actorsReturn, market, Leaves
    <1>5. CASE recreateHologramsNearPlayer
        BY <1>p, <1>5 DEF recreateHologramsNearPlayer, market, display, Hides,
           Leaves
    <1>6. ASSUME NEW n \in 0 .. MaxEvents,
                 firstReconcile(n) \/ secondReconcile(n)
          PROVE  Leaves \/ Draws
        <2>1. PICK isReady \in BOOLEAN : reconcileLoadedChunk(isReady)
            BY <1>p, <1>6 DEF firstReconcile, secondReconcile
        <2>2. known' = known
            BY <1>6 DEF firstReconcile, secondReconcile, market
        <2>3. CASE loaded /\ known # 0
            <3>1. refreshHologram(WithoutStrangers, known, BookOf(books, known),
                                  isReady /\ known \notin pending)
                BY <2>1, <2>3 DEF reconcileLoadedChunk
            <3>2. (isReady /\ known \notin pending) \in BOOLEAN /\ known \in Ids
                BY <1>p, <2>3
            <3>3. WithoutStrangers[known] = labels[known]
                BY <3>2 DEF WithoutStrangers
            <3> QED BY <1>p, <2>2, <2>3, <3>1, <3>2, <3>3, RefreshDraws
                    DEF Leaves, Draws
        <2>4. CASE ~(loaded /\ known # 0)
            BY <2>1, <2>2, <2>4 DEF reconcileLoadedChunk, display, Leaves
        <2> QED BY <2>3, <2>4
    <1>7. ASSUME NEW m \in Ids, recreateHologram(m) PROVE Leaves \/ Draws
        <2>1. known' = known
            BY <1>7 DEF recreateHologram, market
        <2>2. CASE known = m /\ ready
            <3>1. refreshHologram(labels, m, BookOf(books, m),
                                  m \notin Released(m))
                BY <1>7, <2>2 DEF recreateHologram
            <3>2. (m \notin Released(m)) \in BOOLEAN /\ m # 0
                BY DEF Ids
            <3> QED BY <1>p, <2>1, <2>2, <3>1, <3>2, RefreshDraws
                    DEF Leaves, Draws
        <2>3. CASE ~(known = m /\ ready)
            BY <1>7, <2>1, <2>3 DEF recreateHologram, display, Leaves
        <2> QED BY <2>2, <2>3
    <1> QED BY <1>1, <1>2, <1>3, <1>4, <1>5, <1>6, <1>7
            DEF Next, worker, runTask

\* What a step does to the query, other than those that take the snapshot: what
\* runs and what waits afterwards was running or waiting before.
Continues ==
    /\ UNCHANGED <<books, late>>
    /\ \A w \in workers' : \E x \in workers : x.of = w.of
    /\ snapshot' # NoBooks =>
          \/ snapshot' = snapshot
          \/ workers' = {} /\ \E x \in workers : x.of = snapshot'.of

LEMMA QuerySteps ==
    ASSUME TypeInv, [Next]_vars
    PROVE  refreshHolograms \/ activate \/ restart \/ Continues
    <1>1. workers \subseteq Books /\ \A v, w \in workers : v = w
        BY DEF TypeInv, QueryType
    <1>2. CASE UNCHANGED query
        BY <1>2 DEF query, Continues
    <1>3. CASE topOfBooks
        <2>1. PICK w \in workers :
                  workers' = (workers \ {w}) \cup
                        {[w EXCEPT !.read = IF w.of = 0 THEN 0 ELSE version]}
            BY <1>3 DEF topOfBooks
        <2>2. [w EXCEPT !.read = IF w.of = 0 THEN 0 ELSE version].of = w.of
            BY <1>1 DEF Books
        <2> QED BY <1>3, <2>1, <2>2 DEF topOfBooks, Continues
    <1>4. CASE publishSnapshot
        <2>1. PICK w \in workers : snapshot' = w /\ workers' = workers \ {w}
            BY <1>4 DEF publishSnapshot
        <2>2. workers' = {}
            BY <1>1, <2>1
        <2> QED BY <1>4, <2>1, <2>2 DEF publishSnapshot, Continues
    <1>5. CASE queryFails \/ bookChanges
        BY <1>5 DEF queryFails, bookChanges, Continues
    <1>6. CASE runTask
        BY <1>2, <1>6
           DEF runTask, firstReconcile, secondReconcile, recreateHologram
    <1>7. CASE activateLost \/ closeMarket \/ removeTarget \/ explodeBlock
               \/ placeBlock \/ onChunkLoad \/ onChunkUnload \/ actorsReturn
               \/ onPlayerJoin \/ recreateHologramsNearPlayer
        BY <1>2, <1>7 DEF activateLost, closeMarket, removeTarget,
           explodeBlock, placeBlock, onChunkLoad, onChunkUnload, actorsReturn,
           onPlayerJoin, recreateHologramsNearPlayer
    <1>8. CASE UNCHANGED vars
        BY <1>2, <1>8 DEF vars, query
    <1> QED BY <1>3, <1>4, <1>5, <1>6, <1>7, <1>8 DEF Next, worker

\* A step whose text' is new has it from the snapshot or the books of the market.
LEMMA ActivateDraws ==
    ASSUME TypeInv, MarketInv, LateInv, activate
    PROVE  /\ id \in Ids /\ known \in {0, id} /\ known' = id
           /\ text' # 0 => /\ labels'[id] > 0
                           /\ \/ snapshot.of = id
                              \/ books.of = id
    <1>1. /\ labels \in [Ids -> Nat] /\ id \in Ids /\ 0 \notin Ids
        BY DEF TypeInv, DisplayType, MarketType, activate, MayOpen, Ids
    <1>2. known \in {0, id} /\ known' = id
        BY DEF activate, MayOpen, Here, marketIdForTarget, MarketInv
    <1>3. targetLocation
        BY DEF activate, MayOpen, Here, targetLocation
    <1> DEFINE v == IF snapshot.of = id THEN snapshot.read ELSE BookOf(books, id)
    <1>4. refreshHologram(labels, id, v, Spawns(id)) /\ Spawns(id) \in BOOLEAN
        BY DEF activate, Spawns
    <1>5. v # 0 => snapshot.of = id \/ books.of = id
        BY DEF BookOf
    <1> HIDE DEF v
    <1>6. \/ text' = v /\ labels'[id] > 0
          \/ text' = text /\ labels' = labels /\ ~(labels[id] > 0)
        BY <1>1, <1>3, <1>4, RefreshDraws
    <1>7. text # 0 => labels[id] > 0
        BY <1>2 DEF LateInv, TextShown
    <1> QED BY <1>1, <1>2, <1>5, <1>6, <1>7

LEMMA LateStep == TypeInv /\ MarketInv /\ LateInv /\ [Next]_vars => LateInv'
    <1> SUFFICES ASSUME TypeInv, MarketInv, LateInv, [Next]_vars PROVE LateInv'
        OBVIOUS
    <1>p. /\ labels \in [Ids -> Nat] /\ known \in 0 .. MaxIds
          /\ known # 0 => known \in Ids
          /\ NoBooks.of = 0
          /\ \A m \in Ids : m # 0
        BY DEF TypeInv, DisplayType, MarketType, Ids, NoBooks
    <1>1. CASE refreshHolograms
        <2>1. /\ books' = (IF snapshot = NoBooks THEN books ELSE snapshot)
              /\ snapshot' = NoBooks /\ known' = known
              /\ late' = (late /\ snapshot.of # known)
              /\ workers' = Started(known)
            BY <1>1 DEF refreshHolograms, market
        <2>2. TextShown'
            <3>1. CASE known # 0 /\ snapshot.of = known
                <4>1. refreshHologram(labels, known, snapshot.read, Spawns(known))
                    BY <1>1, <3>1 DEF refreshHolograms
                <4>2. Spawns(known) \in BOOLEAN /\ known \in Ids
                    BY <1>p, <3>1 DEF Spawns
                <4> QED BY <1>p, <2>1, <3>1, <4>1, <4>2, RefreshDraws
                        DEF LateInv, TextShown
            <3>2. CASE ~(known # 0 /\ snapshot.of = known)
                BY <1>1, <2>1, <3>2
                   DEF refreshHolograms, display, LateInv, TextShown
            <3> QED BY <3>1, <3>2
        <2>3. ASSUME known # 0, ~late'
              PROVE  /\ snapshot # NoBooks => snapshot.of = known
                     /\ \A w \in workers' : w.of = known
                     /\ text' # 0 => books'.of = known
            <3>1. snapshot # NoBooks => snapshot.of = known
                BY <2>1, <2>3 DEF LateInv, Asked
            <3>2. \A w \in workers' : w.of = known
                <4>1. CASE workers = {}
                    BY <2>1, <4>1 DEF Started, MayQuery
                <4>2. CASE workers # {}
                    <5>1. snapshot = NoBooks /\ snapshot.of # known
                        BY <1>p, <2>3, <4>2 DEF LateInv, OneQuery
                    <5>2. ~late /\ workers' = workers
                        BY <2>1, <2>3, <4>2, <5>1 DEF Started, MayQuery
                    <5> QED BY <2>3, <5>2 DEF LateInv, Asked
                <4> QED BY <4>1, <4>2
            <3>3. text' # 0 => books'.of = known
                <4>1. CASE snapshot # NoBooks
                    BY <2>1, <3>1, <4>1
                <4>2. CASE snapshot = NoBooks
                    <5>1. ~late /\ UNCHANGED <<books, display>>
                        BY <1>p, <1>1, <2>1, <2>3, <4>2 DEF refreshHolograms
                    <5> QED BY <2>3, <5>1 DEF LateInv, Asked, display
                <4> QED BY <4>1, <4>2
            <3> QED BY <3>1, <3>2, <3>3
        <2> QED BY <2>1, <2>2, <2>3 DEF LateInv, OneQuery, Asked
    <1>2. CASE activate
        <2>1. /\ books' = (IF snapshot = NoBooks THEN books ELSE snapshot)
              /\ snapshot' = NoBooks
              /\ late' = \E q \in workers \cup ({snapshot} \ {NoBooks}) : q.of # id
              /\ workers' = Started(id)
            BY <1>2 DEF activate
        <2>2. /\ id \in Ids /\ known' = id
              /\ text' # 0 => /\ labels'[id] > 0
                              /\ snapshot.of = id \/ books.of = id
            BY <1>2, ActivateDraws
        <2>3. ASSUME ~late'
              PROVE  /\ \A w \in workers' : w.of = id
                     /\ text' # 0 => books'.of = id
            <3>1. /\ \A w \in workers : w.of = id
                  /\ snapshot # NoBooks => snapshot.of = id
                BY <2>1, <2>3
            <3>2. \A w \in workers' : w.of = id
                BY <2>1, <3>1 DEF Started
            <3> QED BY <1>p, <2>1, <2>2, <3>1, <3>2
        <2>4. TextShown'
            BY <1>p, <2>2 DEF TextShown
        <2> QED BY <2>1, <2>2, <2>3, <2>4 DEF LateInv, OneQuery, Asked
    <1>3. CASE restart
        <2>1. /\ text' = 0 /\ snapshot' = NoBooks
              /\ workers' = {[of |-> known', read |-> Unread]}
            BY <1>3 DEF restart
        <2> QED BY <2>1 DEF LateInv, OneQuery, TextShown, Asked
    <1>4. CASE /\ ~refreshHolograms /\ ~activate /\ ~restart
               /\ Continues /\ (Hides \/ Leaves \/ Draws)
        <2>1. OneQuery'
            BY <1>4 DEF Continues, LateInv, OneQuery
        <2>2. TextShown'
            BY <1>4 DEF Hides, Leaves, Draws, LateInv, TextShown
        <2>3. known' = known \/ known' = 0
            BY <1>4, MarketSteps
               DEF activateLost, closeMarket, removeTarget, explodeBlock,
                   placeBlock, deactivate
        <2>4. ASSUME known' # 0, ~late'
              PROVE  /\ \A w \in workers' : w.of = known'
                     /\ snapshot' # NoBooks => snapshot'.of = known'
                     /\ text' # 0 => books'.of = known'
            <3>1. known' = known /\ ~late /\ UNCHANGED books
                BY <1>4, <2>3, <2>4 DEF Continues
            <3>2. /\ \A w \in workers : w.of = known
                  /\ snapshot # NoBooks => snapshot.of = known
                  /\ text # 0 => books.of = known
                BY <2>4, <3>1 DEF LateInv, Asked
            <3>3. text' # 0 => text' = text \/ text' = BookOf(books, known)
                BY <1>4 DEF Hides, Leaves, Draws
            <3>4. BookOf(books, known) # 0 => books.of = known
                BY DEF BookOf
            <3> QED BY <1>4, <3>1, <3>2, <3>3, <3>4 DEF Continues
        <2> QED BY <2>1, <2>2, <2>4 DEF LateInv, Asked
    <1> QED BY <1>1, <1>2, <1>3, <1>4, LabelSteps, QuerySteps

LEMMA LateAlways == Spec => [](TypeInv /\ MarketInv /\ MonoInv /\ LateInv)
    BY MarketAlways, MonoAlways, LateInit, LateStep, PTL DEF Spec

\* A label never goes back to an older state of the order book, and to an empty
\* book only if its market was opened while a query for other markets was under
\* way: one query at a time and the order of snapshot, books and label are enough,
\* whatever the main thread does while a worker reads.
THEOREM NeverOlderHolds == Spec => NeverOlder
    <1> DEFINE GoesOn == (/\ known # 0 /\ known' = known
                          /\ labels[known] > 0 /\ labels'[known] > 0)
                             => text' >= text \/ (late /\ text' = 0)
    <1>1. ASSUME TypeInv, MarketInv, MonoInv, LateInv, [Next]_vars PROVE GoesOn
        <2> SUFFICES ASSUME known # 0, known' = known, labels[known] > 0,
                            labels'[known] > 0, ~(text' >= text)
                     PROVE  late /\ text' = 0
            OBVIOUS
        <2>p. /\ labels \in [Ids -> Nat] /\ known \in Ids /\ text \in Nat
              /\ text > 0 => books.of = known \/ late
            BY <1>1, QueryFacts
               DEF TypeInv, DisplayType, MarketType, Ids, LateInv, Asked
        <2>1. text' = 0 /\ text > 0
            BY <1>1, <2>p, MonoStep DEF NotOlder
        <2>2. CASE Hides
            BY <2>2, <2>p DEF Hides
        <2>3. CASE Leaves
            BY <2>3, <2>p DEF Leaves
        <2>4. CASE Draws
            <3>1. books.of = known => Read(books) /\ text' = books.read
                BY <1>1, <2>4, <2>p, QueryFacts DEF Draws, BookOf, Ids
            <3>2. books.of = known => text <= text'
                BY <1>1, <3>1 DEF MonoInv
            <3> QED BY <2>1, <2>p, <3>2
        <2>5. CASE refreshHolograms
            <3>1. CASE snapshot.of = known
                <4>1. refreshHologram(labels, known, snapshot.read, Spawns(known))
                    BY <2>5, <3>1 DEF refreshHolograms
                <4>2. Spawns(known) \in BOOLEAN
                    BY DEF Spawns
                <4>3. text' = text \/ text' = snapshot.read
                    BY <2>p, <4>1, <4>2, RefreshLabel
                <4>4. Read(snapshot) /\ text <= snapshot.read
                    BY <1>1, <2>p, <3>1, QueryFacts DEF MonoInv, Ids
                <4> QED BY <2>1, <2>p, <4>3, <4>4
            <3>2. CASE snapshot.of # known
                BY <2>1, <2>5, <3>2 DEF refreshHolograms, display
            <3> QED BY <3>1, <3>2
        <2>6. CASE activate
            <3> DEFINE v == IF snapshot.of = id THEN snapshot.read
                            ELSE BookOf(books, id)
            <3>1. id = known /\ targetLocation
                BY <1>1, <2>6, ActivateDraws
                   DEF activate, MayOpen, Here, targetLocation
            <3>2. refreshHologram(labels, id, v, Spawns(id))
                  /\ Spawns(id) \in BOOLEAN
                BY <2>6 DEF activate, Spawns
            <3>3. text' = text \/ text' = v
                <4> HIDE DEF v
                <4> QED BY <2>p, <3>1, <3>2, RefreshLabel
            <3>4. snapshot.of = known => Read(snapshot) /\ text <= snapshot.read
                BY <1>1, <2>p, QueryFacts DEF MonoInv, Ids
            <3>5. books.of = known => Read(books) /\ text <= books.read
                BY <1>1, <2>p, QueryFacts DEF MonoInv, Ids
            <3> QED BY <2>1, <2>p, <3>1, <3>3, <3>4, <3>5 DEF BookOf
        <2> QED BY <1>1, <2>2, <2>3, <2>4, <2>5, <2>6, LabelSteps
    <1>2. TypeInv /\ MarketInv /\ MonoInv /\ LateInv /\ [Next]_vars => GoesOn
        BY <1>1
    <1> QED BY <1>2, LateAlways, PTL DEF Spec, NeverOlder

=============================================================================
