---------------------------- MODULE MarketObjects ----------------------------
(***************************************************************************)
(* One block or actor of the world as a market object: its binding in the  *)
(* database, the plugin's index, the tag an actor carries, and the label   *)
(* above it: actors of the game that a chunk may save and bring back, and  *)
(* the worker thread that reads the order book for them (src/plugin.cpp).  *)
(*                                                                         *)
(* Handlers and tasks run on the main thread without interruption; the     *)
(* worker runs beside them. The state of the order book is its version.    *)
(***************************************************************************)
EXTENDS Integers

CONSTANTS
    MaxIds,        \* bound: market ids of the object
    MaxVersions,   \* bound: states of the order book
    MaxToggles,    \* bound: markets opened
    MaxEvents      \* bound: calls that throw, kills and restarts, chunk loads
                   \* and joins of a player, together

ASSUME ConstantsAssumption ==
    /\ {MaxIds, MaxVersions, MaxToggles, MaxEvents} \subseteq Nat
    /\ MaxVersions > 0

VARIABLES
    bound,    \* the market of exchange_target_bindings; 0 is none
    id,       \* the market activateMarket resumes, or the next new one
    known,    \* the object's market in markets_ and target_index_; 0 is none
    exists,   \* whether the block or actor is there
    tag,      \* the market of the actor's target tag; 0 is none, NoTag a block
    older,    \* <<exists, tag>> that the game may have saved last instead
    version,  \* the state of the order book in the database
    workers,  \* running snapshot workers: the market asked for, what was read
    snapshot, \* ready_snapshot, as far as it is about the object
    books,    \* hologram_books_, as far as it is about the object
    late,     \* history: when the market was opened a query was running, or its
              \* snapshot waiting, that had not asked for it, and none came since
    labels,   \* label actors of each market that getActors() shows
    text,     \* the version this process put on the label; 0 is an empty book
              \* or no label
    stored,   \* label actors the chunk was saved with and has not brought back
    loaded,   \* whether the chunk is in loaded_chunks_
    ready,    \* whether it is in hologram_spawn_ready_chunks_
    tasks,    \* scheduled tasks: two for each load, and those that recreate
    pending,  \* pending_hologram_recreates_
    joined,   \* the player's pending_join_hologram_recreates_, with the chunk
              \* in join_loaded_chunks_
    used      \* how much of the bounds was used

vars == <<bound, id, known, exists, tag, older, version, workers, snapshot,
          books, late, labels, text, stored, loaded, ready, tasks, pending,
          joined, used>>

market == <<bound, id, known, exists, tag, older>>
query == <<version, workers, snapshot, books, late>>
display == <<labels, text>>
chunk == <<stored, loaded, ready, tasks>>

-----------------------------------------------------------------------------
Ids == 1 .. MaxIds
NoLabels == [m \in Ids |-> 0]

\* faults: a call of a toggle threw since the plugin started. torn: one threw, or
\* a kill left the object as it was before its last change or in the middle of it.
NoUse == [events |-> 0, loads |-> 0, faults |-> FALSE, torn |-> FALSE,
          toggles |-> 0]
Event(load, fault) ==
    /\ used.events < MaxEvents
    /\ used' = [used EXCEPT !.events = @ + 1, !.loads = @ + load,
                            !.faults = @ \/ fault, !.torn = @ \/ fault]
Fault == Event(0, TRUE)

\* The order books of a snapshot: the market of the object that was asked for (0
\* for other markets only) and the version read. NoBooks is no snapshot.
Unread == -1
NoBooks == [of |-> 0, read |-> Unread]
BookOf(b, m) == IF b.of = m THEN b.read ELSE 0

\* queueLoadedChunkReconcile: two tasks for each load of the chunk.
queueLoadedChunkReconcile(n) == {<<"first", n>>, <<"second", n>>}

\* The object is a block, which has no tags, or an actor.
NoTag == -1
IsBlock == tag = NoTag
Untagged == IF IsBlock THEN NoTag ELSE 0

Init ==
    /\ bound = 0 /\ id = 1 /\ known = 0 /\ exists = TRUE /\ tag \in {0, NoTag}
    /\ older = {} /\ late = FALSE
    /\ version = 1 /\ workers = {} /\ snapshot = NoBooks /\ books = NoBooks
    /\ labels = NoLabels /\ text = 0 /\ stored = NoLabels
    /\ loaded = TRUE /\ ready = FALSE /\ tasks = queueLoadedChunkReconcile(0)
    /\ pending = {} /\ joined = FALSE
    /\ used = NoUse

\* marketIdForActor looks for the tag, a block is found in target_index_.
marketIdForTarget == IF ~IsBlock /\ tag # known THEN 0 ELSE known

\* targetLocation: a block's is known, an actor has to be there.
targetLocation == loaded /\ (~IsBlock => exists)

-----------------------------------------------------------------------------
(* Labels *)

\* refreshHologram(market, book): adopts a label that is there and removes the
\* others, or spawns one.
Spawns(m) == ready /\ m \notin pending
refreshHologram(here, m, v, spawns) ==
    IF targetLocation /\ (here[m] > 0 \/ spawns)
    THEN labels' = [here EXCEPT ![m] = 1] /\ text' = v
    ELSE labels' = here /\ UNCHANGED text

\* Fault: a worker is started while one is running.
AnotherWorker == TRUE

\* query_running.
MayQuery == workers = {}

Started(m) ==
    IF MayQuery
    THEN workers \cup {[of |-> m, read |-> Unread]} ELSE workers

\* refreshHolograms: applies the snapshot, then starts the next query unless
\* one is running. A call that finds neither to do changes nothing.
refreshHolograms ==
    /\ snapshot # NoBooks \/ Started(known) # workers
    /\ books' = IF snapshot = NoBooks THEN books ELSE snapshot
    /\ snapshot' = NoBooks
    /\ late' = (late /\ snapshot.of # known)
    /\ IF known # 0 /\ snapshot.of = known
       THEN refreshHologram(labels, known, snapshot.read, Spawns(known))
       ELSE UNCHANGED display
    /\ workers' = Started(known)
    /\ UNCHANGED <<market, version, chunk, pending, joined, used>>

\* The worker thread: topOfBooks, then ready_snapshot under the mutex.
topOfBooks ==
    /\ \E w \in workers :
        /\ w.read = Unread
        /\ workers' = (workers \ {w}) \cup
                          {[w EXCEPT !.read = IF w.of = 0 THEN 0 ELSE version]}
    /\ UNCHANGED <<market, version, snapshot, books, late, display, chunk,
                   pending, joined, used>>

\* The answer and the end of the query are two writes of the worker in the code;
\* taken between them the answer starts no query, which the next call does.
publishSnapshot ==
    /\ \E w \in workers :
        /\ w.read # Unread
        /\ snapshot' = w
        /\ workers' = workers \ {w}
    /\ UNCHANGED <<market, version, books, late, display, chunk, pending,
                   joined, used>>

\* The connection or the query fails: query_running is reset all the same.
queryFails ==
    /\ Event(0, FALSE)
    /\ \E w \in workers : w.read = Unread /\ workers' = workers \ {w}
    /\ UNCHANGED <<market, version, snapshot, books, late, display, chunk,
                   pending, joined>>

-----------------------------------------------------------------------------
(* Opening and closing the market *)

Here == exists /\ loaded

\* Block or actor changes; the game saves it at any time after.
Becomes(e, t) ==
    /\ exists' = e /\ tag' = t
    /\ older' = (older \cup {<<exists, tag>>}) \ {<<e, t>>}

\* An object that is no market to the plugin may be opened unless it is bound.
MayOpen == Here /\ marketIdForTarget = 0 /\ bound = 0 /\ id <= MaxIds
MayClose == Here /\ known # 0 /\ marketIdForTarget = known

\* Fault: the actor is not tagged.
NotTagged(m) == Untagged

targetTag(m) == IF IsBlock THEN NoTag ELSE m

\* toggleBlock, toggleActor at an object that is not a market to the plugin:
\* activateMarket, the actor's tag, the index, the label and refreshHolograms. A
\* target that is bound is refused.
activate ==
    /\ MayOpen
    /\ used.toggles < MaxToggles
    /\ used' = [used EXCEPT !.toggles = @ + 1]
    /\ bound' = id
    /\ known' = id
    /\ Becomes(exists, targetTag(id))
    /\ refreshHologram(labels, id,
                       IF snapshot.of = id THEN snapshot.read
                       ELSE BookOf(books, id), Spawns(id))
    /\ books' = IF snapshot = NoBooks THEN books ELSE snapshot
    /\ snapshot' = NoBooks
    /\ workers' = Started(id)
    /\ late' = \E q \in workers \cup ({snapshot} \ {NoBooks}) : q.of # id
    /\ UNCHANGED <<id, version, chunk, pending, joined>>

\* The commit is done and the reply lost: neither tag nor index.
activateLost ==
    /\ MayOpen
    /\ Fault
    /\ bound' = id
    /\ UNCHANGED <<id, known, exists, tag, older, query, display, chunk, pending,
                   joined>>

removeHologram(m) == [labels EXCEPT ![m] = 0]

\* closeMarket keeps the market for the target, retireMarket does not.
Unbound(m, next) == bound' = (IF bound = m THEN 0 ELSE bound) /\ id' = next

\* deactivate without the tag: the call of the service, the label, the index. A
\* call that throws leaves the label and the index, with or without its commit.
deactivate(m, next) ==
    \/ /\ Unbound(m, next)
       /\ known' = 0
       /\ labels' = removeHologram(m) /\ text' = 0
       /\ UNCHANGED used
    \/ /\ Fault
       /\ Unbound(m, next) \/ UNCHANGED <<bound, id>>
       /\ UNCHANGED <<known, display>>

\* toggleBlock, toggleActor at a market; a label is not a target.
closeMarket ==
    /\ MayClose
    /\ Becomes(exists, Untagged)
    /\ deactivate(known, id)
    /\ UNCHANGED <<query, chunk, pending, joined>>

\* onBlockBreak, onActorRemove: the object is gone and its market is retired.
removeTarget ==
    /\ Here
    /\ Becomes(FALSE, Untagged)
    /\ IF marketIdForTarget # 0 THEN deactivate(known, known + 1)
       ELSE UNCHANGED <<bound, id, known, display, used>>
    /\ UNCHANGED <<query, chunk, pending, joined>>

\* onActorExplode, onBlockExplode: the block of a market is not looked for.
explodeBlock ==
    /\ IsBlock /\ Here
    /\ Becomes(FALSE, tag)
    /\ UNCHANGED <<bound, id, known, query, display, chunk, pending, joined,
                   used>>

\* The block is set again; an actor that is gone is another target.
placeBlock ==
    /\ IsBlock /\ ~exists /\ loaded
    /\ Becomes(TRUE, tag)
    /\ UNCHANGED <<bound, id, known, query, display, chunk, pending, joined,
                   used>>

\* Orders are placed and canceled.
bookChanges ==
    /\ version < MaxVersions
    /\ version' = version + 1
    /\ UNCHANGED <<market, workers, snapshot, books, late, display, chunk,
                   pending, joined, used>>

-----------------------------------------------------------------------------
(* Chunks *)

onChunkLoad ==
    /\ ~loaded
    /\ Event(1, FALSE)
    /\ loaded' = TRUE /\ ready' = FALSE
    /\ tasks' = tasks \cup queueLoadedChunkReconcile(used.loads + 1)
    /\ UNCHANGED <<market, query, display, stored, pending, joined>>

\* The label of the object's market is removed; the rest of the chunk is saved.
onChunkUnload ==
    /\ loaded /\ used.events < MaxEvents
    /\ LET ours == known # 0 /\ targetLocation
           left == IF ours THEN removeHologram(known) ELSE labels
       IN  /\ stored' = [m \in Ids |-> stored[m] + left[m]]
           /\ pending' = IF ours THEN pending \ {known} ELSE pending
    /\ labels' = NoLabels /\ text' = 0
    /\ loaded' = FALSE /\ ready' = FALSE
    /\ older' = {}
    /\ UNCHANGED <<bound, id, known, exists, tag, query, tasks, joined, used>>

\* The game brings back the actors of a loaded chunk.
actorsReturn ==
    /\ loaded
    /\ stored # NoLabels
    /\ labels' = [m \in Ids |-> labels[m] + stored[m]]
    /\ stored' = NoLabels
    /\ UNCHANGED <<market, query, text, loaded, ready, tasks, pending, joined,
                   used>>

\* Fault: labels of markets that are gone are left alone.
KeepsStrangers == labels

\* reconcileLoadedChunk, first loop: labels of markets that are gone.
WithoutStrangers == [m \in Ids |-> IF m = known THEN labels[m] ELSE 0]

reconcileLoadedChunk(isReady) ==
    IF ~loaded THEN UNCHANGED display
    ELSE IF known = 0 THEN labels' = WithoutStrangers /\ UNCHANGED text
    ELSE refreshHologram(WithoutStrangers, known, BookOf(books, known),
                         isReady /\ known \notin pending)

\* Two ticks after the load.
firstReconcile(n) ==
    /\ <<"first", n>> \in tasks
    /\ tasks' = tasks \ {<<"first", n>>}
    /\ reconcileLoadedChunk(ready)
    /\ UNCHANGED <<market, query, stored, loaded, ready, pending, joined, used>>

\* Twenty ticks after the load; the actors of that load are back by then.
secondReconcile(n) ==
    /\ <<"second", n>> \in tasks
    /\ <<"first", n>> \notin tasks
    /\ (n = used.loads /\ loaded) => stored = NoLabels
    /\ tasks' = tasks \ {<<"second", n>>}
    /\ ready' = loaded
    /\ reconcileLoadedChunk(loaded)
    /\ UNCHANGED <<market, query, stored, loaded, pending, joined, used>>

-----------------------------------------------------------------------------
(* A player who joins near a loaded chunk gets the label anew *)

onPlayerJoin ==
    /\ Event(0, FALSE)
    /\ joined' = loaded
    /\ UNCHANGED <<market, query, display, chunk, pending>>

\* queuePlayerHologramSync, after 60 ticks or a move.
recreateHologramsNearPlayer ==
    /\ joined /\ known # 0 /\ targetLocation /\ ready
    /\ joined' = FALSE
    /\ IF known \in pending THEN UNCHANGED <<pending, display, tasks>>
       ELSE /\ pending' = pending \cup {known}
            /\ labels' = removeHologram(known) /\ text' = 0
            /\ tasks' = tasks \cup {<<"recreate", known>>}
    /\ UNCHANGED <<market, query, stored, loaded, ready, used>>

\* Fault: the market stays in pending_hologram_recreates_.
StaysPending(m) == pending

Released(m) == pending \ {m}

\* Its task, five ticks later.
recreateHologram(m) ==
    /\ <<"recreate", m>> \in tasks
    /\ tasks' = tasks \ {<<"recreate", m>>}
    /\ pending' = Released(m)
    /\ IF known = m /\ ready
       THEN refreshHologram(labels, m, BookOf(books, m), m \notin Released(m))
       ELSE UNCHANGED display
    /\ UNCHANGED <<market, query, stored, loaded, ready, joined, used>>

-----------------------------------------------------------------------------
(* The process *)

\* activeMarkets, after the kill.
activeMarkets == bound'

\* What a kill leaves of the object: its binding as it was committed, and block
\* or actor as they were saved. The kill may come between activateMarket and the
\* tag, or between the removal of the tag and closeMarket or retireMarket.
killed ==
    /\ \/ UNCHANGED bound
       \/ MayOpen /\ bound' = id
    /\ \/ \E o \in older \cup {<<exists, tag>>} : exists' = o[1] /\ tag' = o[2]
       \/ MayClose /\ tag' = Untagged /\ UNCHANGED exists
    /\ UNCHANGED id
    /\ older' = {}

\* A kill leaves label actors to a chunk that was saved with them; onDisable
\* removes them. restoreMarkets removes those that are back already, reads the
\* active markets and starts a query.
restart ==
    /\ used.events < MaxEvents
    /\ killed
    /\ used' = [used EXCEPT !.events = @ + 1, !.faults = FALSE,
                 !.torn = @ \/ <<bound', exists', tag'>> # <<bound, exists, tag>>]
    /\ stored' \in {stored, [m \in Ids |-> stored[m] + labels[m]]}
    /\ labels' = NoLabels /\ text' = 0
    /\ loaded' \in BOOLEAN /\ ready' = FALSE
    /\ tasks' = IF loaded' THEN queueLoadedChunkReconcile(used.loads) ELSE {}
    /\ known' = activeMarkets
    /\ workers' = {[of |-> known', read |-> Unread]}
    /\ snapshot' = NoBooks /\ books' = NoBooks
    /\ pending' = {} /\ joined' = FALSE
    /\ late' = FALSE
    /\ UNCHANGED version

-----------------------------------------------------------------------------
worker == topOfBooks \/ publishSnapshot

runTask ==
    \/ \E n \in 0 .. MaxEvents : firstReconcile(n) \/ secondReconcile(n)
    \/ \E m \in Ids : recreateHologram(m)

Next ==
    \/ refreshHolograms \/ worker \/ queryFails \/ runTask
    \/ activate \/ activateLost \/ closeMarket
    \/ removeTarget \/ explodeBlock \/ placeBlock \/ bookChanges
    \/ onChunkLoad \/ onChunkUnload \/ actorsReturn
    \/ onPlayerJoin \/ recreateHologramsNearPlayer \/ restart

Spec == Init /\ [][Next]_vars

\* The periodic task, the worker thread and the scheduled tasks run, and a
\* chunk that is loaded brings its actors back.
FairSpec ==
    /\ Spec
    /\ WF_vars(refreshHolograms) /\ WF_vars(worker) /\ WF_vars(runTask)
    /\ WF_vars(actorsReturn)

-----------------------------------------------------------------------------
(* What must hold *)

\* The variables hold values of their types; at most one worker runs.
TypeOK ==
    /\ {bound, known} \subseteq 0 .. MaxIds /\ tag \in NoTag .. MaxIds
    /\ id \in 1 .. MaxIds + 1
    /\ {exists, loaded, ready, joined, late} \subseteq BOOLEAN
    /\ older \subseteq BOOLEAN \X (NoTag .. MaxIds)
    /\ version \in 1 .. MaxVersions /\ text \in 0 .. MaxVersions
    /\ workers \cup {snapshot, books}
          \subseteq [of: 0 .. MaxIds, read: Unread .. MaxVersions]
    /\ \A v, w \in workers : v = w
    /\ labels \in [Ids -> Nat] /\ stored \in [Ids -> Nat] /\ pending \subseteq Ids
    /\ tasks \subseteq ({"first", "second"} \X Nat) \cup ({"recreate"} \X Ids)
    /\ used \in [events: Nat, loads: Nat, faults: BOOLEAN, torn: BOOLEAN,
                 toggles: Nat]

\* An administrator can close an object that is a market: the exchanger finds its
\* market there (restoreMarkets, toggleActor, marketIdForActor), after any kill
\* and restart if it is a block. A toggle that throws may leave the index behind
\* until the next start, and an actor without its tag for good: so may a kill
\* before the actor is saved, or between the tag and the commit.
Closable ==
    /\ bound # 0 /\ exists
    /\ ~used.faults /\ (IsBlock \/ ~used.torn)
    => marketIdForTarget = bound

\* A label never goes back to an older state of the order book, whatever the
\* worker reads while the main thread goes on. It goes back to an empty book only
\* if the market was opened while a query for other markets was under way and the
\* next one has not answered (refreshHolograms replaces hologram_books_).
NeverOlder ==
    [][(/\ known # 0 /\ known' = known
        /\ labels[known] > 0 /\ labels'[known] > 0)
          => text' >= text \/ (late /\ text' = 0)]_vars

\* No label is shown above an object that is not a market, once the tasks of the
\* chunk's load ran and its actors are back (deactivate, onChunkUnload,
\* reconcileLoadedChunk, recreateHologramsNearPlayer).
Settled == loaded /\ stored = NoLabels /\ tasks = {}
NoStrangeLabel == Settled => \A m \in Ids : labels[m] > 0 => m = known

\* The label of a market in a loaded chunk comes to show the present book, with
\* one label only, after failed queries, kills and reloads.
Shows == known # 0 /\ labels[known] = 1 /\ text = version
LabelCatchesUp ==
    (known # 0 /\ loaded /\ version = MaxVersions)
        ~> (Shows \/ known = 0 \/ ~targetLocation)

=============================================================================
