-------------------------- MODULE UmoneySettlement --------------------------
(***************************************************************************)
(* Direct UMoney settlement: the saga that moves money between a player's  *)
(* UMoney account (money.json of another plugin) and the exchange balance  *)
(* in MySQL (processEconomyTransfers, fundDirectBalance and                *)
(* sweepDirectBalances of src/plugin.cpp, the economy-transfer calls of    *)
(* src/exchange_service.cpp, src/umoney_gateway.cpp).                      *)
(*                                                                         *)
(* Everything runs on the server's main thread; `run' is where it is. What *)
(* makes it hard is that the two stores are written one after the other    *)
(* and the process may be killed, the machine may lose power, and a call   *)
(* may throw, between any two writes. Each MySQL transaction is atomic.    *)
(***************************************************************************)
EXTENDS Integers, Sequences, FiniteSets, Functions

CONSTANTS
    Players,
    UnitCents,       \* UmoneyUnitCents: cents in one UMoney unit
    InitialUnits,    \* UMoney balance of every player at the start
    MaxUnits,        \* largest UMoney balance (int64 in the code)
    Needs,           \* cents a buy order may require
    LegacyCents,     \* free balances a database may have from before
    ExternalDeltas,  \* what other plugins may add to a UMoney balance
    OfflineChanges,  \* whether they also do it while the exchange is down
    MaxOps,          \* bound: player operations
    MaxKills,        \* bound: process kills
    MaxPowerLosses,  \* bound: power losses
    MaxFaults,       \* bound: calls that throw
    MaxExternal      \* bound: UMoney changes by other plugins

ASSUME ConstantsAssumption ==
    /\ IsFiniteSet(Players)
    /\ UnitCents \in Nat \ {0}
    /\ MaxUnits \in Nat /\ InitialUnits \in 1 .. MaxUnits
    /\ Needs \subseteq Nat \ {0}
    /\ LegacyCents \subseteq Nat
    /\ ExternalDeltas \subseteq Int
    /\ OfflineChanges \in BOOLEAN
    /\ MaxOps \in Nat /\ MaxKills \in Nat /\ MaxPowerLosses \in Nat
    /\ MaxFaults \in Nat /\ MaxExternal \in Nat

VARIABLES
    internal,    \* exchange_accounts.balance_cents
    reserved,    \* reserved_cents of each player's resting buy orders
    transfers,   \* exchange_economy_transfers; the id is the index
    wallet,      \* UMoney balances, in units: memory and money.json
    disk,        \* money.json as it would survive a power loss
    run,         \* control state of the plugin
    used,        \* how much of each bound was used
    applied,     \* history: times each transfer's change is in wallet
    durable,     \* history: times each transfer's change is on disk
    external,    \* history: net units other plugins put into wallet
    hidden       \* history: cents of free balances from before UMoney mode
                 \* that the first start did not refuse

vars == <<internal, reserved, transfers, wallet, disk, run, used, applied,
          durable, external, hidden>>

db == <<internal, reserved, transfers>>
umoney == <<wallet, disk, applied, durable, external, hidden>>

-----------------------------------------------------------------------------
(* Rows and control states *)

NoBaseline == -1   \* external_balance_before_units IS NULL

Transfer == [player: Players, direction: {"DEPOSIT", "WITHDRAW"}, units: Nat,
             before: Nat \cup {NoBaseline},
             status: {"PREPARED", "EXTERNAL_APPLIED", "COMPLETED", "FAILED",
                      "BLOCKED"}]

Stages == {"down", "refused", "idle", "fund", "place", "list", "recover",
           "sweep", "decide", "mutate", "sync", "mark", "complete", "fail",
           "block"}

\* mode is the caller of processEconomyTransfer; buyer and need belong to the
\* order being funded; pending and accounts are the lists being worked through.
Run == [stage: Stages, mode: {"recover", "sweep", "fund"}, cur: Nat,
        buyer: SUBSET Players, need: Nat, pending: SUBSET Nat,
        accounts: SUBSET Players]

At(s) == [stage |-> s, mode |-> "recover", cur |-> 0, buyer |-> {},
          need |-> 0, pending |-> {}, accounts |-> {}]

Stage(s) == run.stage = s
Goto(s) == run' = [run EXCEPT !.stage = s]
Cur == transfers[run.cur]
cents(t) == t.units * UnitCents

NoUse == [ops |-> 0, kills |-> 0, losses |-> 0, faults |-> 0, changes |-> 0]
Use(f, max) == used[f] < max /\ used' = [used EXCEPT ![f] = @ + 1]

\* economyBackingDeficit: what the exchange owes beyond what UMoney paid in.
CentsOf(dir, statuses) ==
    [t \in DOMAIN transfers |->
        IF transfers[t].direction = dir /\ transfers[t].status \in statuses
        THEN cents(transfers[t]) ELSE 0]

SumCents(dir, statuses) ==
    SumFunctionOnSet(CentsOf(dir, statuses), DOMAIN transfers)

Held == SumFunctionOnSet(internal, Players) + SumFunctionOnSet(reserved, Players)

economyBackingDeficit ==
    Held
      + SumCents("WITHDRAW", {"PREPARED", "BLOCKED"})
      - SumCents("DEPOSIT", {"EXTERNAL_APPLIED", "COMPLETED"})
      + SumCents("WITHDRAW", {"EXTERNAL_APPLIED", "COMPLETED"})

\* Fault: the check at startup is missing.
NeverUnbacked == FALSE

Unbacked == economyBackingDeficit > 0

\* decideUmoneyMutation: what the UMoney balance now says of a transfer.
Delta(t) == IF t.direction = "DEPOSIT" THEN - t.units ELSE t.units
Expected(t) == t.before + Delta(t)

decideUmoneyMutation(t, current) ==
    IF t.direction = "DEPOSIT" /\ t.before < t.units
    THEN IF current = t.before THEN "Insufficient" ELSE "Conflict"
    ELSE IF Expected(t) > MaxUnits THEN "Conflict"
    ELSE IF current = Expected(t) THEN "AlreadyApplied"
    ELSE IF current = t.before THEN "Apply"
    ELSE "Conflict"

-----------------------------------------------------------------------------
(* Startup *)

\* A deposit of the old HTTP bridge that was not finished.
LegacyTransfer(p, status) ==
    [player |-> p, direction |-> "DEPOSIT", units |-> 1,
     before |-> NoBaseline, status |-> status]

LegacyTransfers ==
    {<<>>} \cup {<<LegacyTransfer(p, st)>> :
                    p \in Players, st \in {"PREPARED", "EXTERNAL_APPLIED"}}

\* The server is down; the database may come from an older version: with free
\* balances nothing in UMoney backs, or with a transfer of the old bridge.
Init ==
    /\ internal \in [Players -> LegacyCents]
    /\ transfers \in LegacyTransfers
    /\ reserved = [p \in Players |-> 0]
    /\ applied = [t \in DOMAIN transfers |->
                    IF transfers[t].status = "EXTERNAL_APPLIED" THEN 1 ELSE 0]
    /\ durable = applied
    /\ wallet = [p \in Players |->
                    IF \E t \in DOMAIN transfers :
                            transfers[t].player = p /\ applied[t] = 1
                    THEN InitialUnits - 1 ELSE InitialUnits]
    /\ disk = wallet
    /\ run = At("down")
    /\ used = NoUse
    /\ external = 0
    /\ hidden = IF economyBackingDeficit > 0 THEN 0
                ELSE SumFunctionOnSet(internal, Players)

\* onEnable: refuse unbacked value, otherwise settle what is pending before
\* any player can act.
onEnable ==
    /\ Stage("down") \/ Stage("refused")
    /\ run' = At(IF Unbacked THEN "refused" ELSE "list")
    /\ UNCHANGED <<db, umoney, used>>

-----------------------------------------------------------------------------
(* processEconomyTransfers *)

\* The timer, or the end of a command or form handler.
economyTask ==
    /\ Stage("idle")
    /\ run' = At("list")
    /\ UNCHANGED <<db, umoney, used>>

\* Fault: a transfer whose UMoney half is done is not looked at again.
PreparedOnly(t) == transfers[t].status = "PREPARED"

IsPending(t) == transfers[t].status \in {"PREPARED", "EXTERNAL_APPLIED"}

pendingEconomyTransfers ==
    /\ Stage("list")
    /\ run' = [At("recover") EXCEPT
                !.pending = {t \in DOMAIN transfers : IsPending(t)}]
    /\ UNCHANGED <<db, umoney, used>>

nextTransfer ==
    /\ Stage("recover")
    /\ \E t \in run.pending :
        /\ \A u \in run.pending : t <= u
        /\ run' = [run EXCEPT !.stage = "decide", !.mode = "recover",
                              !.cur = t, !.pending = @ \ {t}]
    /\ UNCHANGED <<db, umoney, used>>

\* sweepDirectBalances: every free balance of a whole unit goes to UMoney.
positiveBalances ==
    /\ Stage("recover")
    /\ run.pending = {}
    /\ run' = [At("sweep") EXCEPT
                !.accounts = {p \in Players : internal[p] >= UnitCents}]
    /\ UNCHANGED <<db, umoney, used>>

\* Fault: the baseline is not taken at the time of the transfer.
StaleBaseline(p, dir, units) ==
    Append(transfers, [player |-> p, direction |-> dir, units |-> units,
                       before |-> InitialUnits, status |-> "PREPARED"])

\* prepareEconomyTransfer: the PREPARED row with the UMoney balance just read.
Prepared(p, dir, units) ==
    Append(transfers, [player |-> p, direction |-> dir, units |-> units,
                       before |-> wallet[p], status |-> "PREPARED"])

\* Fault: the balance is rounded up to whole units.
RoundedUp(balance) == (balance + UnitCents - 1) \div UnitCents

WholeUnits(balance) == balance \div UnitCents

\* Fault: the row is written but the balance is not debited.
NotReserved(p, units) == internal

WithdrawReserve(p, units) == [internal EXCEPT ![p] = @ - units * UnitCents]

\* The row and, for a withdrawal, the debit are one transaction.
prepareEconomyTransfer(p, dir, units) ==
    /\ transfers' = Prepared(p, dir, units)
    /\ internal' = IF dir = "WITHDRAW" THEN WithdrawReserve(p, units)
                   ELSE internal
    /\ applied' = Append(applied, 0)
    /\ durable' = Append(durable, 0)
    /\ UNCHANGED <<reserved, wallet, disk, external, hidden>>

sweepAccount(p) ==
    /\ Stage("sweep")
    /\ p \in run.accounts
    /\ prepareEconomyTransfer(p, "WITHDRAW", WholeUnits(internal[p]))
    /\ run' = [run EXCEPT !.stage = "decide", !.mode = "sweep",
                          !.cur = Len(transfers) + 1, !.accounts = @ \ {p}]
    /\ UNCHANGED used

endSweep ==
    /\ Stage("sweep")
    /\ run.accounts = {}
    /\ run' = At("idle")
    /\ UNCHANGED <<db, umoney, used>>

-----------------------------------------------------------------------------
(* processEconomyTransfer, for the transfer run.cur *)

\* Where the caller goes on once the transfer was tried. A buy order whose
\* funding did not complete is given up, and its handler runs a pass.
Return(ok) ==
    run' = IF run.mode = "fund"
           THEN IF ok THEN [run EXCEPT !.stage = "place"] ELSE At("list")
           ELSE [run EXCEPT !.stage = run.mode]

\* Where the status, the baseline and the current UMoney balance lead.
Verdict ==
    IF Cur.status = "EXTERNAL_APPLIED" THEN "complete"
    ELSE IF Cur.before = NoBaseline THEN "block"
    ELSE LET d == decideUmoneyMutation(Cur, wallet[Cur.player])
         IN  IF d = "Insufficient" THEN "fail"
             ELSE IF d = "Conflict" THEN "block"
             ELSE IF d = "AlreadyApplied" THEN "mark"
             ELSE "mutate"

decide ==
    /\ Stage("decide")
    /\ Goto(Verdict)
    /\ UNCHANGED <<db, umoney, used>>

\* UmoneyGateway::change, first half: the Python call rewrites money.json.
change ==
    /\ Stage("mutate")
    /\ wallet' = [wallet EXCEPT ![Cur.player] = @ + Delta(Cur)]
    /\ applied' = [applied EXCEPT ![run.cur] = @ + 1]
    /\ Goto("sync")
    /\ UNCHANGED <<db, disk, durable, external, hidden, used>>

\* Fault: the file is not synced.
NoSync ==
    UNCHANGED <<disk, durable>>

SyncFile ==
    /\ disk' = wallet
    /\ durable' = applied

\* Second half: fsync, then the balance is read back and checked.
syncUmoneyData ==
    /\ Stage("sync")
    /\ SyncFile
    /\ Goto(IF decideUmoneyMutation(Cur, wallet[Cur.player]) = "AlreadyApplied"
            THEN "mark" ELSE "block")
    /\ UNCHANGED <<db, wallet, applied, external, hidden, used>>

\* Fault: the credit of a deposit is given twice.
CreditTwice(t) == 2 * cents(t)

Credit(t) == cents(t)

\* markEconomyTransferExternalApplied, completeEconomyTransfer (a deposit is
\* credited), failEconomyTransfer (a withdrawal is refunded) and
\* blockEconomyTransfer, each one transaction.
StatusAfter == [mark |-> "EXTERNAL_APPLIED", complete |-> "COMPLETED",
                fail |-> "FAILED", block |-> "BLOCKED"]

Credited(t) == \/ Stage("complete") /\ t.direction = "DEPOSIT"
               \/ Stage("fail") /\ t.direction = "WITHDRAW"

Statement ==
    /\ run.stage \in DOMAIN StatusAfter
    /\ transfers' = [transfers EXCEPT ![run.cur].status = StatusAfter[run.stage]]
    /\ internal' = IF Credited(Cur)
                   THEN [internal EXCEPT ![Cur.player] = @ + Credit(Cur)]
                   ELSE internal
    /\ UNCHANGED reserved

settle ==
    /\ Statement
    /\ IF Stage("mark") THEN Goto("complete") ELSE Return(Stage("complete"))
    /\ UNCHANGED <<umoney, used>>

-----------------------------------------------------------------------------
(* Player operations; each handler ends with processEconomyTransfers *)

\* Fault: the shortage is rounded down to whole units.
RoundedDown(shortage) == shortage \div UnitCents

UnitsFor(shortage) ==
    shortage \div UnitCents + (IF shortage % UnitCents = 0 THEN 0 ELSE 1)

\* submitTradeDraft of a buy order that will cost up to `need' cents.
submitBuy(p, need) ==
    /\ Stage("idle")
    /\ Use("ops", MaxOps)
    /\ run' = [At(IF internal[p] >= need THEN "place" ELSE "fund")
                EXCEPT !.mode = "fund", !.buyer = {p}, !.need = need]
    /\ UNCHANGED <<db, umoney>>

\* fundDirectBalance: the shortage, rounded up to units, is debited.
fundDirectBalance(p) ==
    LET units == UnitsFor(run.need - internal[p])
    IN  /\ Stage("fund")
        /\ wallet[p] >= units
        /\ prepareEconomyTransfer(p, "DEPOSIT", units)
        /\ run' = [run EXCEPT !.stage = "decide", !.cur = Len(transfers) + 1]
        /\ UNCHANGED used

\* The UMoney balance does not cover the units.
fundingRefused(p) ==
    /\ Stage("fund")
    /\ wallet[p] < UnitsFor(run.need - internal[p])
    /\ run' = At("list")
    /\ UNCHANGED <<db, umoney, used>>

\* placeOrder: the money becomes the reserve of a resting order, unless
\* "direct UMoney funding did not complete".
placeOrder(p) ==
    /\ Stage("place")
    /\ run' = At("list")
    /\ IF internal[p] >= run.need
       THEN /\ internal' = [internal EXCEPT ![p] = @ - run.need]
            /\ reserved' = [reserved EXCEPT ![p] = @ + run.need]
       ELSE UNCHANGED <<internal, reserved>>
    /\ UNCHANGED <<transfers, umoney, used>>

\* A sale of q, at up to the reserve of p, or the cancel of p's order (q = p).
release(p, q, amount) ==
    /\ Stage("idle")
    /\ amount \in 1 .. reserved[p]
    /\ Use("ops", MaxOps)
    /\ reserved' = [reserved EXCEPT ![p] = @ - amount]
    /\ internal' = [internal EXCEPT ![q] = @ + amount]
    /\ run' = At("list")
    /\ UNCHANGED <<transfers, umoney>>

-----------------------------------------------------------------------------
(* Failures *)

\* Where an exception thrown in the current stage is caught: by the pass, by
\* the loop of the sweep for one account, or by the handler of the order.
Caught ==
    IF Stage("list") THEN run' = At("recover")
    ELSE IF Stage("recover") THEN run' = At("idle")
    ELSE IF Stage("fund") \/ Stage("place") THEN run' = At("list")
    ELSE Return(FALSE)

skipAccount == \E p \in run.accounts : run' = [run EXCEPT !.accounts = @ \ {p}]

\* A statement fails and its transaction is rolled back. (UMoney failing in
\* fundDirectBalance or sweepDirectBalances has the same effect.)
databaseError ==
    /\ Use("faults", MaxFaults)
    /\ \/ run.stage \in {"list", "fund", "place"} \cup DOMAIN StatusAfter /\ Caught
       \/ Stage("recover") /\ run.pending = {} /\ Caught
       \/ Stage("sweep") /\ skipAccount
    /\ UNCHANGED <<db, umoney>>

\* The transaction was committed but the reply was lost: the call throws.
lostReply ==
    /\ Use("faults", MaxFaults)
    /\ Statement
    /\ Caught
    /\ UNCHANGED umoney

\* The same for prepareEconomyTransfer, or its row cannot be read back.
lostPrepared ==
    /\ Use("faults", MaxFaults)
    /\ \/ \E p \in run.accounts :
            /\ Stage("sweep")
            /\ prepareEconomyTransfer(p, "WITHDRAW", WholeUnits(internal[p]))
            /\ run' = [run EXCEPT !.accounts = @ \ {p}]
       \/ \E p \in run.buyer :
            LET units == UnitsFor(run.need - internal[p])
            IN  /\ Stage("fund")
                /\ wallet[p] >= units
                /\ prepareEconomyTransfer(p, "DEPOSIT", units)
                /\ Caught

\* UMoney is disabled or does not know the player; or fsync fails.
umoneyError ==
    /\ \/ Stage("sync")
       \/ /\ Stage("decide")
          /\ Cur.status = "PREPARED" /\ Cur.before # NoBaseline
    /\ Use("faults", MaxFaults)
    /\ Return(FALSE)
    /\ UNCHANGED <<db, umoney>>

\* SIGKILL or a crash of the server process: files and tables stay.
kill ==
    /\ run.stage \notin {"down", "refused"}
    /\ Use("kills", MaxKills)
    /\ run' = At("down")
    /\ UNCHANGED <<db, umoney>>

\* Power loss: money.json falls back to what was synced.
powerLoss ==
    /\ run.stage # "refused"
    /\ Use("losses", MaxPowerLosses)
    /\ run' = At("down")
    /\ wallet' = disk
    /\ applied' = durable
    /\ UNCHANGED <<db, disk, durable, external, hidden>>

\* Another plugin changes a balance through UMoney, which writes money.json
\* but does not sync it, between two tasks of the main thread.
externalChange(p, d) ==
    /\ Stage("idle") \/ (OfflineChanges /\ Stage("down"))
    /\ Use("changes", MaxExternal)
    /\ wallet[p] + d \in 0 .. MaxUnits
    /\ wallet' = [wallet EXCEPT ![p] = @ + d]
    /\ external' = external + d
    /\ UNCHANGED <<db, run, disk, applied, durable, hidden>>

-----------------------------------------------------------------------------

Settlement ==
    \/ onEnable \/ economyTask \/ pendingEconomyTransfers \/ nextTransfer
    \/ positiveBalances \/ endSweep
    \/ \E p \in Players : sweepAccount(p)
    \/ decide \/ change \/ syncUmoneyData \/ settle
    \/ \E p \in run.buyer :
            fundDirectBalance(p) \/ fundingRefused(p) \/ placeOrder(p)

Environment ==
    \/ \E p \in Players, need \in Needs : submitBuy(p, need)
    \/ \E p, q \in Players : \E amount \in 1 .. reserved[p] :
            release(p, q, amount)
    \/ \E p \in Players, d \in ExternalDeltas : externalChange(p, d)

Failure ==
    databaseError \/ lostReply \/ lostPrepared \/ umoneyError \/ kill \/ powerLoss

Next == Settlement \/ Environment \/ Failure

Spec == Init /\ [][Next]_vars

\* The server is started again after a crash, its main thread runs, and the
\* economy timer fires: the settlement itself never stops for good.
FairSpec == Spec /\ WF_vars(Settlement)

-----------------------------------------------------------------------------
(* Properties *)

\* A transfer is being processed.
Working == run.stage \in {"decide", "mutate", "sync", "mark", "complete", "fail",
                          "block"}

\* Tables, files and control state have the types of their columns; balances
\* and reserves are never negative (the CHECK constraints of the tables).
TypeOK ==
    /\ internal \in [Players -> Nat]
    /\ reserved \in [Players -> Nat]
    /\ transfers \in Seq(Transfer)
    /\ wallet \in [Players -> 0 .. MaxUnits]
    /\ disk \in [Players -> 0 .. MaxUnits]
    /\ run \in Run
    /\ Working => run.cur \in DOMAIN transfers
    /\ run.pending \subseteq DOMAIN transfers
    /\ used \in [DOMAIN NoUse -> Nat]
    /\ applied \in Seq(Nat) /\ Len(applied) = Len(transfers)
    /\ durable \in Seq(Nat) /\ Len(durable) = Len(transfers)
    /\ external \in Int /\ hidden \in Nat

\* processEconomyTransfer settles exactly once: a transfer recorded as applied
\* changed UMoney once, one recorded as failed never did, and no retry applies
\* one again. (What a BLOCKED one did is for the operator to find out.)
ExactlyOnce ==
    \A t \in DOMAIN transfers :
        /\ applied[t] <= 1
        /\ transfers[t].status \in {"EXTERNAL_APPLIED", "COMPLETED"}
                => applied[t] = 1
        /\ transfers[t].status = "FAILED" => applied[t] = 0

\* A transfer is recorded as EXTERNAL_APPLIED only once money.json holds it
\* durably, so a power loss cannot take it back (the fsync of UmoneyGateway).
AppliedIsDurable ==
    \A t \in DOMAIN transfers :
        transfers[t].status \in {"EXTERNAL_APPLIED", "COMPLETED"}
            => durable[t] = 1

\* That holds as long as nothing but the power fails. A kill or a failing call
\* between the write and the fsync makes the next pass find the change applied
\* and mark it without an fsync, and a balance another plugin changed can look
\* like it (the AlreadyApplied branch of processEconomyTransfer).
DurableUnderPowerLoss ==
    used.kills = 0 /\ used.faults = 0 /\ used.changes = 0 => AppliedIsDurable

\* economyBackingDeficit is exact: whatever fails, the exchange owes what the
\* deposits brought less what was withdrawn, and the free balances the first
\* start let in. Without those it never refuses its own data at the next start
\* and never starts with unbacked money.
BackingExact ==
    run.stage \notin {"down", "refused"}
        => economyBackingDeficit
              = hidden - SumCents("DEPOSIT", {"EXTERNAL_APPLIED"})

\* Once fundDirectBalance has succeeded the order it funded can be paid.
FundingSuffices ==
    \A p \in run.buyer : Stage("place") => internal[p] >= run.need

UmoneyTotal == UnitCents * SumFunctionOnSet(wallet, Players)
PaidInTotal == UnitCents * (Cardinality(Players) * InitialUnits + external)

\* The exchange never gives out UMoney that was not there before, but for the
\* free balances that the first start let in: at most as much as a deposit of
\* the old bridge that was applied and not credited (economyBackingDeficit
\* counts it as backing, the refusal in onEnable).
NothingMinted == UmoneyTotal <= PaidInTotal + hidden

\* The refusal "prevents legacy or operator-minted internal value from becoming
\* withdrawable UMoney" (docs/architecture.md on the check in onEnable).
NoLegacyWithdrawn == UmoneyTotal <= PaidInTotal

\* When no transfer is in flight or blocked, the money in UMoney, in exchange
\* balances and in order reserves is what the players started with, and the
\* free balances that the first start let in.
ConservedWhenSettled ==
    (/\ run.stage \notin {"down", "refused"}
     /\ \A t \in DOMAIN transfers :
            transfers[t].before # NoBaseline \/ transfers[t].status = "EXTERNAL_APPLIED"
                => transfers[t].status \in {"COMPLETED", "FAILED"})
    => UmoneyTotal + Held = PaidInTotal + hidden

\* Recovery and the sweep always get through: again and again no transfer is
\* left PREPARED or EXTERNAL_APPLIED and no whole unit is left in a free
\* balance (processEconomyTransfers retries what failed).
SettlesAndSweeps ==
    []<>(/\ \A t \in DOMAIN transfers :
                transfers[t].status \in {"COMPLETED", "FAILED", "BLOCKED"}
         /\ \A p \in Players : internal[p] < UnitCents)

=============================================================================
