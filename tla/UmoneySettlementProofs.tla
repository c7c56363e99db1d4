----------------------- MODULE UmoneySettlementProofs -----------------------
EXTENDS UmoneySettlement, FiniteSums, SequenceTheorems, TLAPS

\* Whole units of a balance: at least one once the balance reaches a unit, and
\* never worth more than the balance (sweepDirectBalances).
LEMMA WholeUnitsFacts ==
    ASSUME NEW b \in Nat
    PROVE  /\ WholeUnits(b) \in Nat
           /\ WholeUnits(b) * UnitCents \in Nat
           /\ b - WholeUnits(b) * UnitCents \in Nat
           /\ b >= UnitCents => WholeUnits(b) > 0
  BY ConstantsAssumption DEF WholeUnits

\* The units that cover a shortage: a positive number, worth at least the
\* shortage (fundDirectBalance).
LEMMA UnitsForFacts ==
    ASSUME NEW s \in Nat, s > 0
    PROVE  /\ UnitsFor(s) \in Nat
           /\ UnitsFor(s) > 0
           /\ UnitsFor(s) * UnitCents >= s
  BY ConstantsAssumption DEF UnitsFor

-----------------------------------------------------------------------------
(* Types, whatever fails *)

\* What the stages rely on: an order is funded only while its price is not
\* covered, UMoney is changed only from the baseline and within its range,
\* and accounts listed for the sweep keep a whole unit until it is their turn.
Control ==
    /\ Stage("fund") => \A p \in run.buyer : internal[p] < run.need
    /\ Stage("mutate") => /\ wallet[Cur.player] = Cur.before
                          /\ Expected(Cur) \in 0 .. MaxUnits
    /\ \A p \in run.accounts : internal[p] >= UnitCents

TypeInv == TypeOK /\ Control

\* The fields of the control state.
LEMMA RunFacts ==
    ASSUME run \in Run
    PROVE  /\ run.stage \in Stages
           /\ run.mode \in {"recover", "sweep", "fund"}
           /\ run.cur \in Nat
           /\ run.buyer \in SUBSET Players
           /\ run.need \in Nat
           /\ run.pending \in SUBSET Nat
           /\ run.accounts \in SUBSET Players
  BY DEF Run

\* A fresh control state, at any stage.
LEMMA AtFacts ==
    ASSUME NEW s \in Stages
    PROVE  /\ At(s) \in Run
           /\ At(s).stage = s /\ At(s).mode = "recover" /\ At(s).cur = 0
           /\ At(s).buyer = {} /\ At(s).need = 0
           /\ At(s).pending = {} /\ At(s).accounts = {}
  BY DEF At, Run

\* A row of exchange_economy_transfers.
LEMMA TransferFacts ==
    ASSUME NEW t \in Transfer
    PROVE  /\ t.player \in Players
           /\ t.direction \in {"DEPOSIT", "WITHDRAW"}
           /\ t.units \in Nat
           /\ t.before \in Nat \cup {NoBaseline}
           /\ t.before \in Int
           /\ Delta(t) \in Int
           /\ cents(t) \in Nat
  BY ConstantsAssumption DEF Transfer, NoBaseline, Delta, cents

\* Inserting a row keeps the rows there are.
LEMMA InsertRow ==
    ASSUME NEW S, NEW s \in Seq(S), NEW e \in S
    PROVE  /\ Append(s, e) \in Seq(S)
           /\ DOMAIN s = 1 .. Len(s)
           /\ Len(s) \in Nat
           /\ Len(Append(s, e)) = Len(s) + 1
           /\ DOMAIN Append(s, e) = DOMAIN s \cup {Len(s) + 1}
           /\ Len(s) + 1 \notin DOMAIN s
           /\ Append(s, e)[Len(s) + 1] = e
           /\ \A i \in DOMAIN s : Append(s, e)[i] = s[i]
  BY SMT

\* Updating a row keeps the others.
LEMMA UpdateRow ==
    ASSUME NEW S, NEW s \in Seq(S), NEW e \in S, NEW k \in DOMAIN s
    PROVE  /\ [s EXCEPT ![k] = e] \in Seq(S)
           /\ Len([s EXCEPT ![k] = e]) = Len(s)
           /\ DOMAIN [s EXCEPT ![k] = e] = DOMAIN s
           /\ [s EXCEPT ![k] = e][k] = e
           /\ \A i \in DOMAIN s \ {k} : [s EXCEPT ![k] = e][i] = s[i]
  BY ExceptSeq

\* The bounds of the model are counters.
LEMMA UseType ==
    ASSUME TypeOK, NEW f \in {"ops", "kills", "losses", "faults", "changes"},
           NEW max, Use(f, max)
    PROVE  used' \in [DOMAIN NoUse -> Nat]
  BY DEF TypeOK, NoUse, Use

\* A step that only moves the control state, to a fresh one.
LEMMA FreshStep ==
    ASSUME TypeInv, NEW s \in {"down", "refused", "idle", "list", "recover"},
           run' = At(s), UNCHANGED <<db, umoney>>,
           used' \in [DOMAIN NoUse -> Nat]
    PROVE  TypeInv'
  BY AtFacts DEF TypeInv, TypeOK, Control, Working, Stage, Stages, db, umoney, Cur

\* The caller of processEconomyTransfer goes on.
LEMMA ReturnStep ==
    ASSUME TypeInv, Working, NEW ok \in BOOLEAN, Return(ok)
    PROVE  /\ run' \in Run
           /\ run'.stage \in {"recover", "sweep", "place", "list"}
           /\ run'.pending \subseteq run.pending
           /\ run'.accounts \subseteq run.accounts
  <1>1. CASE run.mode = "fund" /\ ~ok
    BY <1>1, AtFacts DEF Return, Stages
  <1>2. CASE run.mode = "fund" /\ ok
    BY <1>2, RunFacts DEF Return, TypeInv, TypeOK, Run, Stages
  <1>3. CASE run.mode # "fund"
    <2>1. run.mode \in {"recover", "sweep"}
      BY <1>3, RunFacts DEF TypeInv, TypeOK
    <2> QED BY <1>3, <2>1, RunFacts DEF Return, TypeInv, TypeOK, Run, Stages
  <1> QED BY <1>1, <1>2, <1>3

\* Listing what is pending and what can be swept, and taking the next one.
LEMMA ListStep ==
    ASSUME TypeInv,
           pendingEconomyTransfers \/ nextTransfer \/ positiveBalances
    PROVE  TypeInv'
  <1>1. /\ UNCHANGED <<db, umoney, used>>
        /\ run' \in Run
        /\ run'.stage \in {"recover", "decide", "sweep"}
        /\ run'.pending \subseteq DOMAIN transfers
        /\ run'.stage = "decide" => run'.cur \in DOMAIN transfers
        /\ \A p \in run'.accounts : internal[p] >= UnitCents
    <2>1. CASE pendingEconomyTransfers
      <3>1. DOMAIN transfers \subseteq Nat
        BY DEF TypeInv, TypeOK
      <3> QED BY <2>1, <3>1, AtFacts DEF pendingEconomyTransfers, Run, Stages
    <2>2. CASE nextTransfer
      BY <2>2, RunFacts DEF nextTransfer, TypeInv, TypeOK, Control, Run, Stages
    <2>3. CASE positiveBalances
      BY <2>3, AtFacts DEF positiveBalances, Run, Stages
    <2> QED BY <2>1, <2>2, <2>3
  <1> QED BY <1>1 DEF TypeInv, TypeOK, Control, Working, Stage, db, umoney, Cur

\* Inserting a transfer keeps the types; a withdrawal is covered.
LEMMA PrepareStep ==
    ASSUME TypeInv, NEW p \in Players, NEW dir \in {"DEPOSIT", "WITHDRAW"},
           NEW units \in Nat,
           dir = "WITHDRAW" => internal[p] - units * UnitCents \in Nat,
           prepareEconomyTransfer(p, dir, units)
    PROVE  /\ internal' \in [Players -> Nat]
           /\ reserved' \in [Players -> Nat]
           /\ transfers' \in Seq(Transfer)
           /\ applied' \in Seq(Nat) /\ Len(applied') = Len(transfers')
           /\ durable' \in Seq(Nat) /\ Len(durable') = Len(transfers')
           /\ DOMAIN transfers' = DOMAIN transfers \cup {Len(transfers) + 1}
           /\ Len(transfers) + 1 \in Nat
           /\ \A q \in Players \ {p} : internal'[q] = internal[q]
           /\ UNCHANGED <<wallet, disk, external, hidden>>
  <1> DEFINE e == [player |-> p, direction |-> dir, units |-> units,
                   before |-> wallet[p], status |-> "PREPARED"]
  <1>1. e \in Transfer
    BY ConstantsAssumption DEF TypeInv, TypeOK, Transfer
  <1>2. transfers' = Append(transfers, e)
    BY DEF prepareEconomyTransfer, Prepared
  <1> HIDE DEF e
  <1>3. transfers \in Seq(Transfer) /\ applied \in Seq(Nat) /\ durable \in Seq(Nat)
        /\ Len(applied) = Len(transfers) /\ Len(durable) = Len(transfers)
    BY DEF TypeInv, TypeOK
  <1>4. /\ transfers' \in Seq(Transfer)
        /\ DOMAIN transfers' = DOMAIN transfers \cup {Len(transfers) + 1}
        /\ Len(transfers) + 1 \in Nat
        /\ Len(transfers') = Len(transfers) + 1
    BY <1>1, <1>2, <1>3, InsertRow
  <1>5. /\ applied' \in Seq(Nat) /\ Len(applied') = Len(applied) + 1
        /\ durable' \in Seq(Nat) /\ Len(durable') = Len(durable) + 1
    BY <1>3, InsertRow DEF prepareEconomyTransfer
  <1>6. /\ internal' \in [Players -> Nat]
        /\ \A q \in Players \ {p} : internal'[q] = internal[q]
    <2>1. CASE dir = "WITHDRAW"
      BY <2>1 DEF prepareEconomyTransfer, WithdrawReserve, TypeInv, TypeOK
    <2>2. CASE dir = "DEPOSIT"
      BY <2>2 DEF prepareEconomyTransfer, TypeInv, TypeOK
    <2> QED BY <2>1, <2>2
  <1> QED BY <1>3, <1>4, <1>5, <1>6 DEF prepareEconomyTransfer, TypeInv, TypeOK


\* A withdrawal of the sweep takes whole units that are there.
LEMMA SweepStep ==
    ASSUME TypeInv, NEW p \in run.accounts, run.stage = "sweep",
           prepareEconomyTransfer(p, "WITHDRAW", WholeUnits(internal[p])),
           \/ /\ run' = [run EXCEPT !.stage = "decide", !.mode = "sweep",
                                    !.cur = Len(transfers) + 1,
                                    !.accounts = @ \ {p}]
           \/ run' = [run EXCEPT !.accounts = @ \ {p}],
           used' \in [DOMAIN NoUse -> Nat]
    PROVE  TypeInv'
  <1>1. p \in Players /\ internal[p] \in Nat
    BY RunFacts DEF TypeInv, TypeOK
  <1>2. /\ WholeUnits(internal[p]) \in Nat
        /\ internal[p] - WholeUnits(internal[p]) * UnitCents \in Nat
    BY <1>1, WholeUnitsFacts
  <1>3. /\ internal' \in [Players -> Nat]
        /\ reserved' \in [Players -> Nat]
        /\ transfers' \in Seq(Transfer)
        /\ applied' \in Seq(Nat) /\ Len(applied') = Len(transfers')
        /\ durable' \in Seq(Nat) /\ Len(durable') = Len(transfers')
        /\ DOMAIN transfers' = DOMAIN transfers \cup {Len(transfers) + 1}
        /\ Len(transfers) + 1 \in Nat
        /\ \A q \in Players \ {p} : internal'[q] = internal[q]
        /\ UNCHANGED <<wallet, disk, external, hidden>>
    BY <1>1, <1>2, PrepareStep
  <1>4. /\ run' \in Run
        /\ run'.stage \in {"sweep", "decide"}
        /\ run'.stage = "decide" => run'.cur = Len(transfers) + 1
        /\ run'.pending = run.pending
        /\ run'.accounts = run.accounts \ {p}
    BY <1>3, RunFacts DEF TypeInv, TypeOK, Run, Stages
  <1>5. run.accounts \subseteq Players
    BY RunFacts DEF TypeInv, TypeOK
  <1>6. \A q \in run'.accounts : internal'[q] >= UnitCents
    BY <1>3, <1>4, <1>5 DEF TypeInv, Control
  <1> QED BY <1>3, <1>4, <1>6 DEF TypeInv, TypeOK, Control, Working, Stage

\* A deposit for an order whose price is not covered.
LEMMA FundStep ==
    ASSUME TypeInv, NEW p \in run.buyer, run.stage = "fund",
           prepareEconomyTransfer(p, "DEPOSIT", UnitsFor(run.need - internal[p])),
           \/ run' = [run EXCEPT !.stage = "decide", !.cur = Len(transfers) + 1]
           \/ run' = At("list"),
           used' \in [DOMAIN NoUse -> Nat]
    PROVE  TypeInv'
  <1>1. p \in Players /\ run.need - internal[p] \in Nat /\ run.need - internal[p] > 0
    BY RunFacts DEF TypeInv, TypeOK, Control, Stage
  <1>2. UnitsFor(run.need - internal[p]) \in Nat
    BY <1>1, UnitsForFacts
  <1>3. /\ internal' \in [Players -> Nat]
        /\ reserved' \in [Players -> Nat]
        /\ transfers' \in Seq(Transfer)
        /\ applied' \in Seq(Nat) /\ Len(applied') = Len(transfers')
        /\ durable' \in Seq(Nat) /\ Len(durable') = Len(transfers')
        /\ DOMAIN transfers' = DOMAIN transfers \cup {Len(transfers) + 1}
        /\ Len(transfers) + 1 \in Nat
        /\ UNCHANGED <<wallet, disk, external, hidden>>
    BY <1>1, <1>2, PrepareStep
  <1>4. internal' = internal
    BY DEF prepareEconomyTransfer
  <1>5. /\ run' \in Run
        /\ run'.stage \in {"list", "decide"}
        /\ run'.stage = "decide" => run'.cur = Len(transfers) + 1
        /\ run'.pending \subseteq run.pending
        /\ run'.accounts \subseteq run.accounts
    <2>1. CASE run' = At("list")
      BY <2>1, AtFacts DEF Stages
    <2>2. CASE run' = [run EXCEPT !.stage = "decide", !.cur = Len(transfers) + 1]
      BY <2>2, <1>3, RunFacts DEF TypeInv, TypeOK, Run, Stages
    <2> QED BY <2>1, <2>2
  <1> QED BY <1>3, <1>4, <1>5 DEF TypeInv, TypeOK, Control, Working, Stage

\* The verdict sends the transfer to "mutate" only at its baseline and with an
\* expected balance in range.
LEMMA VerdictFacts ==
    ASSUME TypeInv, Working
    PROVE  /\ Cur \in Transfer
           /\ wallet[Cur.player] \in 0 .. MaxUnits
           /\ Verdict \in {"mutate", "mark", "complete", "fail", "block"}
           /\ Verdict = "mutate" =>
                /\ Cur.before # NoBaseline
                /\ Cur.status # "EXTERNAL_APPLIED"
                /\ wallet[Cur.player] = Cur.before
                /\ Expected(Cur) \in 0 .. MaxUnits
           /\ Verdict = "mark" =>
                /\ Cur.before # NoBaseline
                /\ Cur.status # "EXTERNAL_APPLIED"
                /\ wallet[Cur.player] = Expected(Cur)
           /\ Verdict = "fail" =>
                /\ Cur.before # NoBaseline
                /\ Cur.status # "EXTERNAL_APPLIED"
                /\ wallet[Cur.player] = Cur.before
           /\ Verdict = "complete" => Cur.status = "EXTERNAL_APPLIED"
           /\ Verdict = "block" => Cur.status # "EXTERNAL_APPLIED"
  <1>1. Cur \in Transfer
    BY DEF TypeInv, TypeOK, Cur
  <1>2. wallet[Cur.player] \in 0 .. MaxUnits
    BY <1>1, TransferFacts DEF TypeInv, TypeOK
  <1> QED BY <1>1, <1>2, TransferFacts, ConstantsAssumption
          DEF Verdict, decideUmoneyMutation, Expected, Delta, NoBaseline

\* Deciding, and changing UMoney.
LEMMA MutateStep ==
    ASSUME TypeInv, decide \/ change \/ syncUmoneyData
    PROVE  TypeInv'
  <1>1. Working /\ UNCHANGED <<internal, reserved, transfers, external, hidden, used>>
    BY DEF decide, change, syncUmoneyData, Working, Stage, db, umoney
  <1>2. Cur \in Transfer
    BY <1>1, VerdictFacts
  <1>3. PICK s \in {"mutate", "sync", "mark", "complete", "fail", "block"} :
            /\ run' = [run EXCEPT !.stage = s]
            /\ s = "mutate" => /\ wallet' = wallet
                               /\ wallet[Cur.player] = Cur.before
                               /\ Expected(Cur) \in 0 .. MaxUnits
    BY <1>1, VerdictFacts DEF decide, change, syncUmoneyData, Goto, umoney
  <1>4. /\ run' \in Run
        /\ run'.stage = s
        /\ run'.cur = run.cur
        /\ run'.pending = run.pending
        /\ run'.accounts = run.accounts
    BY <1>3, RunFacts DEF TypeInv, TypeOK, Run, Stages
  <1>5. /\ wallet' \in [Players -> 0 .. MaxUnits]
        /\ disk' \in [Players -> 0 .. MaxUnits]
        /\ applied' \in Seq(Nat) /\ Len(applied') = Len(transfers)
        /\ durable' \in Seq(Nat) /\ Len(durable') = Len(transfers)
    <2>1. CASE decide
      BY <2>1 DEF decide, umoney, TypeInv, TypeOK
    <2>2. CASE change
      <3>1. wallet[Cur.player] + Delta(Cur) \in 0 .. MaxUnits
        BY <2>2 DEF change, TypeInv, Control, Expected
      <3>2. run.cur \in DOMAIN applied /\ applied[run.cur] + 1 \in Nat
        BY <1>1 DEF TypeInv, TypeOK
      <3>3. applied' = [applied EXCEPT ![run.cur] = applied[run.cur] + 1]
        BY <2>2 DEF change
      <3>4. applied' \in Seq(Nat) /\ Len(applied') = Len(applied)
        BY <3>2, <3>3, UpdateRow DEF TypeInv, TypeOK
      <3> QED BY <2>2, <3>1, <3>4, <1>2, TransferFacts
              DEF change, TypeInv, TypeOK
    <2>3. CASE syncUmoneyData
      BY <2>3 DEF syncUmoneyData, SyncFile, TypeInv, TypeOK
    <2> QED BY <2>1, <2>2, <2>3
  <1>6. Working => run.cur \in DOMAIN transfers
    BY DEF TypeInv, TypeOK
  <1>7. TypeOK'
    BY <1>1, <1>4, <1>5, <1>6 DEF TypeInv, TypeOK, Working
  <1>8. Cur' = Cur
    BY <1>1, <1>4 DEF Cur
  <1>9. Control'
    BY <1>1, <1>3, <1>4, <1>8 DEF TypeInv, Control, Stage, Expected, Delta
  <1> QED BY <1>7, <1>9 DEF TypeInv


\* A status change of the current transfer keeps the types.
LEMMA StatementFacts ==
    ASSUME TypeInv, Statement
    PROVE  /\ Working
           /\ run.cur \in DOMAIN transfers
           /\ transfers' \in Seq(Transfer)
           /\ Len(transfers') = Len(transfers)
           /\ DOMAIN transfers' = DOMAIN transfers
           /\ transfers'[run.cur] =
                [transfers[run.cur] EXCEPT !.status = StatusAfter[run.stage]]
           /\ \A t \in DOMAIN transfers \ {run.cur} :
                transfers'[t] = transfers[t]
           /\ internal' \in [Players -> Nat]
           /\ \A p \in Players : internal'[p] >= internal[p]
           /\ reserved' = reserved
  <1>1. run.stage \in {"mark", "complete", "fail", "block"}
    BY DEF Statement, StatusAfter
  <1>2. Working /\ run.cur \in DOMAIN transfers
    BY <1>1 DEF Working, TypeInv, TypeOK
  <1>3. Cur \in Transfer /\ transfers \in Seq(Transfer)
    BY <1>2, VerdictFacts DEF TypeInv, TypeOK
  <1> DEFINE e == [transfers[run.cur] EXCEPT !.status = StatusAfter[run.stage]]
  <1>4. StatusAfter[run.stage] \in {"EXTERNAL_APPLIED", "COMPLETED", "FAILED",
                                    "BLOCKED"}
    BY <1>1 DEF StatusAfter
  <1>5. e \in Transfer
    BY <1>3, <1>4 DEF Transfer, Cur
  <1>6. transfers' = [transfers EXCEPT ![run.cur] = e]
    BY DEF Statement
  <1> HIDE DEF e
  <1>7. /\ transfers' \in Seq(Transfer)
        /\ Len(transfers') = Len(transfers)
        /\ DOMAIN transfers' = DOMAIN transfers
        /\ transfers'[run.cur] = e
        /\ \A t \in DOMAIN transfers \ {run.cur} : transfers'[t] = transfers[t]
    BY <1>2, <1>3, <1>5, <1>6, UpdateRow
  <1>8. Cur.player \in Players /\ cents(Cur) \in Nat
    BY <1>3, TransferFacts
  <1>9. /\ internal' \in [Players -> Nat]
        /\ \A p \in Players : internal'[p] >= internal[p]
    BY <1>8 DEF Statement, Credit, TypeInv, TypeOK
  <1> QED BY <1>2, <1>7, <1>9 DEF Statement, e

\* Recording the outcome, whether the reply arrives or not.
LEMMA SettleStep ==
    ASSUME TypeInv, Statement, UNCHANGED umoney,
           \/ Stage("mark") /\ Goto("complete")
           \/ \E ok \in BOOLEAN : Return(ok),
           used' \in [DOMAIN NoUse -> Nat]
    PROVE  TypeInv'
  <1>1. /\ Working
        /\ run.cur \in DOMAIN transfers
        /\ transfers' \in Seq(Transfer)
        /\ Len(transfers') = Len(transfers)
        /\ DOMAIN transfers' = DOMAIN transfers
        /\ internal' \in [Players -> Nat]
        /\ \A p \in Players : internal'[p] >= internal[p]
        /\ reserved' = reserved
    BY StatementFacts
  <1>2. /\ run' \in Run
        /\ run'.stage \in {"complete", "recover", "sweep", "place", "list"}
        /\ run'.stage = "complete" => run'.cur = run.cur
        /\ run'.pending \subseteq run.pending
        /\ run'.accounts \subseteq run.accounts
    <2>1. CASE Stage("mark") /\ Goto("complete")
      BY <2>1, RunFacts DEF Goto, TypeInv, TypeOK, Run, Stages
    <2>2. CASE \E ok \in BOOLEAN : Return(ok)
      BY <2>2, <1>1, ReturnStep
    <2> QED BY <2>1, <2>2
  <1>3. run.accounts \subseteq Players
    BY RunFacts DEF TypeInv, TypeOK
  <1>4. \A p \in run'.accounts : internal'[p] >= UnitCents
    BY <1>1, <1>2, <1>3, ConstantsAssumption DEF TypeInv, TypeOK, Control
  <1> QED BY <1>1, <1>2, <1>4
          DEF TypeInv, TypeOK, Control, Working, Stage, umoney

\* A failed call or a lost account leaves the tables alone.
LEMMA GiveUpStep ==
    ASSUME TypeInv, UNCHANGED <<db, umoney>>, used' \in [DOMAIN NoUse -> Nat],
           \/ Working /\ Return(FALSE)
           \/ Stage("sweep") /\ skipAccount
    PROVE  TypeInv'
  <1>1. /\ run' \in Run
        /\ run'.stage \in {"recover", "sweep", "place", "list"}
        /\ run'.pending \subseteq run.pending
        /\ run'.accounts \subseteq run.accounts
    <2>1. CASE Working /\ Return(FALSE)
      BY <2>1, ReturnStep
    <2>2. CASE Stage("sweep") /\ skipAccount
      BY <2>2, RunFacts DEF skipAccount, Stage, TypeInv, TypeOK, Run, Stages
    <2> QED BY <2>1, <2>2
  <1> QED BY <1>1 DEF TypeInv, TypeOK, Control, Working, Stage, db, umoney

\* A player submits a buy order.
LEMMA SubmitStep ==
    ASSUME TypeInv, NEW p \in Players, NEW need \in Needs, submitBuy(p, need)
    PROVE  TypeInv'
  <1>1. need \in Nat /\ internal[p] \in Nat
    BY ConstantsAssumption DEF TypeInv, TypeOK
  <1>2. used' \in [DOMAIN NoUse -> Nat]
    BY UseType DEF submitBuy, TypeInv
  <1>3. PICK s \in {"place", "fund"} :
            /\ s = "fund" => internal[p] < need
            /\ run' = [At(s) EXCEPT !.mode = "fund", !.buyer = {p},
                                    !.need = need]
    <2>1. CASE internal[p] >= need
      BY <2>1 DEF submitBuy
    <2>2. CASE ~(internal[p] >= need)
      <3>1. internal[p] < need
        BY <2>2, <1>1
      <3>2. run' = [At("fund") EXCEPT !.mode = "fund", !.buyer = {p},
                                      !.need = need]
        BY <2>2 DEF submitBuy
      <3> QED BY <3>1, <3>2
    <2> QED BY <2>1, <2>2
  <1>4. /\ run' \in Run
        /\ run'.stage = s
        /\ run'.buyer = {p}
        /\ run'.need = need
        /\ run'.pending = {}
        /\ run'.accounts = {}
    BY <1>1, <1>3 DEF At, Run, Stages
  <1> QED BY <1>2, <1>3, <1>4
          DEF submitBuy, TypeInv, TypeOK, Control, Working, Stage, db, umoney

\* Money moves between balances and reserves.
LEMMA MoneyStep ==
    ASSUME TypeInv,
           \/ \E p \in run.buyer : placeOrder(p)
           \/ \E p, q \in Players : \E amount \in 1 .. reserved[p] :
                    release(p, q, amount)
    PROVE  TypeInv'
  <1> DEFINE Moved == /\ run' = At("list")
                      /\ internal' \in [Players -> Nat]
                      /\ reserved' \in [Players -> Nat]
                      /\ used' \in [DOMAIN NoUse -> Nat]
                      /\ UNCHANGED <<transfers, umoney>>
  <1>1. Moved
    <2>1. ASSUME NEW p \in run.buyer, placeOrder(p)
          PROVE  Moved
      <3>1. p \in Players /\ run.need \in Nat
        BY RunFacts DEF TypeInv, TypeOK
      <3>2. CASE internal[p] >= run.need
        <4>1. /\ internal[p] \in Nat /\ internal[p] - run.need \in Nat
              /\ reserved[p] \in Nat /\ reserved[p] + run.need \in Nat
          BY <3>1, <3>2 DEF TypeInv, TypeOK
        <4>2. /\ internal' = [internal EXCEPT ![p] = internal[p] - run.need]
              /\ reserved' = [reserved EXCEPT ![p] = reserved[p] + run.need]
          BY <2>1, <3>2 DEF placeOrder
        <4> QED BY <2>1, <4>1, <4>2 DEF placeOrder, TypeInv, TypeOK
      <3>3. CASE ~(internal[p] >= run.need)
        BY <2>1, <3>1, <3>3 DEF placeOrder, TypeInv, TypeOK
      <3> QED BY <3>2, <3>3
    <2>2. ASSUME NEW p \in Players, NEW q \in Players,
                 NEW amount \in 1 .. reserved[p], release(p, q, amount)
          PROVE  Moved
      <3>1. used' \in [DOMAIN NoUse -> Nat]
        BY <2>2, UseType DEF release, TypeInv
      <3> QED BY <2>2, <3>1 DEF release, TypeInv, TypeOK
    <2> QED BY <2>1, <2>2
  <1> QED BY <1>1, AtFacts
          DEF TypeInv, TypeOK, Control, Working, Stage, Stages, umoney

\* A power loss, and a change by another plugin.
LEMMA WalletStep ==
    ASSUME TypeInv,
           \/ powerLoss
           \/ \E p \in Players, d \in ExternalDeltas : externalChange(p, d)
    PROVE  TypeInv'
  <1>1. used' \in [DOMAIN NoUse -> Nat]
    BY UseType DEF powerLoss, externalChange, TypeInv
  <1>2. CASE powerLoss
    BY <1>1, <1>2, AtFacts
    DEF powerLoss, TypeInv, TypeOK, Control, Working, Stage, Stages, db
  <1>3. ASSUME NEW p \in Players, NEW d \in ExternalDeltas, externalChange(p, d)
        PROVE  TypeInv'
    <2>1. /\ wallet' \in [Players -> 0 .. MaxUnits]
          /\ external' \in Int
      BY <1>3, ConstantsAssumption DEF externalChange, TypeInv, TypeOK
    <2>2. ~Stage("mutate")
      BY <1>3 DEF externalChange, Stage
    <2> QED BY <1>1, <1>3, <2>1, <2>2
            DEF externalChange, TypeInv, TypeOK, Control, Working, Stage, db
  <1> QED BY <1>2, <1>3


\* A database of an older version holds at most one unfinished deposit.
LEMMA LegacyFacts ==
    ASSUME Init
    PROVE  /\ transfers \in Seq(Transfer)
           /\ applied \in Seq(Nat) /\ Len(applied) = Len(transfers)
           /\ \A t \in DOMAIN transfers :
                /\ transfers[t].before = NoBaseline
                /\ transfers[t].status \in {"PREPARED", "EXTERNAL_APPLIED"}
                /\ applied[t] = IF transfers[t].status = "EXTERNAL_APPLIED"
                                THEN 1 ELSE 0
  <1>1. transfers \in LegacyTransfers
    BY DEF Init
  <1> DEFINE LegacyRows ==
                /\ transfers \in Seq(Transfer)
                /\ \A t \in DOMAIN transfers :
                     /\ transfers[t].before = NoBaseline
                     /\ transfers[t].status \in {"PREPARED", "EXTERNAL_APPLIED"}
  <1>2. LegacyRows
    <2>1. CASE transfers = <<>>
      BY <2>1
    <2>2. ASSUME NEW p \in Players, NEW st \in {"PREPARED", "EXTERNAL_APPLIED"},
                 transfers = <<LegacyTransfer(p, st)>>
          PROVE  LegacyRows
      <3>1. LegacyTransfer(p, st) \in Transfer
        BY DEF LegacyTransfer, Transfer
      <3>2. /\ LegacyTransfer(p, st).before = NoBaseline
            /\ LegacyTransfer(p, st).status = st
        BY DEF LegacyTransfer
      <3> QED BY <2>2, <3>1, <3>2
    <2> QED BY <1>1, <2>1, <2>2 DEF LegacyTransfers
  <1>3. DOMAIN transfers = 1 .. Len(transfers) /\ Len(transfers) \in Nat
    BY <1>2
  <1>4. applied = [t \in 1 .. Len(transfers) |->
                    IF transfers[t].status = "EXTERNAL_APPLIED" THEN 1 ELSE 0]
    BY <1>3 DEF Init
  <1> QED BY <1>2, <1>3, <1>4

\* The initial states have the types.
LEMMA InitType == Init => TypeInv
  <1> SUFFICES ASSUME Init PROVE TypeInv
    OBVIOUS
  <1>1. internal \in [Players -> Nat] /\ reserved \in [Players -> Nat]
    BY ConstantsAssumption DEF Init
  <1>2. wallet \in [Players -> 0 .. MaxUnits] /\ disk = wallet
    BY ConstantsAssumption DEF Init
  <1>3. /\ run \in Run /\ run.stage = "down"
        /\ run.pending = {} /\ run.accounts = {}
    BY AtFacts DEF Init, Stages
  <1>4. used \in [DOMAIN NoUse -> Nat] /\ external \in Int /\ durable = applied
    BY DEF Init, NoUse
  <1>5. hidden \in Nat
    <2>1. IsFiniteSet(Players) /\ \A p \in Players : internal[p] \in Nat
      BY <1>1, ConstantsAssumption
    <2>2. SumFunctionOnSet(internal, Players) \in Nat
      BY <2>1, SumNat
    <2> QED BY <2>2 DEF Init
  <1> QED BY <1>1, <1>2, <1>3, <1>4, <1>5, LegacyFacts
          DEF TypeInv, TypeOK, Control, Working, Stage

\* Where an exception is caught: by the pass, by the handler, or by the caller
\* of processEconomyTransfer.
LEMMA CaughtFacts ==
    ASSUME Caught, run.stage \in {"list", "recover", "fund", "place", "mark",
                                  "complete", "fail", "block"}
    PROVE  \/ \E s \in {"recover", "idle", "list"} : run' = At(s)
           \/ /\ Working /\ Return(FALSE)
              /\ run.stage \in {"mark", "complete", "fail", "block"}
  BY DEF Caught, Stage, Working

\* Every step keeps the types, failures included.
LEMMA StepType == TypeInv /\ [Next]_vars => TypeInv'
  <1> SUFFICES ASSUME TypeInv, [Next]_vars PROVE TypeInv'
    OBVIOUS
  <1>0. used \in [DOMAIN NoUse -> Nat]
    BY DEF TypeInv, TypeOK
  <1>1. CASE UNCHANGED vars
    BY <1>1 DEF vars, TypeInv, TypeOK, Control, Working, Stage, Cur, Expected,
                Delta
  <1>2. CASE \/ onEnable \/ economyTask \/ endSweep
             \/ \E p \in run.buyer : fundingRefused(p)
    <2>1. /\ \E s \in {"refused", "idle", "list"} : run' = At(s)
          /\ UNCHANGED <<db, umoney, used>>
      BY <1>2 DEF onEnable, economyTask, endSweep, fundingRefused
    <2> QED BY <2>1, <1>0, FreshStep
  <1>3. CASE pendingEconomyTransfers \/ nextTransfer \/ positiveBalances
    BY <1>3, ListStep
  <1>4. ASSUME NEW p \in Players, sweepAccount(p)
        PROVE  TypeInv'
    BY <1>4, <1>0, SweepStep DEF sweepAccount, Stage
  <1>5. CASE decide \/ change \/ syncUmoneyData
    BY <1>5, MutateStep
  <1>6. CASE settle
    <2>1. \/ Stage("mark") /\ Goto("complete")
          \/ \E ok \in BOOLEAN : Return(ok)
      BY <1>6 DEF settle, Stage
    <2> QED BY <1>6, <2>1, <1>0, SettleStep DEF settle
  <1>7. ASSUME NEW p \in run.buyer, fundDirectBalance(p)
        PROVE  TypeInv'
    BY <1>7, <1>0, FundStep DEF fundDirectBalance, Stage
  <1>8. CASE \/ \E p \in run.buyer : placeOrder(p)
             \/ \E p, q \in Players : \E amount \in 1 .. reserved[p] :
                    release(p, q, amount)
    BY <1>8, MoneyStep
  <1>9. ASSUME NEW p \in Players, NEW need \in Needs, submitBuy(p, need)
        PROVE  TypeInv'
    BY <1>9, SubmitStep
  <1>10. CASE \/ powerLoss
              \/ \E p \in Players, d \in ExternalDeltas : externalChange(p, d)
    BY <1>10, WalletStep
  <1>11. CASE kill
    <2>1. used' \in [DOMAIN NoUse -> Nat]
      BY <1>11, UseType DEF kill, TypeInv
    <2> QED BY <1>11, <2>1, FreshStep DEF kill
  <1>12. CASE umoneyError
    <2>1. used' \in [DOMAIN NoUse -> Nat]
      BY <1>12, UseType DEF umoneyError, TypeInv
    <2> QED BY <1>12, <2>1, GiveUpStep DEF umoneyError, Working, Stage
  <1>13. CASE databaseError
    <2>1. used' \in [DOMAIN NoUse -> Nat] /\ UNCHANGED <<db, umoney>>
      BY <1>13, UseType DEF databaseError, TypeInv
    <2>2. \/ Stage("sweep") /\ skipAccount
          \/ /\ run.stage \in {"list", "recover", "fund", "place", "mark",
                               "complete", "fail", "block"}
             /\ Caught
      BY <1>13 DEF databaseError, StatusAfter, Stage
    <2>3. CASE Stage("sweep") /\ skipAccount
      BY <2>1, <2>3, GiveUpStep
    <2>4. CASE \E s \in {"recover", "idle", "list"} : run' = At(s)
      BY <2>1, <2>4, FreshStep
    <2>5. CASE Working /\ Return(FALSE)
      BY <2>1, <2>5, GiveUpStep
    <2> QED BY <2>2, <2>3, <2>4, <2>5, CaughtFacts
  <1>14. CASE lostReply
    <2>1. used' \in [DOMAIN NoUse -> Nat]
      BY <1>14, UseType DEF lostReply, TypeInv
    <2>2. Statement /\ UNCHANGED umoney /\ Return(FALSE)
      BY <1>14 DEF lostReply, Caught, Statement, StatusAfter, Stage
    <2> QED BY <2>1, <2>2, SettleStep
  <1>15. CASE lostPrepared
    <2>1. used' \in [DOMAIN NoUse -> Nat]
      BY <1>15, UseType DEF lostPrepared, TypeInv
    <2>2. ASSUME NEW p \in run.accounts, Stage("sweep"),
                 prepareEconomyTransfer(p, "WITHDRAW", WholeUnits(internal[p])),
                 run' = [run EXCEPT !.accounts = @ \ {p}]
          PROVE  TypeInv'
      BY <2>1, <2>2, SweepStep DEF Stage
    <2>3. ASSUME NEW p \in run.buyer, Stage("fund"), Caught,
                 prepareEconomyTransfer(p, "DEPOSIT",
                                        UnitsFor(run.need - internal[p]))
          PROVE  TypeInv'
      <3>1. run' = At("list")
        BY <2>3 DEF Caught, Stage
      <3> QED BY <2>1, <2>3, <3>1, FundStep DEF Stage
    <2> QED BY <1>15, <2>2, <2>3 DEF lostPrepared
  <1> QED BY <1>1, <1>2, <1>3, <1>4, <1>5, <1>6, <1>7, <1>8, <1>9, <1>10,
             <1>11, <1>12, <1>13, <1>14, <1>15
          DEF Next, Settlement, Environment, Failure

\* Types and the facts the stages rely on hold under every kill, power loss,
\* database or UMoney error and lost reply.
THEOREM TypeInvariant == Spec => []TypeInv
  BY InitType, StepType, PTL DEF Spec

\* Balances and reserves never become negative and UMoney is never moved out
\* of its range, whatever fails and wherever the process dies.
THEOREM TypeCorrect == Spec => []TypeOK
  <1>1. TypeInv => TypeOK
    BY DEF TypeInv
  <1> QED BY <1>1, TypeInvariant, PTL


-----------------------------------------------------------------------------
(* Exactly-once settlement, when no call fails *)

\* No call has thrown; and either the process was only killed, while other
\* plugins change UMoney only when the exchange runs, or the machine only lost
\* power, while nobody else changed UMoney.
KillsOnly == used.losses = 0 /\ ~OfflineChanges
PowerOnly == used.kills = 0 /\ used.changes = 0
Calm == used.faults = 0 /\ (KillsOnly \/ PowerOnly)

\* What was calm so far was calm before.
UseGrows ==
    /\ used.kills <= used'.kills /\ used.losses <= used'.losses
    /\ used.faults <= used'.faults /\ used.changes <= used'.changes
LEMMA UseStep == TypeInv /\ [Next]_vars => UseGrows
  <1> SUFFICES ASSUME TypeInv, [Next]_vars PROVE UseGrows
    OBVIOUS
  <1>1. used \in [ops: Nat, kills: Nat, losses: Nat, faults: Nat, changes: Nat]
    BY DEF TypeInv, TypeOK, NoUse
  <1>2. CASE UNCHANGED used
    BY <1>1, <1>2 DEF UseGrows
  <1>3. ASSUME NEW f \in {"ops", "kills", "losses", "faults", "changes"},
               used' = [used EXCEPT ![f] = @ + 1]
        PROVE  UseGrows
    BY <1>1, <1>3 DEF UseGrows
  <1>4. CASE UNCHANGED vars \/ Settlement
    BY <1>2, <1>4 DEF vars, Settlement, onEnable, economyTask,
          pendingEconomyTransfers, nextTransfer, positiveBalances, endSweep,
          sweepAccount, decide, change, syncUmoneyData, settle,
          fundDirectBalance, fundingRefused, placeOrder
  <1>5. CASE Environment \/ Failure
    BY <1>2, <1>3, <1>5 DEF Environment, Failure, submitBuy, release,
          externalChange, databaseError, lostReply, lostPrepared, umoneyError,
          kill, powerLoss, Use
  <1> QED BY <1>4, <1>5 DEF Next

LEMMA CalmBefore ==
    ASSUME TypeInv, [Next]_vars
    PROVE  (PowerOnly' => PowerOnly) /\ (Calm' => Calm)
  <1>1. UseGrows
    BY UseStep
  <1>2. used \in [ops: Nat, kills: Nat, losses: Nat, faults: Nat, changes: Nat]
    BY DEF TypeInv, TypeOK, NoUse
  <1> QED BY <1>1, <1>2 DEF UseGrows, PowerOnly, KillsOnly, Calm

\* A transfer whose effect on UMoney can only be told from the balance.
Open(t) == transfers[t].status = "PREPARED" /\ transfers[t].before # NoBaseline

\* Before or after: the balance tells which, because the units are not zero.
Told(t) ==
    /\ transfers[t].units > 0
    /\ \/ applied[t] = 0 /\ wallet[transfers[t].player] = transfers[t].before
       \/ applied[t] = 1 /\ wallet[transfers[t].player] = Expected(transfers[t])

OpenTold ==
    /\ \A t \in DOMAIN transfers : Open(t) => Told(t)
    /\ \A t, u \in DOMAIN transfers : Open(t) /\ Open(u) => t = u

\* Where an open transfer can be: nowhere while players act, on the list of
\* the pass, or in processing.
OpenPlace ==
    /\ run.stage \in {"idle", "fund", "place", "sweep"}
            => run.pending = {} /\ \A t \in DOMAIN transfers : ~Open(t)
    /\ Stage("recover")
            => \A t \in DOMAIN transfers : Open(t) => t \in run.pending
    /\ Working
            => /\ \A t \in DOMAIN transfers :
                    Open(t) => t = run.cur \/ t \in run.pending
               /\ run.cur \notin run.pending
               /\ run.mode # "recover" => run.pending = {}
    /\ \A t \in run.pending : IsPending(t)

\* What each stage of processEconomyTransfer knows of its transfer.
StageKnows ==
    /\ Stage("decide") => IsPending(run.cur)
    /\ Stage("mutate") \/ Stage("fail") => Open(run.cur) /\ applied[run.cur] = 0
    /\ Stage("sync") \/ Stage("mark") => Open(run.cur) /\ applied[run.cur] = 1
    /\ Stage("complete") => Cur.status = "EXTERNAL_APPLIED"
    /\ Stage("block") => Cur.status = "PREPARED"

\* With power losses only, money.json is synced but between the two halves of
\* UmoneyGateway::change.
Synced ==
    PowerOnly =>
        IF Stage("sync")
        THEN /\ disk = [wallet EXCEPT ![Cur.player] = Cur.before]
             /\ \A t \in DOMAIN transfers :
                    durable[t] = IF t = run.cur THEN 0 ELSE applied[t]
        ELSE disk = wallet /\ durable = applied

OnceInv == ExactlyOnce /\ OpenTold /\ OpenPlace /\ StageKnows /\ Synced

\* Nothing but the control state changes, and it becomes a fresh one.
LEMMA FreshOnce ==
    ASSUME TypeInv, OnceInv, UNCHANGED <<db, umoney>>,
           \/ run' = At("refused")
           \/ run' = At("down") /\ ~PowerOnly'
           \/ run' = At("list")
           \/ run' = At("idle") /\ Stage("sweep"),
           ~Stage("sync") \/ ~PowerOnly', PowerOnly' => PowerOnly
    PROVE  OnceInv'
  <1>1. /\ run'.stage \in {"down", "refused", "list", "idle"}
        /\ run'.stage = "idle" => Stage("sweep")
        /\ run'.pending = {}
        /\ run'.stage = "down" => ~PowerOnly'
    BY AtFacts DEF Stages
  <1>2. ~Working' /\ ~Stage("recover")' /\ ~Stage("sync")'
    BY <1>1 DEF Working, Stage
  <1>3. ExactlyOnce' /\ OpenTold'
    BY DEF OnceInv, ExactlyOnce, OpenTold, Open, Told, db, umoney
  <1>4. OpenPlace'
    BY <1>1, <1>2 DEF OnceInv, OpenPlace, Open, Stage, db
  <1>5. StageKnows'
    BY <1>1 DEF StageKnows, Stage
  <1>6. Synced'
    BY <1>2 DEF OnceInv, Synced, Stage, umoney
  <1> QED BY <1>3, <1>4, <1>5, <1>6 DEF OnceInv

\* The pass lists every open transfer and takes them one by one.
LEMMA ListOnce ==
    ASSUME TypeInv, OnceInv, PowerOnly' => PowerOnly,
           pendingEconomyTransfers \/ nextTransfer \/ positiveBalances
    PROVE  OnceInv'
  <1>1. UNCHANGED <<db, umoney>> /\ ~Stage("sync")
    BY DEF pendingEconomyTransfers, nextTransfer, positiveBalances, Stage
  <1>2. ExactlyOnce' /\ OpenTold'
    BY <1>1 DEF OnceInv, ExactlyOnce, OpenTold, Open, Told, db, umoney
  <1>3. CASE pendingEconomyTransfers
    <2>1. /\ run'.stage = "recover"
          /\ run'.pending = {t \in DOMAIN transfers : IsPending(t)}
      BY <1>3, AtFacts DEF pendingEconomyTransfers, Stages, At
    <2>2. OpenPlace'
      BY <1>1, <2>1 DEF OpenPlace, Open, Working, Stage, IsPending, db
    <2>3. StageKnows' /\ Synced'
      BY <1>1, <2>1 DEF OnceInv, StageKnows, Synced, Stage, umoney
    <2> QED BY <1>2, <2>2, <2>3 DEF OnceInv
  <1>4. CASE nextTransfer
    <2>1. PICK t \in run.pending :
            run' = [run EXCEPT !.stage = "decide", !.mode = "recover",
                               !.cur = t, !.pending = @ \ {t}]
      BY <1>4 DEF nextTransfer
    <2>2. /\ run'.stage = "decide" /\ run'.mode = "recover"
          /\ run'.cur = t /\ run'.pending = run.pending \ {t}
      BY <2>1 DEF TypeInv, TypeOK, Run
    <2>3. Stage("recover")
      BY <1>4 DEF nextTransfer
    <2>4. OpenPlace'
      BY <1>1, <2>2, <2>3 DEF OnceInv, OpenPlace, Open, Working, Stage, IsPending, db
    <2>5. StageKnows' /\ Synced'
      BY <1>1, <2>2, <2>3
      DEF OnceInv, OpenPlace, StageKnows, Synced, Stage, IsPending, db, umoney
    <2> QED BY <1>2, <2>4, <2>5 DEF OnceInv
  <1>5. CASE positiveBalances
    <2>1. run'.stage = "sweep" /\ run'.pending = {}
      BY <1>5, AtFacts DEF positiveBalances, Stages, At
    <2>2. Stage("recover") /\ run.pending = {}
      BY <1>5 DEF positiveBalances
    <2>3. OpenPlace'
      BY <1>1, <2>1, <2>2 DEF OnceInv, OpenPlace, Open, Working, Stage, db
    <2>4. StageKnows' /\ Synced'
      BY <1>1, <2>1 DEF OnceInv, StageKnows, Synced, Stage, umoney
    <2> QED BY <1>2, <2>3, <2>4 DEF OnceInv
  <1> QED BY <1>3, <1>4, <1>5


\* A new transfer is the only open one, and its baseline is the balance now.
LEMMA PrepareOnce ==
    ASSUME TypeInv, OnceInv, PowerOnly' => PowerOnly, NEW p \in Players,
           NEW dir \in {"DEPOSIT", "WITHDRAW"}, NEW units \in Nat, units > 0,
           prepareEconomyTransfer(p, dir, units),
           run.stage \in {"sweep", "fund"},
           run'.stage = "decide", run'.cur = Len(transfers) + 1,
           run'.pending = run.pending
    PROVE  OnceInv'
  <1> DEFINE n == Len(transfers) + 1
             e == [player |-> p, direction |-> dir, units |-> units,
                   before |-> wallet[p], status |-> "PREPARED"]
  <1>1. e \in Transfer /\ wallet[p] \in Nat
    BY ConstantsAssumption DEF TypeInv, TypeOK, Transfer
  <1>2. transfers' = Append(transfers, e)
    BY DEF prepareEconomyTransfer, Prepared
  <1>3. /\ e.player = p /\ e.units = units /\ e.before = wallet[p]
        /\ e.status = "PREPARED"
    OBVIOUS
  <1> HIDE DEF e
  <1>4. /\ DOMAIN transfers' = DOMAIN transfers \cup {n}
        /\ n \notin DOMAIN transfers
        /\ transfers'[n] = e
        /\ \A t \in DOMAIN transfers : transfers'[t] = transfers[t]
    BY <1>1, <1>2, InsertRow DEF TypeInv, TypeOK
  <1>5. /\ applied'[n] = 0
        /\ \A t \in DOMAIN transfers : applied'[t] = applied[t]
        /\ durable = applied => durable' = applied'
        /\ wallet' = wallet /\ disk' = disk
    <2>1. /\ applied \in Seq(Nat) /\ Len(applied) = Len(transfers)
          /\ DOMAIN transfers = 1 .. Len(transfers)
      BY DEF TypeInv, TypeOK
    <2>2. applied' = Append(applied, 0)
      BY DEF prepareEconomyTransfer
    <2> QED BY <2>1, <2>2, InsertRow DEF prepareEconomyTransfer
  <1>6. run.pending = {} /\ \A t \in DOMAIN transfers : ~Open(t)
    BY DEF OnceInv, OpenPlace
  <1>7. \A t \in DOMAIN transfers : ~Open(t)'
    BY <1>4, <1>6 DEF Open
  <1>8. \A t \in {n} : Open(t)' /\ Told(t)'
    BY <1>1, <1>3, <1>4, <1>5 DEF Open, Told, NoBaseline
  <1>9. ExactlyOnce'
    BY <1>3, <1>4, <1>5 DEF OnceInv, ExactlyOnce
  <1>10. OpenTold'
    BY <1>4, <1>7, <1>8 DEF OpenTold
  <1>11. OpenPlace'
    BY <1>4, <1>6, <1>7 DEF OpenPlace, Stage, Working
  <1>12. StageKnows'
    BY <1>3, <1>4 DEF StageKnows, Stage, IsPending
  <1>13. Synced'
    BY <1>5 DEF OnceInv, Synced, Stage
  <1> QED BY <1>9, <1>10, <1>11, <1>12, <1>13 DEF OnceInv

\* The balance tells whether the open transfer was applied.
LEMMA DecideOnce ==
    ASSUME TypeInv, OnceInv, PowerOnly' => PowerOnly, decide
    PROVE  OnceInv'
  <1>1. Working /\ Stage("decide") /\ run.cur \in DOMAIN transfers
    BY DEF decide, Working, Stage, TypeInv, TypeOK
  <1>2. UNCHANGED <<db, umoney>>
    BY DEF decide
  <1>3. /\ run'.stage = Verdict
        /\ run'.cur = run.cur /\ run'.pending = run.pending
        /\ run'.mode = run.mode
    BY DEF decide, Goto, TypeInv, TypeOK, Run
  <1>4. Verdict \in {"mutate", "mark", "complete", "fail", "block"}
    BY <1>1, VerdictFacts
  <1>5. ExactlyOnce' /\ OpenTold'
    BY <1>2 DEF OnceInv, ExactlyOnce, OpenTold, Open, Told, db, umoney
  <1>6. OpenPlace'
    BY <1>1, <1>2, <1>3, <1>4
    DEF OnceInv, OpenPlace, Open, IsPending, Working, Stage, db
  <1>7. StageKnows'
    <2>1. Cur.status \in {"PREPARED", "EXTERNAL_APPLIED"}
      BY <1>1 DEF OnceInv, StageKnows, IsPending, Cur
    <2>2. Cur \in Transfer /\ Delta(Cur) \in Int /\ Cur.before \in Int
      BY <1>1, VerdictFacts, TransferFacts
    <2>3. Verdict \in {"mutate", "fail"}
            => Open(run.cur) /\ applied[run.cur] = 0
      <3>1. SUFFICES ASSUME Verdict \in {"mutate", "fail"}
                     PROVE  Open(run.cur) /\ applied[run.cur] = 0
        OBVIOUS
      <3>2. Open(run.cur) /\ wallet[Cur.player] = Cur.before
        BY <1>1, <2>1, <3>1, VerdictFacts DEF Open, Cur
      <3>3. Told(run.cur)
        BY <1>1, <3>2 DEF OnceInv, OpenTold
      <3> QED BY <2>2, <3>2, <3>3, TransferFacts DEF Told, Cur, Expected, Delta
    <2>4. Verdict = "mark" => Open(run.cur) /\ applied[run.cur] = 1
      <3>1. SUFFICES ASSUME Verdict = "mark"
                     PROVE  Open(run.cur) /\ applied[run.cur] = 1
        OBVIOUS
      <3>2. Open(run.cur) /\ wallet[Cur.player] = Expected(Cur)
        BY <1>1, <2>1, <3>1, VerdictFacts DEF Open, Cur
      <3>3. Told(run.cur)
        BY <1>1, <3>2 DEF OnceInv, OpenTold
      <3> QED BY <2>2, <3>2, <3>3, TransferFacts DEF Told, Cur, Expected, Delta
    <2>5. /\ Verdict = "complete" => Cur.status = "EXTERNAL_APPLIED"
          /\ Verdict = "block" => Cur.status = "PREPARED"
      BY <1>1, <2>1, VerdictFacts
    <2> QED BY <1>2, <1>3, <1>4, <2>3, <2>4, <2>5
            DEF StageKnows, Stage, Open, Cur, db, umoney
  <1>8. Synced'
    BY <1>1, <1>2, <1>3, <1>4 DEF OnceInv, Synced, Stage, umoney
  <1> QED BY <1>5, <1>6, <1>7, <1>8 DEF OnceInv

\* UMoney is changed once, from the baseline to the expected balance.
LEMMA ChangeOnce ==
    ASSUME TypeInv, OnceInv, PowerOnly' => PowerOnly, change
    PROVE  OnceInv'
  <1>1. /\ Stage("mutate") /\ Working /\ run.cur \in DOMAIN transfers
        /\ UNCHANGED <<transfers, disk, durable>>
    BY DEF change, Working, Stage, TypeInv, TypeOK, db
  <1>2. /\ run'.stage = "sync"
        /\ run'.cur = run.cur /\ run'.pending = run.pending
        /\ run'.mode = run.mode
    BY DEF change, Goto, TypeInv, TypeOK, Run
  <1>3. Open(run.cur) /\ applied[run.cur] = 0 /\ wallet[Cur.player] = Cur.before
    BY <1>1 DEF OnceInv, StageKnows, TypeInv, Control
  <1>4. Cur \in Transfer /\ Cur.player \in Players /\ Cur' = Cur
    BY <1>1, <1>2, VerdictFacts, TransferFacts DEF Cur
  <1>5. /\ applied' = [applied EXCEPT ![run.cur] = 1]
        /\ wallet' = [wallet EXCEPT ![Cur.player] = Expected(Cur)]
    BY <1>3 DEF change, Expected
  <1>6. /\ applied'[run.cur] = 1
        /\ \A t \in DOMAIN transfers \ {run.cur} : applied'[t] = applied[t]
        /\ wallet'[Cur.player] = Expected(Cur)
    BY <1>1, <1>4, <1>5 DEF TypeInv, TypeOK
  <1>7. ExactlyOnce'
    BY <1>1, <1>3, <1>6 DEF OnceInv, ExactlyOnce, Open
  <1>8. \A t \in {run.cur} : Told(t)'
    BY <1>1, <1>3, <1>6 DEF OnceInv, OpenTold, Told, Cur, Expected, Delta
  <1>9. \A t \in DOMAIN transfers : Open(t) => t = run.cur
    BY <1>1, <1>3 DEF OnceInv, OpenTold
  <1>10. OpenTold'
    BY <1>1, <1>8, <1>9 DEF OpenTold, Open
  <1>11. OpenPlace'
    BY <1>1, <1>2 DEF OnceInv, OpenPlace, Open, IsPending, Working, Stage
  <1>12. StageKnows'
    BY <1>1, <1>2, <1>3, <1>6 DEF StageKnows, Stage, Open
  <1>13. Synced'
    <2>1. SUFFICES ASSUME PowerOnly'
                   PROVE  /\ disk = [wallet' EXCEPT ![Cur.player] = Cur.before]
                          /\ \A t \in DOMAIN transfers :
                                durable[t] = IF t = run.cur THEN 0
                                             ELSE applied'[t]
      BY <1>1, <1>2, <1>4 DEF Synced, Stage
    <2>2. disk = wallet /\ durable = applied
      BY <1>1, <2>1 DEF OnceInv, Synced, Stage
    <2>3. wallet = [wallet' EXCEPT ![Cur.player] = Cur.before]
      BY <1>3, <1>4, <1>5 DEF TypeInv, TypeOK
    <2> QED BY <1>3, <1>6, <2>2, <2>3
  <1> QED BY <1>7, <1>10, <1>11, <1>12, <1>13 DEF OnceInv


\* After the fsync the file holds the change.
LEMMA SyncOnce ==
    ASSUME TypeInv, OnceInv, PowerOnly' => PowerOnly, syncUmoneyData
    PROVE  OnceInv'
  <1>1. /\ Stage("sync") /\ Working
        /\ UNCHANGED <<transfers, wallet, applied>>
        /\ disk' = wallet' /\ durable' = applied'
    BY DEF syncUmoneyData, SyncFile, Working, Stage, db
  <1>2. PICK s \in {"mark", "block"} : run' = [run EXCEPT !.stage = s]
    BY DEF syncUmoneyData, Goto
  <1>3. /\ run'.stage \in {"mark", "block"}
        /\ run'.cur = run.cur /\ run'.pending = run.pending
        /\ run'.mode = run.mode
    BY <1>2 DEF TypeInv, TypeOK, Run
  <1>4. ExactlyOnce' /\ OpenTold'
    BY <1>1 DEF OnceInv, ExactlyOnce, OpenTold, Open, Told
  <1>5. OpenPlace'
    BY <1>1, <1>3 DEF OnceInv, OpenPlace, Open, IsPending, Working, Stage
  <1>6. StageKnows'
    BY <1>1, <1>3 DEF OnceInv, StageKnows, Stage, Open, Cur
  <1>7. Synced'
    BY <1>1, <1>3 DEF Synced, Stage
  <1> QED BY <1>4, <1>5, <1>6, <1>7 DEF OnceInv

\* The recorded outcome is what happened, and the transfer is no longer open.
LEMMA SettleOnce ==
    ASSUME TypeInv, OnceInv, PowerOnly' => PowerOnly, settle
    PROVE  OnceInv'
  <1>1. /\ Working /\ run.cur \in DOMAIN transfers
        /\ DOMAIN transfers' = DOMAIN transfers
        /\ transfers'[run.cur] =
             [transfers[run.cur] EXCEPT !.status = StatusAfter[run.stage]]
        /\ \A t \in DOMAIN transfers \ {run.cur} : transfers'[t] = transfers[t]
    BY StatementFacts DEF settle
  <1>2. run.stage \in {"mark", "complete", "fail", "block"}
    BY DEF settle, Statement, StatusAfter
  <1>3. transfers[run.cur] \in Transfer
    BY <1>1 DEF TypeInv, TypeOK
  <1>4. /\ run.stage = "mark" => transfers'[run.cur].status = "EXTERNAL_APPLIED"
        /\ run.stage = "complete" => transfers'[run.cur].status = "COMPLETED"
        /\ run.stage = "fail" => transfers'[run.cur].status = "FAILED"
        /\ run.stage = "block" => transfers'[run.cur].status = "BLOCKED"
    <2>1. transfers'[run.cur].status = StatusAfter[run.stage]
      BY <1>1, <1>3 DEF Transfer
    <2> QED BY <2>1 DEF StatusAfter
  <1>5. UNCHANGED <<wallet, disk, applied, durable>>
    BY DEF settle, umoney
  <1>6. \A t \in DOMAIN transfers : Open(t)' => t # run.cur /\ Open(t)
    BY <1>1, <1>2, <1>4 DEF Open
  <1>7. ExactlyOnce'
    <2>1. /\ applied[run.cur] <= 1
          /\ run.stage \in {"mark", "complete"} => applied[run.cur] = 1
          /\ run.stage = "fail" => applied[run.cur] = 0
      BY <1>1 DEF OnceInv, ExactlyOnce, StageKnows, Stage, Cur
    <2> QED BY <1>1, <1>2, <1>4, <1>5, <2>1 DEF OnceInv, ExactlyOnce
  <1>8. OpenTold'
    BY <1>1, <1>5, <1>6 DEF OnceInv, OpenTold, Told, Open, Expected, Delta
  <1>9. \A t \in run.pending : t \in DOMAIN transfers /\ IsPending(t)'
    BY <1>1 DEF OnceInv, OpenPlace, IsPending, TypeInv, TypeOK
  <1>10. \A t \in DOMAIN transfers : Open(t)' => t \in run.pending
    BY <1>1, <1>6 DEF OnceInv, OpenPlace
  <1>11. CASE run.stage = "mark"
    <2>1. /\ run'.stage = "complete" /\ run'.cur = run.cur
          /\ run'.pending = run.pending /\ run'.mode = run.mode
      BY <1>11 DEF settle, Stage, Goto, TypeInv, TypeOK, Run
    <2>2. OpenPlace'
      BY <1>1, <1>9, <1>10, <2>1 DEF OnceInv, OpenPlace, Working, Stage
    <2>3. StageKnows'
      BY <1>4, <1>11, <2>1 DEF StageKnows, Stage, Cur
    <2>4. Synced'
      BY <1>5, <1>11, <2>1 DEF OnceInv, Synced, Stage
    <2> QED BY <1>7, <1>8, <2>2, <2>3, <2>4 DEF OnceInv
  <1>12. CASE run.stage # "mark"
    <2>1. PICK ok \in BOOLEAN : Return(ok)
      BY <1>12 DEF settle, Stage
    <2>2. /\ run'.stage \in {"recover", "sweep", "place", "list"}
          /\ run'.pending \subseteq run.pending
          /\ run'.stage = "recover" => run'.pending = run.pending
          /\ run'.stage \in {"sweep", "place"} => run.mode # "recover"
      <3>1. CASE run.mode = "fund" /\ ~ok
        BY <2>1, <3>1, AtFacts DEF Return, Stages
      <3>2. CASE run.mode = "fund" /\ ok
        BY <2>1, <3>2 DEF Return, TypeInv, TypeOK, Run
      <3>3. CASE run.mode # "fund"
        <4>1. run.mode \in {"recover", "sweep"}
          BY <3>3, RunFacts DEF TypeInv, TypeOK
        <4> QED BY <2>1, <3>3, <4>1 DEF Return, TypeInv, TypeOK, Run
      <3> QED BY <3>1, <3>2, <3>3
    <2>3. run.mode # "recover" => run.pending = {}
      BY <1>1 DEF OnceInv, OpenPlace
    <2>4. OpenPlace'
      BY <1>1, <1>9, <1>10, <2>2, <2>3 DEF OpenPlace, Working, Stage
    <2>5. StageKnows'
      BY <2>2 DEF StageKnows, Stage
    <2>6. Synced'
      BY <1>2, <1>5, <2>2 DEF OnceInv, Synced, Stage
    <2> QED BY <1>7, <1>8, <2>4, <2>5, <2>6 DEF OnceInv
  <1> QED BY <1>11, <1>12

\* Players act only while no transfer is open.
LEMMA PlayerOnce ==
    ASSUME TypeInv, OnceInv, PowerOnly' => PowerOnly,
           \/ \E p \in Players, need \in Needs : submitBuy(p, need)
           \/ \E p \in run.buyer : placeOrder(p)
           \/ \E p, q \in Players : \E amount \in 1 .. reserved[p] :
                    release(p, q, amount)
    PROVE  OnceInv'
  <1>1. run.stage \in {"idle", "place"} /\ UNCHANGED <<transfers, umoney>>
    BY DEF submitBuy, placeOrder, release, Stage, db
  <1>2. run'.stage \in {"place", "fund", "list"} /\ run'.pending = {}
    <2>1. ASSUME NEW p \in Players, NEW need \in Needs, submitBuy(p, need)
          PROVE  run'.stage \in {"place", "fund"} /\ run'.pending = {}
      <3>1. PICK s \in {"place", "fund"} :
                run' = [At(s) EXCEPT !.mode = "fund", !.buyer = {p},
                                     !.need = need]
        BY <2>1 DEF submitBuy
      <3> QED BY <3>1 DEF At
    <2>2. CASE run' = At("list")
      BY <2>2, AtFacts DEF Stages
    <2> QED BY <2>1, <2>2 DEF placeOrder, release
  <1>3. ExactlyOnce' /\ OpenTold'
    BY <1>1 DEF OnceInv, ExactlyOnce, OpenTold, Open, Told, umoney
  <1>4. OpenPlace'
    BY <1>1, <1>2 DEF OnceInv, OpenPlace, Open, Working, Stage
  <1>5. StageKnows' /\ Synced'
    BY <1>1, <1>2 DEF OnceInv, StageKnows, Synced, Stage, umoney
  <1> QED BY <1>3, <1>4, <1>5 DEF OnceInv

\* Other plugins change UMoney only while no transfer is open.
LEMMA ExternalOnce ==
    ASSUME TypeInv, OnceInv, PowerOnly' => PowerOnly, Calm',
           NEW p \in Players, NEW d \in ExternalDeltas, externalChange(p, d)
    PROVE  OnceInv'
  <1>1. ~PowerOnly' /\ Stage("idle")
    <2>1. ~PowerOnly'
      BY DEF externalChange, Use, PowerOnly, TypeInv, TypeOK, NoUse
    <2> QED BY <2>1 DEF Calm, KillsOnly, externalChange
  <1>2. UNCHANGED <<transfers, run, applied>>
    BY DEF externalChange, db
  <1>3. \A t \in DOMAIN transfers : ~Open(t)
    BY <1>1 DEF OnceInv, OpenPlace, Stage
  <1>4. ExactlyOnce' /\ OpenTold'
    BY <1>2, <1>3 DEF OnceInv, ExactlyOnce, OpenTold, Open
  <1>5. OpenPlace' /\ StageKnows' /\ Synced'
    BY <1>1, <1>2
    DEF OnceInv, OpenPlace, StageKnows, Synced, Open, IsPending, Working, Stage
  <1> QED BY <1>4, <1>5 DEF OnceInv

\* A power loss takes back at most the change that was not recorded yet.
LEMMA PowerOnce ==
    ASSUME TypeInv, OnceInv, PowerOnly' => PowerOnly, Calm', powerLoss
    PROVE  OnceInv'
  <1>1. PowerOnly
    BY DEF powerLoss, Use, Calm, KillsOnly, TypeInv, TypeOK, NoUse
  <1>2. /\ UNCHANGED <<transfers, disk, durable>>
        /\ wallet' = disk /\ applied' = durable
        /\ run'.stage = "down" /\ run'.pending = {}
    BY AtFacts DEF powerLoss, db, Stages
  <1>3. OpenPlace' /\ StageKnows' /\ Synced'
    BY <1>2 DEF OpenPlace, StageKnows, Synced, Working, Stage
  <1>4. CASE ~Stage("sync")
    <2>1. UNCHANGED <<transfers, wallet, applied>>
      BY <1>1, <1>2, <1>4 DEF OnceInv, Synced
    <2> QED BY <1>3, <2>1 DEF OnceInv, ExactlyOnce, OpenTold, Open, Told
  <1>5. CASE Stage("sync")
    <2>1. /\ disk = [wallet EXCEPT ![Cur.player] = Cur.before]
          /\ \A t \in DOMAIN transfers :
                durable[t] = IF t = run.cur THEN 0 ELSE applied[t]
      BY <1>1, <1>5 DEF OnceInv, Synced
    <2>2. Working /\ run.cur \in DOMAIN transfers /\ Open(run.cur)
      BY <1>5 DEF Working, Stage, TypeInv, TypeOK, OnceInv, StageKnows
    <2>3. Cur.player \in Players
      BY <2>2, VerdictFacts, TransferFacts
    <2>4. ExactlyOnce'
      BY <1>2, <2>1, <2>2 DEF OnceInv, ExactlyOnce, Open
    <2>5. \A t \in {run.cur} : Told(t)'
      <3>1. wallet'[Cur.player] = Cur.before /\ applied'[run.cur] = 0
        BY <1>2, <2>1, <2>2, <2>3 DEF TypeInv, TypeOK
      <3> QED BY <1>2, <2>2, <3>1 DEF OnceInv, OpenTold, Told, Cur
    <2>6. \A t \in DOMAIN transfers : Open(t)' => t = run.cur
      BY <1>2, <2>2 DEF OnceInv, OpenTold, Open
    <2>7. OpenTold'
      BY <1>2, <2>5, <2>6 DEF OpenTold
    <2> QED BY <1>3, <2>4, <2>7 DEF OnceInv
  <1> QED BY <1>4, <1>5


\* The inductive invariant holds initially.
LEMMA InitOnce == Init => OnceInv
  <1> SUFFICES ASSUME Init PROVE OnceInv
    OBVIOUS
  <1>1. run.stage = "down" /\ run.pending = {}
    BY AtFacts DEF Init, Stages
  <1>2. \A t \in DOMAIN transfers : ~Open(t)
    BY LegacyFacts DEF Open
  <1>3. ExactlyOnce
    BY LegacyFacts DEF ExactlyOnce
  <1>4. disk = wallet /\ durable = applied
    BY DEF Init
  <1> QED BY <1>1, <1>2, <1>3, <1>4
          DEF OnceInv, OpenTold, OpenPlace, StageKnows, Synced, Working, Stage

\* Every step that Calm allows keeps the inductive invariant.
LEMMA StepOnce == TypeInv /\ (Calm => OnceInv) /\ [Next]_vars => (Calm' => OnceInv')
  <1> SUFFICES ASSUME TypeInv, OnceInv, [Next]_vars, PowerOnly' => PowerOnly, Calm'
               PROVE  OnceInv'
    BY CalmBefore
  <1>1. CASE UNCHANGED vars
    BY <1>1 DEF vars, OnceInv, ExactlyOnce, OpenTold, Open, Told, OpenPlace,
                IsPending, StageKnows, Synced, Working, Stage, Cur
  <1>2. CASE \/ onEnable \/ economyTask \/ endSweep
             \/ \E p \in run.buyer : fundingRefused(p)
    <2>1. /\ \/ run' = At("refused") \/ run' = At("list")
             \/ run' = At("idle") /\ Stage("sweep")
          /\ ~Stage("sync")
          /\ UNCHANGED <<db, umoney>>
      BY <1>2 DEF onEnable, economyTask, endSweep, fundingRefused, Stage
    <2> QED BY <2>1, FreshOnce
  <1>3. CASE pendingEconomyTransfers \/ nextTransfer \/ positiveBalances
    BY <1>3, ListOnce
  <1>4. ASSUME NEW p \in Players, sweepAccount(p)
        PROVE  OnceInv'
    <2>1. internal[p] \in Nat /\ internal[p] >= UnitCents
      BY <1>4 DEF sweepAccount, TypeInv, TypeOK, Control
    <2>2. /\ run'.stage = "decide" /\ run'.cur = Len(transfers) + 1
          /\ run'.pending = run.pending
      BY <1>4 DEF sweepAccount, TypeInv, TypeOK, Run
    <2> QED BY <1>4, <2>1, <2>2, WholeUnitsFacts, PrepareOnce
            DEF sweepAccount, Stage
  <1>5. ASSUME NEW p \in run.buyer, fundDirectBalance(p)
        PROVE  OnceInv'
    <2>1. /\ p \in Players
          /\ run.need - internal[p] \in Nat /\ run.need - internal[p] > 0
      BY <1>5, RunFacts DEF fundDirectBalance, TypeInv, TypeOK, Control
    <2>2. /\ run'.stage = "decide" /\ run'.cur = Len(transfers) + 1
          /\ run'.pending = run.pending
      BY <1>5 DEF fundDirectBalance, TypeInv, TypeOK, Run
    <2> QED BY <1>5, <2>1, <2>2, UnitsForFacts, PrepareOnce
            DEF fundDirectBalance, Stage
  <1>6. CASE decide \/ change \/ syncUmoneyData \/ settle
    BY <1>6, DecideOnce, ChangeOnce, SyncOnce, SettleOnce
  <1>7. CASE \/ \E p \in Players, need \in Needs : submitBuy(p, need)
             \/ \E p \in run.buyer : placeOrder(p)
             \/ \E p, q \in Players : \E amount \in 1 .. reserved[p] :
                    release(p, q, amount)
    BY <1>7, PlayerOnce
  <1>8. CASE \/ powerLoss
             \/ \E p \in Players, d \in ExternalDeltas : externalChange(p, d)
    BY <1>8, PowerOnce, ExternalOnce
  <1>9. CASE kill
    <2>1. ~PowerOnly'
      BY <1>9 DEF kill, Use, PowerOnly, TypeInv, TypeOK, NoUse
    <2> QED BY <1>9, <2>1, FreshOnce DEF kill
  <1>10. CASE databaseError \/ lostReply \/ lostPrepared \/ umoneyError
    <2>1. Use("faults", MaxFaults)
      BY <1>10 DEF databaseError, lostReply, lostPrepared, umoneyError
    <2>2. used.faults \in Nat /\ used'.faults = used.faults + 1
      BY <2>1 DEF Use, TypeInv, TypeOK, NoUse
    <2> QED BY <2>2 DEF Calm
  <1> QED BY <1>1, <1>2, <1>3, <1>4, <1>5, <1>6, <1>7, <1>8, <1>9, <1>10
          DEF Next, Settlement, Environment, Failure

\* A transfer is applied to UMoney exactly once, wherever the process is killed
\* and however often (or wherever power is lost), as long as no call has failed.
THEOREM ExactlyOnceHolds == Spec => [](Calm => ExactlyOnce)
  <1>1. OnceInv => ExactlyOnce
    BY DEF OnceInv
  <1> QED BY <1>1, StepOnce, InitOnce, TypeInvariant, PTL DEF Spec

\* What is recorded as EXTERNAL_APPLIED is on disk, so that no power loss can
\* take it back, as long as nothing but the power has failed.
THEOREM DurableUnderPowerLossHolds == Spec => []DurableUnderPowerLoss
  <1>1. TypeInv /\ OnceInv /\ PowerOnly => AppliedIsDurable
    BY DEF TypeInv, TypeOK, OnceInv, ExactlyOnce, StageKnows, Synced, Open,
           AppliedIsDurable
  <1>2. TypeInv /\ (Calm => OnceInv) => DurableUnderPowerLoss
    BY <1>1 DEF DurableUnderPowerLoss, Calm, PowerOnly
  <1> QED BY <1>2, StepOnce, InitOnce, TypeInvariant, PTL DEF Spec


-----------------------------------------------------------------------------
(* Funding covers the order, whatever fails *)

\* The deposit being processed for an order covers what the order lacks.
FundInv ==
    /\ \A p, q \in run.buyer : p = q
    /\ Working /\ run.mode = "fund" =>
        /\ Cur.direction = "DEPOSIT"
        /\ \A p \in run.buyer : /\ p = Cur.player
                                /\ internal[p] + cents(Cur) >= run.need
    /\ FundingSuffices

\* A step after which no order is being funded.
LEMMA NotFunding ==
    ASSUME run'.stage # "place", ~Working' \/ run'.mode # "fund",
           run'.buyer \subseteq run.buyer, FundInv
    PROVE  FundInv'
  BY DEF FundInv, FundingSuffices, Stage

\* The order is covered once the deposit of its funding was credited.
LEMMA StepFund == TypeInv /\ FundInv /\ [Next]_vars => FundInv'
  <1> SUFFICES ASSUME TypeInv, FundInv, [Next]_vars PROVE FundInv'
    OBVIOUS
  <1>1. CASE UNCHANGED vars
    BY <1>1 DEF vars, FundInv, FundingSuffices, Working, Stage, Cur, cents
  <1>2. CASE \E s \in {"down", "refused", "idle", "list", "recover"} : run' = At(s)
    <2>1. run'.stage \in {"down", "refused", "idle", "list", "recover"}
          /\ run'.buyer = {}
      BY <1>2, AtFacts DEF Stages
    <2> QED BY <2>1, NotFunding DEF Working
  <1>3. CASE pendingEconomyTransfers \/ nextTransfer \/ positiveBalances
    <2>1. CASE pendingEconomyTransfers
      <3>1. run'.stage = "recover" /\ run'.buyer = {}
        BY <2>1 DEF pendingEconomyTransfers, At
      <3> QED BY <3>1, NotFunding DEF Working
    <2>2. CASE nextTransfer
      <3>1. /\ run'.stage = "decide" /\ run'.mode = "recover"
            /\ run'.buyer = run.buyer
        BY <2>2 DEF nextTransfer, TypeInv, TypeOK, Run
      <3> QED BY <3>1, NotFunding
    <2>3. CASE positiveBalances
      <3>1. run'.stage = "sweep" /\ run'.buyer = {}
        BY <2>3 DEF positiveBalances, At
      <3> QED BY <3>1, NotFunding DEF Working
    <2> QED BY <1>3, <2>1, <2>2, <2>3
  <1>4. ASSUME NEW p \in Players, sweepAccount(p)
        PROVE  FundInv'
    <2>1. /\ run'.stage = "decide" /\ run'.mode = "sweep"
          /\ run'.buyer = run.buyer
      BY <1>4 DEF sweepAccount, TypeInv, TypeOK, Run
    <2> QED BY <2>1, NotFunding
  <1>5. ASSUME NEW p \in run.buyer, fundDirectBalance(p)
        PROVE  FundInv'
    <2> DEFINE units == UnitsFor(run.need - internal[p])
               e == [player |-> p, direction |-> "DEPOSIT", units |-> units,
                     before |-> wallet[p], status |-> "PREPARED"]
    <2>1. /\ p \in Players /\ internal[p] \in Nat /\ run.need \in Nat
          /\ run.need - internal[p] \in Nat /\ run.need - internal[p] > 0
      BY <1>5, RunFacts DEF fundDirectBalance, TypeInv, TypeOK, Control
    <2>2. units \in Nat /\ units * UnitCents >= run.need - internal[p]
      BY <2>1, UnitsForFacts
    <2>3. units * UnitCents \in Nat
      BY <2>2, ConstantsAssumption
    <2>4. transfers' = Append(transfers, e) /\ internal' = internal
      BY <1>5 DEF fundDirectBalance, prepareEconomyTransfer, Prepared
    <2>5. e \in Transfer
      BY <2>1, <2>2, ConstantsAssumption DEF TypeInv, TypeOK, Transfer
    <2>6. /\ e.player = p /\ e.direction = "DEPOSIT"
          /\ cents(e) = units * UnitCents
      BY DEF cents
    <2> HIDE DEF e, units
    <2>7. transfers'[Len(transfers) + 1] = e
      BY <2>4, <2>5, InsertRow DEF TypeInv, TypeOK
    <2>8. /\ run'.stage = "decide" /\ run'.cur = Len(transfers) + 1
          /\ run'.buyer = run.buyer /\ run'.need = run.need
      BY <1>5 DEF fundDirectBalance, TypeInv, TypeOK, Run
    <2>9. Cur' = e
      BY <2>7, <2>8 DEF Cur
    <2>10. cents(Cur)' = units * UnitCents
      BY <2>6, <2>9 DEF cents
    <2>11. \A q \in run.buyer : q = p
      BY DEF FundInv
    <2>12. internal[p] + units * UnitCents >= run.need
      BY <2>1, <2>2, <2>3
    <2> QED BY <2>4, <2>6, <2>8, <2>9, <2>10, <2>11, <2>12
            DEF FundInv, FundingSuffices, Stage
  <1>6. CASE decide \/ change \/ syncUmoneyData
    <2>1. Working /\ UNCHANGED <<internal, transfers>>
      BY <1>6 DEF decide, change, syncUmoneyData, Working, Stage, db
    <2>2. PICK s \in {"mutate", "sync", "mark", "complete", "fail", "block"} :
            run' = [run EXCEPT !.stage = s]
      BY <1>6, <2>1, VerdictFacts DEF decide, change, syncUmoneyData, Goto
    <2>3. /\ run'.stage \in {"mutate", "sync", "mark", "complete", "fail",
                             "block"}
          /\ run'.cur = run.cur /\ run'.mode = run.mode
          /\ run'.buyer = run.buyer /\ run'.need = run.need
      BY <2>2 DEF TypeInv, TypeOK, Run
    <2> QED BY <2>1, <2>3 DEF FundInv, FundingSuffices, Stage, Cur, cents
  <1>7. ASSUME Statement, \/ Stage("mark") /\ Goto("complete")
                          \/ Return(Stage("complete")) \/ Return(FALSE)
        PROVE  FundInv'
    <2>1. /\ Working /\ run.cur \in DOMAIN transfers
          /\ transfers'[run.cur] =
               [transfers[run.cur] EXCEPT !.status = StatusAfter[run.stage]]
          /\ internal' \in [Players -> Nat]
          /\ \A p \in Players : internal'[p] >= internal[p]
      BY <1>7, StatementFacts
    <2>2. Cur \in Transfer /\ cents(Cur) \in Nat
      BY <2>1, VerdictFacts, TransferFacts
    <2>3. run.buyer \subseteq Players /\ run.need \in Nat
      BY RunFacts DEF TypeInv, TypeOK
    <2>4. CASE Stage("mark") /\ Goto("complete")
      <3>1. /\ run'.stage = "complete" /\ run'.cur = run.cur
            /\ run'.mode = run.mode /\ run'.buyer = run.buyer
            /\ run'.need = run.need
        BY <2>4 DEF Goto, TypeInv, TypeOK, Run
      <3>2. internal' = internal
        BY <1>7, <2>4 DEF Statement, Credited, Stage
      <3>3. /\ Cur'.player = Cur.player /\ Cur'.direction = Cur.direction
            /\ Cur'.units = Cur.units
        BY <2>1, <2>2, <3>1 DEF Cur, Transfer
      <3> QED BY <2>1, <3>1, <3>2, <3>3
              DEF FundInv, FundingSuffices, Stage, cents
    <2>5. CASE Return(Stage("complete")) \/ Return(FALSE)
      <3>1. CASE run.mode = "fund" /\ run' = [run EXCEPT !.stage = "place"]
                 /\ Stage("complete")
        <4>1. /\ run'.stage = "place" /\ run'.buyer = run.buyer
              /\ run'.need = run.need
          BY <3>1 DEF TypeInv, TypeOK, Run
        <4>2. Credited(Cur) /\ \A p \in run.buyer : p = Cur.player
          BY <2>1, <3>1 DEF FundInv, Credited
        <4>3. internal' = [internal EXCEPT
                            ![Cur.player] = internal[Cur.player] + cents(Cur)]
          BY <1>7, <4>2 DEF Statement, Credit
        <4>4. \A p \in run.buyer : internal'[p] >= run.need
          BY <2>1, <2>3, <3>1, <4>2, <4>3 DEF FundInv, TypeInv, TypeOK
        <4> QED BY <4>1, <4>4 DEF FundInv, FundingSuffices, Working, Stage
      <3>2. CASE run.mode = "fund" /\ run' = At("list")
        BY <1>2, <3>2
      <3>3. CASE run.mode # "fund" /\ run' = [run EXCEPT !.stage = run.mode]
        <4>1. run'.stage \in {"recover", "sweep"} /\ run'.buyer = run.buyer
          BY <3>3, RunFacts DEF TypeInv, TypeOK, Run
        <4> QED BY <4>1, NotFunding DEF Working
      <3> QED BY <2>5, <3>1, <3>2, <3>3 DEF Return
    <2> QED BY <1>7, <2>4, <2>5
  <1>8. ASSUME NEW p \in Players, NEW need \in Needs, submitBuy(p, need)
        PROVE  FundInv'
    <2>1. PICK s \in {"place", "fund"} :
            /\ s = "place" => internal[p] >= need
            /\ run' = [At(s) EXCEPT !.mode = "fund", !.buyer = {p},
                                    !.need = need]
      BY <1>8 DEF submitBuy
    <2>2. /\ run'.stage = s /\ run'.buyer = {p} /\ run'.need = need
      BY <2>1 DEF At
    <2>3. internal' = internal
      BY <1>8 DEF submitBuy, db
    <2> QED BY <2>1, <2>2, <2>3 DEF FundInv, FundingSuffices, Working, Stage
  <1>9. CASE \E p \in Players, d \in ExternalDeltas : externalChange(p, d)
    BY <1>9 DEF externalChange, FundInv, FundingSuffices, Working, Stage, db
  <1>10. CASE umoneyError \/ databaseError
    <2>1. UNCHANGED <<db, umoney>>
      BY <1>10 DEF umoneyError, databaseError
    <2>2. \/ \E s \in {"idle", "list", "recover"} : run' = At(s)
          \/ Stage("sweep") /\ skipAccount
          \/ run.mode # "fund" /\ run' = [run EXCEPT !.stage = run.mode]
      BY <1>10 DEF umoneyError, databaseError, Caught, Return
    <2>3. CASE Stage("sweep") /\ skipAccount
      <3>1. run'.stage = "sweep" /\ run'.buyer = run.buyer
        BY <2>3 DEF skipAccount, Stage, TypeInv, TypeOK, Run
      <3> QED BY <3>1, NotFunding DEF Working
    <2>4. CASE run.mode # "fund" /\ run' = [run EXCEPT !.stage = run.mode]
      <3>1. run'.stage \in {"recover", "sweep"} /\ run'.buyer = run.buyer
        BY <2>4, RunFacts DEF TypeInv, TypeOK, Run
      <3> QED BY <3>1, NotFunding DEF Working
    <2> QED BY <1>2, <2>2, <2>3, <2>4
  <1>11. CASE lostPrepared
    <2>1. ASSUME NEW p \in run.accounts, Stage("sweep"),
                 run' = [run EXCEPT !.accounts = @ \ {p}]
          PROVE  FundInv'
      <3>1. run'.stage = "sweep" /\ run'.buyer = run.buyer
        BY <2>1 DEF Stage, TypeInv, TypeOK, Run
      <3> QED BY <3>1, NotFunding DEF Working
    <2>2. CASE Stage("fund") /\ Caught
      BY <1>2, <2>2 DEF Caught, Stage
    <2> QED BY <1>11, <2>1, <2>2 DEF lostPrepared
  <1>12. CASE settle \/ lostReply
    <2>1. Statement /\ (\/ Stage("mark") /\ Goto("complete")
                        \/ Return(Stage("complete")) \/ Return(FALSE))
      BY <1>12 DEF settle, lostReply, Caught, Statement, StatusAfter, Stage
    <2> QED BY <1>7, <2>1
  <1>13. CASE \/ onEnable \/ economyTask \/ endSweep \/ kill \/ powerLoss
              \/ \E p \in run.buyer : fundingRefused(p) \/ placeOrder(p)
              \/ \E p, q \in Players : \E amount \in 1 .. reserved[p] :
                    release(p, q, amount)
    <2>1. \E s \in {"down", "refused", "idle", "list"} : run' = At(s)
      BY <1>13 DEF onEnable, economyTask, endSweep, kill, powerLoss,
                   fundingRefused, placeOrder, release
    <2> QED BY <1>2, <2>1
  <1> QED BY <1>1, <1>3, <1>4, <1>5, <1>6, <1>8, <1>9, <1>10, <1>11, <1>12,
             <1>13 DEF Next, Settlement, Environment, Failure

\* An order is placed only with the money for it: rounding the shortage up to
\* whole units always suffices, under every failure.
THEOREM FundingSufficesHolds == Spec => []FundingSuffices
  <1>1. Init => FundInv
    <2>1. ASSUME Init PROVE run.stage = "down" /\ run.buyer = {}
      BY <2>1, AtFacts DEF Init, Stages
    <2> QED BY <2>1 DEF FundInv, FundingSuffices, Working, Stage
  <1>2. FundInv => FundingSuffices
    BY DEF FundInv
  <1> QED BY <1>1, <1>2, StepFund, TypeInvariant, PTL DEF Spec

-----------------------------------------------------------------------------
(* What the exchange owes is what UMoney paid in, whatever fails, and the  *)
(* free balances the first start let in                                    *)

\* What a transfer keeps out of the exchange balances (a withdrawal that did
\* not fail) or has put into them (a deposit once it is credited).
Book(t) ==
    IF t.direction = "WITHDRAW"
    THEN IF t.status = "FAILED" THEN 0 ELSE cents(t)
    ELSE IF t.status = "COMPLETED" THEN - cents(t) ELSE 0

Booked == SumFunctionOnSet([t \in DOMAIN transfers |-> Book(transfers[t])],
                           DOMAIN transfers)

\* What each stage knows of the status of its transfer, and the pass of the
\* ones it has not taken yet.
StatusKnows ==
    /\ \A t \in run.pending : IsPending(t)
    /\ Working => run.cur \notin run.pending
    /\ Stage("decide") => IsPending(run.cur)
    /\ Working /\ ~Stage("decide") =>
            Cur.status = IF Stage("complete") THEN "EXTERNAL_APPLIED"
                         ELSE "PREPARED"

\* A database whose unbacked value keeps the exchange from starting.
Refused ==
    /\ run.stage \in {"down", "refused"}
    /\ Unbacked
    /\ \A t \in DOMAIN transfers : transfers[t].direction = "DEPOSIT"
    /\ hidden = 0

Balanced == Held + Booked = hidden

BackInv == StatusKnows /\ (Balanced \/ Refused)

\* The sums are sums of integers over finite sets.
LEMMA TotalsType ==
    ASSUME TypeInv
    PROVE  /\ IsFiniteSet(Players) /\ IsFiniteSet(DOMAIN transfers)
           /\ \A p \in Players : internal[p] \in Nat /\ reserved[p] \in Nat
           /\ SumFunctionOnSet(internal, Players) \in Int
           /\ SumFunctionOnSet(reserved, Players) \in Int
           /\ Held \in Int
           /\ \A t \in DOMAIN transfers :
                /\ transfers[t] \in Transfer
                /\ cents(transfers[t]) \in Nat
                /\ Book(transfers[t]) \in Int
           /\ Booked \in Int
  <1>1. IsFiniteSet(Players)
    BY ConstantsAssumption
  <1>2. transfers \in Seq(Transfer)
    BY DEF TypeInv, TypeOK
  <1>3. IsFiniteSet(DOMAIN transfers)
    <2>1. DOMAIN transfers = 1 .. Len(transfers) /\ Len(transfers) \in Nat
      BY <1>2
    <2>2. 1 \in Int /\ Len(transfers) \in Int
      BY <2>1
    <2> QED BY <2>1, <2>2, FS_Interval
  <1>4. \A p \in Players : internal[p] \in Nat /\ reserved[p] \in Nat
    BY DEF TypeInv, TypeOK
  <1>5. /\ SumFunctionOnSet(internal, Players) \in Int
        /\ SumFunctionOnSet(reserved, Players) \in Int
    <2>1. /\ \A p \in Players : internal[p] \in Int
          /\ \A p \in Players : reserved[p] \in Int
      BY <1>4
    <2> QED BY <1>1, <2>1, SumInt
  <1>6. \A t \in DOMAIN transfers : transfers[t] \in Transfer
    BY <1>2
  <1>7. \A t \in DOMAIN transfers : /\ cents(transfers[t]) \in Nat
                                    /\ Book(transfers[t]) \in Int
    <2> TAKE t \in DOMAIN transfers
    <2>1. cents(transfers[t]) \in Nat
      BY <1>6, TransferFacts
    <2> QED BY <2>1 DEF Book
  <1>8. Booked \in Int
    <2> DEFINE D == DOMAIN transfers
               f == [t \in D |-> Book(transfers[t])]
    <2>1. IsFiniteSet(D) /\ \A t \in D : f[t] \in Int
      BY <1>3, <1>7
    <2>2. Booked = SumFunctionOnSet(f, D)
      BY DEF Booked
    <2> HIDE DEF D, f
    <2> QED BY <2>1, <2>2, SumInt
  <1> QED BY <1>1, <1>3, <1>4, <1>5, <1>6, <1>7, <1>8 DEF Held

\* A total follows the change of one account.
LEMMA AccountChange ==
    ASSUME NEW f \in [Players -> Int], NEW q \in Players, NEW c \in Int
    PROVE  /\ SumFunctionOnSet([f EXCEPT ![q] = f[q] + c], Players)
                = SumFunctionOnSet(f, Players) + c
           /\ SumFunctionOnSet(f, Players) \in Int
  <1> DEFINE g == [f EXCEPT ![q] = f[q] + c]
  <1>1. IsFiniteSet(Players)
    BY ConstantsAssumption
  <1>2. /\ \A r \in Players : f[r] \in Int
        /\ g[q] \in Int
        /\ \A r \in Players \ {q} : g[r] = f[r]
    OBVIOUS
  <1>3. g[q] = f[q] + c /\ f[q] \in Int
    OBVIOUS
  <1> HIDE DEF g
  <1>4. /\ SumFunctionOnSet(g, Players)
             = SumFunctionOnSet(f, Players) + g[q] - f[q]
        /\ SumFunctionOnSet(f, Players) \in Int
    BY <1>1, <1>2, SumChange
  <1>5. SumFunctionOnSet(g, Players) = SumFunctionOnSet(f, Players) + c
    BY <1>3, <1>4
  <1> QED BY <1>4, <1>5 DEF g

\* economyBackingDeficit in terms of what each transfer keeps or has brought.
LEMMA DeficitIsBooked ==
    ASSUME TypeInv
    PROVE  /\ economyBackingDeficit + SumCents("DEPOSIT", {"EXTERNAL_APPLIED"})
                = Held + Booked
           /\ SumCents("DEPOSIT", {"EXTERNAL_APPLIED"}) \in Nat
           /\ economyBackingDeficit \in Int
  <1> DEFINE D == DOMAIN transfers
             w1 == CentsOf("WITHDRAW", {"PREPARED", "BLOCKED"})
             w2 == CentsOf("WITHDRAW", {"EXTERNAL_APPLIED", "COMPLETED"})
             d1 == CentsOf("DEPOSIT", {"EXTERNAL_APPLIED", "COMPLETED"})
             d2 == CentsOf("DEPOSIT", {"EXTERNAL_APPLIED"})
             b == [t \in D |-> Book(transfers[t])]
             out == [t \in D |-> w1[t] + w2[t]]
             in == [t \in D |-> b[t] + d1[t]]
  <1>1. IsFiniteSet(D)
    BY TotalsType
  <1>2. \A t \in D : /\ w1[t] \in Nat /\ w2[t] \in Nat
                     /\ d1[t] \in Nat /\ d2[t] \in Nat /\ b[t] \in Int
                     /\ out[t] \in Int /\ in[t] \in Int
                     /\ in[t] = b[t] + d1[t]
                     /\ out[t] = w1[t] + w2[t]
                     /\ in[t] = out[t] + d2[t]
    <2> TAKE t \in D
    <2>1. /\ transfers[t] \in Transfer /\ cents(transfers[t]) \in Nat
          /\ transfers[t].direction \in {"DEPOSIT", "WITHDRAW"}
          /\ transfers[t].status \in {"PREPARED", "EXTERNAL_APPLIED",
                                      "COMPLETED", "FAILED", "BLOCKED"}
      BY TotalsType DEF Transfer
    <2> QED BY <2>1 DEF CentsOf, Book
  <1>3. /\ SumCents("WITHDRAW", {"PREPARED", "BLOCKED"}) = SumFunctionOnSet(w1, D)
        /\ SumCents("WITHDRAW", {"EXTERNAL_APPLIED", "COMPLETED"})
             = SumFunctionOnSet(w2, D)
        /\ SumCents("DEPOSIT", {"EXTERNAL_APPLIED", "COMPLETED"})
             = SumFunctionOnSet(d1, D)
        /\ SumCents("DEPOSIT", {"EXTERNAL_APPLIED"}) = SumFunctionOnSet(d2, D)
        /\ Booked = SumFunctionOnSet(b, D)
    BY DEF SumCents, Booked
  <1> HIDE DEF D, w1, w2, d1, d2, b, out, in
  <1>4. /\ SumFunctionOnSet(out, D)
             = SumFunctionOnSet(w1, D) + SumFunctionOnSet(w2, D)
        /\ SumFunctionOnSet(in, D)
             = SumFunctionOnSet(b, D) + SumFunctionOnSet(d1, D)
        /\ SumFunctionOnSet(in, D)
             = SumFunctionOnSet(out, D) + SumFunctionOnSet(d2, D)
    <2>1. \A t \in D : w1[t] \in Int /\ w2[t] \in Int /\ out[t] = w1[t] + w2[t]
      BY <1>2
    <2>2. \A t \in D : b[t] \in Int /\ d1[t] \in Int /\ in[t] = b[t] + d1[t]
      BY <1>2
    <2>3. \A t \in D : out[t] \in Int /\ d2[t] \in Int /\ in[t] = out[t] + d2[t]
      BY <1>2
    <2>4. SumFunctionOnSet(out, D)
             = SumFunctionOnSet(w1, D) + SumFunctionOnSet(w2, D)
      BY ONLY <1>1, <2>1, SumPlus
    <2>5. SumFunctionOnSet(in, D)
             = SumFunctionOnSet(b, D) + SumFunctionOnSet(d1, D)
      BY ONLY <1>1, <2>2, SumPlus
    <2>6. SumFunctionOnSet(in, D)
             = SumFunctionOnSet(out, D) + SumFunctionOnSet(d2, D)
      BY ONLY <1>1, <2>3, SumPlus
    <2> QED BY <2>4, <2>5, <2>6
  <1>5. /\ SumFunctionOnSet(w1, D) \in Nat /\ SumFunctionOnSet(w2, D) \in Nat
        /\ SumFunctionOnSet(d1, D) \in Nat /\ SumFunctionOnSet(d2, D) \in Nat
    <2>1. /\ \A t \in D : w1[t] \in Nat
          /\ \A t \in D : w2[t] \in Nat
          /\ \A t \in D : d1[t] \in Nat
          /\ \A t \in D : d2[t] \in Nat
      BY <1>2
    <2> QED BY ONLY <1>1, <2>1, SumNat
  <1>6. Held \in Int /\ Booked \in Int
    BY TotalsType
  <1> QED BY <1>3, <1>4, <1>5, <1>6 DEF economyBackingDeficit

\* A new row and the debit of a withdrawal are one transaction.
LEMMA PrepareBooks ==
    ASSUME TypeInv, NEW p \in Players, NEW dir \in {"DEPOSIT", "WITHDRAW"},
           NEW units \in Nat,
           dir = "WITHDRAW" => internal[p] - units * UnitCents \in Nat,
           prepareEconomyTransfer(p, dir, units)
    PROVE  /\ Held' + Booked' = Held + Booked
           /\ \A t \in DOMAIN transfers : transfers'[t] = transfers[t]
           /\ transfers'[Len(transfers) + 1].status = "PREPARED"
           /\ transfers'[Len(transfers) + 1].direction = dir
           /\ DOMAIN transfers' = DOMAIN transfers \cup {Len(transfers) + 1}
           /\ Len(transfers) + 1 \notin DOMAIN transfers
  <1> DEFINE D == DOMAIN transfers
             n == Len(transfers) + 1
             e == [player |-> p, direction |-> dir, units |-> units,
                   before |-> wallet[p], status |-> "PREPARED"]
             f == [t \in D |-> Book(transfers[t])]
             g == [t \in D \cup {n} |-> Book(transfers'[t])]
             c == units * UnitCents
  <1>1. /\ e \in Transfer /\ e.status = "PREPARED" /\ e.direction = dir
        /\ cents(e) = c
    BY ConstantsAssumption DEF TypeInv, TypeOK, Transfer, cents
  <1>2. transfers' = Append(transfers, e)
    BY DEF prepareEconomyTransfer, Prepared
  <1>3. c \in Nat
    BY ConstantsAssumption
  <1> HIDE DEF e, c
  <1>4. /\ DOMAIN transfers' = D \cup {n} /\ n \notin D
        /\ transfers'[n] = e
        /\ \A t \in D : transfers'[t] = transfers[t]
    BY <1>1, <1>2, InsertRow DEF TypeInv, TypeOK
  <1>5. Book(e) = IF dir = "WITHDRAW" THEN c ELSE 0
    BY <1>1 DEF Book
  <1>6. Booked' = Booked + Book(e)
    <2>1. IsFiniteSet(D) /\ \A t \in D : f[t] \in Int
      BY TotalsType
    <2>2. /\ \A t \in D \cup {n} : g[t] \in Int
          /\ \A t \in D : g[t] = f[t]
          /\ g[n] = Book(e)
      BY <1>3, <1>4, <1>5, <2>1
    <2>3. Booked = SumFunctionOnSet(f, D)
      BY DEF Booked
    <2>4. Booked' = SumFunctionOnSet(g, D \cup {n})
      BY <1>4 DEF Booked
    <2>5. n \notin D
      BY <1>4
    <2> HIDE DEF D, n, f, g
    <2>6. SumFunctionOnSet(g, D \cup {n}) = SumFunctionOnSet(g, D) + g[n]
      BY ONLY <2>1, <2>2, <2>5, SumAdd
    <2>7. SumFunctionOnSet(g, D) = SumFunctionOnSet(f, D)
      BY ONLY <2>1, <2>2, SumEqual
    <2> QED BY <2>2, <2>3, <2>4, <2>6, <2>7
  <1>7. Held' = Held - (IF dir = "WITHDRAW" THEN c ELSE 0)
    <2>1. reserved' = reserved
      BY DEF prepareEconomyTransfer
    <2>2. CASE dir = "WITHDRAW"
      <3>1. internal \in [Players -> Int] /\ 0 - c \in Int
        BY <1>3 DEF TypeInv, TypeOK
      <3>2. internal' = [internal EXCEPT ![p] = internal[p] - c]
        BY <2>2 DEF prepareEconomyTransfer, WithdrawReserve, c
      <3>3. internal' = [internal EXCEPT ![p] = internal[p] + (0 - c)]
        <4>1. internal[p] \in Int /\ c \in Int
          BY <1>3, <3>1
        <4>2. internal[p] - c = internal[p] + (0 - c)
          BY ONLY <4>1
        <4> QED BY <3>2, <4>2
      <3>4. SumFunctionOnSet(internal', Players)
              = SumFunctionOnSet(internal, Players) + (0 - c)
        BY <3>1, <3>3, AccountChange
      <3>5. /\ SumFunctionOnSet(internal, Players) \in Int
            /\ SumFunctionOnSet(reserved, Players) \in Int
        BY TotalsType
      <3> QED BY <1>3, <2>1, <2>2, <3>4, <3>5 DEF Held
    <2>3. CASE dir = "DEPOSIT"
      <3>1. internal' = internal
        BY <2>3 DEF prepareEconomyTransfer
      <3>2. Held \in Int
        BY TotalsType
      <3> QED BY <2>1, <2>3, <3>1, <3>2 DEF Held
    <2> QED BY <2>2, <2>3
  <1>8. Held \in Int /\ Booked \in Int
    BY TotalsType
  <1>9. Held' + Booked' = Held + Booked
    BY <1>3, <1>5, <1>6, <1>7, <1>8
  <1> QED BY <1>1, <1>4, <1>9

\* Recording an outcome, and crediting or refunding, are one transaction.
LEMMA StatementBooks ==
    ASSUME TypeInv, StatusKnows, Statement
    PROVE  /\ Held' + Booked' = Held + Booked
           /\ transfers'[run.cur].status = StatusAfter[run.stage]
           /\ transfers'[run.cur].direction = Cur.direction
           /\ \A t \in DOMAIN transfers \ {run.cur} : transfers'[t] = transfers[t]
           /\ DOMAIN transfers' = DOMAIN transfers
           /\ run.cur \in DOMAIN transfers
  <1> DEFINE D == DOMAIN transfers
             n == run.cur
             new == transfers'[n]
             f == [t \in D |-> Book(transfers[t])]
             g == [t \in D |-> Book(transfers'[t])]
             c == IF Credited(Cur) THEN cents(Cur) ELSE 0
  <1>1. /\ Working /\ n \in D
        /\ DOMAIN transfers' = D
        /\ new = [transfers[n] EXCEPT !.status = StatusAfter[run.stage]]
        /\ \A t \in D \ {n} : transfers'[t] = transfers[t]
        /\ reserved' = reserved
    BY StatementFacts
  <1>2. /\ Cur \in Transfer /\ Cur = transfers[n]
        /\ cents(Cur) \in Nat /\ Cur.player \in Players
        /\ Cur.direction \in {"DEPOSIT", "WITHDRAW"}
    BY <1>1, VerdictFacts, TransferFacts DEF Cur
  <1>3. /\ new.status = StatusAfter[run.stage]
        /\ new.direction = Cur.direction /\ new.units = Cur.units
        /\ cents(new) = cents(Cur)
    BY <1>1, <1>2 DEF Transfer, cents
  <1>4. run.stage \in {"mark", "complete", "fail", "block"}
    BY DEF Statement, StatusAfter
  <1>5. Cur.status = IF Stage("complete") THEN "EXTERNAL_APPLIED" ELSE "PREPARED"
    BY <1>1, <1>4 DEF StatusKnows, Stage
  <1>6. Book(new) = Book(Cur) - c
    <2>1. CASE run.stage \in {"mark", "block"}
      BY <1>2, <1>3, <1>5, <2>1 DEF Book, Credited, StatusAfter, Stage
    <2>2. CASE run.stage = "complete"
      BY <1>2, <1>3, <1>5, <2>2 DEF Book, Credited, StatusAfter, Stage
    <2>3. CASE run.stage = "fail"
      BY <1>2, <1>3, <1>5, <2>3 DEF Book, Credited, StatusAfter, Stage
    <2> QED BY <1>4, <2>1, <2>2, <2>3
  <1>7. c \in Nat /\ Book(Cur) \in Int
    BY <1>1, <1>2, TotalsType
  <1> HIDE DEF c
  <1>8. Booked' = Booked - c
    <2>1. IsFiniteSet(D) /\ n \in D
      BY <1>1, TotalsType
    <2>2. /\ \A t \in D : f[t] \in Int
          /\ g[n] \in Int
          /\ \A t \in D \ {n} : g[t] = f[t]
      BY <1>1, <1>6, <1>7, TotalsType
    <2>3. f[n] = Book(Cur) /\ g[n] = Book(new)
      BY <1>1, <1>2
    <2>4. Booked = SumFunctionOnSet(f, D)
      BY DEF Booked
    <2>5. Booked' = SumFunctionOnSet(g, D)
      BY <1>1 DEF Booked
    <2> HIDE DEF D, n, f, g, new
    <2>6. SumFunctionOnSet(g, D) = SumFunctionOnSet(f, D) + g[n] - f[n]
      BY ONLY <2>1, <2>2, SumChange
    <2>7. Booked \in Int
      BY TotalsType
    <2> QED BY <1>6, <1>7, <2>3, <2>4, <2>5, <2>6, <2>7
  <1>9. Held' = Held + c
    <2>1. internal \in [Players -> Int] /\ Cur.player \in Players /\ c \in Int
      BY <1>2, <1>7 DEF TypeInv, TypeOK
    <2>2. CASE Credited(Cur)
      <3>1. internal' = [internal EXCEPT ![Cur.player] = internal[Cur.player] + c]
        BY <2>2 DEF Statement, Credit, c
      <3>2. SumFunctionOnSet(internal', Players)
              = SumFunctionOnSet(internal, Players) + c
        BY ONLY <2>1, <3>1, AccountChange
      <3> QED BY <1>1, <1>7, <3>2, TotalsType DEF Held
    <2>3. CASE ~Credited(Cur)
      <3>1. internal' = internal /\ c = 0
        BY <2>3 DEF Statement, c
      <3> QED BY <1>1, <3>1, TotalsType DEF Held
    <2> QED BY <2>2, <2>3
  <1>10. Held \in Int /\ Booked \in Int
    BY TotalsType
  <1>11. Held' + Booked' = Held + Booked
    BY <1>7, <1>8, <1>9, <1>10
  <1> QED BY <1>1, <1>3, <1>11

\* Placing an order, a sale and a cancel move money between free balances and
\* reserves.
LEMMA MovesKeepHeld ==
    ASSUME TypeInv,
           \/ \E p \in run.buyer : placeOrder(p)
           \/ \E p, q \in Players : \E amount \in 1 .. reserved[p] :
                    release(p, q, amount)
    PROVE  Held' = Held
  <1>1. ASSUME NEW p \in Players, NEW q \in Players, NEW c \in Int,
               internal' = [internal EXCEPT ![q] = @ - c],
               reserved' = [reserved EXCEPT ![p] = @ + c]
        PROVE  Held' = Held
    <2>1. /\ internal \in [Players -> Int] /\ reserved \in [Players -> Int]
          /\ 0 - c \in Int
      BY DEF TypeInv, TypeOK
    <2>2. internal' = [internal EXCEPT ![q] = internal[q] + (0 - c)]
      <3>1. internal[q] \in Int
        BY <2>1
      <3>2. internal[q] - c = internal[q] + (0 - c)
        BY ONLY <3>1, c \in Int
      <3> QED BY <1>1, <3>2
    <2>3. SumFunctionOnSet(internal', Players)
            = SumFunctionOnSet(internal, Players) + (0 - c)
      BY <2>1, <2>2, AccountChange
    <2>4. SumFunctionOnSet(reserved', Players)
            = SumFunctionOnSet(reserved, Players) + c
      BY <1>1, <2>1, AccountChange
    <2> QED BY <2>3, <2>4, TotalsType DEF Held
  <1>2. ASSUME NEW p \in run.buyer, placeOrder(p)
        PROVE  Held' = Held
    <2>1. p \in Players /\ run.need \in Int
      BY RunFacts DEF TypeInv, TypeOK
    <2>2. CASE internal[p] >= run.need
      BY <1>1, <1>2, <2>1, <2>2 DEF placeOrder
    <2>3. CASE ~(internal[p] >= run.need)
      BY <1>2, <2>3 DEF placeOrder, Held
    <2> QED BY <2>2, <2>3
  <1>3. ASSUME NEW p \in Players, NEW q \in Players,
               NEW amount \in 1 .. reserved[p], release(p, q, amount)
        PROVE  Held' = Held
    <2>1. /\ reserved[p] \in Nat /\ internal[q] \in Nat
          /\ amount \in Int /\ 0 - amount \in Int
      BY DEF TypeInv, TypeOK
    <2>2. internal[q] + amount = internal[q] - (0 - amount)
          /\ reserved[p] - amount = reserved[p] + (0 - amount)
      BY <2>1
    <2>3. /\ reserved' = [reserved EXCEPT ![p] = reserved[p] + (0 - amount)]
          /\ internal' = [internal EXCEPT ![q] = internal[q] - (0 - amount)]
      BY <1>3, <2>2 DEF release
    <2> QED BY <1>1, <2>1, <2>3
  <1> QED BY <1>2, <1>3

\* A fresh control state processes nothing.
LEMMA FreshStatus ==
    ASSUME \E s \in {"down", "refused", "idle", "list", "recover"} : run' = At(s)
    PROVE  StatusKnows'
  <1>1. /\ run'.stage \in {"down", "refused", "idle", "list", "recover"}
        /\ run'.pending = {}
    BY AtFacts DEF Stages
  <1> QED BY <1>1 DEF StatusKnows, Working, Stage

\* The pass, the sweep and an order take up one transfer after the other.
LEMMA TakeStatus ==
    ASSUME TypeInv, StatusKnows,
           \/ pendingEconomyTransfers \/ nextTransfer \/ positiveBalances
           \/ \E p \in Players : sweepAccount(p)
           \/ \E p \in run.buyer : fundDirectBalance(p)
    PROVE  StatusKnows'
  <1>1. CASE pendingEconomyTransfers
    <2>1. /\ run'.stage = "recover"
          /\ run'.pending = {t \in DOMAIN transfers : IsPending(t)}
          /\ transfers' = transfers
      BY <1>1, AtFacts DEF pendingEconomyTransfers, Stages, At, db
    <2> QED BY <2>1 DEF StatusKnows, Working, Stage, IsPending
  <1>2. CASE nextTransfer
    <2>1. PICK t \in run.pending :
            run' = [run EXCEPT !.stage = "decide", !.mode = "recover",
                               !.cur = t, !.pending = @ \ {t}]
      BY <1>2 DEF nextTransfer
    <2>2. /\ run'.stage = "decide" /\ run'.cur = t
          /\ run'.pending = run.pending \ {t} /\ transfers' = transfers
      BY <1>2, <2>1 DEF nextTransfer, db, TypeInv, TypeOK, Run
    <2> QED BY <2>2 DEF StatusKnows, Working, Stage, IsPending
  <1>3. CASE positiveBalances
    <2>1. run'.stage = "sweep" /\ run'.pending = {}
      BY <1>3, AtFacts DEF positiveBalances, Stages, At
    <2> QED BY <2>1 DEF StatusKnows, Working, Stage
  <1>4. ASSUME /\ run'.stage = "decide" /\ run'.cur = Len(transfers) + 1
               /\ run'.pending = run.pending,
               \A t \in DOMAIN transfers : transfers'[t] = transfers[t],
               transfers'[Len(transfers) + 1].status = "PREPARED",
               Len(transfers) + 1 \notin DOMAIN transfers
        PROVE  StatusKnows'
    <2>1. run.pending \subseteq DOMAIN transfers
      BY DEF TypeInv, TypeOK
    <2> QED BY <1>4, <2>1 DEF StatusKnows, Working, Stage, IsPending
  <1>5. ASSUME NEW p \in Players, sweepAccount(p)
        PROVE  StatusKnows'
    <2>1. internal[p] \in Nat
      BY DEF TypeInv, TypeOK
    <2>2. /\ run'.stage = "decide" /\ run'.cur = Len(transfers) + 1
          /\ run'.pending = run.pending
      BY <1>5 DEF sweepAccount, TypeInv, TypeOK, Run
    <2> QED BY <1>4, <1>5, <2>1, <2>2, WholeUnitsFacts, PrepareBooks
            DEF sweepAccount
  <1>6. ASSUME NEW p \in run.buyer, fundDirectBalance(p)
        PROVE  StatusKnows'
    <2>1. /\ p \in Players
          /\ run.need - internal[p] \in Nat /\ run.need - internal[p] > 0
      BY <1>6, RunFacts DEF fundDirectBalance, TypeInv, TypeOK, Control
    <2>2. /\ run'.stage = "decide" /\ run'.cur = Len(transfers) + 1
          /\ run'.pending = run.pending
      BY <1>6 DEF fundDirectBalance, TypeInv, TypeOK, Run
    <2> QED BY <1>4, <1>6, <2>1, <2>2, UnitsForFacts, PrepareBooks
            DEF fundDirectBalance
  <1> QED BY <1>1, <1>2, <1>3, <1>5, <1>6

\* Deciding, and changing UMoney, leave the row as it is.
LEMMA DecideStatus ==
    ASSUME TypeInv, StatusKnows, decide \/ change \/ syncUmoneyData
    PROVE  StatusKnows'
  <1>1. /\ Working /\ transfers' = transfers
        /\ run.stage \in {"decide", "mutate", "sync"}
    BY DEF decide, change, syncUmoneyData, Working, Stage, db
  <1>2. PICK s \in {"mutate", "sync", "mark", "complete", "fail", "block"} :
          /\ run' = [run EXCEPT !.stage = s]
          /\ Cur.status = IF s = "complete" THEN "EXTERNAL_APPLIED" ELSE "PREPARED"
    <2>1. CASE decide
      <3>1. Cur.status \in {"PREPARED", "EXTERNAL_APPLIED"}
        BY <2>1 DEF decide, StatusKnows, IsPending, Cur
      <3>2. /\ Verdict \in {"mutate", "mark", "complete", "fail", "block"}
            /\ Verdict = "complete" => Cur.status = "EXTERNAL_APPLIED"
            /\ Verdict # "complete" => Cur.status # "EXTERNAL_APPLIED"
        BY <1>1, VerdictFacts
      <3> QED BY <2>1, <3>1, <3>2 DEF decide, Goto
    <2>2. CASE change \/ syncUmoneyData
      <3>1. Cur.status = "PREPARED"
        BY <1>1, <2>2 DEF change, syncUmoneyData, StatusKnows, Stage
      <3> QED BY <2>2, <3>1 DEF change, syncUmoneyData, Goto
    <2> QED BY <2>1, <2>2
  <1>3. /\ run'.stage = s /\ run'.cur = run.cur /\ run'.pending = run.pending
    BY <1>2 DEF TypeInv, TypeOK, Run
  <1> QED BY <1>1, <1>2, <1>3 DEF StatusKnows, Working, Stage, IsPending, Cur

\* The recorded outcome belongs to a transfer that is not on the list.
LEMMA OutcomeStatus ==
    ASSUME TypeInv, StatusKnows, Statement,
           \/ Stage("mark") /\ Goto("complete")
           \/ \E ok \in BOOLEAN : Return(ok)
    PROVE  StatusKnows'
  <1>1. /\ Working
        /\ transfers'[run.cur].status = StatusAfter[run.stage]
        /\ \A t \in DOMAIN transfers \ {run.cur} : transfers'[t] = transfers[t]
        /\ run.pending \subseteq DOMAIN transfers
    BY StatementFacts, StatementBooks DEF TypeInv, TypeOK
  <1>2. run'.pending \subseteq run.pending => \A t \in run'.pending : IsPending(t)'
    BY <1>1 DEF StatusKnows, IsPending
  <1>3. CASE Stage("mark") /\ Goto("complete")
    <2>1. /\ run'.stage = "complete" /\ run'.cur = run.cur
          /\ run'.pending = run.pending
      BY <1>3 DEF Goto, TypeInv, TypeOK, Run
    <2>2. transfers'[run.cur].status = "EXTERNAL_APPLIED"
      BY <1>1, <1>3 DEF StatusAfter, Stage
    <2> QED BY <1>1, <1>2, <2>1, <2>2 DEF StatusKnows, Working, Stage, Cur
  <1>4. CASE \E ok \in BOOLEAN : Return(ok)
    <2>1. /\ run'.stage \in {"recover", "sweep", "place", "list"}
          /\ run'.pending \subseteq run.pending
      BY <1>1, <1>4, ReturnStep
    <2> QED BY <1>2, <2>1 DEF StatusKnows, Working, Stage
  <1> QED BY <1>3, <1>4

\* A call that fails, with the tables as they are, ends the processing of its
\* transfer or gives up one account.
LEMMA GiveUpStatus ==
    ASSUME TypeInv, StatusKnows, transfers' = transfers,
           \/ Working /\ Return(FALSE)
           \/ Stage("sweep") /\ skipAccount
    PROVE  StatusKnows'
  <1>1. /\ run'.stage \in {"recover", "sweep", "place", "list"}
        /\ run'.pending \subseteq run.pending
    <2>1. CASE Working /\ Return(FALSE)
      BY <2>1, ReturnStep
    <2>2. CASE Stage("sweep") /\ skipAccount
      BY <2>2 DEF skipAccount, Stage, TypeInv, TypeOK, Run
    <2> QED BY <2>1, <2>2
  <1> QED BY <1>1 DEF StatusKnows, Working, Stage, IsPending

\* The stages know the status of their transfer, whatever fails.
LEMMA StepStatus == TypeInv /\ StatusKnows /\ [Next]_vars => StatusKnows'
  <1> SUFFICES ASSUME TypeInv, StatusKnows, [Next]_vars PROVE StatusKnows'
    OBVIOUS
  <1>1. CASE UNCHANGED vars
    BY <1>1 DEF vars, StatusKnows, Working, Stage, IsPending, Cur
  <1>2. CASE \/ onEnable \/ economyTask \/ endSweep \/ kill \/ powerLoss
             \/ \E p \in run.buyer : fundingRefused(p) \/ placeOrder(p)
             \/ \E p, q \in Players : \E amount \in 1 .. reserved[p] :
                    release(p, q, amount)
    <2>1. \E s \in {"down", "refused", "idle", "list"} : run' = At(s)
      BY <1>2 DEF onEnable, economyTask, endSweep, kill, powerLoss,
                  fundingRefused, placeOrder, release
    <2> QED BY <2>1, FreshStatus
  <1>3. CASE \/ pendingEconomyTransfers \/ nextTransfer \/ positiveBalances
             \/ \E p \in Players : sweepAccount(p)
             \/ \E p \in run.buyer : fundDirectBalance(p)
    BY <1>3, TakeStatus
  <1>4. CASE decide \/ change \/ syncUmoneyData
    BY <1>4, DecideStatus
  <1>5. CASE settle
    <2>1. \/ Stage("mark") /\ Goto("complete")
          \/ \E ok \in BOOLEAN : Return(ok)
      BY <1>5 DEF settle, Stage
    <2> QED BY <1>5, <2>1, OutcomeStatus DEF settle
  <1>6. CASE lostReply
    <2>1. Statement /\ Return(FALSE)
      BY <1>6 DEF lostReply, Caught, Statement, StatusAfter, Stage
    <2> QED BY <2>1, OutcomeStatus
  <1>7. ASSUME NEW p \in Players, NEW need \in Needs, submitBuy(p, need)
        PROVE  StatusKnows'
    <2>1. PICK s \in {"place", "fund"} :
            run' = [At(s) EXCEPT !.mode = "fund", !.buyer = {p}, !.need = need]
      BY <1>7 DEF submitBuy
    <2>2. run'.stage = s /\ run'.pending = {}
      BY <2>1 DEF At
    <2> QED BY <2>2 DEF StatusKnows, Working, Stage
  <1>8. CASE \E p \in Players, d \in ExternalDeltas : externalChange(p, d)
    BY <1>8 DEF externalChange, StatusKnows, Working, Stage, IsPending, Cur, db
  <1>9. CASE umoneyError \/ databaseError
    <2>1. transfers' = transfers
      BY <1>9 DEF umoneyError, databaseError, db
    <2>2. \/ \E s \in {"recover", "idle", "list"} : run' = At(s)
          \/ Working /\ Return(FALSE)
          \/ Stage("sweep") /\ skipAccount
      <3>1. CASE umoneyError
        BY <3>1 DEF umoneyError, Working, Stage
      <3>2. CASE databaseError
        <4>1. \/ Stage("sweep") /\ skipAccount
              \/ /\ run.stage \in {"list", "recover", "fund", "place", "mark",
                                   "complete", "fail", "block"}
                 /\ Caught
          BY <3>2 DEF databaseError, StatusAfter, Stage
        <4> QED BY <4>1, CaughtFacts
      <3> QED BY <1>9, <3>1, <3>2
    <2> QED BY <2>1, <2>2, FreshStatus, GiveUpStatus
  <1>10. CASE lostPrepared
    <2>1. ASSUME NEW p \in run.accounts, Stage("sweep"),
                 prepareEconomyTransfer(p, "WITHDRAW", WholeUnits(internal[p])),
                 run' = [run EXCEPT !.accounts = @ \ {p}]
          PROVE  StatusKnows'
      <3>1. p \in Players /\ internal[p] \in Nat
        BY RunFacts DEF TypeInv, TypeOK
      <3>2. \A t \in DOMAIN transfers : transfers'[t] = transfers[t]
        BY <2>1, <3>1, WholeUnitsFacts, PrepareBooks
      <3>3. run'.stage = "sweep" /\ run'.pending = run.pending
        BY <2>1 DEF Stage, TypeInv, TypeOK, Run
      <3> QED BY <3>2, <3>3
              DEF StatusKnows, Working, Stage, IsPending, TypeInv, TypeOK
    <2>2. CASE Stage("fund") /\ Caught
      BY <2>2, FreshStatus DEF Caught, Stage
    <2> QED BY <1>10, <2>1, <2>2 DEF lostPrepared
  <1> QED BY <1>1, <1>2, <1>3, <1>4, <1>5, <1>6, <1>7, <1>8, <1>9, <1>10
          DEF Next, Settlement, Environment, Failure

\* Every transaction keeps what is held and what is booked in balance.
LEMMA StepBalanced ==
    ASSUME TypeInv, StatusKnows, [Next]_vars
    PROVE  Held' + Booked' = Held + Booked
  <1>1. CASE UNCHANGED db
    BY <1>1 DEF db, Held, Booked
  <1>2. CASE UNCHANGED vars
    BY <1>1, <1>2 DEF vars, db
  <1>3. CASE \/ \E p \in run.buyer : placeOrder(p)
             \/ \E p, q \in Players : \E amount \in 1 .. reserved[p] :
                    release(p, q, amount)
    <2>1. transfers' = transfers
      BY <1>3 DEF placeOrder, release
    <2> QED BY <1>3, <2>1, MovesKeepHeld DEF Booked
  <1>4. CASE settle \/ lostReply
    BY <1>4, StatementBooks DEF settle, lostReply
  <1>5. ASSUME NEW p \in Players, internal[p] \in Nat,
               prepareEconomyTransfer(p, "WITHDRAW", WholeUnits(internal[p]))
        PROVE  Held' + Booked' = Held + Booked
    BY <1>5, WholeUnitsFacts, PrepareBooks
  <1>6. ASSUME NEW p \in run.buyer, Stage("fund"),
               prepareEconomyTransfer(p, "DEPOSIT",
                                      UnitsFor(run.need - internal[p]))
        PROVE  Held' + Booked' = Held + Booked
    <2>1. /\ p \in Players
          /\ run.need - internal[p] \in Nat /\ run.need - internal[p] > 0
      BY <1>6, RunFacts DEF TypeInv, TypeOK, Control
    <2> QED BY <1>6, <2>1, UnitsForFacts, PrepareBooks
  <1>7. ASSUME NEW p \in Players, sweepAccount(p)
        PROVE  Held' + Booked' = Held + Booked
    BY <1>5, <1>7 DEF sweepAccount, TypeInv, TypeOK
  <1>8. ASSUME NEW p \in run.buyer, fundDirectBalance(p)
        PROVE  Held' + Booked' = Held + Booked
    BY <1>6, <1>8 DEF fundDirectBalance
  <1>9. CASE lostPrepared
    <2>1. run.accounts \subseteq Players
      BY RunFacts DEF TypeInv, TypeOK
    <2>2. \A p \in run.accounts : internal[p] \in Nat
      BY <2>1 DEF TypeInv, TypeOK
    <2> QED BY <1>5, <1>6, <1>9, <2>1, <2>2 DEF lostPrepared
  <1>10. CASE \/ onEnable \/ economyTask \/ pendingEconomyTransfers \/ nextTransfer
              \/ positiveBalances \/ endSweep \/ decide \/ change \/ syncUmoneyData
              \/ \E p \in run.buyer : fundingRefused(p)
    BY <1>1, <1>10
       DEF onEnable, economyTask, pendingEconomyTransfers, nextTransfer,
           positiveBalances, endSweep, decide, change, syncUmoneyData,
           fundingRefused
  <1>11. CASE \/ databaseError \/ umoneyError \/ kill \/ powerLoss
              \/ \E p \in Players, need \in Needs : submitBuy(p, need)
              \/ \E p \in Players, d \in ExternalDeltas : externalChange(p, d)
    BY <1>1, <1>11
       DEF databaseError, umoneyError, kill, powerLoss, submitBuy, externalChange
  <1> QED BY <1>2, <1>3, <1>4, <1>7, <1>8, <1>9, <1>10, <1>11
          DEF Next, Settlement, Environment, Failure

\* The books balance at the start, or the check at startup will refuse them.
LEMMA InitBack == Init => BackInv
  <1> SUFFICES ASSUME Init PROVE BackInv
    OBVIOUS
  <1>1. TypeInv
    BY InitType
  <1>2. run.stage = "down" /\ run.pending = {}
    BY AtFacts DEF Init, Stages
  <1>3. StatusKnows
    BY <1>2 DEF StatusKnows, Working, Stage
  <1>4. \A t \in DOMAIN transfers :
            /\ transfers[t].direction = "DEPOSIT"
            /\ transfers[t].status \in {"PREPARED", "EXTERNAL_APPLIED"}
    <2>1. transfers \in LegacyTransfers
      BY DEF Init
    <2>2. CASE transfers = <<>>
      BY <2>2
    <2>3. ASSUME NEW p \in Players, NEW st \in {"PREPARED", "EXTERNAL_APPLIED"},
                 transfers = <<LegacyTransfer(p, st)>>
          PROVE  \A t \in DOMAIN transfers :
                    /\ transfers[t].direction = "DEPOSIT"
                    /\ transfers[t].status \in {"PREPARED", "EXTERNAL_APPLIED"}
      BY <2>3 DEF LegacyTransfer
    <2> QED BY <2>1, <2>2, <2>3 DEF LegacyTransfers
  <1>5. Booked = 0
    <2> DEFINE D == DOMAIN transfers
               f == [t \in D |-> Book(transfers[t])]
    <2>1. IsFiniteSet(D) /\ \A t \in D : f[t] = 0
      BY <1>1, <1>4, TotalsType DEF Book
    <2>2. Booked = SumFunctionOnSet(f, D)
      BY DEF Booked
    <2> HIDE DEF D, f
    <2> QED BY <2>1, <2>2, SumZero
  <1>6. SumFunctionOnSet(reserved, Players) = 0
    <2>1. IsFiniteSet(Players) /\ \A p \in Players : reserved[p] = 0
      BY <1>1, TotalsType DEF Init
    <2> QED BY <2>1, SumZero
  <1>7. CASE ~Unbacked
    <2>1. hidden = SumFunctionOnSet(internal, Players)
      BY <1>7 DEF Init, Unbacked
    <2> QED BY <1>1, <1>3, <1>5, <1>6, <2>1, TotalsType DEF BackInv, Balanced, Held
  <1>8. CASE Unbacked
    <2>1. hidden = 0
      BY <1>8 DEF Init, Unbacked
    <2> QED BY <1>2, <1>3, <1>4, <1>8, <2>1 DEF BackInv, Refused
  <1> QED BY <1>7, <1>8

\* What the first start let in is never counted again.
LEMMA HiddenStays == [Next]_vars => hidden' = hidden
  <1> SUFFICES ASSUME [Next]_vars PROVE hidden' = hidden
    OBVIOUS
  <1>1. CASE Settlement
    BY <1>1 DEF Settlement, onEnable, economyTask, pendingEconomyTransfers,
       nextTransfer, positiveBalances, endSweep, sweepAccount, decide, change,
       syncUmoneyData, settle, fundDirectBalance, fundingRefused, placeOrder,
       prepareEconomyTransfer, umoney
  <1>2. CASE Environment
    BY <1>2 DEF Environment, submitBuy, release, externalChange, umoney
  <1>3. CASE Failure
    BY <1>3 DEF Failure, databaseError, lostReply, lostPrepared, umoneyError, kill,
       powerLoss, prepareEconomyTransfer, umoney
  <1>4. CASE UNCHANGED vars
    BY <1>4 DEF vars
  <1> QED BY <1>1, <1>2, <1>3, <1>4 DEF Next

\* Balanced books stay so, and the exchange never starts on others.
LEMMA StepBack == TypeInv /\ BackInv /\ [Next]_vars => BackInv'
  <1> SUFFICES ASSUME TypeInv, BackInv, [Next]_vars PROVE BackInv'
    OBVIOUS
  <1>1. StatusKnows'
    BY StepStatus DEF BackInv
  <1>2. CASE Balanced
    <2>1. Held' + Booked' = Held + Booked /\ hidden' = hidden
      BY StepBalanced, HiddenStays DEF BackInv
    <2> QED BY <1>1, <1>2, <2>1 DEF BackInv, Balanced
  <1>3. CASE Refused
    <2>1. UNCHANGED db /\ run'.stage \in {"down", "refused"} => Refused'
      BY <1>3, HiddenStays DEF Refused, db, Unbacked, economyBackingDeficit, Held,
                  SumCents, CentsOf
    <2>2. run.stage \in {"down", "refused"} /\ Unbacked
      BY <1>3 DEF Refused
    <2>3. CASE onEnable
      <3>1. run' = At("refused") /\ UNCHANGED db
        BY <2>2, <2>3 DEF onEnable
      <3>2. run'.stage = "refused"
        BY <3>1, AtFacts DEF Stages
      <3> QED BY <1>1, <2>1, <3>1, <3>2 DEF BackInv
    <2>4. CASE powerLoss
      <3>1. run'.stage = "down" /\ UNCHANGED db
        BY <2>4, AtFacts DEF powerLoss, Stages
      <3> QED BY <1>1, <2>1, <3>1 DEF BackInv
    <2>5. CASE UNCHANGED vars \/ \E p \in Players, d \in ExternalDeltas :
                                    externalChange(p, d)
      <3>1. UNCHANGED <<run, db>>
        BY <2>5 DEF externalChange, vars, db
      <3> QED BY <1>1, <2>1, <2>2, <3>1 DEF BackInv
    <2>6. /\ ~(economyTask \/ pendingEconomyTransfers \/ nextTransfer
                \/ positiveBalances \/ endSweep \/ decide \/ change
                \/ syncUmoneyData)
          /\ ~ \E p \in Players : sweepAccount(p)
          /\ ~ \E p \in run.buyer :
                  fundDirectBalance(p) \/ fundingRefused(p) \/ placeOrder(p)
      BY <2>2 DEF economyTask, pendingEconomyTransfers, nextTransfer,
                  positiveBalances, endSweep, decide, change, syncUmoneyData,
                  sweepAccount, fundDirectBalance, fundingRefused, placeOrder,
                  Stage
    <2>7. /\ ~settle /\ ~lostReply /\ ~lostPrepared /\ ~kill
          /\ ~umoneyError /\ ~databaseError
      BY <2>2 DEF settle, lostReply, Statement, StatusAfter, lostPrepared, kill,
                  umoneyError, databaseError, Stage
    <2>8. /\ ~ \E p \in Players, need \in Needs : submitBuy(p, need)
          /\ ~ \E p, q \in Players : \E amount \in 1 .. reserved[p] :
                    release(p, q, amount)
      BY <2>2 DEF submitBuy, release, Stage
    <2> QED BY <2>3, <2>4, <2>5, <2>6, <2>7, <2>8
            DEF Next, Settlement, Environment, Failure
  <1> QED BY <1>2, <1>3 DEF BackInv

\* Whatever fails and wherever the process dies, the exchange owes exactly
\* what UMoney paid in and has not got back, and the free balances the first
\* start let in; without those it never refuses its own data and never runs on
\* unbacked money.
THEOREM BackingExactHolds == Spec => []BackingExact
  <1>1. TypeInv /\ BackInv => BackingExact
    <2> SUFFICES ASSUME TypeInv, BackInv, run.stage \notin {"down", "refused"}
                 PROVE  economyBackingDeficit
                            = hidden - SumCents("DEPOSIT", {"EXTERNAL_APPLIED"})
      BY DEF BackingExact
    <2>1. Held + Booked = hidden
      BY DEF BackInv, Refused, Balanced
    <2> QED BY <2>1, DeficitIsBooked
  <1> QED BY <1>1, InitBack, StepBack, TypeInvariant, PTL DEF Spec

-----------------------------------------------------------------------------
(* What left UMoney came back or is in the exchange, when no call fails *)

\* The units a transfer has put into UMoney, or taken out of it.
Moved(t) == IF applied[t] = 1 THEN Delta(transfers[t]) ELSE 0

MovedTotal == SumFunctionOnSet([t \in DOMAIN transfers |-> Moved(t)],
                               DOMAIN transfers)

\* UMoney holds what it held, what other plugins did and what transfers moved;
\* a transfer of the old bridge that is not settled moved nothing.
WalletExact ==
    SumFunctionOnSet(wallet, Players)
        = Cardinality(Players) * InitialUnits + external + MovedTotal

LegacyExact ==
    \A t \in DOMAIN transfers :
        transfers[t].before = NoBaseline =>
            /\ transfers[t].direction = "DEPOSIT"
            /\ transfers[t].status \in {"PREPARED", "BLOCKED"} => applied[t] = 0

MovedInv == WalletExact /\ LegacyExact

\* The sums of units.
LEMMA UnitsType ==
    ASSUME TypeInv
    PROVE  /\ SumFunctionOnSet(wallet, Players) \in Int
           /\ \A t \in DOMAIN transfers : Moved(t) \in Int
           /\ MovedTotal \in Int
           /\ Cardinality(Players) * InitialUnits \in Nat
           /\ external \in Int
  <1>1. IsFiniteSet(Players) /\ \A p \in Players : wallet[p] \in Int
    BY TotalsType DEF TypeInv, TypeOK
  <1>2. \A t \in DOMAIN transfers : Moved(t) \in Int
    BY TotalsType, TransferFacts DEF Moved
  <1>3. MovedTotal \in Int
    <2> DEFINE D == DOMAIN transfers
               f == [t \in D |-> Moved(t)]
    <2>1. IsFiniteSet(D) /\ \A t \in D : f[t] \in Int
      BY <1>2, TotalsType
    <2>2. MovedTotal = SumFunctionOnSet(f, D)
      BY DEF MovedTotal
    <2> HIDE DEF D, f
    <2> QED BY <2>1, <2>2, SumInt
  <1>4. Cardinality(Players) \in Nat /\ InitialUnits \in Nat
    BY <1>1, ConstantsAssumption, FS_CardinalityType
  <1>5. Cardinality(Players) * InitialUnits \in Nat
    BY ONLY <1>4
  <1>6. SumFunctionOnSet(wallet, Players) \in Int
    BY <1>1, SumInt
  <1> QED BY <1>2, <1>3, <1>5, <1>6 DEF TypeInv, TypeOK

\* One transfer moves units, in UMoney and in the history.
LEMMA MoveUnits ==
    ASSUME TypeInv, NEW k \in DOMAIN transfers, NEW c \in Int,
           NEW p \in Players, DOMAIN transfers' = DOMAIN transfers,
           \A t \in DOMAIN transfers \ {k} : Moved(t)' = Moved(t),
           Moved(k)' = Moved(k) + c,
           wallet' = [wallet EXCEPT ![p] = wallet[p] + c]
    PROVE  /\ MovedTotal' = MovedTotal + c
           /\ SumFunctionOnSet(wallet', Players)
                = SumFunctionOnSet(wallet, Players) + c
  <1>1. SumFunctionOnSet(wallet', Players) = SumFunctionOnSet(wallet, Players) + c
    <2>1. wallet \in [Players -> Int]
      BY ConstantsAssumption DEF TypeInv, TypeOK
    <2> QED BY <2>1, AccountChange
  <1>2. MovedTotal' = MovedTotal + c
    <2> DEFINE D == DOMAIN transfers
               f == [t \in D |-> Moved(t)]
               g == [t \in D |-> Moved(t)']
    <2>1. IsFiniteSet(D) /\ k \in D
      BY TotalsType
    <2>2. /\ \A t \in D : f[t] \in Int
          /\ g[k] \in Int
          /\ \A t \in D \ {k} : g[t] = f[t]
      BY UnitsType
    <2>3. g[k] = f[k] + c /\ f[k] \in Int
      BY UnitsType
    <2>4. MovedTotal = SumFunctionOnSet(f, D)
      BY DEF MovedTotal
    <2>5. MovedTotal' = SumFunctionOnSet(g, D)
      BY DEF MovedTotal
    <2> HIDE DEF D, f, g
    <2>6. SumFunctionOnSet(g, D) = SumFunctionOnSet(f, D) + g[k] - f[k]
      BY ONLY <2>1, <2>2, SumChange
    <2> QED BY <2>3, <2>4, <2>5, <2>6, UnitsType
  <1> QED BY <1>1, <1>2

\* The history of moves stays while its rows keep their units.
LEMMA KeepMoves ==
    ASSUME TypeInv, DOMAIN transfers' = DOMAIN transfers,
           \A t \in DOMAIN transfers : Moved(t)' = Moved(t)
    PROVE  MovedTotal' = MovedTotal
  <1> DEFINE D == DOMAIN transfers
             f == [t \in D |-> Moved(t)]
             g == [t \in D |-> Moved(t)']
  <1>1. IsFiniteSet(D) /\ \A t \in D : g[t] = f[t]
    BY TotalsType
  <1>2. MovedTotal = SumFunctionOnSet(f, D)
    BY DEF MovedTotal
  <1>3. MovedTotal' = SumFunctionOnSet(g, D)
    BY DEF MovedTotal
  <1> HIDE DEF D, f, g
  <1> QED BY <1>1, <1>2, <1>3, SumEqual

\* A new row has moved nothing, and has a baseline.
LEMMA PrepareMoves ==
    ASSUME TypeInv, MovedInv, NEW p \in Players,
           NEW dir \in {"DEPOSIT", "WITHDRAW"}, NEW units \in Nat,
           prepareEconomyTransfer(p, dir, units)
    PROVE  MovedInv'
  <1>0. PICK n : n = Len(transfers) + 1
    OBVIOUS
  <1> DEFINE D == DOMAIN transfers
             e == [player |-> p, direction |-> dir, units |-> units,
                   before |-> wallet[p], status |-> "PREPARED"]
             f == [t \in D |-> Moved(t)]
             g == [t \in D \cup {n} |-> Moved(t)']
  <1>1. e \in Transfer /\ e.before \in Nat
    BY ConstantsAssumption DEF TypeInv, TypeOK, Transfer
  <1>2. transfers' = Append(transfers, e)
    BY DEF prepareEconomyTransfer, Prepared
  <1> HIDE DEF e
  <1>3. /\ DOMAIN transfers' = D \cup {n} /\ n \notin D
        /\ transfers'[n] = e
        /\ \A t \in D : transfers'[t] = transfers[t]
    BY <1>0, <1>1, <1>2, InsertRow DEF TypeInv, TypeOK
  <1>4. /\ applied'[n] = 0
        /\ \A t \in D : applied'[t] = applied[t]
        /\ wallet' = wallet /\ external' = external
    <2>1. /\ applied \in Seq(Nat) /\ Len(applied) = Len(transfers)
          /\ DOMAIN transfers = 1 .. Len(transfers)
      BY DEF TypeInv, TypeOK
    <2>2. applied' = Append(applied, 0)
      BY DEF prepareEconomyTransfer
    <2> QED BY <1>0, <2>1, <2>2, InsertRow DEF prepareEconomyTransfer
  <1>5. /\ \A t \in D : Moved(t)' = Moved(t)
        /\ Moved(n)' = 0
    BY <1>3, <1>4 DEF Moved
  <1>6. MovedTotal' = MovedTotal
    <2>1. IsFiniteSet(D) /\ \A t \in D : f[t] \in Int
      BY TotalsType, UnitsType
    <2>2. /\ \A t \in D \cup {n} : g[t] \in Int
          /\ \A t \in D : g[t] = f[t]
      BY <1>3, <1>5, <2>1
    <2>3. g[n] = 0
      BY <1>5
    <2>4. MovedTotal = SumFunctionOnSet(f, D)
      BY DEF MovedTotal
    <2>5. MovedTotal' = SumFunctionOnSet(g, D \cup {n})
      BY <1>3 DEF MovedTotal
    <2>6. n \notin D
      BY <1>3
    <2> HIDE DEF D, f, g
    <2>7. SumFunctionOnSet(g, D \cup {n}) = SumFunctionOnSet(g, D) + g[n]
      BY ONLY <2>1, <2>2, <2>6, SumAdd
    <2>8. SumFunctionOnSet(g, D) = SumFunctionOnSet(f, D)
      BY ONLY <2>1, <2>2, SumEqual
    <2> QED BY <2>3, <2>4, <2>5, <2>7, <2>8, UnitsType
  <1>7. LegacyExact'
    BY <1>1, <1>3, <1>4 DEF MovedInv, LegacyExact, NoBaseline
  <1> QED BY <1>4, <1>6, <1>7 DEF MovedInv, WalletExact

\* Nothing that the totals count changes.
LEMMA SameMoves ==
    ASSUME TypeInv, MovedInv, UNCHANGED <<transfers, wallet, applied, external>>
    PROVE  MovedInv'
  <1>1. \A t \in DOMAIN transfers : Moved(t)' = Moved(t)
    BY DEF Moved
  <1>2. MovedTotal' = MovedTotal
    BY <1>1, KeepMoves
  <1> QED BY <1>2 DEF MovedInv, WalletExact, LegacyExact

\* UMoney is changed, and the history knows.
LEMMA ChangeMoves ==
    ASSUME TypeInv, OnceInv, MovedInv, change
    PROVE  MovedInv'
  <1>1. PICK k : k = run.cur
    OBVIOUS
  <1>2. /\ Working /\ k \in DOMAIN transfers /\ transfers' = transfers
        /\ Open(k) /\ applied[k] = 0 /\ external' = external
    BY <1>1 DEF change, Working, Stage, TypeInv, TypeOK, db, OnceInv, StageKnows
  <1>3. /\ Cur = transfers[k] /\ Cur \in Transfer
        /\ Cur.player \in Players /\ Delta(Cur) \in Int
    BY <1>1, <1>2, VerdictFacts, TransferFacts DEF Cur
  <1>4. applied'[k] = 1 /\ \A t \in DOMAIN transfers \ {k} : applied'[t] = applied[t]
    BY <1>1, <1>2 DEF change, TypeInv, TypeOK
  <1>5. /\ \A t \in DOMAIN transfers \ {k} : Moved(t)' = Moved(t)
        /\ Moved(k)' = Moved(k) + Delta(Cur)
    BY <1>2, <1>3, <1>4 DEF Moved
  <1>6. PICK c \in Int : c = Delta(Cur)
    BY <1>3
  <1>7. PICK p \in Players : p = Cur.player
    BY <1>3
  <1>8. wallet' = [wallet EXCEPT ![p] = wallet[p] + c]
    BY <1>6, <1>7 DEF change
  <1>9. /\ MovedTotal' = MovedTotal + c
        /\ SumFunctionOnSet(wallet', Players)
             = SumFunctionOnSet(wallet, Players) + c
    BY <1>2, <1>5, <1>6, <1>8, MoveUnits
  <1>10. WalletExact'
    BY <1>2, <1>9, UnitsType DEF MovedInv, WalletExact
  <1>11. LegacyExact'
    BY <1>2, <1>4 DEF MovedInv, LegacyExact, Open
  <1> QED BY <1>10, <1>11 DEF MovedInv

\* Recording an outcome moves no units.
LEMMA SettleMoves ==
    ASSUME TypeInv, OnceInv, MovedInv, settle
    PROVE  MovedInv'
  <1>1. /\ run.cur \in DOMAIN transfers /\ Working
        /\ DOMAIN transfers' = DOMAIN transfers
        /\ transfers'[run.cur] =
             [transfers[run.cur] EXCEPT !.status = StatusAfter[run.stage]]
        /\ \A t \in DOMAIN transfers \ {run.cur} : transfers'[t] = transfers[t]
    BY StatementFacts DEF settle
  <1>2. UNCHANGED <<wallet, applied, external>>
    BY DEF settle, umoney
  <1>3. run.stage \in {"mark", "complete", "fail", "block"}
    BY DEF settle, Statement, StatusAfter
  <1>4. transfers[run.cur] \in Transfer
    BY <1>1, TotalsType
  <1>5. \A t \in DOMAIN transfers :
            /\ transfers'[t].direction = transfers[t].direction
            /\ transfers'[t].units = transfers[t].units
            /\ transfers'[t].before = transfers[t].before
    BY <1>1, <1>4 DEF Transfer
  <1>6. \A t \in DOMAIN transfers : Moved(t)' = Moved(t)
    BY <1>2, <1>5 DEF Moved, Delta
  <1>7. MovedTotal' = MovedTotal
    BY <1>1, <1>6, KeepMoves
  <1>8. LegacyExact'
    <2>1. transfers'[run.cur].status \in {"PREPARED", "BLOCKED"}
            => transfers[run.cur].status = "PREPARED"
      <3>1. transfers'[run.cur].status = StatusAfter[run.stage]
        BY <1>1, <1>4 DEF Transfer
      <3> QED BY <1>3, <3>1 DEF StatusAfter, OnceInv, StageKnows, Stage, Cur
    <2>2. \A t \in DOMAIN transfers :
            transfers'[t].status \in {"PREPARED", "BLOCKED"}
                => transfers[t].status \in {"PREPARED", "BLOCKED"}
      BY <1>1, <2>1
    <2> QED BY <1>1, <1>2, <1>5, <2>2 DEF MovedInv, LegacyExact
  <1> QED BY <1>2, <1>7, <1>8 DEF MovedInv, WalletExact

\* A power loss takes back the units whose change was not synced.
LEMMA PowerMoves ==
    ASSUME TypeInv, OnceInv, MovedInv, PowerOnly' => PowerOnly, Calm', powerLoss
    PROVE  MovedInv'
  <1>1. PowerOnly
    BY DEF powerLoss, Use, Calm, KillsOnly, TypeInv, TypeOK, NoUse
  <1>2. /\ UNCHANGED <<transfers, external>>
        /\ wallet' = disk /\ applied' = durable
    BY DEF powerLoss, db
  <1>3. CASE ~Stage("sync")
    BY <1>1, <1>2, <1>3, SameMoves DEF OnceInv, Synced
  <1>4. CASE Stage("sync")
    <2>1. PICK k : k = run.cur
      OBVIOUS
    <2>2. /\ disk = [wallet EXCEPT ![Cur.player] = Cur.before]
          /\ \A t \in DOMAIN transfers :
                durable[t] = IF t = k THEN 0 ELSE applied[t]
      BY <1>1, <1>4, <2>1 DEF OnceInv, Synced
    <2>3. /\ Working /\ k \in DOMAIN transfers /\ Open(k) /\ applied[k] = 1
      BY <1>4, <2>1 DEF Working, Stage, TypeInv, TypeOK, OnceInv, StageKnows
    <2>4. /\ Cur = transfers[k] /\ Cur.player \in Players
          /\ Delta(Cur) \in Int /\ Cur.before \in Int
      BY <2>1, <2>3, VerdictFacts, TransferFacts DEF Cur
    <2>5. wallet[Cur.player] = Cur.before + Delta(Cur)
      BY <2>3, <2>4 DEF OnceInv, OpenTold, Told, Expected
    <2>6. PICK c \in Int : c = 0 - Delta(Cur)
      BY <2>4
    <2>7. PICK p \in Players : p = Cur.player
      BY <2>4
    <2>8. wallet' = [wallet EXCEPT ![p] = wallet[p] + c]
      <3>1. wallet[p] + c = Cur.before
        BY <2>4, <2>5, <2>6, <2>7
      <3> QED BY <1>2, <2>2, <2>7, <3>1
    <2>9. /\ \A t \in DOMAIN transfers \ {k} : Moved(t)' = Moved(t)
          /\ Moved(k)' = Moved(k) + c
      BY <1>2, <2>2, <2>3, <2>4, <2>6 DEF Moved
    <2>10. /\ MovedTotal' = MovedTotal + c
           /\ SumFunctionOnSet(wallet', Players)
                = SumFunctionOnSet(wallet, Players) + c
      BY <1>2, <2>3, <2>8, <2>9, MoveUnits
    <2>11. WalletExact'
      BY <1>2, <2>10, UnitsType DEF MovedInv, WalletExact
    <2>12. LegacyExact'
      BY <1>2, <2>2 DEF MovedInv, LegacyExact
    <2> QED BY <2>11, <2>12 DEF MovedInv
  <1> QED BY <1>3, <1>4

\* What another plugin adds is counted as such.
LEMMA ExternalMoves ==
    ASSUME TypeInv, MovedInv, NEW p \in Players, NEW d \in ExternalDeltas,
           externalChange(p, d)
    PROVE  MovedInv'
  <1>1. d \in Int /\ wallet \in [Players -> Int]
    BY ConstantsAssumption DEF TypeInv, TypeOK
  <1>2. /\ UNCHANGED <<transfers, applied>>
        /\ wallet' = [wallet EXCEPT ![p] = wallet[p] + d]
        /\ external' = external + d
    BY DEF externalChange, db
  <1>3. SumFunctionOnSet(wallet', Players) = SumFunctionOnSet(wallet, Players) + d
    BY <1>1, <1>2, AccountChange
  <1>4. \A t \in DOMAIN transfers : Moved(t)' = Moved(t)
    BY <1>2 DEF Moved
  <1>5. MovedTotal' = MovedTotal
    BY <1>2, <1>4, KeepMoves
  <1>6. WalletExact'
    BY <1>1, <1>2, <1>3, <1>5, UnitsType DEF MovedInv, WalletExact
  <1> QED BY <1>2, <1>6 DEF MovedInv, LegacyExact

\* At the start UMoney lacks what a deposit of the old bridge took out.
LEMMA InitMoves == Init => MovedInv
  <1> SUFFICES ASSUME Init PROVE MovedInv
    OBVIOUS
  <1>1. TypeInv
    BY InitType
  <1>2. LegacyExact
    <2>1. transfers \in LegacyTransfers
      BY DEF Init
    <2>2. \A t \in DOMAIN transfers : transfers[t].direction = "DEPOSIT"
      BY <2>1 DEF LegacyTransfers, LegacyTransfer
    <2> QED BY <2>2, LegacyFacts DEF LegacyExact
  <1> DEFINE base == [q \in Players |-> InitialUnits]
  <1>3. SumFunctionOnSet(base, Players) = Cardinality(Players) * InitialUnits
    <2>1. /\ IsFiniteSet(Players) /\ InitialUnits \in Int
          /\ \A q \in Players : base[q] = InitialUnits
      BY ConstantsAssumption
    <2> HIDE DEF base
    <2> QED BY <2>1, SumConst
  <1>4. base \in [Players -> Int] /\ InitialUnits \in Int /\ external = 0
    BY ConstantsAssumption DEF Init
  <1>5. transfers \in LegacyTransfers
    BY DEF Init
  <1>6. CASE \A t \in DOMAIN transfers : applied[t] # 1
    <2> DEFINE D == DOMAIN transfers
               f == [t \in D |-> Moved(t)]
    <2>1. IsFiniteSet(D) /\ \A t \in D : f[t] = 0
      BY <1>1, <1>6, TotalsType DEF Moved
    <2>2. MovedTotal = SumFunctionOnSet(f, D)
      BY DEF MovedTotal
    <2> HIDE DEF D, f
    <2>3. MovedTotal = 0
      BY <2>1, <2>2, SumZero
    <2>4. wallet = base
      BY <1>6 DEF Init
    <2> QED BY <1>1, <1>2, <1>3, <1>4, <2>3, <2>4, UnitsType
            DEF MovedInv, WalletExact
  <1>7. ASSUME NEW p \in Players, transfers = <<LegacyTransfer(p, "EXTERNAL_APPLIED")>>
        PROVE  MovedInv
    <2> DEFINE f == [t \in DOMAIN transfers |-> Moved(t)]
    <2>1. /\ DOMAIN transfers = {} \cup {1} /\ transfers[1].player = p
          /\ Delta(transfers[1]) = 0 - 1
          /\ transfers[1].status = "EXTERNAL_APPLIED"
      BY <1>7 DEF LegacyTransfer, Delta
    <2>2. applied[1] = 1
      BY <2>1, LegacyFacts
    <2>3. f[1] = 0 - 1 /\ 1 \notin {} /\ IsFiniteSet({})
      BY <2>1, <2>2, FS_EmptySet DEF Moved
    <2>4. \A y \in {} \cup {1} : f[y] \in Int
      BY <2>3
    <2>5. MovedTotal = SumFunctionOnSet(f, {} \cup {1})
      BY <2>1 DEF MovedTotal
    <2> HIDE DEF f
    <2>6. SumFunctionOnSet(f, {} \cup {1}) = SumFunctionOnSet(f, {}) + f[1]
      <3>1. IsFiniteSet({}) /\ 1 \notin {}
        BY <2>3
      <3> HIDE DEF f
      <3> QED BY ONLY <3>1, <2>4, SumAdd, Zenon
    <2>7. MovedTotal = 0 - 1
      BY <2>3, <2>5, <2>6, SumEmpty
    <2>8. wallet = [base EXCEPT ![p] = base[p] + (0 - 1)]
      <3>1. base[p] + (0 - 1) = InitialUnits - 1
        BY <1>4
      <3>2. \A q \in Players : wallet[q] = IF q = p THEN InitialUnits - 1
                                           ELSE InitialUnits
        BY <2>1, <2>2 DEF Init
      <3>3. wallet \in [Players -> 0 .. MaxUnits]
        BY <1>1 DEF TypeInv, TypeOK
      <3> QED BY <3>1, <3>2, <3>3
    <2>9. 0 - 1 \in Int
      OBVIOUS
    <2> HIDE DEF base
    <2>10. SumFunctionOnSet(wallet, Players)
             = SumFunctionOnSet(base, Players) + (0 - 1)
      BY <1>4, <2>8, <2>9, AccountChange
    <2> QED BY <1>1, <1>2, <1>3, <1>4, <2>7, <2>10, UnitsType
            DEF MovedInv, WalletExact
  <1>8. ASSUME NEW p \in Players, transfers = <<LegacyTransfer(p, "PREPARED")>>
        PROVE  MovedInv
    <2>1. \A t \in DOMAIN transfers : transfers[t].status = "PREPARED"
      BY <1>8 DEF LegacyTransfer
    <2> QED BY <1>6, <2>1, LegacyFacts
  <1> QED BY <1>5, <1>6, <1>7, <1>8 DEF LegacyTransfers

\* The totals stay exact in every step that Calm allows.
LEMMA StepMoves ==
    TypeInv /\ (Calm => OnceInv /\ MovedInv) /\ [Next]_vars => (Calm' => MovedInv')
  <1> SUFFICES ASSUME TypeInv, OnceInv, MovedInv, [Next]_vars,
                      PowerOnly' => PowerOnly, Calm'
               PROVE  MovedInv'
    BY CalmBefore
  <1>1. CASE \/ UNCHANGED vars \/ onEnable \/ economyTask \/ endSweep \/ decide
             \/ pendingEconomyTransfers \/ nextTransfer \/ positiveBalances
             \/ syncUmoneyData
             \/ \E p \in run.buyer : fundingRefused(p)
    <2>1. UNCHANGED <<transfers, wallet, applied, external>>
      BY <1>1 DEF vars, onEnable, economyTask, endSweep, decide,
                  pendingEconomyTransfers, nextTransfer, positiveBalances,
                  syncUmoneyData, fundingRefused, db, umoney
    <2> QED BY <2>1, SameMoves
  <1>2. CASE \/ \E p \in run.buyer : placeOrder(p)
             \/ \E p, q \in Players : \E amount \in 1 .. reserved[p] :
                    release(p, q, amount)
             \/ \E p \in Players, need \in Needs : submitBuy(p, need)
             \/ kill
    <2>1. UNCHANGED <<transfers, wallet, applied, external>>
      BY <1>2 DEF placeOrder, release, submitBuy, kill, db, umoney
    <2> QED BY <2>1, SameMoves
  <1>3. ASSUME NEW p \in Players, sweepAccount(p)
        PROVE  MovedInv'
    <2>1. internal[p] \in Nat
      BY DEF TypeInv, TypeOK
    <2> QED BY <1>3, <2>1, WholeUnitsFacts, PrepareMoves DEF sweepAccount
  <1>4. ASSUME NEW p \in run.buyer, fundDirectBalance(p)
        PROVE  MovedInv'
    <2>1. /\ p \in Players
          /\ run.need - internal[p] \in Nat /\ run.need - internal[p] > 0
      BY <1>4, RunFacts DEF fundDirectBalance, TypeInv, TypeOK, Control
    <2> QED BY <1>4, <2>1, UnitsForFacts, PrepareMoves DEF fundDirectBalance
  <1>5. CASE change
    BY <1>5, ChangeMoves
  <1>6. CASE settle
    BY <1>6, SettleMoves
  <1>7. CASE powerLoss
    BY <1>7, PowerMoves
  <1>8. ASSUME NEW p \in Players, NEW d \in ExternalDeltas, externalChange(p, d)
        PROVE  MovedInv'
    BY <1>8, ExternalMoves
  <1>9. CASE databaseError \/ lostReply \/ lostPrepared \/ umoneyError
    <2>1. Use("faults", MaxFaults)
      BY <1>9 DEF databaseError, lostReply, lostPrepared, umoneyError
    <2>2. used.faults \in Nat /\ used'.faults = used.faults + 1
      BY <2>1 DEF Use, TypeInv, TypeOK, NoUse
    <2> QED BY <2>2 DEF Calm
  <1> QED BY <1>1, <1>2, <1>3, <1>4, <1>5, <1>6, <1>7, <1>8, <1>9
          DEF Next, Settlement, Environment, Failure

\* UMoney in cents, in terms of what transfers moved.
LEMMA UmoneyMoved ==
    ASSUME TypeInv, MovedInv
    PROVE  /\ UmoneyTotal = PaidInTotal + UnitCents * MovedTotal
           /\ PaidInTotal \in Int
           /\ UnitCents * MovedTotal \in Int
  <1> DEFINE start == Cardinality(Players) * InitialUnits
  <1>1. /\ UnitCents \in Int /\ start \in Int
        /\ external \in Int /\ MovedTotal \in Int
    BY ConstantsAssumption, UnitsType
  <1>2. /\ UmoneyTotal = UnitCents * (start + external + MovedTotal)
        /\ PaidInTotal = UnitCents * (start + external)
    BY DEF UmoneyTotal, PaidInTotal, MovedInv, WalletExact
  <1> HIDE DEF start
  <1>3. \A u, a, b \in Int : u * (a + b) = u * a + u * b
    OBVIOUS
  <1>4. start + external \in Int
    BY <1>1
  <1>5. \A a, b \in Int : a * b \in Int
    OBVIOUS
  <1> QED BY <1>1, <1>2, <1>3, <1>4, <1>5

\* A transfer puts no more into UMoney than its books took from the exchange.
LEMMA MovedWithinBook ==
    ASSUME TypeInv, OnceInv, NEW t \in DOMAIN transfers
    PROVE  /\ Book(transfers[t]) - UnitCents * Moved(t) \in Nat
           /\ transfers[t].direction = "DEPOSIT" => 0 - Moved(t) \in Nat
           /\ transfers[t].status \in {"COMPLETED", "FAILED"}
                => Book(transfers[t]) = UnitCents * Moved(t)
           /\ Moved(t) \in Int /\ UnitCents * Moved(t) \in Int
  <1>1. /\ transfers[t].units \in Nat /\ cents(transfers[t]) \in Nat
        /\ transfers[t].direction \in {"DEPOSIT", "WITHDRAW"}
    BY TotalsType, TransferFacts
  <1>2. UnitCents \in Nat /\ cents(transfers[t]) = UnitCents * transfers[t].units
    BY <1>1, ConstantsAssumption DEF cents
  <1>3. /\ UnitCents * 0 = 0
        /\ UnitCents * (- transfers[t].units) = - (UnitCents * transfers[t].units)
    BY <1>1, <1>2
  <1>4. /\ transfers[t].status = "COMPLETED" => applied[t] = 1
        /\ transfers[t].status = "FAILED" => applied[t] = 0
    BY DEF OnceInv, ExactlyOnce
  <1>5. CASE applied[t] = 1 /\ transfers[t].direction = "WITHDRAW"
    BY <1>1, <1>2, <1>4, <1>5 DEF Moved, Delta, Book
  <1>6. CASE applied[t] = 1 /\ transfers[t].direction = "DEPOSIT"
    BY <1>1, <1>2, <1>3, <1>4, <1>6 DEF Moved, Delta, Book
  <1>7. CASE applied[t] # 1
    BY <1>1, <1>2, <1>3, <1>4, <1>7 DEF Moved, Book
  <1> QED BY <1>1, <1>5, <1>6, <1>7

\* The same for the totals.
LEMMA MovedWithinBooked ==
    ASSUME TypeInv, OnceInv
    PROVE  UnitCents * MovedTotal <= Booked
  <1> DEFINE D == DOMAIN transfers
             m == [t \in D |-> Moved(t)]
             scaled == [t \in D |-> UnitCents * m[t]]
             b == [t \in D |-> Book(transfers[t])]
             gap == [t \in D |-> b[t] - scaled[t]]
  <1>1. IsFiniteSet(D)
    BY TotalsType
  <1>2. /\ \A t \in D : m[t] \in Int /\ scaled[t] = UnitCents * m[t]
        /\ \A t \in D : gap[t] \in Nat
        /\ \A t \in D : scaled[t] \in Int /\ b[t] \in Int /\ gap[t] = b[t] - scaled[t]
    BY TotalsType, MovedWithinBook
  <1>3. MovedTotal = SumFunctionOnSet(m, D) /\ Booked = SumFunctionOnSet(b, D)
    BY DEF MovedTotal, Booked
  <1>4. UnitCents \in Int
    BY ConstantsAssumption
  <1> HIDE DEF D, m, scaled, b, gap
  <1>5. SumFunctionOnSet(scaled, D) = UnitCents * SumFunctionOnSet(m, D)
    BY ONLY <1>1, <1>2, <1>4, SumScale
  <1>6. SumFunctionOnSet(gap, D) \in Nat
    BY ONLY <1>1, <1>2, SumNat
  <1>7. \A t \in D : scaled[t] \in Int /\ gap[t] \in Int /\ b[t] = scaled[t] + gap[t]
    BY <1>2
  <1>8. SumFunctionOnSet(b, D)
          = SumFunctionOnSet(scaled, D) + SumFunctionOnSet(gap, D)
    BY ONLY <1>1, <1>7, SumPlus
  <1>9. SumFunctionOnSet(scaled, D) \in Int
    <2>1. \A t \in D : scaled[t] \in Int
      BY <1>2
    <2> QED BY ONLY <1>1, <2>1, SumInt
  <1> QED BY <1>3, <1>5, <1>6, <1>8, <1>9

\* Transfers that all take units out of UMoney put none in.
LEMMA DepositsTake ==
    ASSUME TypeInv, OnceInv,
           \A t \in DOMAIN transfers : transfers[t].direction = "DEPOSIT"
    PROVE  UnitCents * MovedTotal <= 0
  <1> DEFINE D == DOMAIN transfers
             m == [t \in D |-> Moved(t)]
             taken == [t \in D |-> (0 - 1) * m[t]]
  <1>1. IsFiniteSet(D) /\ 0 - 1 \in Int
    BY TotalsType
  <1>2. /\ \A t \in D : m[t] \in Int /\ taken[t] = (0 - 1) * m[t]
        /\ \A t \in D : taken[t] \in Nat
    BY MovedWithinBook
  <1>3. MovedTotal = SumFunctionOnSet(m, D)
    BY DEF MovedTotal
  <1> HIDE DEF D, m, taken
  <1>4. SumFunctionOnSet(taken, D) = (0 - 1) * SumFunctionOnSet(m, D)
    BY ONLY <1>1, <1>2, SumScale
  <1>5. SumFunctionOnSet(taken, D) \in Nat
    BY ONLY <1>1, <1>2, SumNat
  <1>6. MovedTotal \in Int /\ MovedTotal <= 0
    BY <1>3, <1>4, <1>5, UnitsType
  <1>7. \A u \in Nat, a \in Int : a <= 0 => u * a <= 0
    OBVIOUS
  <1>8. UnitCents \in Nat
    BY ConstantsAssumption
  <1> QED BY <1>6, <1>7, <1>8

\* The exchange never gives out UMoney that was not paid in, but for the free
\* balances the first start let in, wherever the process is killed or power is
\* lost, as long as no call has failed.
THEOREM NothingMintedHolds == Spec => [](Calm => NothingMinted)
  <1>1. TypeInv /\ OnceInv /\ BackInv /\ MovedInv => NothingMinted
    <2> SUFFICES ASSUME TypeInv, OnceInv, BackInv, MovedInv
                 PROVE  NothingMinted
      OBVIOUS
    <2>0. hidden \in Nat
      BY DEF TypeInv, TypeOK
    <2> SUFFICES UnitCents * MovedTotal <= hidden
      BY <2>0, UmoneyMoved DEF NothingMinted
    <2>1. CASE Balanced
      <3>1. IsFiniteSet(Players) /\ \A p \in Players : internal[p] \in Nat
        BY TotalsType
      <3>2. IsFiniteSet(Players) /\ \A p \in Players : reserved[p] \in Nat
        BY TotalsType
      <3>3. /\ SumFunctionOnSet(internal, Players) \in Nat
            /\ SumFunctionOnSet(reserved, Players) \in Nat
        BY <3>1, <3>2, SumNat
      <3>4. Held \in Nat
        BY <3>3 DEF Held
      <3> QED BY <2>0, <2>1, <3>4, MovedWithinBooked, TotalsType, UmoneyMoved
              DEF Balanced
    <2>2. CASE Refused
      BY <2>0, <2>2, DepositsTake, UmoneyMoved DEF Refused
    <2> QED BY <2>1, <2>2 DEF BackInv
  <1> QED BY <1>1, StepOnce, StepMoves, InitOnce, InitMoves, InitBack, StepBack,
             TypeInvariant, PTL DEF Spec

\* No money is lost or created by settlement: once nothing is in flight, what
\* left UMoney is in balances and reserves, to the cent, with the free balances
\* the first start let in.
THEOREM ConservedWhenSettledHolds == Spec => [](Calm => ConservedWhenSettled)
  <1>1. TypeInv /\ OnceInv /\ BackInv /\ MovedInv => ConservedWhenSettled
    <2> SUFFICES ASSUME TypeInv, OnceInv, BackInv, MovedInv,
                        run.stage \notin {"down", "refused"},
                        \A t \in DOMAIN transfers :
                            \/ transfers[t].before # NoBaseline
                            \/ transfers[t].status = "EXTERNAL_APPLIED"
                            => transfers[t].status \in {"COMPLETED", "FAILED"}
                 PROVE  UmoneyTotal + Held = PaidInTotal + hidden
      BY DEF ConservedWhenSettled
    <2>1. \A t \in DOMAIN transfers : Book(transfers[t]) = UnitCents * Moved(t)
      <3> SUFFICES ASSUME NEW t \in DOMAIN transfers
                   PROVE  Book(transfers[t]) = UnitCents * Moved(t)
        OBVIOUS
      <3>1. CASE transfers[t].status \in {"COMPLETED", "FAILED"}
        BY <3>1, MovedWithinBook
      <3>2. CASE transfers[t].status \notin {"COMPLETED", "FAILED"}
        <4>1. /\ transfers[t].before = NoBaseline
              /\ transfers[t].status \in {"PREPARED", "BLOCKED"}
          BY <3>2, TotalsType DEF Transfer
        <4>2. transfers[t].direction = "DEPOSIT" /\ applied[t] = 0
          BY <4>1 DEF MovedInv, LegacyExact
        <4> QED BY <4>1, <4>2, ConstantsAssumption DEF Book, Moved
      <3> QED BY <3>1, <3>2
    <2>2. Booked = UnitCents * MovedTotal
      <3> DEFINE D == DOMAIN transfers
                 m == [t \in D |-> Moved(t)]
                 b == [t \in D |-> Book(transfers[t])]
      <3>1. IsFiniteSet(D) /\ UnitCents \in Int
        BY TotalsType, ConstantsAssumption
      <3>2. \A t \in D : m[t] \in Int /\ b[t] = UnitCents * m[t]
        BY <2>1, UnitsType
      <3>3. MovedTotal = SumFunctionOnSet(m, D) /\ Booked = SumFunctionOnSet(b, D)
        BY DEF MovedTotal, Booked
      <3> HIDE DEF D, m, b
      <3>4. SumFunctionOnSet(b, D) = UnitCents * SumFunctionOnSet(m, D)
        BY ONLY <3>1, <3>2, SumScale
      <3> QED BY <3>3, <3>4
    <2>3. Held + Booked = hidden /\ hidden \in Nat
      BY DEF BackInv, Refused, Balanced, TypeInv, TypeOK
    <2> QED BY <2>2, <2>3, UmoneyMoved, TotalsType
  <1> QED BY <1>1, StepOnce, StepMoves, InitOnce, InitMoves, InitBack, StepBack,
             TypeInvariant, PTL DEF Spec

=============================================================================
