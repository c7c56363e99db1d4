------------------------ MODULE ExchangeOrdersProofs ------------------------
(***************************************************************************)
(* Proofs about ExchangeOrders, for every number of players, orders,       *)
(* markets and items, every price and quantity.                            *)
(*                                                                         *)
(* The invariants of the committed tables are not inductive: a call in     *)
(* progress has already changed the working tables. Inductive says of the  *)
(* working tables what the properties say of the committed ones, for all   *)
(* rows but the incoming one, and pins the incoming row to the local       *)
(* variables of the loop.                                                  *)
(***************************************************************************)
EXTENDS ExchangeOrders, SequenceTheorems, TLAPS

-----------------------------------------------------------------------------
(* The inductive invariant *)

\* What holds of a row r no call is working on, given the markets ms.
GoodRow(r, ms) ==
    /\ r.market \in DOMAIN ms
    /\ r.reserved = IF IsOpen(r) /\ r.side = "BUY"
                    THEN r.price * r.remaining ELSE 0
    /\ IF IsOpen(r)
       THEN /\ r.price > 0
            /\ r.remaining \in 1 .. r.original
            /\ (r.status = "PARTIAL") <=> (r.remaining < r.original)
            /\ ms[r.market].active \/ ms[r.market].reopenable
       ELSE r.remaining = 0 /\ r.status # "OPEN"

\* Two rows of different players that could still trade with each other.
Crossed(b, a, ms) ==
    /\ IsOpen(b) /\ b.side = "BUY"
    /\ IsOpen(a) /\ a.side = "SELL"
    /\ ms[b.market].item = ms[a.market].item
    /\ b.player # a.player
    /\ b.price >= a.price

\* The rows D of table s are good and no two of them cross.
GoodBook(s, D, ms) ==
    /\ \A o \in D : GoodRow(s[o], ms)
    /\ \A b, a \in D : ~Crossed(s[b], s[a], ms)

Placing == txn.kind \in {"BUY", "SELL"}

\* The rows of the working table other than the incoming one.
Settled == IF Placing THEN DOMAIN orders \ {txn.order} ELSE DOMAIN orders

CommittedRows == GoodBook(Rows, DOMAIN Rows, markets)

WorkingRows == GoodBook(orders, Settled, markets)

\* The row placeOrder inserted, before the final UPDATE of it.
IncomingRow ==
    Placing =>
        /\ txn.order \in DOMAIN orders
        /\ txn.market \in DOMAIN markets
        /\ markets[txn.market].active
        /\ Incoming.market = txn.market
        /\ Incoming.side = txn.kind
        /\ Incoming.type = "LIMIT" => Incoming.price > 0
        /\ Incoming.original = txn.remaining + txn.filled
        /\ txn.kind = "SELL" => Incoming.reserved = 0

RetireTarget == txn.kind = "RETIRE" => txn.market \in DOMAIN markets

Inductive ==
    /\ TypeOK
    /\ BindingsMatchMarkets
    /\ CommittedRows
    /\ WorkingRows
    /\ IncomingRow
    /\ RetireTarget

-----------------------------------------------------------------------------
(* Facts about numbers and sequences *)

\* Products of prices and quantities, as the reserves and fills use them.
LEMMA Products ==
    /\ \A a, b \in Nat : a * b \in Nat
    /\ \A a, b, c \in Nat : a * (b - c) = a * b - a * c
    /\ \A a, b, c \in Nat : (b - c) * a = b * a - c * a
    /\ \A a, b, c \in Nat : b <= c => a * b <= a * c
    /\ \A a, b, c \in Nat : b <= c => b * a <= c * a
  <1>1. \A a, b \in Nat : a * b \in Nat
    BY Z3
  <1>2. \A a, b, c \in Nat : a * (b - c) = a * b - a * c
    BY Z3
  <1>3. \A a, b, c \in Nat : (b - c) * a = b * a - c * a
    BY Z3
  <1>4. \A a, b, c \in Nat : b <= c => a * b <= a * c
    BY Z3
  <1>5. \A a, b, c \in Nat : b <= c => b * a <= c * a
    BY Z3
  <1> QED BY <1>1, <1>2, <1>3, <1>4, <1>5

\* available_balance / price items never cost more than available_balance.
LEMMA Quotients ==
    \A a \in Nat, p \in Nat \ {0} :
        a \div p \in Nat /\ p * (a \div p) <= a
  BY Z3

\* Inserting a row keeps the rows there are.
LEMMA InsertRow ==
    ASSUME NEW S, NEW s \in Seq(S), NEW e \in S
    PROVE  /\ Append(s, e) \in Seq(S)
           /\ DOMAIN s = 1 .. Len(s)
           /\ DOMAIN Append(s, e) = DOMAIN s \cup {Len(s) + 1}
           /\ Len(s) + 1 \notin DOMAIN s
           /\ Len(s) \in Nat
           /\ Append(s, e)[Len(s) + 1] = e
           /\ \A i \in DOMAIN s : Append(s, e)[i] = s[i]
  BY SMT

\* Updating a row keeps the others.
LEMMA UpdateRow ==
    ASSUME NEW S, NEW s \in Seq(S), NEW e \in S, NEW k \in DOMAIN s
    PROVE  /\ [s EXCEPT ![k] = e] \in Seq(S)
           /\ DOMAIN [s EXCEPT ![k] = e] = DOMAIN s
           /\ [s EXCEPT ![k] = e][k] = e
           /\ \A i \in DOMAIN s \ {k} : [s EXCEPT ![k] = e][i] = s[i]
  BY ExceptSeq

-----------------------------------------------------------------------------
(* What the statements of the calls do to a good book *)

\* A market table that keeps ids, items and the right to hold orders.
Keeps(ms, new) ==
    /\ DOMAIN ms \subseteq DOMAIN new
    /\ \A m \in DOMAIN ms :
        /\ new[m].item = ms[m].item
        /\ ms[m].active \/ ms[m].reopenable => new[m].active \/ new[m].reopenable

\* A book stays good under every change of the markets that Keeps allows.
LEMMA KeptMarkets ==
    ASSUME NEW ms, NEW new, Keeps(ms, new), NEW s, NEW D, GoodBook(s, D, ms)
    PROVE  GoodBook(s, D, new)
  BY DEF Keeps, GoodBook, GoodRow, Crossed

\* An insert leaves the book of the older rows as it is.
LEMMA InsertKeepsBook ==
    ASSUME NEW ms, NEW s \in Seq(Order), NEW e \in Order,
           GoodBook(s, DOMAIN s, ms)
    PROVE  GoodBook(Append(s, e), DOMAIN Append(s, e) \ {Len(s) + 1}, ms)
  <1>a. DOMAIN Append(s, e) = DOMAIN s \cup {Len(s) + 1}
    BY InsertRow
  <1>b. Len(s) + 1 \notin DOMAIN s
    BY InsertRow
  <1>1. DOMAIN Append(s, e) \ {Len(s) + 1} = DOMAIN s
    BY <1>a, <1>b
  <1>2. \A i \in DOMAIN s : Append(s, e)[i] = s[i]
    BY InsertRow
  <1> QED BY <1>1, <1>2 DEF GoodBook

\* Trading against a resting order, or cancelling it, keeps the book good: the
\* row keeps its place and price, and a row that rests rested before.
LEMMA TradeKeepsBook ==
    ASSUME NEW ms, NEW s \in Seq(Order), NEW e \in Order,
           NEW D \in SUBSET DOMAIN s, NEW k \in D, GoodBook(s, D, ms),
           GoodRow(e, ms), IsOpen(e) => IsOpen(s[k]),
           e.market = s[k].market, e.side = s[k].side,
           e.player = s[k].player, e.price = s[k].price
    PROVE  GoodBook([s EXCEPT ![k] = e], D, ms)
  <1> DEFINE t == [s EXCEPT ![k] = e]
  <1>1. t[k] = e /\ \A i \in D \ {k} : t[i] = s[i]
    BY UpdateRow
  <1> HIDE DEF t
  <1>2. \A o \in D : GoodRow(t[o], ms)
    BY <1>1 DEF GoodBook
  <1>3. \A b, a \in D : Crossed(t[b], t[a], ms) => Crossed(s[b], s[a], ms)
    BY <1>1 DEF Crossed
  <1> QED BY <1>2, <1>3 DEF GoodBook, t

\* The final UPDATE of the incoming row k makes it one of the book.
LEMMA SettleKeepsBook ==
    ASSUME NEW ms, NEW s \in Seq(Order), NEW e \in Order,
           NEW k \in DOMAIN s, GoodBook(s, DOMAIN s \ {k}, ms),
           GoodRow(e, ms),
           \A o \in DOMAIN s \ {k} : /\ ~Crossed(e, s[o], ms)
                                     /\ ~Crossed(s[o], e, ms)
    PROVE  GoodBook([s EXCEPT ![k] = e], DOMAIN s, ms)
  <1> DEFINE t == [s EXCEPT ![k] = e]
  <1>1. t[k] = e /\ \A i \in DOMAIN s \ {k} : t[i] = s[i]
    BY UpdateRow
  <1> HIDE DEF t
  <1>2. \A o \in DOMAIN s : GoodRow(t[o], ms)
    BY <1>1 DEF GoodBook
  <1>3. ~Crossed(e, e, ms)
    BY DEF Crossed
  <1>4. \A b, a \in DOMAIN s : ~Crossed(t[b], t[a], ms)
    BY <1>1, <1>3 DEF GoodBook
  <1> QED BY <1>2, <1>4 DEF GoodBook, t

-----------------------------------------------------------------------------
(* Every step keeps the inductive invariant *)

\* TypeOK, table by table.
LEMMA TypeFacts ==
    TypeOK <=>
        /\ balance \in [Players -> 0 .. MaxCents]
        /\ orders \in Seq(Order)
        /\ owed \in [Players -> [Items -> Nat]]
        /\ committed \in Tables
        /\ opened \subseteq Players
        /\ markets \in Seq(Market)
        /\ binding \in [Targets -> Nat]
        /\ txn \in Txn
        /\ minted \in Int
        /\ deposited \in [Items -> Nat]
  BY DEF TypeOK, Tables

\* The same facts, of the state after a step.
LEMMA TypeFactsPrime ==
    TypeOK' <=>
        /\ balance' \in [Players -> 0 .. MaxCents]
        /\ orders' \in Seq(Order)
        /\ owed' \in [Players -> [Items -> Nat]]
        /\ committed' \in Tables
        /\ opened' \subseteq Players
        /\ markets' \in Seq(Market)
        /\ binding' \in [Targets -> Nat]
        /\ txn' \in Txn
        /\ minted' \in Int
        /\ deposited' \in [Items -> Nat]
  BY DEF TypeOK, Tables

\* The tables between two calls, and the invariant of such a state.
LEMMA CommitStep ==
    ASSUME Commit,
           balance' \in [Players -> 0 .. MaxCents],
           orders' \in Seq(Order),
           owed' \in [Players -> [Items -> Nat]],
           opened' \subseteq Players,
           markets' \in Seq(Market),
           binding' \in [Targets -> Nat],
           minted' \in Int,
           deposited' \in [Items -> Nat],
           BindingsMatchMarkets',
           GoodBook(orders', DOMAIN orders', markets')
    PROVE  Inductive'
  <1>1. txn' \in Txn /\ txn'.kind = "IDLE"
    BY DEF Commit, NoTxn, Txn
  <1>2. committed' \in Tables /\ committed'.orders = orders'
    BY DEF Commit, Tables
  <1>3. TypeOK'
    BY <1>1, <1>2, TypeFactsPrime
  <1>4. Rows' = orders'
    BY <1>2 DEF Rows
  <1>5. CommittedRows'
    BY <1>4 DEF CommittedRows
  <1>6. Settled' = DOMAIN orders' /\ ~Placing'
    BY <1>1 DEF Settled, Placing
  <1>7. WorkingRows'
    BY <1>6 DEF WorkingRows
  <1> QED BY <1>1, <1>3, <1>5, <1>6, <1>7 DEF Inductive, IncomingRow, RetireTarget

\* Between two calls the working table is a good book.
LEMMA IdleBook ==
    ASSUME Inductive, ~Placing
    PROVE  GoodBook(orders, DOMAIN orders, markets)
  BY DEF Inductive, WorkingRows, Settled

\* Opening an account (ensureAccount) keeps the balances in range.
LEMMA OpenedType ==
    ASSUME TypeOK, NEW p \in Players
    PROVE  /\ OpenedBalance(p) \in [Players -> 0 .. MaxCents]
           /\ OpeningMoney(p) \in Int
  BY TypeFacts, ConstantsAssumption DEF OpenedBalance, OpeningMoney

\* ensureAccount and addBalance do not touch the book.
LEMMA AccountStep ==
    ASSUME Inductive, NEW p \in Players,
           ensureAccount(p) \/ \E d \in Deltas : addBalance(p, d)
    PROVE  Inductive'
  <1>1. TypeOK
    BY DEF Inductive
  <1>2. Idle /\ ~Placing
    BY DEF ensureAccount, addBalance, Idle, Placing
  <1>3. /\ UNCHANGED <<orders, owed, markets, binding, deposited>>
        /\ Commit
        /\ opened' = opened \cup {p}
    BY DEF ensureAccount, addBalance, marketVars
  <1>4. balance' \in [Players -> 0 .. MaxCents] /\ minted' \in Int
    <2>1. CASE ensureAccount(p)
      BY <1>1, <2>1, TypeFacts, OpenedType DEF ensureAccount
    <2>2. ASSUME NEW d \in Deltas, addBalance(p, d)
          PROVE  balance' \in [Players -> 0 .. MaxCents] /\ minted' \in Int
      BY <1>1, <2>2, TypeFacts, OpenedType, ConstantsAssumption
         DEF addBalance, InRange, credit
    <2> QED BY <2>1, <2>2
  <1>5. BindingsMatchMarkets'
    BY <1>3 DEF Inductive, BindingsMatchMarkets
  <1>6. GoodBook(orders', DOMAIN orders', markets')
    BY <1>2, <1>3, IdleBook
  <1> QED BY <1>1, <1>3, <1>4, <1>5, <1>6, TypeFacts, CommitStep

\* Abort goes back to the committed tables, which are a good book.
LEMMA AbortStep ==
    ASSUME Inductive, Abort
    PROVE  Inductive'
  <1>1. TypeOK /\ committed \in Tables
    BY TypeFacts DEF Inductive
  <1>2. /\ balance' = committed.balance
        /\ orders' = committed.orders
        /\ owed' = committed.owed
        /\ txn' = NoTxn
        /\ UNCHANGED <<committed, opened, markets, binding, minted, deposited>>
    BY DEF Abort, marketVars
  <1>3. TypeOK'
    BY <1>1, <1>2, TypeFacts, TypeFactsPrime DEF Tables, NoTxn, Txn
  <1>4. BindingsMatchMarkets'
    BY <1>2 DEF Inductive, BindingsMatchMarkets
  <1>5. txn'.kind = "IDLE"
    BY <1>2 DEF NoTxn
  <1>6. Rows' = Rows /\ orders' = Rows
    BY <1>2 DEF Rows
  <1>7. CommittedRows'
    BY <1>2, <1>6 DEF Inductive, CommittedRows
  <1>8. WorkingRows'
    BY <1>2, <1>5, <1>6 DEF Inductive, CommittedRows, WorkingRows, Settled, Placing
  <1> QED BY <1>3, <1>4, <1>5, <1>7, <1>8 DEF Inductive, IncomingRow, RetireTarget, Placing

\* Activating, pausing and removing a market keep what depends on markets only.
\* `tables' and the rows are unchanged, so the books survive by KeptMarkets.
LEMMA MarketFrame ==
    ASSUME Inductive, UNCHANGED <<tables, opened, txn, minted, deposited>>,
           markets' \in Seq(Market), binding' \in [Targets -> Nat],
           BindingsMatchMarkets', Keeps(markets, markets'),
           \A m \in DOMAIN markets : txn.kind # "IDLE" => markets'[m] = markets[m]
    PROVE  Inductive'
  <1>1. TypeOK'
    BY TypeFacts, TypeFactsPrime DEF Inductive, tables
  <1>2. Rows' = Rows /\ orders' = orders /\ Settled' = Settled /\ txn' = txn
    BY DEF Rows, tables, Settled, Placing
  <1>3. CommittedRows'
    BY <1>2, KeptMarkets DEF Inductive, CommittedRows
  <1>4. WorkingRows'
    BY <1>2, KeptMarkets DEF Inductive, WorkingRows
  <1>5. DOMAIN markets \subseteq DOMAIN markets'
    BY DEF Keeps
  <1>6. IncomingRow'
    BY <1>2, <1>5 DEF Inductive, IncomingRow, Placing, Incoming
  <1>7. RetireTarget'
    BY <1>2, <1>5 DEF Inductive, RetireTarget
  <1> QED BY <1>1, <1>3, <1>4, <1>6, <1>7 DEF Inductive

\* activateMarket binds a free target to a paused market of it or a new one.
LEMMA ActivateStep ==
    ASSUME Inductive, NEW t \in Targets, NEW i \in Items, activateMarket(t, i)
    PROVE  Inductive'
  <1>1. /\ markets \in Seq(Market) /\ binding \in [Targets -> Nat]
        /\ BindingsMatchMarkets
        /\ binding[t] = 0 /\ txn.kind = "IDLE"
        /\ UNCHANGED <<tables, opened, txn, minted, deposited>>
    BY TypeFacts DEF Inductive, activateMarket, Idle
  <1>2. CASE resumeMarket(t, i)
    <2>1. PICK m \in Resumable(t, i) :
            /\ markets' = [markets EXCEPT ![m].active = TRUE,
                                          ![m].reopenable = FALSE]
            /\ binding' = [binding EXCEPT ![t] = m]
      BY <1>2 DEF resumeMarket
    <2>2. /\ m \in DOMAIN markets /\ m \in Nat \ {0}
          /\ markets[m].target = t /\ ~markets[m].active /\ markets[m] \in Market
      BY <1>1 DEF Resumable
    <2> DEFINE e == [markets[m] EXCEPT !.active = TRUE, !.reopenable = FALSE]
    <2>3. /\ e \in Market /\ e.active /\ e.target = t
          /\ e.item = markets[m].item
      BY <2>2 DEF Market
    <2>4. markets' = [markets EXCEPT ![m] = e]
      BY <1>1, <2>1, <2>2
    <2> HIDE DEF e
    <2>5. /\ markets' \in Seq(Market) /\ DOMAIN markets' = DOMAIN markets
          /\ markets'[m] = e
          /\ \A n \in DOMAIN markets \ {m} : markets'[n] = markets[n]
      BY <1>1, <2>2, <2>3, <2>4, UpdateRow
    <2>6. Keeps(markets, markets')
      BY <2>3, <2>5 DEF Keeps
    <2>7. binding' \in [Targets -> Nat]
      BY <1>1, <2>1, <2>2
    <2>8. BindingsMatchMarkets'
      <3>1. ASSUME NEW n \in DOMAIN markets'
            PROVE  markets'[n].active <=> binding'[markets'[n].target] = n
        <4>1. CASE n = m
          BY <1>1, <2>1, <2>3, <2>5, <4>1
        <4>2. CASE n # m
          <5>1. markets'[n] = markets[n] /\ markets[n] \in Market
                /\ n \in DOMAIN markets /\ n \in Nat \ {0}
            BY <1>1, <2>5, <4>2
          <5>2. markets[n].active <=> binding[markets[n].target] = n
            BY <1>1, <5>1 DEF BindingsMatchMarkets
          <5>3. markets[n].target \in Targets
            BY <5>1 DEF Market
          <5> QED BY <1>1, <2>1, <4>2, <5>1, <5>2, <5>3
        <4> QED BY <4>1, <4>2
      <3>2. ASSUME NEW u \in Targets, binding'[u] # 0
            PROVE  /\ binding'[u] \in DOMAIN markets'
                   /\ markets'[binding'[u]].target = u
        <4>1. CASE u = t
          BY <1>1, <2>1, <2>2, <2>3, <2>5, <4>1
        <4>2. CASE u # t
          <5>1. binding'[u] = binding[u]
            BY <1>1, <2>1, <4>2
          <5>2. binding[u] \in DOMAIN markets /\ markets[binding[u]].target = u
            BY <1>1, <3>2, <5>1 DEF BindingsMatchMarkets
          <5>3. binding[u] # m
            BY <2>2, <4>2, <5>2
          <5> QED BY <2>5, <5>1, <5>2, <5>3
        <4> QED BY <4>1, <4>2
      <3> QED BY <3>1, <3>2 DEF BindingsMatchMarkets
    <2> QED BY <1>1, <2>5, <2>6, <2>7, <2>8, MarketFrame
  <1>3. CASE insertMarket(t, i)
    <2> DEFINE e == [target |-> t, item |-> i, active |-> TRUE,
                     reopenable |-> FALSE]
               m == Len(markets) + 1
    <2>1. e \in Market /\ e.target = t /\ e.active
      BY DEF Market
    <2>2. markets' = Append(markets, e) /\ binding' = [binding EXCEPT ![t] = m]
      BY <1>3 DEF insertMarket
    <2> HIDE DEF e
    <2>3. /\ markets' \in Seq(Market) /\ DOMAIN markets' = DOMAIN markets \cup {m}
          /\ m \notin DOMAIN markets /\ m \in Nat \ {0}
          /\ markets'[m] = e
          /\ \A n \in DOMAIN markets : markets'[n] = markets[n]
          /\ \A n \in DOMAIN markets : markets[n] \in Market /\ n \in Nat \ {0}
      BY <1>1, <2>1, <2>2, InsertRow
    <2> HIDE DEF m
    <2>4. Keeps(markets, markets')
      BY <2>3 DEF Keeps
    <2>5. binding' \in [Targets -> Nat]
      BY <1>1, <2>2, <2>3
    <2>6. BindingsMatchMarkets'
      <3>1. ASSUME NEW n \in DOMAIN markets'
            PROVE  markets'[n].active <=> binding'[markets'[n].target] = n
        <4>1. CASE n = m
          BY <1>1, <2>1, <2>2, <2>3, <4>1
        <4>2. CASE n # m
          <5>1. /\ markets'[n] = markets[n] /\ markets[n] \in Market
                /\ n \in DOMAIN markets /\ n \in Nat \ {0}
            BY <2>3, <4>2
          <5>2. markets[n].active <=> binding[markets[n].target] = n
            BY <1>1, <5>1 DEF BindingsMatchMarkets
          <5>3. markets[n].target \in Targets
            BY <5>1 DEF Market
          <5> QED BY <1>1, <2>2, <4>2, <5>1, <5>2, <5>3
        <4> QED BY <4>1, <4>2
      <3>2. ASSUME NEW u \in Targets, binding'[u] # 0
            PROVE  /\ binding'[u] \in DOMAIN markets'
                   /\ markets'[binding'[u]].target = u
        BY <1>1, <2>1, <2>2, <2>3, <3>2 DEF BindingsMatchMarkets
      <3> QED BY <3>1, <3>2 DEF BindingsMatchMarkets
    <2> QED BY <1>1, <2>3, <2>4, <2>5, <2>6, MarketFrame
  <1> QED BY <1>2, <1>3 DEF activateMarket

\* Taking market m out of service keeps bindings and active markets in step.
LEMMA Deactivation ==
    ASSUME markets \in Seq(Market), binding \in [Targets -> Nat],
           BindingsMatchMarkets, NEW m \in DOMAIN markets,
           NEW again \in BOOLEAN,
           markets' = [markets EXCEPT ![m].active = FALSE,
                                      ![m].reopenable = again],
           \A t \in Targets : binding'[t] = IF binding[t] = m THEN 0 ELSE binding[t]
    PROVE  /\ markets' \in Seq(Market) /\ DOMAIN markets' = DOMAIN markets
           /\ ~markets'[m].active /\ markets'[m].reopenable = again
           /\ markets'[m].item = markets[m].item
           /\ \A n \in DOMAIN markets \ {m} : markets'[n] = markets[n]
           /\ BindingsMatchMarkets'
  <1> DEFINE e == [markets[m] EXCEPT !.active = FALSE, !.reopenable = again]
  <1>1. markets[m] \in Market /\ m \in Nat \ {0}
    OBVIOUS
  <1>2. /\ e \in Market /\ ~e.active /\ e.reopenable = again
        /\ e.item = markets[m].item /\ e.target = markets[m].target
    BY <1>1 DEF Market
  <1>3. markets' = [markets EXCEPT ![m] = e]
    BY <1>1
  <1> HIDE DEF e
  <1>4. /\ markets' \in Seq(Market) /\ DOMAIN markets' = DOMAIN markets
        /\ markets'[m] = e
        /\ \A n \in DOMAIN markets \ {m} : markets'[n] = markets[n]
    <2>1. markets \in Seq(Market) /\ e \in Market /\ m \in DOMAIN markets
      BY <1>2
    <2> QED BY ONLY <1>3, <2>1, UpdateRow
  <1>5. ASSUME NEW n \in DOMAIN markets'
        PROVE  markets'[n].active <=> binding'[markets'[n].target] = n
    <2>1. /\ markets'[n].target = markets[n].target /\ n \in DOMAIN markets
          /\ markets[n] \in Market /\ n \in Nat \ {0}
      BY <1>2, <1>4
    <2>2. markets[n].target \in Targets
      BY <2>1 DEF Market
    <2>3. markets[n].active <=> binding[markets[n].target] = n
      BY <2>1 DEF BindingsMatchMarkets
    <2> QED BY <1>2, <1>4, <2>1, <2>2, <2>3
  <1>6. ASSUME NEW t \in Targets, binding'[t] # 0
        PROVE  binding'[t] \in DOMAIN markets' /\ markets'[binding'[t]].target = t
    BY <1>4, <1>6 DEF BindingsMatchMarkets
  <1> QED BY <1>2, <1>4, <1>5, <1>6 DEF BindingsMatchMarkets

\* closeMarket pauses a market: its orders may stay, it can be resumed.
LEMMA CloseStep ==
    ASSUME Inductive, NEW m \in DOMAIN markets, closeMarket(m)
    PROVE  Inductive'
  <1>1. /\ markets \in Seq(Market) /\ binding \in [Targets -> Nat]
        /\ BindingsMatchMarkets /\ txn.kind = "IDLE"
        /\ UNCHANGED <<tables, opened, txn, minted, deposited>>
        /\ m \in Nat \ {0}
    BY TypeFacts DEF Inductive, closeMarket, Idle
  <1>2. \A t \in Targets : binding'[t] = IF binding[t] = m THEN 0 ELSE binding[t]
    BY DEF closeMarket, Unbound
  <1>3. binding' \in [Targets -> Nat]
    BY <1>1 DEF closeMarket, Unbound
  <1>4. CASE markets[m].active
    <2>1. markets' = [markets EXCEPT ![m].active = FALSE, ![m].reopenable = TRUE]
      BY <1>4 DEF closeMarket
    <2>2. /\ markets' \in Seq(Market) /\ DOMAIN markets' = DOMAIN markets
          /\ markets'[m].reopenable = TRUE /\ markets'[m].item = markets[m].item
          /\ \A n \in DOMAIN markets \ {m} : markets'[n] = markets[n]
          /\ BindingsMatchMarkets'
      BY <1>1, <1>2, <2>1, Deactivation
    <2>3. Keeps(markets, markets')
      BY <2>2 DEF Keeps
    <2> QED BY <1>1, <1>3, <2>2, <2>3, MarketFrame
  <1>5. CASE ~markets[m].active
    <2>1. markets' = markets
      BY <1>5 DEF closeMarket
    <2>2. \A t \in Targets : binding[t] # m
      BY <1>1, <1>5 DEF BindingsMatchMarkets
    <2>3. BindingsMatchMarkets'
      <3>1. \A t \in Targets : binding'[t] = binding[t]
        BY <1>2, <2>2
      <3>a. \A n \in DOMAIN markets : markets[n] \in Market
        BY <1>1
      <3>2. \A n \in DOMAIN markets : markets[n].target \in Targets
        BY <3>a DEF Market
      <3> QED BY <1>1, <2>1, <3>1, <3>2 DEF BindingsMatchMarkets
    <2>4. Keeps(markets, markets')
      BY <2>1 DEF Keeps
    <2> QED BY <1>1, <1>3, <2>1, <2>3, <2>4, MarketFrame
  <1> QED BY <1>4, <1>5

\* The row placeOrder inserts is of the right shape.
LEMMA NewOrderType ==
    ASSUME NEW m \in Nat, NEW p \in Players, NEW side \in {"BUY", "SELL"},
           NEW type \in {"LIMIT", "MARKET"}, NEW price \in Nat,
           NEW qty \in Nat, NEW reserve \in Nat
    PROVE  NewOrder(m, p, side, type, price, qty, reserve) \in Order
  BY DEF NewOrder, Order

\* placeOrder up to the loop: the incoming row is outside the settled book.
LEMMA BeginStep ==
    ASSUME Inductive, NEW m \in DOMAIN markets, NEW p \in Players,
           NEW side \in {"BUY", "SELL"}, NEW type \in {"LIMIT", "MARKET"},
           NEW price \in Prices, NEW qty \in 1 .. MaxQty, NEW reserve \in Nat,
           side = "SELL" => reserve = 0,
           beginOrder(m, p, side, type, price, qty, reserve)
    PROVE  Inductive'
  <1> DEFINE e == NewOrder(m, p, side, type, price, qty, reserve)
             n == Len(orders) + 1
  <1>1. /\ TypeOK /\ orders \in Seq(Order) /\ markets \in Seq(Market)
        /\ m \in Nat \ {0} /\ price \in Nat \ {0} /\ qty \in Nat
    BY TypeFacts, ConstantsAssumption DEF Inductive
  <1>2. e \in Order
    BY <1>1, NewOrderType
  <1>3. /\ e.market = m /\ e.side = side /\ e.original = qty
        /\ e.reserved = reserve /\ (e.type = "LIMIT" => e.price > 0)
    BY <1>1 DEF NewOrder
  <1>4. /\ orders' = Append(orders, e)
        /\ txn' = [kind |-> side, order |-> n, market |-> m, remaining |-> qty,
                   filled |-> 0, available |-> OpenedBalance(p)[p] - reserve]
        /\ balance' = [OpenedBalance(p) EXCEPT ![p] = @ - reserve]
        /\ OpenedBalance(p)[p] >= reserve
        /\ committed' = [committed EXCEPT !.balance = OpenedBalance(p)]
        /\ minted' = minted + OpeningMoney(p)
        /\ opened' = opened \cup {p}
        /\ markets[m].active
        /\ UNCHANGED <<owed, markets, binding, deposited>>
        /\ txn.kind = "IDLE"
    BY DEF beginOrder, marketVars, Idle
  <1> HIDE DEF e
  <1>5. /\ orders' \in Seq(Order) /\ DOMAIN orders' = DOMAIN orders \cup {n}
        /\ n \in Nat /\ orders'[n] = e
    BY <1>1, <1>2, <1>4, InsertRow
  <1>6. GoodBook(orders', DOMAIN orders' \ {n}, markets)
    <2>1. GoodBook(orders, DOMAIN orders, markets)
      BY <1>4, IdleBook DEF Placing
    <2> QED BY <1>1, <1>2, <1>4, <2>1, InsertKeepsBook
  <1> HIDE DEF n
  <1>7. /\ OpenedBalance(p) \in [Players -> 0 .. MaxCents]
        /\ OpeningMoney(p) \in Int
    BY <1>1, OpenedType
  <1>8. TypeOK'
    <2>1. /\ balance' \in [Players -> 0 .. MaxCents]
          /\ OpenedBalance(p)[p] - reserve \in Nat
      BY <1>4, <1>7, ConstantsAssumption
    <2>2. txn' \in Txn
      BY <1>1, <1>4, <1>5, <2>1 DEF Txn
    <2>3. committed' \in Tables
      BY <1>1, <1>4, <1>7, TypeFacts DEF Tables
    <2>4. /\ owed \in [Players -> [Items -> Nat]] /\ opened \subseteq Players
          /\ binding \in [Targets -> Nat] /\ minted \in Int
          /\ deposited \in [Items -> Nat]
      BY <1>1, TypeFacts
    <2>5. minted' \in Int /\ opened' \subseteq Players
      BY <1>4, <1>7, <2>4
    <2> QED BY <1>1, <1>4, <1>5, <2>1, <2>2, <2>3, <2>4, <2>5, TypeFactsPrime
  <1>9. Rows' = Rows
    <2>1. committed \in Tables
      BY <1>1, TypeFacts
    <2> QED BY <1>4, <2>1 DEF Rows, Tables
  <1>10. CommittedRows' /\ BindingsMatchMarkets'
    BY <1>4, <1>9 DEF Inductive, CommittedRows, BindingsMatchMarkets
  <1>11. txn'.order = n /\ txn'.kind = side /\ txn'.market = m
         /\ txn'.remaining = qty /\ txn'.filled = 0
    BY <1>4
  <1>12. WorkingRows'
    BY <1>4, <1>6, <1>11 DEF WorkingRows, Settled, Placing
  <1>13. IncomingRow'
    BY <1>1, <1>3, <1>4, <1>5, <1>11 DEF IncomingRow, Incoming
  <1>14. RetireTarget'
    BY <1>11 DEF RetireTarget
  <1> QED BY <1>8, <1>10, <1>12, <1>13, <1>14 DEF Inductive

\* placeBuy, up to the INSERT: the reserve of a limit order is debited.
LEMMA BeginBuyStep ==
    ASSUME Inductive, NEW m \in DOMAIN markets, NEW p \in Players,
           NEW type \in {"LIMIT", "MARKET"}, NEW price \in Prices,
           NEW qty \in 1 .. MaxQty, beginBuy(m, p, type, price, qty)
    PROVE  Inductive'
  <1> DEFINE r == IF type = "LIMIT" THEN price * qty ELSE 0
  <1>1. r \in Nat
    <2>1. price \in Nat /\ qty \in Nat
      BY ConstantsAssumption
    <2> QED BY <2>1, Products
  <1>2. beginOrder(m, p, "BUY", type, price, qty, r)
    BY DEF beginBuy
  <1> HIDE DEF r
  <1> QED BY <1>1, <1>2, BeginStep

\* placeSellLocked, up to the INSERT: a sell order reserves no money.
LEMMA BeginSellStep ==
    ASSUME Inductive, NEW m \in DOMAIN markets, NEW p \in Players,
           NEW type \in {"LIMIT", "MARKET"}, NEW price \in Prices,
           NEW qty \in 1 .. MaxQty, beginSell(m, p, type, price, qty)
    PROVE  Inductive'
  BY BeginStep DEF beginSell

\* A delivery keeps the type of the table.
LEMMA OweType ==
    ASSUME owed \in [Players -> [Items -> Nat]], NEW p \in Players,
           NEW i \in Items, NEW n \in Nat
    PROVE  Owe(p, i, n) \in [Players -> [Items -> Nat]]
  BY DEF Owe

\* The facts both loops start from: the incoming row, and a counterpart c of it.
LEMMA LoopFacts ==
    ASSUME Inductive, NEW side \in {"BUY", "SELL"}, txn.kind \in {"BUY", "SELL"},
           txn.kind # side, NEW c \in Counterparts(side)
    PROVE  /\ c \in DOMAIN orders /\ c \in Settled
           /\ orders[c] \in Order /\ GoodRow(orders[c], markets)
           /\ IsOpen(orders[c]) /\ orders[c].side = side
           /\ Incoming \in Order /\ txn \in Txn
           /\ txn.order \in DOMAIN orders /\ txn.order # c
           /\ orders[c].price \in Nat \ {0}
           /\ orders[c].remaining \in Nat \ {0}
           /\ markets[txn.market].item \in Items
  <1>1. /\ orders \in Seq(Order) /\ markets \in Seq(Market) /\ txn \in Txn
    BY TypeFacts DEF Inductive
  <1>2. /\ c \in DOMAIN orders /\ IsOpen(orders[c]) /\ orders[c].side = side
    BY DEF Counterparts
  <1>3. /\ txn.order \in DOMAIN orders /\ txn.market \in DOMAIN markets
        /\ Incoming.side = txn.kind
    BY DEF Inductive, IncomingRow, Placing
  <1>4. txn.order # c
    BY <1>2, <1>3 DEF Incoming
  <1>5. c \in Settled
    BY <1>2, <1>4 DEF Settled, Placing
  <1>6. GoodRow(orders[c], markets)
    BY <1>5 DEF Inductive, WorkingRows, GoodBook
  <1>7. orders[c] \in Order /\ Incoming \in Order
    BY <1>1, <1>2, <1>3 DEF Incoming
  <1>8. /\ orders[c].price \in Nat \ {0}
        /\ orders[c].remaining \in Nat \ {0}
    BY <1>2, <1>6, <1>7 DEF GoodRow, Order
  <1>9. markets[txn.market].item \in Items
    <2>1. markets[txn.market] \in Market
      BY <1>1, <1>3
    <2> QED BY <2>1 DEF Market
  <1> QED BY <1>1, <1>2, <1>3, <1>4, <1>5, <1>6, <1>7, <1>8, <1>9

\* An iteration of either loop: counterpart c becomes e, the incoming order has
\* fewer items left, and nothing else of the book moves.
LEMMA TradeStep ==
    ASSUME Inductive, Placing, NEW c \in Settled, NEW e \in Order,
           orders' = [orders EXCEPT ![c] = e],
           GoodRow(e, markets), IsOpen(orders[c]),
           e.market = orders[c].market, e.side = orders[c].side,
           e.player = orders[c].player, e.price = orders[c].price,
           balance' \in [Players -> 0 .. MaxCents],
           owed' \in [Players -> [Items -> Nat]],
           txn' \in Txn, txn'.kind = txn.kind, txn'.order = txn.order,
           txn'.market = txn.market,
           txn'.remaining + txn'.filled = txn.remaining + txn.filled,
           UNCHANGED <<committed, opened, markets, binding, minted, deposited>>
    PROVE  Inductive'
  <1>1. /\ orders \in Seq(Order) /\ Settled = DOMAIN orders \ {txn.order}
        /\ c \in DOMAIN orders /\ c # txn.order
    BY TypeFacts DEF Inductive, Settled
  <1>2. /\ orders' \in Seq(Order) /\ DOMAIN orders' = DOMAIN orders
        /\ \A o \in DOMAIN orders \ {c} : orders'[o] = orders[o]
    BY <1>1, UpdateRow
  <1>3. TypeOK'
    BY <1>2, TypeFacts, TypeFactsPrime DEF Inductive
  <1>4. Settled' = Settled /\ Placing' /\ Rows' = Rows
    BY <1>1, <1>2 DEF Settled, Placing, Rows
  <1>5. WorkingRows'
    <2>1. GoodBook(orders, Settled, markets)
      BY DEF Inductive, WorkingRows
    <2>2. GoodBook([orders EXCEPT ![c] = e], Settled, markets)
      BY <1>1, <2>1, TradeKeepsBook
    <2> QED BY <1>4, <2>2 DEF WorkingRows
  <1>6. CommittedRows' /\ BindingsMatchMarkets'
    BY <1>4 DEF Inductive, CommittedRows, BindingsMatchMarkets
  <1>7. txn.order \in DOMAIN orders
    BY DEF Inductive, IncomingRow
  <1>8. Incoming' = Incoming
    BY <1>1, <1>2, <1>7 DEF Incoming
  <1>9. IncomingRow'
    BY <1>2, <1>8 DEF Inductive, IncomingRow, Placing
  <1>10. RetireTarget'
    BY <1>4 DEF RetireTarget, Placing
  <1> QED BY <1>3, <1>5, <1>6, <1>9, <1>10 DEF Inductive

\* One iteration of placeBuy: the ask shrinks, the incoming row is kept.
LEMMA MatchAskStep ==
    ASSUME Inductive, NEW a \in DOMAIN orders, matchAsk(a)
    PROVE  Inductive'
  <1> DEFINE fill == BuyFill(a)
             mine == BuyerChange(a, fill)
             e == [orders[a] EXCEPT
                    !.remaining = @ - fill,
                    !.status = IF orders[a].remaining = fill THEN "FILLED"
                               ELSE "PARTIAL"]
  <1>1. /\ txn.kind = "BUY" /\ txn.remaining > 0 /\ a \in Asks
        /\ Incoming.type = "MARKET" => fill > 0
    BY DEF matchAsk, NextAsk
  <1>2. /\ a \in Counterparts("SELL")
        /\ Incoming.type = "LIMIT" => orders[a].price <= Incoming.price
    BY <1>1 DEF Asks
  <1>3. /\ a \in Settled /\ orders[a] \in Order /\ GoodRow(orders[a], markets)
        /\ IsOpen(orders[a]) /\ orders[a].side = "SELL"
        /\ Incoming \in Order /\ txn \in Txn
        /\ orders[a].price \in Nat \ {0}
        /\ orders[a].remaining \in Nat \ {0}
        /\ markets[txn.market].item \in Items
    BY <1>1, <1>2, LoopFacts
  <1>4. /\ txn.remaining \in Nat \ {0} /\ txn.filled \in Nat
        /\ txn.available \in Nat
        /\ Incoming.price \in Nat /\ Incoming.player \in Players
        /\ Incoming.type \in {"LIMIT", "MARKET"}
    BY <1>1, <1>3 DEF Txn, Order
  <1>5. txn.available \div orders[a].price \in Nat
    BY <1>3, <1>4, Quotients
  <1>6. /\ fill \in Nat \ {0} /\ fill <= txn.remaining
        /\ fill <= orders[a].remaining
        /\ Incoming.type = "MARKET" =>
                fill <= txn.available \div orders[a].price
    BY <1>1, <1>3, <1>4, <1>5 DEF BuyFill, lesser, TradePrice
  <1> HIDE DEF fill
  <1>7. mine \in Int /\ txn.available + mine \in Nat
    <2>1. CASE Incoming.type = "MARKET"
      <3>1. /\ orders[a].price * fill \in Nat
            /\ orders[a].price * fill
                    <= orders[a].price * (txn.available \div orders[a].price)
        BY <1>3, <1>5, <1>6, <2>1, Products
      <3>2. orders[a].price * (txn.available \div orders[a].price) \in Nat
        BY <1>3, <1>5, Products
      <3>3. orders[a].price * (txn.available \div orders[a].price)
                <= txn.available
        BY <1>3, <1>4, Quotients
      <3>4. mine = - orders[a].price * fill
        BY <2>1 DEF BuyerChange, TradePrice
      <3>5. mine = - (orders[a].price * fill)
        BY <1>3, <1>6, <3>4
      <3> DEFINE cost == orders[a].price * fill
                 most == orders[a].price * (txn.available \div orders[a].price)
      <3>6. cost \in Nat /\ most \in Nat /\ cost <= most /\ most <= txn.available
            /\ mine = - cost
        BY <3>1, <3>2, <3>3, <3>5
      <3> HIDE DEF cost, most, mine
      <3> QED BY <1>4, <3>6
    <2>2. CASE Incoming.type = "LIMIT"
      <3>1. mine = (Incoming.price - orders[a].price) * fill
        BY <2>2 DEF BuyerChange, TradePrice
      <3>2. Incoming.price - orders[a].price \in Nat
        BY <1>2, <1>3, <1>4, <2>2
      <3>3. mine \in Nat
        BY <1>6, <3>1, <3>2, Products
      <3> HIDE DEF mine
      <3> QED BY <1>4, <3>3
    <2> QED BY <1>4, <2>1, <2>2
  <1>8. /\ orders' = [orders EXCEPT ![a] = e]
        /\ balance' = credit(credit(balance, Incoming.player, mine),
                             orders[a].player, TradePrice(a) * fill)
        /\ InRange(balance')
        /\ owed' = Owe(Incoming.player, markets[txn.market].item, fill)
        /\ txn' = [txn EXCEPT !.remaining = @ - fill, !.filled = @ + fill,
                              !.available = @ + mine]
        /\ UNCHANGED <<committed, opened, markets, binding, minted, deposited>>
    BY DEF matchAsk, marketVars, fill
  <1> HIDE DEF mine
  <1>9. /\ e \in Order
        /\ e.remaining = orders[a].remaining - fill
        /\ e.status = IF orders[a].remaining = fill THEN "FILLED" ELSE "PARTIAL"
        /\ e.market = orders[a].market /\ e.side = orders[a].side
        /\ e.player = orders[a].player /\ e.price = orders[a].price
        /\ e.original = orders[a].original /\ e.reserved = orders[a].reserved
        /\ e.type = orders[a].type
    <2>1. orders[a].remaining - fill \in Nat
      BY <1>3, <1>6
    <2> DEFINE left == orders[a].remaining - fill
    <2> HIDE DEF left
    <2>2. e = [orders[a] EXCEPT !.remaining = left,
                 !.status = IF orders[a].remaining = fill THEN "FILLED"
                            ELSE "PARTIAL"]
      BY DEF left
    <2>3. left \in Nat
      BY <2>1 DEF left
    <2> QED BY <1>3, <2>2, <2>3 DEF Order, left
  <1> HIDE DEF e
  <1>10. GoodRow(e, markets)
    <2>1. orders[a].original \in Nat
      BY <1>3 DEF Order
    <2> QED BY <1>3, <1>6, <1>9, <2>1 DEF GoodRow, IsOpen
  <1>11. balance' \in [Players -> 0 .. MaxCents]
    <2>1. balance \in [Players -> 0 .. MaxCents]
      BY TypeFacts DEF Inductive
    <2>2. balance' = [p \in Players |-> balance'[p]]
      BY <1>8, <2>1 DEF credit
    <2> QED BY <1>8, <2>2 DEF InRange
  <1>12. owed' \in [Players -> [Items -> Nat]]
    <2>1. owed \in [Players -> [Items -> Nat]]
      BY TypeFacts DEF Inductive
    <2> QED BY <1>3, <1>4, <1>6, <1>8, <2>1, OweType
  <1>13. /\ txn' \in Txn /\ txn'.kind = txn.kind /\ txn'.order = txn.order
         /\ txn'.market = txn.market
         /\ txn'.remaining + txn'.filled = txn.remaining + txn.filled
    <2>1. txn.remaining - fill \in Nat /\ txn.filled + fill \in Nat
      BY <1>4, <1>6
    <2>2. /\ txn' \in Txn /\ txn'.kind = txn.kind /\ txn'.order = txn.order
          /\ txn'.market = txn.market
          /\ txn'.remaining = txn.remaining - fill
          /\ txn'.filled = txn.filled + fill
      BY <1>3, <1>7, <1>8, <2>1 DEF Txn
    <2> QED BY <1>4, <1>6, <2>2
  <1>14. Placing
    BY <1>1 DEF Placing
  <1> QED BY <1>3, <1>8, <1>9, <1>10, <1>11, <1>12, <1>13, <1>14, TradeStep

\* One iteration of placeSellLocked: the bid and its reserve shrink together.
LEMMA MatchBidStep ==
    ASSUME Inductive, NEW b \in DOMAIN orders, matchBid(b)
    PROVE  Inductive'
  <1> DEFINE fill == lesser(txn.remaining, orders[b].remaining)
             cost == orders[b].price * fill
             e == [orders[b] EXCEPT
                    !.remaining = @ - fill,
                    !.reserved = @ - cost,
                    !.status = IF orders[b].remaining = fill THEN "FILLED"
                               ELSE "PARTIAL"]
  <1>1. txn.kind = "SELL" /\ txn.remaining > 0 /\ b \in Bids
    BY DEF matchBid, NextBid
  <1>2. b \in Counterparts("BUY")
    BY <1>1 DEF Bids
  <1>3. /\ b \in Settled /\ orders[b] \in Order /\ GoodRow(orders[b], markets)
        /\ IsOpen(orders[b]) /\ orders[b].side = "BUY"
        /\ Incoming \in Order /\ txn \in Txn
        /\ orders[b].price \in Nat \ {0}
        /\ orders[b].remaining \in Nat \ {0}
        /\ markets[txn.market].item \in Items
    BY <1>1, <1>2, LoopFacts
  <1>4. /\ txn.remaining \in Nat \ {0} /\ txn.filled \in Nat
        /\ Incoming.player \in Players /\ orders[b].player \in Players
    BY <1>1, <1>3 DEF Txn, Order
  <1>5. /\ fill \in Nat \ {0} /\ fill <= txn.remaining
        /\ fill <= orders[b].remaining
    BY <1>3, <1>4 DEF lesser
  <1>6. /\ orders' = [orders EXCEPT ![b] = e]
        /\ orders[b].reserved >= cost
        /\ balance' = credit(balance, Incoming.player, cost)
        /\ InRange(balance')
        /\ owed' = Owe(orders[b].player, markets[txn.market].item, fill)
        /\ txn' = [txn EXCEPT !.remaining = @ - fill, !.filled = @ + fill]
        /\ UNCHANGED <<committed, opened, markets, binding, minted, deposited>>
    BY DEF matchBid, marketVars, TradePrice
  <1> HIDE DEF fill
  <1>7. /\ cost \in Nat
        /\ orders[b].price * (orders[b].remaining - fill)
                = orders[b].price * orders[b].remaining - cost
    BY <1>3, <1>5, Products
  <1>8. orders[b].reserved = orders[b].price * orders[b].remaining
    BY <1>3 DEF GoodRow
  <1>9. /\ orders[b].price * (orders[b].remaining - fill)
                = orders[b].reserved - cost
        /\ orders[b].reserved - cost \in Nat
    <2>1. orders[b].reserved \in Nat
      BY <1>3 DEF Order
    <2> HIDE DEF cost
    <2> QED BY <1>6, <1>7, <1>8, <2>1
  <1> HIDE DEF cost
  <1>10. /\ e \in Order
         /\ e.remaining = orders[b].remaining - fill
         /\ e.status = IF orders[b].remaining = fill THEN "FILLED" ELSE "PARTIAL"
         /\ e.market = orders[b].market /\ e.side = orders[b].side
         /\ e.player = orders[b].player /\ e.price = orders[b].price
         /\ e.original = orders[b].original
         /\ e.reserved = orders[b].reserved - cost
         /\ e.type = orders[b].type
    <2> DEFINE left == orders[b].remaining - fill
               kept == orders[b].reserved - cost
    <2>1. left \in Nat /\ kept \in Nat
      BY <1>3, <1>5, <1>9
    <2>2. e = [orders[b] EXCEPT !.remaining = left, !.reserved = kept,
                 !.status = IF orders[b].remaining = fill THEN "FILLED"
                            ELSE "PARTIAL"]
      OBVIOUS
    <2> HIDE DEF left, kept
    <2>3. /\ e \in Order /\ e.remaining = left /\ e.reserved = kept
          /\ e.status = IF orders[b].remaining = fill THEN "FILLED" ELSE "PARTIAL"
          /\ e.market = orders[b].market /\ e.side = orders[b].side
          /\ e.player = orders[b].player /\ e.price = orders[b].price
          /\ e.original = orders[b].original /\ e.type = orders[b].type
      BY <1>3, <2>1, <2>2 DEF Order
    <2> QED BY <2>3 DEF left, kept
  <1> HIDE DEF e
  <1>11. GoodRow(e, markets)
    <2>1. orders[b].original \in Nat
      BY <1>3 DEF Order
    <2>2. e.reserved = e.price * e.remaining
      BY <1>9, <1>10
    <2>3. orders[b].remaining = fill => e.reserved = 0
      <3>1. orders[b].price * 0 = 0
        BY <1>3
      <3> QED BY <1>3, <1>5, <1>10, <2>2, <3>1
    <2>4. IsOpen(e) <=> orders[b].remaining # fill
      BY <1>3, <1>10 DEF IsOpen
    <2> QED BY <1>3, <1>5, <1>10, <2>1, <2>2, <2>3, <2>4 DEF GoodRow
  <1>12. balance' \in [Players -> 0 .. MaxCents]
    <2>1. balance \in [Players -> 0 .. MaxCents]
      BY TypeFacts DEF Inductive
    <2>2. balance' = [p \in Players |-> balance'[p]]
      BY <1>6, <2>1 DEF credit
    <2> QED BY <1>6, <2>2 DEF InRange
  <1>13. owed' \in [Players -> [Items -> Nat]]
    <2>1. owed \in [Players -> [Items -> Nat]]
      BY TypeFacts DEF Inductive
    <2> QED BY <1>3, <1>4, <1>5, <1>6, <2>1, OweType
  <1>14. /\ txn' \in Txn /\ txn'.kind = txn.kind /\ txn'.order = txn.order
         /\ txn'.market = txn.market
         /\ txn'.remaining + txn'.filled = txn.remaining + txn.filled
    <2>1. txn.remaining - fill \in Nat /\ txn.filled + fill \in Nat
      BY <1>4, <1>5
    <2>2. /\ txn' \in Txn /\ txn'.kind = txn.kind /\ txn'.order = txn.order
          /\ txn'.market = txn.market
          /\ txn'.remaining = txn.remaining - fill
          /\ txn'.filled = txn.filled + fill
      BY <1>3, <1>6, <2>1 DEF Txn
    <2> QED BY <1>4, <1>5, <2>2
  <1>15. Placing
    BY <1>1 DEF Placing
  <1> QED BY <1>3, <1>6, <1>10, <1>11, <1>12, <1>13, <1>14, <1>15, TradeStep

\* Cancelling order o gives back what it holds; the row leaves the book.
LEMMA ReleaseFacts ==
    ASSUME Inductive, ~Placing, NEW o \in DOMAIN orders, Release(o)
    PROVE  /\ balance' \in [Players -> 0 .. MaxCents]
           /\ orders' \in Seq(Order) /\ DOMAIN orders' = DOMAIN orders
           /\ owed' \in [Players -> [Items -> Nat]]
           /\ GoodBook(orders', DOMAIN orders', markets)
  <1> DEFINE e == [orders[o] EXCEPT !.remaining = 0, !.reserved = 0,
                                    !.status = "CANCELED"]
  <1>1. /\ balance \in [Players -> 0 .. MaxCents] /\ orders \in Seq(Order)
        /\ owed \in [Players -> [Items -> Nat]] /\ markets \in Seq(Market)
    BY TypeFacts DEF Inductive
  <1>2. GoodBook(orders, DOMAIN orders, markets)
    BY IdleBook
  <1>3. orders[o] \in Order /\ GoodRow(orders[o], markets)
    BY <1>1, <1>2 DEF GoodBook
  <1>4. /\ e \in Order /\ ~IsOpen(e) /\ e.remaining = 0 /\ e.reserved = 0
        /\ e.status = "CANCELED" /\ e.market = orders[o].market
        /\ e.side = orders[o].side /\ e.player = orders[o].player
        /\ e.price = orders[o].price
    BY <1>3 DEF Order, IsOpen
  <1>5. orders' = [orders EXCEPT ![o] = e]
    BY DEF Release
  <1> HIDE DEF e
  <1>6. GoodRow(e, markets)
    BY <1>3, <1>4 DEF GoodRow
  <1>7. orders' \in Seq(Order) /\ DOMAIN orders' = DOMAIN orders
    BY <1>1, <1>4, <1>5, UpdateRow
  <1>8. GoodBook(orders', DOMAIN orders', markets)
    BY <1>1, <1>2, <1>4, <1>5, <1>6, <1>7, TradeKeepsBook
  <1>9. balance' \in [Players -> 0 .. MaxCents]
    <2>1. balance' = [p \in Players |-> balance'[p]]
      BY <1>1 DEF Release, credit
    <2>2. InRange(balance')
      BY DEF Release
    <2> QED BY <2>1, <2>2 DEF InRange
  <1>10. owed' \in [Players -> [Items -> Nat]]
    <2>1. orders[o].market \in DOMAIN markets
      BY <1>3 DEF GoodRow
    <2>2. markets[orders[o].market] \in Market
      BY <1>1, <2>1
    <2>3. BookOf(orders[o]) \in Items
      BY <2>2 DEF BookOf, Market
    <2>4. orders[o].player \in Players /\ orders[o].remaining \in Nat
      BY <1>3 DEF Order
    <2> QED BY <1>1, <2>3, <2>4, OweType DEF Release
  <1> QED BY <1>7, <1>8, <1>9, <1>10

\* cancelOrder takes one row out of the book.
LEMMA CancelStep ==
    ASSUME Inductive, NEW o \in DOMAIN orders, cancelOrder(o)
    PROVE  Inductive'
  <1>1. /\ ~Placing /\ Release(o) /\ Commit
        /\ UNCHANGED <<opened, markets, binding, minted, deposited>>
    BY DEF cancelOrder, Idle, Placing, marketVars
  <1>2. /\ balance' \in [Players -> 0 .. MaxCents] /\ orders' \in Seq(Order)
        /\ owed' \in [Players -> [Items -> Nat]]
        /\ GoodBook(orders', DOMAIN orders', markets)
    BY <1>1, ReleaseFacts
  <1>3. BindingsMatchMarkets'
    BY <1>1 DEF Inductive, BindingsMatchMarkets
  <1>4. TypeOK
    BY DEF Inductive
  <1> QED BY <1>1, <1>2, <1>3, <1>4, TypeFacts, CommitStep

\* One iteration of retireMarket takes one row out of the working book.
LEMMA RetireOrderStep ==
    ASSUME Inductive, NEW o \in DOMAIN orders, retireOrder(o)
    PROVE  Inductive'
  <1>1. /\ txn.kind = "RETIRE" /\ ~Placing /\ Release(o)
        /\ UNCHANGED <<committed, opened, markets, binding, txn, minted, deposited>>
    BY DEF retireOrder, Placing, marketVars
  <1>2. /\ balance' \in [Players -> 0 .. MaxCents] /\ orders' \in Seq(Order)
        /\ owed' \in [Players -> [Items -> Nat]]
        /\ GoodBook(orders', DOMAIN orders', markets)
    BY <1>1, ReleaseFacts
  <1>3. TypeOK'
    BY <1>1, <1>2, TypeFacts, TypeFactsPrime DEF Inductive
  <1>4. Rows' = Rows /\ ~Placing'
    BY <1>1 DEF Rows, Placing
  <1>5. CommittedRows' /\ BindingsMatchMarkets'
    BY <1>1, <1>4 DEF Inductive, CommittedRows, BindingsMatchMarkets
  <1>6. WorkingRows'
    BY <1>1, <1>2, <1>4 DEF WorkingRows, Settled
  <1>7. RetireTarget'
    BY <1>1 DEF Inductive, RetireTarget
  <1> QED BY <1>3, <1>4, <1>5, <1>6, <1>7 DEF Inductive, IncomingRow

\* retireMarket starts: no table changes yet.
LEMMA BeginRetireStep ==
    ASSUME Inductive, NEW m \in DOMAIN markets, beginRetire(m)
    PROVE  Inductive'
  <1>1. /\ markets \in Seq(Market) /\ m \in Nat
        /\ txn.kind = "IDLE" /\ ~Placing
        /\ txn' = [NoTxn EXCEPT !.kind = "RETIRE", !.market = m]
        /\ UNCHANGED <<balance, orders, owed, committed, opened, markets, binding,
                       minted, deposited>>
    BY TypeFacts DEF Inductive, beginRetire, Idle, Placing, marketVars, tables
  <1>2. txn' \in Txn /\ txn'.kind = "RETIRE" /\ txn'.market = m
    BY <1>1 DEF NoTxn, Txn
  <1>3. TypeOK'
    BY <1>1, <1>2, TypeFacts, TypeFactsPrime DEF Inductive
  <1>4. Rows' = Rows /\ ~Placing'
    BY <1>1, <1>2 DEF Rows, Placing
  <1>5. CommittedRows' /\ BindingsMatchMarkets'
    BY <1>1, <1>4 DEF Inductive, CommittedRows, BindingsMatchMarkets
  <1>6. WorkingRows'
    BY <1>1, <1>4, IdleBook DEF WorkingRows, Settled
  <1>7. RetireTarget'
    BY <1>1, <1>2 DEF RetireTarget
  <1> QED BY <1>3, <1>4, <1>5, <1>6, <1>7 DEF Inductive, IncomingRow

\* The market may lose its right to hold orders: none of its orders rests.
LEMMA FinishRetireStep ==
    ASSUME Inductive, finishRetire
    PROVE  Inductive'
  <1> DEFINE m == txn.market
  <1>1. /\ TypeOK /\ markets \in Seq(Market) /\ binding \in [Targets -> Nat]
        /\ BindingsMatchMarkets
    BY TypeFacts DEF Inductive
  <1>2. /\ txn.kind = "RETIRE" /\ ~Placing /\ RestingOrders(m) = {}
        /\ Commit
        /\ UNCHANGED <<balance, orders, owed, opened, minted, deposited>>
        /\ markets' = [markets EXCEPT ![m].active = FALSE,
                                      ![m].reopenable = FALSE]
        /\ binding' = [binding EXCEPT ![markets[m].target] =
                                        IF @ = m THEN 0 ELSE @]
    BY DEF finishRetire, Placing
  <1>3. m \in DOMAIN markets
    BY <1>2 DEF Inductive, RetireTarget
  <1> HIDE DEF m
  <1>4. markets[m] \in Market /\ m \in Nat \ {0}
    BY <1>1, <1>3
  <1>5. markets[m].target \in Targets
    BY <1>4 DEF Market
  <1>6. \A t \in Targets : binding'[t] = IF binding[t] = m THEN 0 ELSE binding[t]
    <2>1. ASSUME NEW t \in Targets, t # markets[m].target
          PROVE  binding[t] # m
      BY <1>1, <1>4, <2>1 DEF BindingsMatchMarkets
    <2> QED BY <1>1, <1>2, <1>5, <2>1
  <1>7. binding' \in [Targets -> Nat]
    BY <1>1, <1>2, <1>5
  <1>8. /\ markets' \in Seq(Market) /\ DOMAIN markets' = DOMAIN markets
        /\ markets'[m].item = markets[m].item
        /\ \A n \in DOMAIN markets \ {m} : markets'[n] = markets[n]
        /\ BindingsMatchMarkets'
    BY <1>1, <1>2, <1>3, <1>6, Deactivation
  <1>9. GoodBook(orders, DOMAIN orders, markets)
    BY <1>2, IdleBook
  <1>10. GoodBook(orders', DOMAIN orders', markets')
    <2>1. ASSUME NEW o \in DOMAIN orders
          PROVE  GoodRow(orders[o], markets')
      <3>1. GoodRow(orders[o], markets)
        BY <1>9 DEF GoodBook
      <3>2. IsOpen(orders[o]) => orders[o].market # m
        BY <1>2 DEF RestingOrders
      <3> QED BY <1>8, <3>1, <3>2 DEF GoodRow
    <2>2. ASSUME NEW b \in DOMAIN orders, NEW a \in DOMAIN orders
          PROVE  ~Crossed(orders[b], orders[a], markets')
      <3>1. /\ ~Crossed(orders[b], orders[a], markets)
            /\ orders[b].market \in DOMAIN markets
            /\ orders[a].market \in DOMAIN markets
        BY <1>9 DEF GoodBook, GoodRow
      <3>2. \A n \in DOMAIN markets : markets'[n].item = markets[n].item
        BY <1>8
      <3> QED BY <3>1, <3>2 DEF Crossed
    <2> QED BY <1>2, <2>1, <2>2 DEF GoodBook
  <1> QED BY <1>1, <1>2, <1>7, <1>8, <1>10, TypeFacts, CommitStep

\* What the last UPDATE of placeBuy and placeSellLocked leaves in the row.
FinalRow(r) ==
    [Incoming EXCEPT
        !.remaining = IF Incoming.type = "LIMIT" THEN txn.remaining ELSE 0,
        !.reserved = r,
        !.status = FinalStatus(Incoming, txn.remaining, txn.filled)]

\* A limit order with items left rests only if no counterpart remains, so the
\* final row crosses nothing.
LEMMA FinishStep ==
    ASSUME Inductive, Placing, NEW r \in Nat,
           r = IF txn.kind = "BUY" THEN BuyReserve(Incoming, txn.remaining) ELSE 0,
           Incoming.type = "LIMIT" /\ txn.remaining > 0 =>
                IF txn.kind = "BUY" THEN Asks = {} ELSE Bids = {}
    PROVE  /\ FinalRow(r) \in Order
           /\ [orders EXCEPT ![txn.order] = FinalRow(r)] \in Seq(Order)
           /\ DOMAIN [orders EXCEPT ![txn.order] = FinalRow(r)] = DOMAIN orders
           /\ GoodBook([orders EXCEPT ![txn.order] = FinalRow(r)],
                       DOMAIN orders, markets)
  <1> DEFINE e == FinalRow(r)
  <1>1. /\ orders \in Seq(Order) /\ markets \in Seq(Market) /\ txn \in Txn
        /\ txn.order \in DOMAIN orders /\ Settled = DOMAIN orders \ {txn.order}
        /\ IncomingRow
    BY TypeFacts DEF Inductive, IncomingRow, Settled
  <1>2. Incoming \in Order
    BY <1>1 DEF Incoming
  <1>3. txn.remaining \in Nat /\ txn.filled \in Nat
    BY <1>1 DEF Txn
  <1>4. FinalStatus(Incoming, txn.remaining, txn.filled)
            \in {"OPEN", "PARTIAL", "FILLED", "CANCELED"}
    BY DEF FinalStatus, orderStatus
  <1>5. /\ e \in Order
        /\ e.remaining = IF Incoming.type = "LIMIT" THEN txn.remaining ELSE 0
        /\ e.reserved = r
        /\ e.status = FinalStatus(Incoming, txn.remaining, txn.filled)
        /\ e.market = Incoming.market /\ e.side = Incoming.side
        /\ e.player = Incoming.player /\ e.price = Incoming.price
        /\ e.original = Incoming.original /\ e.type = Incoming.type
    BY <1>2, <1>3, <1>4 DEF FinalRow, Order
  <1> HIDE DEF e
  <1>6. /\ Incoming.market \in DOMAIN markets /\ markets[Incoming.market].active
        /\ Incoming.side = txn.kind
        /\ Incoming.type = "LIMIT" => Incoming.price > 0
        /\ Incoming.original = txn.remaining + txn.filled
    BY <1>1 DEF IncomingRow
  <1>7. IsOpen(e) <=> Incoming.type = "LIMIT" /\ txn.remaining > 0
    BY <1>2, <1>3, <1>5 DEF IsOpen, FinalStatus, orderStatus
  <1>8. GoodRow(e, markets)
    <2>1. e.reserved = IF IsOpen(e) /\ e.side = "BUY"
                       THEN e.price * e.remaining ELSE 0
      <3>1. CASE IsOpen(e)
        BY <1>5, <1>6, <1>7, <3>1 DEF BuyReserve, Placing
      <3>2. CASE ~IsOpen(e)
        <4>1. Incoming.type = "LIMIT" => txn.remaining = 0
          BY <1>3, <1>7, <3>2
        <4>2. Incoming.price \in Nat
          BY <1>2 DEF Order
        <4>3. Incoming.price * 0 = 0
          BY <4>2
        <4> QED BY <1>5, <1>6, <3>2, <4>1, <4>3 DEF BuyReserve
      <3> QED BY <3>1, <3>2
    <2>2. ASSUME IsOpen(e)
          PROVE  /\ e.price > 0 /\ e.remaining \in 1 .. e.original
                 /\ (e.status = "PARTIAL") <=> (e.remaining < e.original)
                 /\ markets[e.market].active
      BY <1>3, <1>5, <1>6, <1>7, <2>2 DEF FinalStatus, orderStatus
    <2>3. ASSUME ~IsOpen(e)
          PROVE  e.remaining = 0 /\ e.status # "OPEN"
      <3>1. Incoming.type \in {"LIMIT", "MARKET"}
        BY <1>2 DEF Order
      <3> QED BY <1>3, <1>5, <1>7, <2>3, <3>1 DEF FinalStatus, orderStatus
    <2> QED BY <1>5, <1>6, <2>1, <2>2, <2>3 DEF GoodRow
  <1>9. ASSUME NEW o \in DOMAIN orders \ {txn.order}
        PROVE  /\ ~Crossed(e, orders[o], markets)
               /\ ~Crossed(orders[o], e, markets)
    <2>1. CASE ~IsOpen(e)
      BY <2>1 DEF Crossed
    <2>2. CASE IsOpen(e) /\ txn.kind = "BUY"
      <3>1. o \notin Asks
        BY <1>7, <2>2
      <3>2. orders[o] \in Order
        BY <1>1
      <3>3. orders[o].price \in Nat /\ Incoming.price \in Nat
        BY <1>2, <3>2 DEF Order
      <3>4. ~Crossed(e, orders[o], markets)
        BY <1>5, <1>7, <2>2, <3>1, <3>3 DEF Asks, Counterparts, BookOf, Crossed
      <3> QED BY <1>5, <1>6, <2>2, <3>4 DEF Crossed
    <2>3. CASE IsOpen(e) /\ txn.kind = "SELL"
      <3>1. o \notin Bids
        BY <1>7, <2>3
      <3>2. ~Crossed(orders[o], e, markets)
        BY <1>5, <1>7, <2>3, <3>1 DEF Bids, Counterparts, BookOf, Crossed
      <3> QED BY <1>5, <1>6, <2>3, <3>2 DEF Crossed
    <2> QED BY <2>1, <2>2, <2>3 DEF Placing
  <1>10. GoodBook(orders, DOMAIN orders \ {txn.order}, markets)
    BY <1>1 DEF Inductive, WorkingRows
  <1>11. GoodBook([orders EXCEPT ![txn.order] = e], DOMAIN orders, markets)
    BY <1>1, <1>5, <1>8, <1>9, <1>10, SettleKeepsBook
  <1>12. /\ [orders EXCEPT ![txn.order] = e] \in Seq(Order)
         /\ DOMAIN [orders EXCEPT ![txn.order] = e] = DOMAIN orders
    BY <1>1, <1>5, UpdateRow
  <1> QED BY <1>5, <1>11, <1>12 DEF e

\* The final UPDATE of placeBuy makes the incoming row a good row.
LEMMA FinishBuyStep ==
    ASSUME Inductive, finishBuy
    PROVE  Inductive'
  <1> DEFINE r == BuyReserve(Incoming, txn.remaining)
  <1>1. /\ txn.kind = "BUY" /\ Placing /\ BuyLoopDone /\ Commit
        /\ UNCHANGED <<balance, owed, opened, markets, binding, minted, deposited>>
    BY DEF finishBuy, Placing, marketVars
  <1>2. /\ TypeOK /\ orders \in Seq(Order) /\ txn \in Txn
        /\ txn.order \in DOMAIN orders
    BY <1>1, TypeFacts DEF Inductive, IncomingRow
  <1>3. Incoming \in Order
    BY <1>2 DEF Incoming
  <1>4. txn.remaining \in Nat /\ Incoming.price \in Nat
    BY <1>2, <1>3 DEF Txn, Order
  <1>5. r \in Nat
    BY <1>4, Products DEF BuyReserve
  <1>6. Incoming.type = "LIMIT" /\ txn.remaining > 0 => Asks = {}
    BY <1>1, <1>4 DEF BuyLoopDone
  <1>7. orders' = [orders EXCEPT ![txn.order] = FinalRow(r)]
    BY <1>2 DEF finishBuy, FinalRow, Incoming
  <1> HIDE DEF r
  <1>8. /\ orders' \in Seq(Order) /\ DOMAIN orders' = DOMAIN orders
        /\ GoodBook(orders', DOMAIN orders', markets)
    BY <1>1, <1>5, <1>6, <1>7, FinishStep DEF r
  <1>9. BindingsMatchMarkets'
    BY <1>1 DEF Inductive, BindingsMatchMarkets
  <1> QED BY <1>1, <1>2, <1>8, <1>9, TypeFacts, CommitStep

\* The final UPDATE of placeSellLocked makes the incoming row a good row.
LEMMA FinishSellStep ==
    ASSUME Inductive, finishSell
    PROVE  Inductive'
  <1> DEFINE i == markets[txn.market].item
  <1>1. /\ txn.kind = "SELL" /\ Placing /\ Commit
        /\ txn.remaining = 0 \/ Bids = {}
        /\ owed' = Owe(Incoming.player, i, MarketRemainder)
        /\ deposited' = [deposited EXCEPT ![i] = @ + Incoming.original]
        /\ UNCHANGED <<balance, opened, markets, binding, minted>>
    BY DEF finishSell, Placing, marketVars
  <1>2. /\ TypeOK /\ orders \in Seq(Order) /\ txn \in Txn
        /\ markets \in Seq(Market)
        /\ txn.order \in DOMAIN orders /\ txn.market \in DOMAIN markets
        /\ Incoming.reserved = 0
    BY <1>1, TypeFacts DEF Inductive, IncomingRow
  <1>3. Incoming \in Order /\ markets[txn.market] \in Market
    BY <1>2 DEF Incoming
  <1>4. /\ txn.remaining \in Nat /\ Incoming.player \in Players /\ i \in Items
        /\ Incoming.original \in Nat
    BY <1>2, <1>3 DEF Txn, Order, Market
  <1> HIDE DEF i
  <1>5. /\ owed' \in [Players -> [Items -> Nat]]
        /\ deposited' \in [Items -> Nat]
    <2>1. /\ owed \in [Players -> [Items -> Nat]]
          /\ deposited \in [Items -> Nat]
      BY <1>2, TypeFacts
    <2>2. MarketRemainder \in Nat
      BY <1>4 DEF MarketRemainder
    <2> QED BY <1>1, <1>4, <2>1, <2>2, OweType
  <1>6. orders' = [orders EXCEPT ![txn.order] = FinalRow(0)]
    <2> DEFINE f == [orders[txn.order] EXCEPT
            !.remaining = IF Incoming.type = "LIMIT" THEN txn.remaining ELSE 0,
            !.status = FinalStatus(Incoming, txn.remaining, txn.filled)]
    <2>1. orders' = [orders EXCEPT ![txn.order] = f]
      BY <1>2 DEF finishSell
    <2>2. f = FinalRow(0)
      BY <1>2, <1>3 DEF FinalRow, Incoming, Order
    <2> QED BY <2>1, <2>2
  <1>7. /\ orders' \in Seq(Order) /\ DOMAIN orders' = DOMAIN orders
        /\ GoodBook(orders', DOMAIN orders', markets)
    <2> DEFINE r == 0
    <2>1. r \in Nat
      OBVIOUS
    <2>2. r = IF txn.kind = "BUY" THEN BuyReserve(Incoming, txn.remaining) ELSE 0
      BY <1>1
    <2>3. orders' = [orders EXCEPT ![txn.order] = FinalRow(r)]
      BY <1>6
    <2>4. Incoming.type = "LIMIT" /\ txn.remaining > 0 =>
                IF txn.kind = "BUY" THEN Asks = {} ELSE Bids = {}
      BY <1>1, <1>4
    <2> HIDE DEF r
    <2>5. /\ [orders EXCEPT ![txn.order] = FinalRow(r)] \in Seq(Order)
          /\ DOMAIN [orders EXCEPT ![txn.order] = FinalRow(r)] = DOMAIN orders
          /\ GoodBook([orders EXCEPT ![txn.order] = FinalRow(r)],
                      DOMAIN orders, markets)
      BY <1>1, <2>1, <2>2, <2>4, FinishStep
    <2> QED BY <2>3, <2>5
  <1>8. BindingsMatchMarkets'
    BY <1>1 DEF Inductive, BindingsMatchMarkets
  <1> QED BY <1>1, <1>2, <1>5, <1>7, <1>8, TypeFacts, CommitStep

-----------------------------------------------------------------------------
(* The theorems *)

\* The inductive invariant holds of the empty tables.
LEMMA InitInductive == Init => Inductive
  <1> SUFFICES ASSUME Init PROVE Inductive
    OBVIOUS
  <1>1. TypeOK
    BY ConstantsAssumption DEF Init, TypeOK, Tables, NoTxn, Txn
  <1>2. BindingsMatchMarkets
    BY DEF Init, BindingsMatchMarkets
  <1>3. Rows = <<>> /\ orders = <<>> /\ txn.kind = "IDLE"
    BY DEF Init, Rows, NoTxn
  <1>4. CommittedRows /\ WorkingRows
    BY <1>3 DEF CommittedRows, WorkingRows, GoodBook, Settled, Placing
  <1> QED BY <1>1, <1>2, <1>3, <1>4
          DEF Inductive, IncomingRow, RetireTarget, Placing

\* Every step keeps the inductive invariant, one case per action.
LEMMA StepInductive == Inductive /\ [Next]_vars => Inductive'
  <1> SUFFICES ASSUME Inductive, [Next]_vars PROVE Inductive'
    OBVIOUS
  <1>1. CASE UNCHANGED vars
    BY <1>1 DEF vars, Inductive, TypeOK, BindingsMatchMarkets, CommittedRows,
                WorkingRows, IncomingRow, RetireTarget, Rows, Settled, Placing,
                Incoming
  <1>2. ASSUME NEW p \in Players, ensureAccount(p)
        PROVE  Inductive'
    BY <1>2, AccountStep
  <1>3. ASSUME NEW p \in Players, NEW d \in Deltas, addBalance(p, d)
        PROVE  Inductive'
    BY <1>3, AccountStep
  <1>4. ASSUME NEW t \in Targets, NEW i \in Items, activateMarket(t, i)
        PROVE  Inductive'
    BY <1>4, ActivateStep
  <1>5. ASSUME NEW m \in DOMAIN markets, closeMarket(m)
        PROVE  Inductive'
    BY <1>5, CloseStep
  <1>6. ASSUME NEW m \in DOMAIN markets, beginRetire(m)
        PROVE  Inductive'
    BY <1>6, BeginRetireStep
  <1>7. ASSUME NEW m \in DOMAIN markets, NEW p \in Players,
               NEW type \in {"LIMIT", "MARKET"}, NEW price \in Prices,
               NEW qty \in 1 .. MaxQty, beginBuy(m, p, type, price, qty)
        PROVE  Inductive'
    BY <1>7, BeginBuyStep
  <1>8. ASSUME NEW m \in DOMAIN markets, NEW p \in Players,
               NEW type \in {"LIMIT", "MARKET"}, NEW price \in Prices,
               NEW qty \in 1 .. MaxQty, beginSell(m, p, type, price, qty)
        PROVE  Inductive'
    BY <1>8, BeginSellStep
  <1>9. ASSUME NEW o \in DOMAIN orders,
               matchAsk(o) \/ matchBid(o) \/ cancelOrder(o) \/ retireOrder(o)
        PROVE  Inductive'
    BY <1>9, MatchAskStep, MatchBidStep, CancelStep, RetireOrderStep
  <1>10. CASE finishBuy
    BY <1>10, FinishBuyStep
  <1>11. CASE finishSell
    BY <1>11, FinishSellStep
  <1>12. CASE finishRetire
    BY <1>12, FinishRetireStep
  <1>13. CASE Abort
    BY <1>13, AbortStep
  <1> QED BY <1>1, <1>2, <1>3, <1>4, <1>5, <1>6, <1>7, <1>8, <1>9, <1>10,
             <1>11, <1>12, <1>13 DEF Next

\* Every reachable state satisfies the inductive invariant.
THEOREM InductiveInvariant == Spec => []Inductive
  BY InitInductive, StepInductive, PTL DEF Spec

\* The tables keep their types; in particular no balance leaves 0 .. MaxCents
\* at any iteration of a matching loop.
THEOREM TypeCorrect == Spec => []TypeOK
  <1>1. Inductive => TypeOK
    BY DEF Inductive
  <1> QED BY <1>1, InductiveInvariant, PTL

\* The reserve of every committed order is exact, so placeSellLocked never
\* reaches its "buy-order reserve invariant failed" throw.
THEOREM ReserveExactHolds == Spec => []ReserveExact
  <1>1. Inductive => ReserveExact
    BY DEF Inductive, CommittedRows, GoodBook, GoodRow, ReserveExact
  <1> QED BY <1>1, InductiveInvariant, PTL

\* No two players ever rest at crossing prices in the book of an item.
THEOREM NoCrossedBookHolds == Spec => []NoCrossedBook
  <1>1. Inductive => NoCrossedBook
    <2> SUFFICES ASSUME Inductive, NEW b \in DOMAIN Rows, NEW a \in DOMAIN Rows,
                        IsOpen(Rows[b]), Rows[b].side = "BUY",
                        IsOpen(Rows[a]), Rows[a].side = "SELL",
                        BookOf(Rows[b]) = BookOf(Rows[a]),
                        Rows[b].player # Rows[a].player
                 PROVE  Rows[b].price < Rows[a].price
      BY DEF NoCrossedBook
    <2>1. ~Crossed(Rows[b], Rows[a], markets)
      BY DEF Inductive, CommittedRows, GoodBook
    <2>2. Rows \in Seq(Order)
      BY TypeFacts DEF Inductive, Rows, Tables
    <2>3. Rows[b] \in Order /\ Rows[a] \in Order
      BY <2>2
    <2>4. Rows[b].price \in Nat /\ Rows[a].price \in Nat
      BY <2>3 DEF Order
    <2> QED BY <2>1, <2>4 DEF Crossed, BookOf
  <1> QED BY <1>1, InductiveInvariant, PTL

\* A market that was removed for good holds no resting order.
THEOREM NoOrphanOrdersHolds == Spec => []NoOrphanOrders
  <1>1. Inductive => NoOrphanOrders
    BY DEF Inductive, CommittedRows, GoodBook, GoodRow, NoOrphanOrders
  <1> QED BY <1>1, InductiveInvariant, PTL

\* Bindings and active markets correspond one to one.
THEOREM BindingsMatchMarketsHolds == Spec => []BindingsMatchMarkets
  <1>1. Inductive => BindingsMatchMarkets
    BY DEF Inductive
  <1> QED BY <1>1, InductiveInvariant, PTL

\* The status column agrees with the quantities of every committed order.
THEOREM StatusAgreesHolds == Spec => []StatusAgrees
  <1>1. Inductive => StatusAgrees
    BY DEF Inductive, CommittedRows, GoodBook, GoodRow, StatusAgrees
  <1> QED BY <1>1, InductiveInvariant, PTL

=============================================================================
