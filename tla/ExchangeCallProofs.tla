-------------------------- MODULE ExchangeCallProofs --------------------------
(***************************************************************************)
(* Proofs about whole calls of ExchangeOrders: they neither create nor     *)
(* destroy money or items, they trade in the order of price and age, and   *)
(* they settle with the other players exactly.                             *)
(*                                                                         *)
(* Conserved says of the working tables, where the incoming order holds    *)
(* what the loop has not used yet and not what its row says, what the      *)
(* properties say of the committed ones. It needs two facts more: a player *)
(* without an account row has no money and no orders, and between two      *)
(* calls the committed tables are the working ones. InLoop relates the     *)
(* working tables to the committed ones while a placeOrder is running.     *)
(***************************************************************************)
EXTENDS ExchangeOrdersProofs, FiniteSums

-----------------------------------------------------------------------------
(* The inductive invariant *)

\* The money each row of the working table holds.
HeldMoney ==
    [o \in DOMAIN orders |->
        IF txn.kind = "BUY" /\ o = txn.order
        THEN BuyReserve(orders[o], txn.remaining) ELSE orders[o].reserved]

WorkingMoney ==
    SumFunctionOnSet(balance, Players) + SumFunctionOnSet(HeldMoney, DOMAIN orders)
        = minted

\* The items of kind i each row of the working table holds.
HeldStock(i) ==
    [o \in DOMAIN orders |->
        IF txn.kind = "SELL" /\ o = txn.order
        THEN IF BookOf(orders[o]) = i THEN txn.remaining ELSE 0
        ELSE HeldItems(orders[o], i)]

OwedStock(i) == [p \in Players |-> owed[p][i]]

\* The items of the sell order in progress are not deposited yet.
BeingSold(i) ==
    IF txn.kind = "SELL" /\ BookOf(Incoming) = i THEN Incoming.original ELSE 0

WorkingItems ==
    \A i \in Items :
        SumFunctionOnSet(OwedStock(i), Players)
            + SumFunctionOnSet(HeldStock(i), DOMAIN orders)
            = deposited[i] + BeingSold(i)

\* Only players with an account row have money or orders.
AccountsOpened ==
    /\ \A p \in Players \ opened : balance[p] = 0 /\ committed.balance[p] = 0
    /\ \A o \in DOMAIN orders : orders[o].player \in opened
    /\ \A o \in DOMAIN Rows : Rows[o].player \in opened

\* Between two calls the connection sees what is committed.
Synced == committed = [balance |-> balance, orders |-> orders, owed |-> owed]

InSync == Idle => Synced

Conserved ==
    /\ Inductive
    /\ AccountsOpened
    /\ InSync
    /\ WorkingMoney
    /\ WorkingItems
    /\ MoneyConserved
    /\ ItemsConserved

-----------------------------------------------------------------------------
(* Sums over players and rows *)

\* The sums are over finite sets.
LEMMA FiniteTables ==
    ASSUME Inductive
    PROVE  IsFiniteSet(Players) /\ IsFiniteSet(DOMAIN orders)
  <1>1. orders \in Seq(Order)
    BY TypeFacts DEF Inductive
  <1>2. DOMAIN orders = 1 .. Len(orders) /\ Len(orders) \in Nat
    BY <1>1
  <1> QED BY <1>2, ConstantsAssumption, FS_Interval

\* credit adds its amount to the sum of the balances.
LEMMA Credited ==
    ASSUME NEW bal \in [Players -> Int], NEW p \in Players, NEW d \in Int
    PROVE  /\ credit(bal, p, d) \in [Players -> Int]
           /\ SumFunctionOnSet(bal, Players) \in Int
           /\ SumFunctionOnSet(credit(bal, p, d), Players)
                = SumFunctionOnSet(bal, Players) + d
  <1> DEFINE c == credit(bal, p, d)
  <1>1. /\ c \in [Players -> Int] /\ c[p] = bal[p] + d
        /\ \A q \in Players \ {p} : c[q] = bal[q]
    BY DEF credit
  <1>2. bal[p] \in Int /\ \A q \in Players : bal[q] \in Int
    OBVIOUS
  <1>3. IsFiniteSet(Players)
    BY ConstantsAssumption
  <1> HIDE DEF c
  <1>4. c[p] \in Int
    BY <1>1
  <1>5. /\ SumFunctionOnSet(c, Players) = SumFunctionOnSet(bal, Players) + c[p] - bal[p]
        /\ SumFunctionOnSet(bal, Players) \in Int
    BY <1>1, <1>2, <1>3, <1>4, SumChange
  <1>6. SumFunctionOnSet(c, Players) = SumFunctionOnSet(bal, Players) + d
    BY <1>1, <1>2, <1>5
  <1> QED BY <1>1, <1>5, <1>6 DEF c

\* Opening an account puts the opening money into the balances.
LEMMA OpenedMoney ==
    ASSUME TypeOK, AccountsOpened, NEW p \in Players
    PROVE  /\ OpenedBalance(p) \in [Players -> Int]
           /\ OpeningMoney(p) \in Int
           /\ SumFunctionOnSet(balance, Players) \in Int
           /\ SumFunctionOnSet(OpenedBalance(p), Players)
                = SumFunctionOnSet(balance, Players) + OpeningMoney(p)
  <1>1. balance \in [Players -> Int] /\ InitialBalance \in Int
    BY TypeFacts, ConstantsAssumption
  <1>2. SumFunctionOnSet(balance, Players) \in Int
    BY <1>1, ConstantsAssumption, SumInt
  <1>3. CASE p \in opened
    BY <1>1, <1>2, <1>3 DEF OpenedBalance, OpeningMoney
  <1>4. CASE p \notin opened
    <2>1. balance[p] = 0
      BY <1>4 DEF AccountsOpened
    <2>2. OpenedBalance(p) = credit(balance, p, InitialBalance)
      BY <1>1, <1>4, <2>1 DEF OpenedBalance, credit
    <2>3. OpeningMoney(p) = InitialBalance
      BY <1>4 DEF OpeningMoney
    <2> QED BY <1>1, <2>2, <2>3, Credited
  <1> QED BY <1>3, <1>4

\* What rows hold is a number.
LEMMA HeldType ==
    ASSUME Inductive
    PROVE  /\ \A o \in DOMAIN orders : HeldMoney[o] \in Int
           /\ \A i : \A o \in DOMAIN orders : HeldStock(i)[o] \in Int
  <1>1. orders \in Seq(Order) /\ txn \in Txn
    BY TypeFacts DEF Inductive
  <1>2. txn.remaining \in Nat
    BY <1>1 DEF Txn
  <1>3. ASSUME NEW o \in DOMAIN orders
        PROVE  /\ HeldMoney[o] \in Int
               /\ \A i : HeldStock(i)[o] \in Int
    <2>1. orders[o] \in Order
      BY <1>1
    <2>2. /\ orders[o].price \in Nat /\ orders[o].reserved \in Nat
          /\ orders[o].remaining \in Nat
      BY <2>1 DEF Order
    <2>3. BuyReserve(orders[o], txn.remaining) \in Nat
      BY <1>2, <2>2, Products DEF BuyReserve
    <2> QED BY <1>2, <2>2, <2>3 DEF HeldMoney, HeldStock, HeldItems
  <1> QED BY <1>3

\* Between two calls the committed and the working sums are the same.
LEMMA IdleSums ==
    TypeOK /\ Idle /\ Synced
        => (WorkingMoney <=> MoneyConserved) /\ (WorkingItems <=> ItemsConserved)
  <1> SUFFICES ASSUME TypeOK, Idle, Synced
               PROVE  (WorkingMoney <=> MoneyConserved) /\ (WorkingItems <=> ItemsConserved)
    OBVIOUS
  <1>1. Rows = orders /\ committed.balance = balance /\ committed.owed = owed
    BY DEF Rows, Synced
  <1>2. txn.kind = "IDLE" /\ deposited \in [Items -> Nat]
    BY TypeFacts DEF Idle
  <1>3. HeldMoney = [o \in DOMAIN Rows |-> Rows[o].reserved]
    BY <1>1, <1>2 DEF HeldMoney
  <1>4. WorkingMoney <=> MoneyConserved
    BY <1>1, <1>3 DEF WorkingMoney, MoneyConserved
  <1>5. ASSUME NEW i \in Items
        PROVE  /\ HeldStock(i) = [o \in DOMAIN Rows |-> HeldItems(Rows[o], i)]
               /\ OwedStock(i) = [p \in Players |-> committed.owed[p][i]]
               /\ deposited[i] + BeingSold(i) = deposited[i]
    BY <1>1, <1>2 DEF HeldStock, OwedStock, BeingSold
  <1>6. ASSUME NEW i \in Items
        PROVE  (SumFunctionOnSet(OwedStock(i), Players)
                  + SumFunctionOnSet(HeldStock(i), DOMAIN orders)
                  = deposited[i] + BeingSold(i))
               <=> (SumFunctionOnSet([p \in Players |-> committed.owed[p][i]], Players)
                      + SumFunctionOnSet([o \in DOMAIN Rows |-> HeldItems(Rows[o], i)],
                                         DOMAIN Rows)
                      = deposited[i])
    BY <1>1, <1>5
  <1>7. WorkingItems <=> ItemsConserved
    BY <1>6 DEF WorkingItems, ItemsConserved
  <1> QED BY <1>4, <1>7

\* The same of the state after a step.
LEMMA IdleSumsPrime ==
    TypeOK' /\ Idle' /\ Synced'
        => (WorkingMoney' <=> MoneyConserved') /\ (WorkingItems' <=> ItemsConserved')
  BY IdleSums, PTL

\* One row gives up d cents and the balances gain them.
LEMMA MoneyMoves ==
    ASSUME Inductive, WorkingMoney, NEW k \in DOMAIN orders, NEW d \in Int,
           DOMAIN orders' = DOMAIN orders,
           \A o \in DOMAIN orders \ {k} : HeldMoney'[o] = HeldMoney[o],
           HeldMoney'[k] = HeldMoney[k] - d,
           SumFunctionOnSet(balance', Players) = SumFunctionOnSet(balance, Players) + d,
           minted' = minted
    PROVE  WorkingMoney'
  <1>1. IsFiniteSet(DOMAIN orders) /\ \A o \in DOMAIN orders : HeldMoney[o] \in Int
    BY FiniteTables, HeldType
  <1>2. SumFunctionOnSet(balance, Players) \in Int
    <2>1. balance \in [Players -> Int]
      BY TypeFacts, ConstantsAssumption DEF Inductive
    <2> QED BY <2>1, FiniteTables, SumInt
  <1>3. HeldMoney'[k] \in Int /\ HeldMoney[k] \in Int
    BY <1>1
  <1>4. /\ SumFunctionOnSet(HeldMoney', DOMAIN orders)
             = SumFunctionOnSet(HeldMoney, DOMAIN orders) + HeldMoney'[k] - HeldMoney[k]
        /\ SumFunctionOnSet(HeldMoney, DOMAIN orders) \in Int
    BY <1>1, <1>3, SumChange
  <1>5. SumFunctionOnSet(HeldMoney', DOMAIN orders)
             = SumFunctionOnSet(HeldMoney, DOMAIN orders) - d
    BY <1>3, <1>4
  <1> QED BY <1>2, <1>4, <1>5 DEF WorkingMoney

\* No row and no balance changes.
LEMMA MoneyStays ==
    ASSUME Inductive, WorkingMoney, DOMAIN orders' = DOMAIN orders,
           \A o \in DOMAIN orders : HeldMoney'[o] = HeldMoney[o],
           balance' = balance, minted' = minted
    PROVE  WorkingMoney'
  <1>1. IsFiniteSet(DOMAIN orders)
    BY FiniteTables
  <1>2. SumFunctionOnSet(HeldMoney', DOMAIN orders)
            = SumFunctionOnSet(HeldMoney, DOMAIN orders)
    BY <1>1, SumEqual
  <1> QED BY <1>2 DEF WorkingMoney

\* A delivery of n items of kind i adds them to what is owed of that kind.
LEMMA OwedSum ==
    ASSUME owed \in [Players -> [Items -> Nat]], NEW p \in Players,
           NEW i \in Items, NEW n \in Nat, owed' = Owe(p, i, n), NEW j \in Items
    PROVE  /\ SumFunctionOnSet(OwedStock(j), Players) \in Int
           /\ SumFunctionOnSet(OwedStock(j)', Players)
                = SumFunctionOnSet(OwedStock(j), Players) + (IF i = j THEN n ELSE 0)
  <1>1. OwedStock(j)'[p] = OwedStock(j)[p] + (IF i = j THEN n ELSE 0)
    BY DEF OwedStock, Owe
  <1>0. /\ \A q \in Players : OwedStock(j)[q] \in Int
        /\ \A q \in Players \ {p} : OwedStock(j)'[q] = OwedStock(j)[q]
    BY DEF OwedStock, Owe
  <1>2. IsFiniteSet(Players)
    BY ConstantsAssumption
  <1>3. OwedStock(j)'[p] \in Int /\ OwedStock(j)[p] \in Int
    BY <1>0, <1>1
  <1>4. /\ SumFunctionOnSet(OwedStock(j)', Players)
             = SumFunctionOnSet(OwedStock(j), Players) + OwedStock(j)'[p] - OwedStock(j)[p]
        /\ SumFunctionOnSet(OwedStock(j), Players) \in Int
    BY ONLY <1>0, <1>2, <1>3, SumChange, p \in Players
  <1> QED BY <1>1, <1>3, <1>4

\* One row gives up n items of kind j, and as many are owed or sold.
LEMMA StockMoves ==
    ASSUME Inductive, WorkingItems, NEW j \in Items, NEW k \in DOMAIN orders, NEW n \in Int,
           DOMAIN orders' = DOMAIN orders,
           \A o \in DOMAIN orders \ {k} : HeldStock(j)'[o] = HeldStock(j)[o],
           HeldStock(j)'[k] = HeldStock(j)[k] - n,
           SumFunctionOnSet(OwedStock(j)', Players)
                = SumFunctionOnSet(OwedStock(j), Players) + n,
           deposited'[j] + BeingSold(j)' = deposited[j] + BeingSold(j)
    PROVE  SumFunctionOnSet(OwedStock(j)', Players)
             + SumFunctionOnSet(HeldStock(j)', DOMAIN orders')
             = deposited'[j] + BeingSold(j)'
  <1>1. IsFiniteSet(DOMAIN orders) /\ \A o \in DOMAIN orders : HeldStock(j)[o] \in Int
    BY FiniteTables, HeldType
  <1>2. SumFunctionOnSet(OwedStock(j), Players) \in Int
    <2>1. \A q \in Players : OwedStock(j)[q] \in Int
      BY TypeFacts DEF Inductive, OwedStock
    <2> QED BY <2>1, FiniteTables, SumInt
  <1>3. HeldStock(j)'[k] \in Int /\ HeldStock(j)[k] \in Int
    BY <1>1
  <1>4. /\ SumFunctionOnSet(HeldStock(j)', DOMAIN orders)
             = SumFunctionOnSet(HeldStock(j), DOMAIN orders)
                + HeldStock(j)'[k] - HeldStock(j)[k]
        /\ SumFunctionOnSet(HeldStock(j), DOMAIN orders) \in Int
    BY <1>1, <1>3, SumChange
  <1>5. SumFunctionOnSet(HeldStock(j)', DOMAIN orders)
             = SumFunctionOnSet(HeldStock(j), DOMAIN orders) - n
    BY <1>3, <1>4
  <1>6. SumFunctionOnSet(OwedStock(j), Players)
            + SumFunctionOnSet(HeldStock(j), DOMAIN orders)
            = deposited[j] + BeingSold(j)
    BY DEF WorkingItems
  <1> QED BY <1>2, <1>4, <1>5, <1>6

\* No row and no delivery changes.
LEMMA StockStays ==
    ASSUME Inductive, WorkingItems, DOMAIN orders' = DOMAIN orders,
           \A j \in Items : /\ \A o \in DOMAIN orders : HeldStock(j)'[o] = HeldStock(j)[o]
                            /\ deposited'[j] + BeingSold(j)' = deposited[j] + BeingSold(j),
           owed' = owed
    PROVE  WorkingItems'
  <1>1. IsFiniteSet(DOMAIN orders)
    BY FiniteTables
  <1>2. ASSUME NEW j \in Items
        PROVE  SumFunctionOnSet(OwedStock(j)', Players)
                 + SumFunctionOnSet(HeldStock(j)', DOMAIN orders')
                 = deposited'[j] + BeingSold(j)'
    <2>1. OwedStock(j)' = OwedStock(j)
      BY DEF OwedStock
    <2>2. SumFunctionOnSet(HeldStock(j)', DOMAIN orders)
            = SumFunctionOnSet(HeldStock(j), DOMAIN orders)
      BY <1>1, SumEqual
    <2> QED BY <2>1, <2>2 DEF WorkingItems
  <1> QED BY <1>2 DEF WorkingItems

-----------------------------------------------------------------------------
(* What a commit and the steps before it do *)

\* No step takes a market away or changes the item it trades.
SameItems ==
    \A m \in DOMAIN markets :
        m \in DOMAIN markets' /\ markets'[m].item = markets[m].item

\* A commit makes the conserved sums durable.
LEMMA AtCommit ==
    ASSUME Commit, Inductive', WorkingMoney', WorkingItems'
    PROVE  InSync' /\ MoneyConserved' /\ ItemsConserved'
  <1>1. Synced' /\ Idle' /\ TypeOK'
    BY DEF Commit, Synced, Idle, NoTxn, Inductive
  <1> QED BY <1>1, IdleSumsPrime DEF InSync

\* Before the commit nothing durable changes.
LEMMA BeforeCommit ==
    ASSUME Inductive, MoneyConserved, ItemsConserved, SameItems,
           UNCHANGED <<committed, minted, deposited>>
    PROVE  MoneyConserved' /\ ItemsConserved'
  <1>1. Rows' = Rows
    BY DEF Rows
  <1>2. MoneyConserved'
    BY <1>1 DEF MoneyConserved
  <1>3. \A o \in DOMAIN Rows : Rows[o].market \in DOMAIN markets
    BY DEF Inductive, CommittedRows, GoodBook, GoodRow
  <1>4. \A o \in DOMAIN Rows : \A i : HeldItems(Rows[o], i)' = HeldItems(Rows[o], i)
    BY <1>1, <1>3 DEF HeldItems, BookOf, SameItems
  <1>5. ItemsConserved'
    <2> SUFFICES ASSUME NEW i \in Items
                 PROVE  (SumFunctionOnSet([p \in Players |-> committed.owed[p][i]], Players)
                          + SumFunctionOnSet([o \in DOMAIN Rows |-> HeldItems(Rows[o], i)],
                                             DOMAIN Rows)
                          = deposited[i])'
      BY DEF ItemsConserved
    <2>1. [o \in DOMAIN Rows |-> HeldItems(Rows[o], i)]'
              = [o \in DOMAIN Rows |-> HeldItems(Rows[o], i)]
      BY <1>1, <1>4
    <2> QED BY <1>1, <2>1 DEF ItemsConserved
  <1> QED BY <1>2, <1>5

\* Markets are added, paused, resumed and retired; none changes its item.
LEMMA ItemsKept ==
    ASSUME Inductive,
           \/ UNCHANGED markets
           \/ \E t \in Targets, i \in Items : activateMarket(t, i)
           \/ \E m \in DOMAIN markets : closeMarket(m)
           \/ finishRetire
    PROVE  SameItems
  <1>1. markets \in Seq(Market)
    BY TypeFacts DEF Inductive
  <1>2. \A m \in DOMAIN markets : markets[m] \in Market
    BY <1>1
  <1>3. ASSUME NEW m \in DOMAIN markets, NEW x \in BOOLEAN, NEW y \in BOOLEAN,
               markets' = [markets EXCEPT ![m].active = x, ![m].reopenable = y]
        PROVE  SameItems
    BY <1>1, <1>2, <1>3 DEF SameItems, Market
  <1>4. ASSUME NEW t \in Targets, NEW i \in Items, activateMarket(t, i)
        PROVE  SameItems
    <2>1. CASE resumeMarket(t, i)
      <3>1. PICK m \in Resumable(t, i) :
                markets' = [markets EXCEPT ![m].active = TRUE,
                                           ![m].reopenable = FALSE]
        BY <2>1 DEF resumeMarket
      <3>2. m \in DOMAIN markets
        BY DEF Resumable
      <3> QED BY <1>3, <3>1, <3>2
    <2>2. CASE insertMarket(t, i)
      <3> DEFINE e == [target |-> t, item |-> i, active |-> TRUE,
                       reopenable |-> FALSE]
      <3>1. e \in Market /\ markets' = Append(markets, e)
        BY <2>2 DEF insertMarket, Market
      <3> HIDE DEF e
      <3>2. /\ DOMAIN markets \subseteq DOMAIN markets'
            /\ \A m \in DOMAIN markets : markets'[m] = markets[m]
        BY <1>1, <3>1, InsertRow
      <3> QED BY <3>2 DEF SameItems
    <2> QED BY <1>4, <2>1, <2>2 DEF activateMarket
  <1>5. ASSUME NEW m \in DOMAIN markets, closeMarket(m)
        PROVE  SameItems
    <2>1. \/ markets' = [markets EXCEPT ![m].active = FALSE, ![m].reopenable = TRUE]
          \/ markets' = markets
      BY <1>5 DEF closeMarket
    <2> QED BY <1>3, <2>1 DEF SameItems
  <1>6. CASE finishRetire
    <2>1. txn.market \in DOMAIN markets
      BY <1>6 DEF finishRetire, Inductive, RetireTarget
    <2>2. markets' = [markets EXCEPT ![txn.market].active = FALSE,
                                     ![txn.market].reopenable = FALSE]
      BY <1>6 DEF finishRetire
    <2> QED BY <1>3, <2>1, <2>2
  <1>7. CASE UNCHANGED markets
    BY <1>7 DEF SameItems
  <1> QED BY <1>4, <1>5, <1>6, <1>7

-----------------------------------------------------------------------------
(* Accounts and markets *)

\* Money that administrators and opened accounts put in is counted.
LEMMA AccountConserves ==
    ASSUME Conserved, NEW p \in Players,
           ensureAccount(p) \/ \E d \in Deltas : addBalance(p, d)
    PROVE  Conserved'
  <1>1. /\ Inductive /\ Inductive' /\ TypeOK /\ AccountsOpened
        /\ WorkingMoney /\ WorkingItems
    BY AccountStep DEF Conserved, Inductive
  <1>2. /\ txn.kind = "IDLE" /\ txn'.kind = "IDLE" /\ Commit
        /\ UNCHANGED <<orders, owed, markets, binding, deposited>>
        /\ opened' = opened \cup {p}
        /\ committed'.balance = balance' /\ committed'.orders = orders'
    BY DEF ensureAccount, addBalance, Idle, marketVars, Commit, NoTxn
  <1>3. PICK d \in Int : /\ balance' = credit(OpenedBalance(p), p, d)
                         /\ minted' = minted + OpeningMoney(p) + d
    <2>1. CASE ensureAccount(p)
      <3>1. OpenedBalance(p) = credit(OpenedBalance(p), p, 0)
        BY <1>1, OpenedMoney DEF credit
      <3>2. minted \in Int /\ OpeningMoney(p) \in Int
        BY <1>1, TypeFacts, OpenedMoney
      <3>3. minted' = minted + OpeningMoney(p) + 0
        BY <2>1, <3>2 DEF ensureAccount
      <3> QED BY <2>1, <3>1, <3>3 DEF ensureAccount
    <2>2. CASE \E d \in Deltas : addBalance(p, d)
      BY <2>2, ConstantsAssumption DEF addBalance
    <2> QED BY <2>1, <2>2
  <1>4. /\ SumFunctionOnSet(balance', Players)
             = SumFunctionOnSet(balance, Players) + OpeningMoney(p) + d
        /\ SumFunctionOnSet(balance, Players) \in Int
        /\ OpeningMoney(p) \in Int /\ minted \in Int
    <2>1. /\ OpenedBalance(p) \in [Players -> Int]
          /\ OpeningMoney(p) \in Int
          /\ SumFunctionOnSet(balance, Players) \in Int
          /\ SumFunctionOnSet(OpenedBalance(p), Players)
                = SumFunctionOnSet(balance, Players) + OpeningMoney(p)
      BY <1>1, OpenedMoney
    <2>2. SumFunctionOnSet(credit(OpenedBalance(p), p, d), Players)
            = SumFunctionOnSet(OpenedBalance(p), Players) + d
      BY ONLY <2>1, Credited, p \in Players, d \in Int
    <2>3. minted \in Int
      BY <1>1, TypeFacts
    <2> QED BY <1>3, <2>1, <2>2, <2>3
  <1>5. HeldMoney' = HeldMoney
    BY <1>2 DEF HeldMoney
  <1>6. SumFunctionOnSet(HeldMoney, DOMAIN orders) \in Int
    BY <1>1, FiniteTables, HeldType, SumInt
  <1>7. WorkingMoney'
    BY <1>1, <1>2, <1>3, <1>4, <1>5, <1>6 DEF WorkingMoney
  <1>8. WorkingItems'
    <2>1. \A i \in Items : /\ HeldStock(i)' = HeldStock(i)
                           /\ OwedStock(i)' = OwedStock(i)
                           /\ BeingSold(i)' = BeingSold(i)
      BY <1>2 DEF HeldStock, OwedStock, BeingSold, HeldItems, BookOf, Incoming
    <2> QED BY <1>1, <1>2, <2>1 DEF WorkingItems
  <1>9. AccountsOpened'
    <2>1. \A q \in Players \ {p} : balance'[q] = balance[q]
      BY <1>1, <1>3, TypeFacts DEF OpenedBalance, credit
    <2>2. Rows' = orders
      BY <1>2 DEF Rows
    <2> QED BY <1>1, <1>2, <2>1, <2>2 DEF AccountsOpened
  <1> QED BY <1>1, <1>2, <1>7, <1>8, <1>9, AtCommit DEF Conserved

\* Market calls move no money and no items.
LEMMA MarketConserves ==
    ASSUME Conserved, Inductive', SameItems,
           UNCHANGED <<balance, orders, owed, opened, minted, deposited>>,
           \/ txn' = txn /\ committed' = committed
           \/ Idle /\ txn'.kind = "RETIRE" /\ committed' = committed
           \/ txn.kind = "RETIRE" /\ Commit
    PROVE  Conserved'
  <1>1. /\ Inductive /\ TypeOK /\ AccountsOpened /\ InSync
        /\ WorkingMoney /\ WorkingItems /\ MoneyConserved /\ ItemsConserved
    BY DEF Conserved, Inductive
  <1>2. orders \in Seq(Order)
    BY <1>1, TypeFacts
  <1>3. \A o \in DOMAIN orders : orders[o].market \in DOMAIN markets
    BY <1>1 DEF Inductive, WorkingRows, GoodBook, GoodRow, Settled, IncomingRow, Incoming
  <1>4. \A o \in DOMAIN orders : BookOf(orders[o])' = BookOf(orders[o])
    BY <1>3 DEF BookOf, SameItems
  <1>5. txn.kind \in {"BUY", "SELL"} => txn' = txn /\ txn.order \in DOMAIN orders
    BY <1>1 DEF Idle, Inductive, IncomingRow, Placing
  <1>6. txn.kind \notin {"BUY", "SELL"} => txn'.kind \notin {"BUY", "SELL"}
    BY DEF Commit, NoTxn
  <1>7. HeldMoney' = HeldMoney
    BY <1>5, <1>6 DEF HeldMoney
  <1>8. WorkingMoney'
    BY <1>1, <1>7 DEF WorkingMoney
  <1>9. WorkingItems'
    <2>1. ASSUME NEW i \in Items
          PROVE  /\ \A o \in DOMAIN orders : HeldStock(i)'[o] = HeldStock(i)[o]
                 /\ BeingSold(i)' = BeingSold(i)
      BY <1>4, <1>5, <1>6 DEF HeldStock, HeldItems, BeingSold, Incoming
    <2> QED BY <1>1, <2>1, StockStays
  <1>10. CASE committed' = committed
    <2>1. AccountsOpened'
      BY <1>1, <1>10 DEF AccountsOpened, Rows
    <2>2. MoneyConserved' /\ ItemsConserved'
      BY <1>1, <1>10, BeforeCommit
    <2>3. \/ txn' = txn
          \/ txn'.kind = "RETIRE"
          \/ Commit
      OBVIOUS
    <2>4. InSync'
      BY <1>1, <1>10, <2>3 DEF InSync, Synced, Idle, Commit
    <2> QED BY <1>8, <1>9, <2>1, <2>2, <2>4 DEF Conserved
  <1>11. CASE Commit
    <2>1. committed'.balance = balance /\ Rows' = orders
      BY <1>11 DEF Commit, Rows
    <2>2. AccountsOpened'
      BY <1>1, <2>1 DEF AccountsOpened
    <2> QED BY <1>8, <1>9, <1>11, <2>2, AtCommit DEF Conserved
  <1> QED BY <1>10, <1>11

-----------------------------------------------------------------------------
(* placeOrder *)

\* A new row holds what was debited for it, or the items of the seller.
LEMMA BeginConserves ==
    ASSUME Conserved, Inductive', NEW m \in DOMAIN markets, NEW p \in Players,
           NEW side \in {"BUY", "SELL"}, NEW type \in {"LIMIT", "MARKET"},
           NEW price \in Prices, NEW qty \in 1 .. MaxQty, NEW reserve \in Nat,
           reserve = IF side = "BUY" /\ type = "LIMIT" THEN price * qty ELSE 0,
           beginOrder(m, p, side, type, price, qty, reserve)
    PROVE  Conserved'
  <1> DEFINE e == NewOrder(m, p, side, type, price, qty, reserve)
             n == Len(orders) + 1
  <1>1. /\ Inductive /\ TypeOK /\ AccountsOpened /\ InSync
        /\ WorkingMoney /\ WorkingItems /\ MoneyConserved /\ ItemsConserved
    BY DEF Conserved, Inductive
  <1>2. /\ orders \in Seq(Order) /\ markets \in Seq(Market) /\ price \in Nat
        /\ m \in Nat /\ qty \in Nat
    BY <1>1, TypeFacts, ConstantsAssumption
  <1>3. /\ txn.kind = "IDLE" /\ Idle
        /\ orders' = Append(orders, e)
        /\ txn'.kind = side /\ txn'.order = n /\ txn'.remaining = qty
        /\ balance' = [OpenedBalance(p) EXCEPT ![p] = @ - reserve]
        /\ committed' = [committed EXCEPT !.balance = OpenedBalance(p)]
        /\ minted' = minted + OpeningMoney(p)
        /\ opened' = opened \cup {p}
        /\ UNCHANGED <<owed, markets, binding, deposited>>
    BY DEF beginOrder, marketVars, Idle
  <1>4. /\ e \in Order /\ e.market = m /\ e.side = side /\ e.player = p
        /\ e.original = qty /\ e.remaining = qty /\ e.reserved = reserve
        /\ e.type = type /\ (type = "LIMIT" => e.price = price)
    BY <1>2, NewOrderType DEF NewOrder
  <1> HIDE DEF e
  <1>5. /\ DOMAIN orders' = DOMAIN orders \cup {n} /\ n \notin DOMAIN orders
        /\ orders'[n] = e /\ \A o \in DOMAIN orders : orders'[o] = orders[o]
    BY <1>2, <1>3, <1>4, InsertRow
  <1> HIDE DEF n
  <1>6. IsFiniteSet(DOMAIN orders)
    BY <1>1, FiniteTables
  <1>7. /\ \A o \in DOMAIN orders : HeldMoney'[o] = HeldMoney[o]
        /\ HeldMoney'[n] = reserve
        /\ \A o \in DOMAIN orders' : HeldMoney'[o] \in Int
    <2>1. /\ \A o \in DOMAIN orders : HeldMoney'[o] = HeldMoney[o]
          /\ HeldMoney'[n] = reserve
      BY <1>3, <1>4, <1>5 DEF HeldMoney, BuyReserve
    <2> QED BY <1>1, <1>5, <2>1, HeldType
  <1>8. SumFunctionOnSet(HeldMoney', DOMAIN orders')
            = SumFunctionOnSet(HeldMoney, DOMAIN orders) + reserve
    <2>1. SumFunctionOnSet(HeldMoney', DOMAIN orders)
            = SumFunctionOnSet(HeldMoney, DOMAIN orders)
      BY <1>6, <1>7, SumEqual
    <2>2. SumFunctionOnSet(HeldMoney', DOMAIN orders \cup {n})
            = SumFunctionOnSet(HeldMoney', DOMAIN orders) + HeldMoney'[n]
      <3>1. \A o \in DOMAIN orders \cup {n} : HeldMoney'[o] \in Int
        BY <1>5, <1>7
      <3> QED BY ONLY <1>5, <1>6, <3>1, SumAdd
    <2> QED BY <1>5, <1>7, <2>1, <2>2
  <1>9. /\ OpenedBalance(p) \in [Players -> Int] /\ OpeningMoney(p) \in Int
        /\ SumFunctionOnSet(balance, Players) \in Int
        /\ SumFunctionOnSet(OpenedBalance(p), Players)
            = SumFunctionOnSet(balance, Players) + OpeningMoney(p)
    BY <1>1, OpenedMoney
  <1>10. SumFunctionOnSet(balance', Players)
            = SumFunctionOnSet(balance, Players) + OpeningMoney(p) - reserve
    <2>1. balance' = credit(OpenedBalance(p), p, - reserve)
      BY <1>3, <1>9 DEF credit
    <2>2. SumFunctionOnSet(credit(OpenedBalance(p), p, - reserve), Players)
            = SumFunctionOnSet(OpenedBalance(p), Players) + (- reserve)
      <3>1. - reserve \in Int
        OBVIOUS
      <3> QED BY ONLY <1>9, <3>1, Credited, p \in Players
    <2> QED BY <1>9, <2>1, <2>2
  <1>11. WorkingMoney'
    <2>1. SumFunctionOnSet(HeldMoney, DOMAIN orders) \in Int
      BY <1>1, <1>6, HeldType, SumInt
    <2>2. minted \in Int
      BY <1>1, TypeFacts
    <2>3. SumFunctionOnSet(balance, Players) + SumFunctionOnSet(HeldMoney, DOMAIN orders)
            = minted
      BY <1>1 DEF WorkingMoney
    <2>4. SumFunctionOnSet(balance', Players) + SumFunctionOnSet(HeldMoney', DOMAIN orders')
            = minted'
      BY <1>3, <1>8, <1>9, <1>10, <2>1, <2>2, <2>3
    <2> QED BY <2>4 DEF WorkingMoney
  <1>12. WorkingItems'
    <2> SUFFICES ASSUME NEW i \in Items
                 PROVE  SumFunctionOnSet(OwedStock(i)', Players)
                          + SumFunctionOnSet(HeldStock(i)', DOMAIN orders')
                          = deposited'[i] + BeingSold(i)'
      BY DEF WorkingItems
    <2> DEFINE q == IF side = "SELL" /\ markets[m].item = i THEN qty ELSE 0
    <2>1. /\ \A o \in DOMAIN orders : HeldStock(i)'[o] = HeldStock(i)[o]
          /\ HeldStock(i)'[n] = q
      BY <1>3, <1>4, <1>5 DEF HeldStock, HeldItems, BookOf
    <2>2. BeingSold(i)' = q /\ BeingSold(i) = 0 /\ OwedStock(i)' = OwedStock(i)
      BY <1>3, <1>4, <1>5 DEF BeingSold, BookOf, Incoming, OwedStock
    <2>3. q \in Int
      BY <1>2
    <2> HIDE DEF q
    <2>4. \A o \in DOMAIN orders \cup {n} : HeldStock(i)'[o] \in Int
      BY <1>1, <2>1, <2>3, HeldType
    <2>5. /\ SumFunctionOnSet(HeldStock(i)', DOMAIN orders \cup {n})
                = SumFunctionOnSet(HeldStock(i)', DOMAIN orders) + HeldStock(i)'[n]
          /\ SumFunctionOnSet(HeldStock(i)', DOMAIN orders) \in Int
      BY ONLY <1>5, <1>6, <2>4, SumAdd
    <2>6. SumFunctionOnSet(HeldStock(i)', DOMAIN orders)
            = SumFunctionOnSet(HeldStock(i), DOMAIN orders)
      BY ONLY <1>6, <2>1, SumEqual
    <2>7. SumFunctionOnSet(OwedStock(i), Players) \in Int /\ deposited[i] \in Int
      <3>1. \A o \in Players : OwedStock(i)[o] \in Int
        BY <1>1, TypeFacts DEF OwedStock
      <3>2. SumFunctionOnSet(OwedStock(i), Players) \in Int
        BY ONLY <1>1, <3>1, FiniteTables, SumInt
      <3> QED BY <1>1, <3>2, TypeFacts
    <2>8. SumFunctionOnSet(OwedStock(i), Players)
            + SumFunctionOnSet(HeldStock(i), DOMAIN orders) = deposited[i] + BeingSold(i)
      BY <1>1 DEF WorkingItems
    <2> QED BY <1>3, <1>5, <2>1, <2>2, <2>3, <2>5, <2>6, <2>7, <2>8
  <1>13. Rows' = Rows /\ committed'.balance = OpenedBalance(p) /\ committed'.owed = committed.owed
    BY <1>1, <1>3, TypeFacts DEF Rows, Tables
  <1>14. AccountsOpened'
    <2>1. \A x \in Players \ {p} : balance'[x] = balance[x] /\ OpenedBalance(p)[x] = balance[x]
      BY <1>1, <1>3, TypeFacts DEF OpenedBalance
    <2> QED BY <1>1, <1>3, <1>4, <1>5, <1>13, <2>1 DEF AccountsOpened
  <1>15. MoneyConserved'
    <2> DEFINE h == SumFunctionOnSet([o \in DOMAIN Rows |-> Rows[o].reserved], DOMAIN Rows)
    <2>1. SumFunctionOnSet(balance, Players) + h = minted
      <3>1. committed.balance = balance
        BY <1>1, <1>3 DEF InSync, Synced
      <3> QED BY <1>1, <3>1 DEF MoneyConserved
    <2>2. h \in Int
      <3> DEFINE f == [o \in DOMAIN Rows |-> Rows[o].reserved]
      <3>1. Rows = orders
        BY <1>1, <1>3 DEF InSync, Synced, Rows
      <3>2. \A o \in DOMAIN Rows : orders[o] \in Order
        BY <1>2, <3>1
      <3>3. \A o \in DOMAIN Rows : f[o] \in Int
        BY <3>1, <3>2 DEF Order
      <3>4. IsFiniteSet(DOMAIN Rows)
        BY <1>6, <3>1
      <3> HIDE DEF f
      <3>5. SumFunctionOnSet(f, DOMAIN Rows) \in Int
        BY <3>3, <3>4, SumInt
      <3> QED BY <3>5 DEF f
    <2>3. h' = h
      BY <1>13
    <2> HIDE DEF h
    <2>4. minted \in Int
      BY <1>1, TypeFacts
    <2>5. SumFunctionOnSet(committed'.balance, Players) + h' = minted'
      BY <1>3, <1>9, <1>13, <2>1, <2>2, <2>3, <2>4
    <2> QED BY <2>5 DEF MoneyConserved, h
  <1>16. ItemsConserved'
    <2>1. \A o \in DOMAIN Rows : \A i : HeldItems(Rows[o], i)' = HeldItems(Rows[o], i)
      BY <1>3, <1>13 DEF HeldItems, BookOf
    <2>2. \A i : [o \in DOMAIN Rows |-> HeldItems(Rows[o], i)]'
                    = [o \in DOMAIN Rows |-> HeldItems(Rows[o], i)]
      BY <1>13, <2>1
    <2> QED BY <1>1, <1>3, <1>13, <2>2 DEF ItemsConserved
  <1>17. InSync'
    BY <1>3 DEF InSync, Idle
  <1> QED BY <1>11, <1>12, <1>14, <1>15, <1>16, <1>17 DEF Conserved

\* An iteration of either loop: counterpart c gives fill items or the money it
\* reserved for them, the incoming order the other half, and the balances gain
\* what the two rows give up.
LEMMA TradeConserves ==
    ASSUME Conserved, Inductive', Placing, NEW c \in DOMAIN orders, c # txn.order,
           NEW fill \in Nat, NEW paid \in Int, NEW gain \in Int,
           NEW buyer \in Players,
           DOMAIN orders' = DOMAIN orders,
           \A o \in DOMAIN orders \ {c} : orders'[o] = orders[o],
           orders'[c].remaining = orders[c].remaining - fill,
           orders'[c].reserved = orders[c].reserved - paid,
           orders'[c].market = orders[c].market,
           orders'[c].side = orders[c].side,
           orders'[c].player = orders[c].player,
           txn'.kind = txn.kind, txn'.order = txn.order,
           txn'.remaining = txn.remaining - fill,
           BookOf(orders[c]) = BookOf(Incoming), BookOf(Incoming) \in Items,
           orders[c].side # txn.kind, orders[c].side \in {"BUY", "SELL"},
           txn.kind = "BUY" =>
                /\ paid = 0
                /\ BuyReserve(Incoming, txn.remaining - fill)
                        = BuyReserve(Incoming, txn.remaining) - gain,
           txn.kind = "SELL" => gain = paid,
           SumFunctionOnSet(balance', Players) = SumFunctionOnSet(balance, Players) + gain,
           \A q \in Players \ opened : balance'[q] = balance[q],
           owed' = Owe(buyer, BookOf(Incoming), fill),
           UNCHANGED <<committed, opened, markets, minted, deposited>>
    PROVE  Conserved'
  <1>1. /\ Inductive /\ TypeOK /\ AccountsOpened
        /\ WorkingMoney /\ WorkingItems /\ MoneyConserved /\ ItemsConserved
    BY DEF Conserved, Inductive
  <1>2. /\ txn.order \in DOMAIN orders /\ Incoming.side = txn.kind
        /\ Incoming \in Order /\ orders[c] \in Order
        /\ txn.remaining \in Nat
    <2>1. orders \in Seq(Order) /\ txn \in Txn
      BY <1>1, TypeFacts
    <2>2. txn.order \in DOMAIN orders /\ Incoming.side = txn.kind
      BY <1>1 DEF Inductive, IncomingRow
    <2> QED BY <2>1, <2>2 DEF Incoming, Txn
  <1>3. Incoming' = Incoming
    BY <1>2 DEF Incoming
  <1>4. \A o \in DOMAIN orders : BookOf(orders[o])' = BookOf(orders[o])
    BY DEF BookOf
  <1>5. /\ orders[c].reserved \in Nat /\ orders[c].remaining \in Nat
    BY <1>2 DEF Order
  <1>6. WorkingMoney'
    <2>1. CASE txn.kind = "BUY"
      <3>1. HeldMoney[txn.order] = BuyReserve(Incoming, txn.remaining)
        BY <1>2, <2>1 DEF HeldMoney, Incoming
      <3>2. HeldMoney'[txn.order] = BuyReserve(Incoming, txn.remaining - fill)
        BY <1>2, <2>1 DEF HeldMoney, Incoming
      <3>3. HeldMoney'[txn.order] = HeldMoney[txn.order] - gain
        BY <2>1, <3>1, <3>2
      <3>4. \A o \in DOMAIN orders \ {txn.order} : HeldMoney'[o] = HeldMoney[o]
        BY <1>5, <2>1 DEF HeldMoney
      <3> QED BY <1>1, <1>2, <3>3, <3>4, MoneyMoves
    <2>2. CASE txn.kind = "SELL"
      <3>1. HeldMoney'[c] = HeldMoney[c] - gain
        BY <2>2 DEF HeldMoney
      <3>2. \A o \in DOMAIN orders \ {c} : HeldMoney'[o] = HeldMoney[o]
        BY <2>2 DEF HeldMoney
      <3> QED BY <1>1, <3>1, <3>2, MoneyMoves
    <2> QED BY <2>1, <2>2 DEF Placing
  <1>7. WorkingItems'
    <2> SUFFICES ASSUME NEW j \in Items
                 PROVE  SumFunctionOnSet(OwedStock(j)', Players)
                          + SumFunctionOnSet(HeldStock(j)', DOMAIN orders')
                          = deposited'[j] + BeingSold(j)'
      BY DEF WorkingItems
    <2> DEFINE n == IF BookOf(Incoming) = j THEN fill ELSE 0
    <2>0. n \in Int
      OBVIOUS
    <2>1. SumFunctionOnSet(OwedStock(j)', Players)
            = SumFunctionOnSet(OwedStock(j), Players) + n
      BY <1>1, TypeFacts, OwedSum
    <2>2. deposited'[j] + BeingSold(j)' = deposited[j] + BeingSold(j)
      BY <1>2, <1>3, <1>4 DEF BeingSold, Incoming
    <2>3. CASE txn.kind = "BUY"
      <3>1. HeldStock(j)'[c] = HeldStock(j)[c] - n
        BY <1>4, <1>5, <2>3 DEF HeldStock, HeldItems
      <3>2. \A o \in DOMAIN orders \ {c} : HeldStock(j)'[o] = HeldStock(j)[o]
        BY <1>4, <2>3 DEF HeldStock, HeldItems
      <3> HIDE DEF n
      <3> QED BY <1>1, <2>0, <2>1, <2>2, <3>1, <3>2, StockMoves
    <2>4. CASE txn.kind = "SELL"
      <3>1. HeldStock(j)'[txn.order] = HeldStock(j)[txn.order] - n
        BY <1>2, <1>4, <2>4 DEF HeldStock, Incoming
      <3>2. \A o \in DOMAIN orders \ {txn.order} : HeldStock(j)'[o] = HeldStock(j)[o]
        BY <1>4, <2>4 DEF HeldStock, HeldItems
      <3> HIDE DEF n
      <3> QED BY <1>1, <1>2, <2>0, <2>1, <2>2, <3>1, <3>2, StockMoves
    <2> QED BY <2>3, <2>4 DEF Placing
  <1>8. AccountsOpened'
    <2>1. Rows' = Rows
      BY DEF Rows
    <2>2. \A o \in DOMAIN orders : orders'[o].player = orders[o].player
      OBVIOUS
    <2> QED BY <1>1, <2>1, <2>2 DEF AccountsOpened
  <1>9. MoneyConserved' /\ ItemsConserved'
    <2>1. SameItems
      BY DEF SameItems
    <2> QED BY <1>1, <2>1, BeforeCommit
  <1>10. InSync'
    BY DEF InSync, Idle, Placing
  <1> QED BY <1>6, <1>7, <1>8, <1>9, <1>10 DEF Conserved

\* placeBuy pays the seller from the reserve of the buy order, or from the
\* balance of the buyer of a market order, and gives back the improvement.
LEMMA MatchAskConserves ==
    ASSUME Conserved, NEW a \in DOMAIN orders, matchAsk(a)
    PROVE  Conserved'
  <1> DEFINE fill == BuyFill(a)
             mine == BuyerChange(a, fill)
             cost == orders[a].price * fill
  <1>1. /\ Inductive /\ Inductive' /\ TypeOK /\ AccountsOpened
    BY MatchAskStep DEF Conserved, Inductive
  <1>2. /\ txn.kind = "BUY" /\ txn.remaining > 0 /\ a \in Counterparts("SELL")
        /\ Incoming.type = "MARKET" => fill > 0
        /\ BookOf(orders[a]) = BookOf(Incoming)
    BY DEF matchAsk, NextAsk, Asks, Counterparts
  <1>3. /\ orders[a] \in Order /\ orders[a].side = "SELL"
        /\ Incoming \in Order /\ txn \in Txn
        /\ txn.order \in DOMAIN orders /\ txn.order # a
        /\ orders[a].price \in Nat \ {0}
        /\ orders[a].remaining \in Nat \ {0}
        /\ markets[txn.market].item \in Items
    BY <1>1, <1>2, LoopFacts
  <1>4. /\ txn.remaining \in Nat \ {0} /\ txn.available \in Nat
        /\ Incoming.price \in Nat /\ Incoming.player \in Players
        /\ Incoming.type \in {"LIMIT", "MARKET"}
        /\ orders[a].player \in Players /\ orders[a].reserved \in Nat
    BY <1>2, <1>3 DEF Txn, Order
  <1>5. fill \in Nat
    <2>1. txn.available \div orders[a].price \in Nat
      BY <1>3, <1>4, Quotients
    <2> QED BY <1>2, <1>3, <1>4, <2>1 DEF BuyFill, lesser, TradePrice
  <1>6. /\ balance' = credit(credit(balance, Incoming.player, mine),
                             orders[a].player, TradePrice(a) * fill)
        /\ orders' = [orders EXCEPT
                        ![a].remaining = @ - fill,
                        ![a].status = IF orders[a].remaining = fill THEN "FILLED"
                                      ELSE "PARTIAL"]
        /\ owed' = Owe(Incoming.player, markets[txn.market].item, fill)
        /\ txn' = [txn EXCEPT !.remaining = @ - fill, !.filled = @ + fill,
                              !.available = @ + mine]
        /\ UNCHANGED <<committed, opened, markets, minted, deposited>>
    BY DEF matchAsk, marketVars
  <1> HIDE DEF fill
  <1>7. cost \in Int /\ mine \in Int /\ TradePrice(a) * fill = cost
    <2>1. CASE Incoming.type = "MARKET"
      BY <1>3, <1>5, <2>1, Products DEF BuyerChange, TradePrice
    <2>2. CASE Incoming.type = "LIMIT"
      <3>1. Incoming.price - orders[a].price \in Int
        BY <1>3, <1>4
      <3>2. \A x, y \in Int : x * y \in Int
        BY Z3
      <3> QED BY <1>3, <1>5, <2>2, <3>1, <3>2, Products DEF BuyerChange, TradePrice
    <2> QED BY <1>4, <2>1, <2>2
  <1>8. BuyReserve(Incoming, txn.remaining - fill)
            = BuyReserve(Incoming, txn.remaining) - (mine + cost)
    <2>1. CASE Incoming.type = "MARKET"
      <3>1. mine = - cost
        BY <1>3, <1>5, <2>1 DEF BuyerChange, TradePrice
      <3> QED BY <1>7, <2>1, <3>1 DEF BuyReserve
    <2>2. CASE Incoming.type = "LIMIT"
      <3>1. Incoming.price * (txn.remaining - fill)
              = Incoming.price * txn.remaining - Incoming.price * fill
        BY <1>4, <1>5, Products
      <3>2. mine = Incoming.price * fill - cost
        BY <1>3, <1>4, <1>5, <2>2, Products DEF BuyerChange, TradePrice
      <3>3. Incoming.price * txn.remaining \in Nat /\ Incoming.price * fill \in Nat
        BY <1>4, <1>5, Products
      <3>4. mine + cost = Incoming.price * fill
        BY <1>7, <3>2, <3>3
      <3> QED BY <2>2, <3>1, <3>4 DEF BuyReserve
    <2> QED BY <1>4, <2>1, <2>2
  <1> HIDE DEF mine, cost
  <1>9. /\ SumFunctionOnSet(balance', Players)
                = SumFunctionOnSet(balance, Players) + (mine + cost)
        /\ mine + cost \in Int
    <2>1. balance \in [Players -> Int]
      BY <1>1, TypeFacts, ConstantsAssumption
    <2> DEFINE bal == credit(balance, Incoming.player, mine)
    <2>2. /\ bal \in [Players -> Int]
          /\ SumFunctionOnSet(balance, Players) \in Int
          /\ SumFunctionOnSet(bal, Players) = SumFunctionOnSet(balance, Players) + mine
      BY ONLY <1>4, <1>7, <2>1, Credited
    <2> HIDE DEF bal
    <2>3. SumFunctionOnSet(credit(bal, orders[a].player, cost), Players)
            = SumFunctionOnSet(bal, Players) + cost
      BY ONLY <1>4, <1>7, <2>2, Credited
    <2>4. balance' = credit(bal, orders[a].player, cost)
      BY <1>6, <1>7 DEF bal
    <2> QED BY <1>7, <2>2, <2>3, <2>4
  <1>10. \A q \in Players \ opened : balance'[q] = balance[q]
    <2>1. Incoming.player \in opened /\ orders[a].player \in opened
      BY <1>1, <1>3 DEF AccountsOpened, Incoming
    <2> QED BY <1>1, <1>6, <2>1, TypeFacts DEF credit
  <1>11. /\ BookOf(Incoming) = markets[txn.market].item
         /\ BookOf(Incoming) \in Items
    BY <1>1, <1>2, <1>3 DEF Inductive, IncomingRow, Placing, BookOf
  <1>12. /\ DOMAIN orders' = DOMAIN orders
         /\ \A o \in DOMAIN orders \ {a} : orders'[o] = orders[o]
         /\ orders'[a].remaining = orders[a].remaining - fill
         /\ orders'[a].reserved = orders[a].reserved - 0
         /\ orders'[a].market = orders[a].market
         /\ orders'[a].side = orders[a].side
         /\ orders'[a].player = orders[a].player
    <2> DEFINE left == orders[a].remaining - fill
               st == IF orders[a].remaining = fill THEN "FILLED" ELSE "PARTIAL"
               e == [orders[a] EXCEPT !.remaining = left, !.status = st]
    <2>1. DOMAIN orders' = DOMAIN orders /\ orders' = [orders EXCEPT ![a] = e]
      BY <1>6
    <2> HIDE DEF left, st
    <2>2. /\ e.remaining = left /\ e.reserved = orders[a].reserved - 0
          /\ e.market = orders[a].market /\ e.side = orders[a].side
          /\ e.player = orders[a].player
      BY <1>3, <1>4 DEF Order
    <2> HIDE DEF e
    <2>3. orders'[a] = e /\ \A o \in DOMAIN orders \ {a} : orders'[o] = orders[o]
      BY <2>1
    <2> QED BY <2>1, <2>2, <2>3 DEF left
  <1>13. txn'.kind = txn.kind /\ txn'.order = txn.order
         /\ txn'.remaining = txn.remaining - fill
    BY <1>3, <1>6 DEF Txn
  <1> DEFINE gain == mine + cost
             paid == 0
  <1>14. /\ gain \in Int /\ paid \in Int
         /\ BuyReserve(Incoming, txn.remaining - fill)
              = BuyReserve(Incoming, txn.remaining) - gain
         /\ SumFunctionOnSet(balance', Players) = SumFunctionOnSet(balance, Players) + gain
         /\ orders'[a].reserved = orders[a].reserved - paid
         /\ paid = 0
    BY <1>8, <1>9, <1>12
  <1>15. owed' = Owe(Incoming.player, BookOf(Incoming), fill)
    BY <1>6, <1>11
  <1>16. Placing /\ orders[a].side # txn.kind /\ orders[a].side \in {"BUY", "SELL"}
    BY <1>2, <1>3 DEF Placing
  <1> HIDE DEF gain, paid
  <1> QED BY <1>1, <1>2, <1>3, <1>4, <1>5, <1>6, <1>10, <1>11, <1>12, <1>13, <1>14,
             <1>15, <1>16, TradeConserves

\* placeSellLocked credits the seller with what leaves the reserve of the bid.
LEMMA MatchBidConserves ==
    ASSUME Conserved, NEW b \in DOMAIN orders, matchBid(b)
    PROVE  Conserved'
  <1> DEFINE fill == lesser(txn.remaining, orders[b].remaining)
             cost == orders[b].price * fill
  <1>1. /\ Inductive /\ Inductive' /\ TypeOK /\ AccountsOpened
    BY MatchBidStep DEF Conserved, Inductive
  <1>2. /\ txn.kind = "SELL" /\ b \in Counterparts("BUY")
        /\ BookOf(orders[b]) = BookOf(Incoming)
    BY DEF matchBid, NextBid, Bids, Counterparts
  <1>3. /\ orders[b] \in Order /\ orders[b].side = "BUY"
        /\ Incoming \in Order /\ txn \in Txn
        /\ txn.order \in DOMAIN orders /\ txn.order # b
        /\ orders[b].price \in Nat \ {0}
        /\ orders[b].remaining \in Nat \ {0}
        /\ markets[txn.market].item \in Items
    BY <1>1, <1>2, LoopFacts
  <1>4. /\ txn.remaining \in Nat
        /\ Incoming.player \in Players
        /\ orders[b].player \in Players /\ orders[b].reserved \in Nat
    BY <1>3 DEF Txn, Order
  <1>5. fill \in Nat
    BY <1>3, <1>4 DEF lesser
  <1>6. /\ balance' = credit(balance, Incoming.player, TradePrice(b) * fill)
        /\ orders' = [orders EXCEPT
                        ![b].remaining = @ - fill,
                        ![b].reserved = @ - TradePrice(b) * fill,
                        ![b].status = IF orders[b].remaining = fill THEN "FILLED"
                                      ELSE "PARTIAL"]
        /\ owed' = Owe(orders[b].player, markets[txn.market].item, fill)
        /\ txn' = [txn EXCEPT !.remaining = @ - fill, !.filled = @ + fill]
        /\ UNCHANGED <<committed, opened, markets, minted, deposited>>
    BY DEF matchBid, marketVars
  <1> HIDE DEF fill
  <1>7. cost \in Int /\ TradePrice(b) * fill = cost
    BY <1>3, <1>5, Products DEF TradePrice
  <1> HIDE DEF cost
  <1>8. SumFunctionOnSet(balance', Players) = SumFunctionOnSet(balance, Players) + cost
    <2>1. balance \in [Players -> Int]
      BY <1>1, TypeFacts, ConstantsAssumption
    <2>2. SumFunctionOnSet(credit(balance, Incoming.player, cost), Players)
            = SumFunctionOnSet(balance, Players) + cost
      BY ONLY <1>4, <1>7, <2>1, Credited
    <2> QED BY <1>6, <1>7, <2>2
  <1>9. \A q \in Players \ opened : balance'[q] = balance[q]
    <2>1. Incoming.player \in opened
      BY <1>1, <1>3 DEF AccountsOpened, Incoming
    <2> QED BY <1>1, <1>6, <2>1, TypeFacts DEF credit
  <1>10. /\ BookOf(Incoming) = markets[txn.market].item
         /\ BookOf(Incoming) \in Items
    BY <1>1, <1>2, <1>3 DEF Inductive, IncomingRow, Placing, BookOf
  <1>11. /\ DOMAIN orders' = DOMAIN orders
         /\ \A o \in DOMAIN orders \ {b} : orders'[o] = orders[o]
         /\ orders'[b].remaining = orders[b].remaining - fill
         /\ orders'[b].reserved = orders[b].reserved - cost
         /\ orders'[b].market = orders[b].market
         /\ orders'[b].side = orders[b].side
         /\ orders'[b].player = orders[b].player
    <2> DEFINE left == orders[b].remaining - fill
               held == orders[b].reserved - cost
               st == IF orders[b].remaining = fill THEN "FILLED" ELSE "PARTIAL"
               e == [orders[b] EXCEPT !.remaining = left, !.reserved = held,
                                      !.status = st]
    <2>1. DOMAIN orders' = DOMAIN orders /\ orders' = [orders EXCEPT ![b] = e]
      BY <1>6, <1>7
    <2> HIDE DEF left, held, st
    <2>2. /\ e.remaining = left /\ e.reserved = held
          /\ e.market = orders[b].market /\ e.side = orders[b].side
          /\ e.player = orders[b].player
      BY <1>3, <1>4 DEF Order
    <2> HIDE DEF e
    <2>3. orders'[b] = e /\ \A o \in DOMAIN orders \ {b} : orders'[o] = orders[o]
      BY <2>1
    <2> QED BY <2>1, <2>2, <2>3 DEF left, held
  <1>12. txn'.kind = txn.kind /\ txn'.order = txn.order
         /\ txn'.remaining = txn.remaining - fill
    BY <1>3, <1>6 DEF Txn
  <1>13. owed' = Owe(orders[b].player, BookOf(Incoming), fill)
    BY <1>6, <1>10
  <1>14. Placing /\ orders[b].side # txn.kind /\ orders[b].side \in {"BUY", "SELL"}
    BY <1>2, <1>3 DEF Placing
  <1> QED BY <1>1, <1>2, <1>3, <1>4, <1>5, <1>6, <1>7, <1>8, <1>9, <1>10, <1>11,
             <1>12, <1>13, <1>14, TradeConserves

\* The final UPDATE leaves in the incoming row what the loop did not use.
LEMMA FinishConserves ==
    ASSUME Conserved, finishBuy \/ finishSell
    PROVE  Conserved'
  <1> DEFINE k == txn.order
  <1>1. /\ Inductive /\ Inductive' /\ TypeOK /\ AccountsOpened
        /\ WorkingMoney /\ WorkingItems
    BY FinishBuyStep, FinishSellStep DEF Conserved, Inductive
  <1>2. /\ Placing /\ Commit /\ txn'.kind = "IDLE"
        /\ UNCHANGED <<balance, opened, markets, minted>>
        /\ committed'.balance = balance' /\ committed'.orders = orders'
    BY DEF finishBuy, finishSell, Placing, Commit, NoTxn, marketVars
  <1>3. /\ k \in DOMAIN orders /\ Incoming = orders[k] /\ Incoming \in Order
        /\ txn \in Txn /\ Incoming.side = txn.kind
        /\ Incoming.original = txn.remaining + txn.filled
        /\ BookOf(Incoming) = markets[txn.market].item
        /\ BookOf(Incoming) \in Items
        /\ orders \in Seq(Order)
    <2>1. /\ orders \in Seq(Order) /\ markets \in Seq(Market) /\ txn \in Txn
      BY <1>1, TypeFacts
    <2>2. /\ k \in DOMAIN orders /\ txn.market \in DOMAIN markets
          /\ Incoming.market = txn.market /\ Incoming.side = txn.kind
          /\ Incoming.original = txn.remaining + txn.filled
      BY <1>1, <1>2 DEF Inductive, IncomingRow
    <2>3. markets[txn.market] \in Market
      BY <2>1, <2>2
    <2> QED BY <2>1, <2>2, <2>3 DEF Incoming, BookOf, Market
  <1>4. /\ txn.remaining \in Nat /\ txn.filled \in Nat
        /\ Incoming.player \in Players /\ Incoming.reserved \in Nat
        /\ Incoming.type \in {"LIMIT", "MARKET"}
    BY <1>3 DEF Txn, Order
  <1>5. PICK r, st : orders' = [orders EXCEPT ![k].remaining =
                        IF Incoming.type = "LIMIT" THEN txn.remaining ELSE 0,
                        ![k].reserved = r, ![k].status = st]
                     /\ r = IF txn.kind = "BUY" THEN BuyReserve(Incoming, txn.remaining)
                            ELSE Incoming.reserved
    <2>1. CASE finishBuy
      BY <2>1 DEF finishBuy
    <2>2. CASE finishSell
      <3> DEFINE left == IF Incoming.type = "LIMIT" THEN txn.remaining ELSE 0
                 st == FinalStatus(Incoming, txn.remaining, txn.filled)
      <3>1. orders' = [orders EXCEPT ![k].remaining = left, ![k].status = st]
        BY <2>2 DEF finishSell
      <3> HIDE DEF left, st
      <3> DEFINE e == [orders[k] EXCEPT !.remaining = left, !.status = st]
                 f == [orders[k] EXCEPT !.remaining = left,
                            !.reserved = Incoming.reserved, !.status = st]
      <3>2. e = f
        BY <1>3 DEF Order
      <3>3. orders' = [orders EXCEPT ![k] = e]
        BY <1>3, <3>1
      <3> HIDE DEF e
      <3>4. orders' = [orders EXCEPT ![k].remaining = left,
                            ![k].reserved = Incoming.reserved, ![k].status = st]
        BY <1>3, <3>2, <3>3
      <3>5. txn.kind = "SELL"
        BY <2>2 DEF finishSell
      <3> QED BY <3>4, <3>5 DEF left
    <2> QED BY <2>1, <2>2
  <1> HIDE DEF k
  <1>6. /\ DOMAIN orders' = DOMAIN orders
        /\ \A o \in DOMAIN orders \ {k} : orders'[o] = orders[o]
        /\ orders'[k].remaining = IF Incoming.type = "LIMIT" THEN txn.remaining ELSE 0
        /\ orders'[k].reserved = r
        /\ orders'[k].market = Incoming.market
        /\ orders'[k].side = Incoming.side
        /\ orders'[k].player = Incoming.player
    <2> DEFINE left == IF Incoming.type = "LIMIT" THEN txn.remaining ELSE 0
               e == [orders[k] EXCEPT !.remaining = left, !.reserved = r, !.status = st]
    <2>1. DOMAIN orders' = DOMAIN orders /\ orders' = [orders EXCEPT ![k] = e]
      BY <1>5
    <2> HIDE DEF left
    <2>2. /\ e.remaining = left /\ e.reserved = r
          /\ e.market = Incoming.market /\ e.side = Incoming.side
          /\ e.player = Incoming.player
      BY <1>3 DEF Order
    <2> HIDE DEF e
    <2>3. orders'[k] = e /\ \A o \in DOMAIN orders \ {k} : orders'[o] = orders[o]
      BY <1>3, <2>1
    <2> QED BY <2>1, <2>2, <2>3 DEF left
  <1>7. WorkingMoney'
    <2>1. \A o \in DOMAIN orders : HeldMoney'[o] = HeldMoney[o]
      BY <1>2, <1>3, <1>5, <1>6 DEF HeldMoney, k
    <2> QED BY <1>1, <1>2, <1>6, <2>1, MoneyStays
  <1>8. WorkingItems'
    <2>1. CASE finishBuy
      <3>1. owed' = owed /\ deposited' = deposited /\ txn.kind = "BUY"
        BY <2>1 DEF finishBuy
      <3>2. ASSUME NEW j \in Items
            PROVE  /\ \A o \in DOMAIN orders : HeldStock(j)'[o] = HeldStock(j)[o]
                   /\ BeingSold(j)' = BeingSold(j)
        BY <1>2, <1>3, <1>6, <3>1 DEF HeldStock, HeldItems, BookOf, BeingSold, k
      <3> QED BY <1>1, <1>6, <3>1, <3>2, StockStays
    <2>2. CASE finishSell
      <3>1. /\ txn.kind = "SELL"
            /\ owed' = Owe(Incoming.player, BookOf(Incoming), MarketRemainder)
            /\ deposited' = [deposited EXCEPT ![BookOf(Incoming)] = @ + Incoming.original]
        BY <1>3, <2>2 DEF finishSell
      <3> SUFFICES ASSUME NEW j \in Items
                   PROVE  SumFunctionOnSet(OwedStock(j)', Players)
                            + SumFunctionOnSet(HeldStock(j)', DOMAIN orders')
                            = deposited'[j] + BeingSold(j)'
        BY DEF WorkingItems
      <3> DEFINE n == IF BookOf(Incoming) = j THEN MarketRemainder ELSE 0
      <3>2. MarketRemainder \in Nat
        BY <1>4 DEF MarketRemainder
      <3>3. n \in Int
        BY <3>2
      <3>4. SumFunctionOnSet(OwedStock(j)', Players)
              = SumFunctionOnSet(OwedStock(j), Players) + n
        <4> DEFINE i == BookOf(Incoming)
                   p == Incoming.player
                   m == MarketRemainder
        <4>1. /\ owed \in [Players -> [Items -> Nat]] /\ i \in Items /\ p \in Players
              /\ m \in Nat /\ owed' = Owe(p, i, m)
          BY <1>1, <1>3, <1>4, <3>1, <3>2, TypeFacts
        <4> HIDE DEF i, p, m
        <4>2. SumFunctionOnSet(OwedStock(j)', Players)
                = SumFunctionOnSet(OwedStock(j), Players) + (IF i = j THEN m ELSE 0)
          BY <4>1, OwedSum
        <4> QED BY <4>2 DEF i, m
      <3>5. HeldStock(j)[k] = IF BookOf(Incoming) = j THEN txn.remaining ELSE 0
        BY <1>3, <3>1 DEF HeldStock, k
      <3>6. HeldStock(j)'[k] = IF BookOf(Incoming) = j
                               THEN IF Incoming.type = "LIMIT" THEN txn.remaining ELSE 0
                               ELSE 0
        BY <1>2, <1>3, <1>6, <3>1 DEF HeldStock, HeldItems, BookOf
      <3>7. HeldStock(j)'[k] = HeldStock(j)[k] - n
        BY <1>4, <3>5, <3>6 DEF MarketRemainder
      <3>8. \A o \in DOMAIN orders \ {k} : HeldStock(j)'[o] = HeldStock(j)[o]
        BY <1>2, <1>6 DEF HeldStock, HeldItems, BookOf, k
      <3>9. deposited'[j] + BeingSold(j)' = deposited[j] + BeingSold(j)
        <4>1. deposited \in [Items -> Nat] /\ Incoming.original \in Nat
          BY <1>1, <1>3, TypeFacts DEF Order
        <4>2. BeingSold(j)' = 0
          BY <1>2 DEF BeingSold
        <4>3. BeingSold(j) = IF BookOf(Incoming) = j THEN Incoming.original ELSE 0
          BY <3>1 DEF BeingSold
        <4> QED BY <1>3, <3>1, <4>1, <4>2, <4>3
      <3> HIDE DEF n
      <3>10. k \in DOMAIN orders
        BY <1>3 DEF k
      <3> QED BY <1>1, <1>6, <3>3, <3>4, <3>7, <3>8, <3>9, <3>10, StockMoves
    <2> QED BY <2>1, <2>2
  <1>9. AccountsOpened'
    <2>1. Rows' = orders'
      BY <1>2 DEF Rows
    <2>2. \A o \in DOMAIN orders : orders'[o].player = orders[o].player
      BY <1>3, <1>6 DEF k
    <2> QED BY <1>1, <1>2, <1>6, <2>1, <2>2 DEF AccountsOpened
  <1> QED BY <1>1, <1>2, <1>7, <1>8, <1>9, AtCommit DEF Conserved

-----------------------------------------------------------------------------
(* Cancelling, and a failure *)

\* Cancelling a row gives its reserve or its items back to its player.
LEMMA ReleaseConserves ==
    ASSUME Conserved, ~Placing, txn'.kind \notin {"BUY", "SELL"},
           NEW o \in DOMAIN orders, Release(o),
           UNCHANGED <<opened, markets, minted, deposited>>
    PROVE  /\ WorkingMoney' /\ WorkingItems'
           /\ \A q \in Players \ opened : balance'[q] = balance[q]
           /\ DOMAIN orders' = DOMAIN orders
           /\ \A x \in DOMAIN orders : orders'[x].player = orders[x].player
  <1>1. /\ Inductive /\ TypeOK /\ AccountsOpened
        /\ WorkingMoney /\ WorkingItems
    BY DEF Conserved, Inductive
  <1>2. /\ orders \in Seq(Order) /\ orders[o] \in Order
        /\ GoodRow(orders[o], markets)
    BY <1>1, TypeFacts, IdleBook DEF GoodBook
  <1>3. /\ orders[o].player \in Players /\ orders[o].reserved \in Nat
        /\ orders[o].remaining \in Nat /\ orders[o].side \in {"BUY", "SELL"}
        /\ orders[o].side = "SELL" => orders[o].reserved = 0
    BY <1>2 DEF Order, GoodRow
  <1>4. BookOf(orders[o]) \in Items
    <2>1. markets[orders[o].market] \in Market
      BY <1>1, <1>2, TypeFacts DEF GoodRow
    <2> QED BY <2>1 DEF BookOf, Market
  <1>5. /\ DOMAIN orders' = DOMAIN orders
        /\ \A x \in DOMAIN orders \ {o} : orders'[x] = orders[x]
        /\ orders'[o].remaining = 0 /\ orders'[o].reserved = 0
        /\ orders'[o].market = orders[o].market
        /\ orders'[o].side = orders[o].side
        /\ orders'[o].player = orders[o].player
    <2> DEFINE e == [orders[o] EXCEPT !.remaining = 0, !.reserved = 0,
                                      !.status = "CANCELED"]
    <2>1. DOMAIN orders' = DOMAIN orders /\ orders' = [orders EXCEPT ![o] = e]
      BY DEF Release
    <2>2. /\ e.remaining = 0 /\ e.reserved = 0 /\ e.market = orders[o].market
          /\ e.side = orders[o].side /\ e.player = orders[o].player
      BY <1>2 DEF Order
    <2> HIDE DEF e
    <2> QED BY <2>1, <2>2
  <1>6. balance' = credit(balance, orders[o].player, orders[o].reserved)
    <2>1. balance \in [Players -> Int]
      BY <1>1, TypeFacts, ConstantsAssumption
    <2>2. CASE orders[o].side = "BUY"
      BY <2>2 DEF Release
    <2>3. CASE orders[o].side = "SELL"
      <3>1. credit(balance, orders[o].player, 0) = balance
        BY <1>3, <2>1 DEF credit
      <3> QED BY <1>3, <2>3, <3>1 DEF Release
    <2> QED BY <1>3, <2>2, <2>3
  <1>7. SumFunctionOnSet(balance', Players)
            = SumFunctionOnSet(balance, Players) + orders[o].reserved
    <2>1. balance \in [Players -> Int]
      BY <1>1, TypeFacts, ConstantsAssumption
    <2>2. SumFunctionOnSet(credit(balance, orders[o].player, orders[o].reserved), Players)
            = SumFunctionOnSet(balance, Players) + orders[o].reserved
      <3>1. orders[o].reserved \in Int
        BY <1>3
      <3> QED BY ONLY <1>3, <2>1, <3>1, Credited
    <2> QED BY <1>6, <2>2
  <1>8. WorkingMoney'
    <2>1. HeldMoney'[o] = HeldMoney[o] - orders[o].reserved
      BY <1>3, <1>5 DEF HeldMoney, Placing
    <2>2. \A x \in DOMAIN orders \ {o} : HeldMoney'[x] = HeldMoney[x]
      BY <1>5 DEF HeldMoney, Placing
    <2> QED BY <1>1, <1>3, <1>5, <1>7, <2>1, <2>2, MoneyMoves
  <1>9. WorkingItems'
    <2>1. CASE orders[o].side = "BUY"
      <3>1. owed' = owed
        BY <2>1 DEF Release
      <3>2. ASSUME NEW j \in Items
            PROVE  /\ \A x \in DOMAIN orders : HeldStock(j)'[x] = HeldStock(j)[x]
                   /\ BeingSold(j)' = BeingSold(j)
        BY <1>5, <2>1 DEF HeldStock, HeldItems, BookOf, BeingSold, Placing
      <3> QED BY <1>1, <1>5, <3>1, <3>2, StockStays
    <2>2. CASE orders[o].side = "SELL"
      <3> SUFFICES ASSUME NEW j \in Items
                   PROVE  SumFunctionOnSet(OwedStock(j)', Players)
                            + SumFunctionOnSet(HeldStock(j)', DOMAIN orders')
                            = deposited'[j] + BeingSold(j)'
        BY DEF WorkingItems
      <3> DEFINE n == IF BookOf(orders[o]) = j THEN orders[o].remaining ELSE 0
      <3>1. owed' = Owe(orders[o].player, BookOf(orders[o]), orders[o].remaining)
        BY <2>2 DEF Release
      <3>2. SumFunctionOnSet(OwedStock(j)', Players)
              = SumFunctionOnSet(OwedStock(j), Players) + n
        BY <1>1, <1>3, <1>4, <3>1, TypeFacts, OwedSum
      <3>3. n \in Int
        BY <1>3
      <3>4. HeldStock(j)'[o] = HeldStock(j)[o] - n
        BY <1>3, <1>5, <2>2 DEF HeldStock, HeldItems, BookOf, Placing
      <3>5. \A x \in DOMAIN orders \ {o} : HeldStock(j)'[x] = HeldStock(j)[x]
        BY <1>5 DEF HeldStock, HeldItems, BookOf, Placing
      <3>6. deposited'[j] + BeingSold(j)' = deposited[j] + BeingSold(j)
        BY DEF BeingSold, Placing
      <3> HIDE DEF n
      <3> QED BY <1>1, <1>5, <3>2, <3>3, <3>4, <3>5, <3>6, StockMoves
    <2> QED BY <1>3, <2>1, <2>2
  <1>10. \A q \in Players \ opened : balance'[q] = balance[q]
    <2>1. orders[o].player \in opened
      BY <1>1 DEF AccountsOpened
    <2> QED BY <1>1, <1>6, <2>1, TypeFacts DEF credit
  <1>11. \A x \in DOMAIN orders : orders'[x].player = orders[x].player
    BY <1>5
  <1> QED BY <1>5, <1>8, <1>9, <1>10, <1>11

\* cancelOrder gives back what the order holds.
LEMMA CancelConserves ==
    ASSUME Conserved, NEW o \in DOMAIN orders, cancelOrder(o)
    PROVE  Conserved'
  <1>1. Inductive' /\ AccountsOpened
    BY CancelStep DEF Conserved
  <1>2. /\ ~Placing /\ Release(o) /\ Commit /\ txn'.kind = "IDLE"
        /\ UNCHANGED <<opened, markets, minted, deposited>>
        /\ committed'.balance = balance' /\ committed'.orders = orders'
    BY DEF cancelOrder, Idle, Placing, marketVars, Commit, NoTxn
  <1>3. /\ WorkingMoney' /\ WorkingItems'
        /\ \A q \in Players \ opened : balance'[q] = balance[q]
        /\ DOMAIN orders' = DOMAIN orders
        /\ \A x \in DOMAIN orders : orders'[x].player = orders[x].player
    BY <1>2, ReleaseConserves
  <1>4. AccountsOpened'
    BY <1>1, <1>2, <1>3 DEF AccountsOpened, Rows
  <1> QED BY <1>1, <1>2, <1>3, <1>4, AtCommit DEF Conserved

\* retireMarket gives back what one order after the other holds.
LEMMA RetireOrderConserves ==
    ASSUME Conserved, NEW o \in DOMAIN orders, retireOrder(o)
    PROVE  Conserved'
  <1>1. /\ Inductive /\ Inductive' /\ AccountsOpened
        /\ MoneyConserved /\ ItemsConserved
    BY RetireOrderStep DEF Conserved
  <1>2. /\ ~Placing /\ Release(o) /\ txn' = txn /\ txn.kind = "RETIRE"
        /\ UNCHANGED <<committed, opened, markets, minted, deposited>>
    BY DEF retireOrder, Placing, marketVars
  <1>3. /\ WorkingMoney' /\ WorkingItems'
        /\ \A q \in Players \ opened : balance'[q] = balance[q]
        /\ DOMAIN orders' = DOMAIN orders
        /\ \A x \in DOMAIN orders : orders'[x].player = orders[x].player
    BY <1>2, ReleaseConserves
  <1>4. AccountsOpened'
    BY <1>1, <1>2, <1>3 DEF AccountsOpened, Rows
  <1>5. MoneyConserved' /\ ItemsConserved'
    <2>1. SameItems
      BY <1>2 DEF SameItems
    <2> QED BY <1>1, <1>2, <2>1, BeforeCommit
  <1>6. InSync'
    BY <1>2 DEF InSync, Idle
  <1> QED BY <1>1, <1>3, <1>4, <1>5, <1>6 DEF Conserved

\* A rollback goes back to tables in which everything is accounted for.
LEMMA AbortConserves ==
    ASSUME Conserved, Abort
    PROVE  Conserved'
  <1>1. /\ Inductive /\ Inductive' /\ AccountsOpened
        /\ MoneyConserved /\ ItemsConserved
    BY AbortStep DEF Conserved
  <1>2. /\ balance' = committed.balance /\ orders' = committed.orders
        /\ owed' = committed.owed /\ txn' = NoTxn
        /\ UNCHANGED <<committed, opened, markets, minted, deposited>>
    BY DEF Abort, marketVars
  <1>3. Synced' /\ Idle'
    <2>1. committed \in Tables
      BY <1>1, TypeFacts DEF Inductive
    <2> QED BY <1>2, <2>1 DEF Synced, Idle, NoTxn, Tables
  <1>4. MoneyConserved' /\ ItemsConserved'
    <2>1. SameItems
      BY <1>2 DEF SameItems
    <2> QED BY <1>1, <1>2, <2>1, BeforeCommit
  <1>5. WorkingMoney' /\ WorkingItems'
    BY <1>1, <1>3, <1>4, IdleSumsPrime DEF Inductive
  <1>6. AccountsOpened'
    BY <1>1, <1>2 DEF AccountsOpened, Rows
  <1> QED BY <1>1, <1>3, <1>4, <1>5, <1>6 DEF Conserved, InSync

-----------------------------------------------------------------------------
(* The theorems *)

\* There is no money and there are no items before the first call.
LEMMA InitConserved == Init => Conserved
  <1> SUFFICES ASSUME Init PROVE Conserved
    OBVIOUS
  <1>1. Inductive /\ TypeOK
    BY InitInductive DEF Inductive
  <1>2. /\ balance = [p \in Players |-> 0] /\ orders = <<>>
        /\ owed = [p \in Players |-> [i \in Items |-> 0]]
        /\ txn.kind = "IDLE" /\ minted = 0 /\ deposited = [i \in Items |-> 0]
        /\ committed = [balance |-> balance, orders |-> orders, owed |-> owed]
    BY DEF Init, NoTxn
  <1>3. Idle /\ Synced /\ Rows = <<>>
    BY <1>2 DEF Idle, Synced, Rows
  <1>4. DOMAIN orders = {}
    BY <1>2
  <1>5. SumFunctionOnSet(balance, Players) = 0
    BY <1>2, ConstantsAssumption, SumZero
  <1>6. WorkingMoney
    BY <1>2, <1>4, <1>5, SumEmpty DEF WorkingMoney
  <1>7. WorkingItems
    <2> SUFFICES ASSUME NEW i \in Items
                 PROVE  SumFunctionOnSet(OwedStock(i), Players)
                          + SumFunctionOnSet(HeldStock(i), DOMAIN orders)
                          = deposited[i] + BeingSold(i)
      BY DEF WorkingItems
    <2>1. \A p \in Players : OwedStock(i)[p] = 0
      BY <1>2 DEF OwedStock
    <2>2. SumFunctionOnSet(OwedStock(i), Players) = 0
      BY <2>1, ConstantsAssumption, SumZero
    <2>3. deposited[i] = 0 /\ BeingSold(i) = 0
      BY <1>2 DEF BeingSold
    <2> QED BY <1>4, <2>2, <2>3, SumEmpty
  <1>8. AccountsOpened
    BY <1>2, <1>3 DEF AccountsOpened
  <1> QED BY <1>1, <1>3, <1>6, <1>7, <1>8, IdleSums DEF Conserved, InSync

\* Every step conserves money and items, one case per action.
LEMMA StepConserved == Conserved /\ [Next]_vars => Conserved'
  <1> SUFFICES ASSUME Conserved, [Next]_vars PROVE Conserved'
    OBVIOUS
  <1>0. Inductive /\ Inductive'
    BY StepInductive DEF Conserved
  <1>1. CASE UNCHANGED vars
    <2>1. SameItems
      BY <1>1 DEF SameItems, vars
    <2> QED BY <1>0, <1>1, <2>1, MarketConserves DEF vars
  <1>2. ASSUME NEW p \in Players,
               ensureAccount(p) \/ \E d \in Deltas : addBalance(p, d)
        PROVE  Conserved'
    BY <1>2, AccountConserves
  <1>3. ASSUME \/ \E t \in Targets, i \in Items : activateMarket(t, i)
               \/ \E m \in DOMAIN markets : closeMarket(m)
        PROVE  Conserved'
    <2>1. SameItems
      BY <1>0, <1>3, ItemsKept
    <2>2. UNCHANGED <<balance, orders, owed, committed, opened, minted, deposited, txn>>
      BY <1>3 DEF activateMarket, closeMarket, tables
    <2> QED BY <1>0, <2>1, <2>2, MarketConserves
  <1>4. ASSUME NEW m \in DOMAIN markets, beginRetire(m)
        PROVE  Conserved'
    <2>1. /\ UNCHANGED <<balance, orders, owed, committed, opened, markets,
                         minted, deposited>>
          /\ Idle /\ txn'.kind = "RETIRE"
      BY <1>4 DEF beginRetire, tables, marketVars, NoTxn
    <2>2. SameItems
      BY <2>1 DEF SameItems
    <2> QED BY <1>0, <2>1, <2>2, MarketConserves
  <1>5. CASE finishRetire
    <2>1. SameItems
      BY <1>0, <1>5, ItemsKept
    <2>2. /\ UNCHANGED <<balance, orders, owed, opened, minted, deposited>>
          /\ txn.kind = "RETIRE" /\ Commit
      BY <1>5 DEF finishRetire
    <2> QED BY <1>0, <2>1, <2>2, MarketConserves
  <1>6. ASSUME NEW m \in DOMAIN markets, NEW p \in Players,
               NEW type \in {"LIMIT", "MARKET"}, NEW price \in Prices,
               NEW qty \in 1 .. MaxQty,
               beginBuy(m, p, type, price, qty) \/ beginSell(m, p, type, price, qty)
        PROVE  Conserved'
    <2> DEFINE r == IF type = "LIMIT" THEN price * qty ELSE 0
    <2>1. r \in Nat
      <3>1. price \in Nat /\ qty \in Nat
        BY ConstantsAssumption
      <3> QED BY <3>1, Products
    <2>2. \/ beginOrder(m, p, "BUY", type, price, qty, r)
          \/ beginOrder(m, p, "SELL", type, price, qty, 0)
      BY <1>6 DEF beginBuy, beginSell
    <2>3. CASE beginOrder(m, p, "BUY", type, price, qty, r)
      <3> DEFINE side == "BUY"
      <3>1. /\ side \in {"BUY", "SELL"} /\ beginOrder(m, p, side, type, price, qty, r)
            /\ r = IF side = "BUY" /\ type = "LIMIT" THEN price * qty ELSE 0
        BY <2>3
      <3> HIDE DEF r, side
      <3> QED BY <1>0, <2>1, <3>1, BeginConserves
    <2>4. CASE beginOrder(m, p, "SELL", type, price, qty, 0)
      <3> DEFINE side == "SELL"
                 none == 0
      <3>1. /\ side \in {"BUY", "SELL"} /\ beginOrder(m, p, side, type, price, qty, none)
            /\ none = IF side = "BUY" /\ type = "LIMIT" THEN price * qty ELSE 0
            /\ none \in Nat
        BY <2>4
      <3> HIDE DEF none, side
      <3> QED BY <1>0, <3>1, BeginConserves
    <2> QED BY <2>2, <2>3, <2>4
  <1>7. ASSUME NEW o \in DOMAIN orders,
               matchAsk(o) \/ matchBid(o) \/ cancelOrder(o) \/ retireOrder(o)
        PROVE  Conserved'
    BY <1>7, MatchAskConserves, MatchBidConserves, CancelConserves, RetireOrderConserves
  <1>8. CASE finishBuy \/ finishSell
    BY <1>8, FinishConserves
  <1>9. CASE Abort
    BY <1>9, AbortConserves
  <1> QED BY <1>1, <1>2, <1>3, <1>4, <1>5, <1>6, <1>7, <1>8, <1>9 DEF Next

\* Every reachable state satisfies the conservation invariant.
THEOREM ConservedAlways == Spec => []Conserved
  BY InitConserved, StepConserved, PTL DEF Spec

\* Matching, cancelling, retiring and rollbacks create and destroy no money.
THEOREM MoneyConservedHolds == Spec => []MoneyConserved
  <1>1. Conserved => MoneyConserved
    BY DEF Conserved
  <1> QED BY <1>1, ConservedAlways, PTL

\* They create and destroy no items either.
THEOREM ItemsConservedHolds == Spec => []ItemsConserved
  <1>1. Conserved => ItemsConserved
    BY DEF Conserved
  <1> QED BY <1>1, ConservedAlways, PTL

-----------------------------------------------------------------------------
(* While a placeOrder is running *)

\* The working row w of a committed row r: only what trading changes differs,
\* and a row that rested rests until it is used up.
SameOrder(w, r) ==
    /\ w.market = r.market /\ w.player = r.player
    /\ w.side = r.side /\ w.price = r.price
    /\ IsOpen(r) /\ w.remaining # 0 => IsOpen(w)

\* The loop works on the committed rows and the incoming one.
LoopRows ==
    /\ txn.order \in DOMAIN orders
    /\ DOMAIN Rows = DOMAIN orders \ {txn.order}
    /\ \A o \in DOMAIN Rows : SameOrder(orders[o], Rows[o])

\* What the loop has used so far, it used in the order of price and age.
LoopPriority ==
    \A x, y \in DOMAIN Rows :
        /\ Ahead(x, y)
        /\ Rows[x].player # Incoming.player
        /\ orders[y].remaining < Rows[y].remaining
        => orders[x].remaining = 0

\* The other players have so far got what their rows traded.
LoopSettled ==
    \A p \in Players \ {Incoming.player} :
        /\ balance[p] = committed.balance[p]
                            + SumFunctionOnSet(SoldFor(p, orders), DOMAIN Rows)
        /\ \A i \in Items :
              owed[p][i] = committed.owed[p][i]
                            + SumFunctionOnSet(Bought(p, i, orders), DOMAIN Rows)

InLoop == Placing => LoopRows /\ LoopPriority /\ LoopSettled

\* Before the first iteration the working rows are the committed ones.
LEMMA LoopStarts ==
    ASSUME Conserved, Inductive', NEW m \in DOMAIN markets, NEW p \in Players,
           NEW side \in {"BUY", "SELL"}, NEW type \in {"LIMIT", "MARKET"},
           NEW price \in Prices, NEW qty \in 1 .. MaxQty, NEW reserve \in Nat,
           beginOrder(m, p, side, type, price, qty, reserve)
    PROVE  InLoop'
  <1> DEFINE e == NewOrder(m, p, side, type, price, qty, reserve)
             n == Len(orders) + 1
  <1>1. /\ Inductive /\ TypeOK /\ InSync
    BY DEF Conserved, Inductive
  <1>2. /\ orders \in Seq(Order) /\ markets \in Seq(Market) /\ price \in Nat
        /\ m \in Nat /\ qty \in Nat /\ committed \in Tables
        /\ owed \in [Players -> [Items -> Nat]]
        /\ balance \in [Players -> 0 .. MaxCents]
    BY <1>1, TypeFacts, ConstantsAssumption
  <1>3. /\ Idle /\ orders' = Append(orders, e)
        /\ txn'.kind = side /\ txn'.order = n
        /\ balance' = [OpenedBalance(p) EXCEPT ![p] = @ - reserve]
        /\ committed' = [committed EXCEPT !.balance = OpenedBalance(p)]
        /\ UNCHANGED <<owed, markets>>
    BY DEF beginOrder, marketVars
  <1>4. e \in Order /\ e.player = p
    BY <1>2, NewOrderType DEF NewOrder
  <1> HIDE DEF e
  <1>5. /\ DOMAIN orders' = DOMAIN orders \cup {n} /\ n \notin DOMAIN orders
        /\ orders'[n] = e /\ \A o \in DOMAIN orders : orders'[o] = orders[o]
    BY <1>2, <1>3, <1>4, InsertRow
  <1> HIDE DEF n
  <1>6. /\ Rows = orders /\ Rows' = Rows /\ committed.owed = owed
        /\ committed'.balance = OpenedBalance(p) /\ committed'.owed = committed.owed
    <2>1. Rows = orders /\ committed.owed = owed
      BY <1>1, <1>3 DEF InSync, Synced, Rows
    <2>2. /\ committed'.orders = committed.orders /\ committed'.owed = committed.owed
          /\ committed'.balance = OpenedBalance(p)
      BY <1>2, <1>3 DEF Tables
    <2> QED BY <2>1, <2>2 DEF Rows
  <1>7. \A o \in DOMAIN Rows' : orders'[o] = Rows'[o]
    BY <1>5, <1>6
  <1>8. LoopRows'
    <2>1. \A o \in DOMAIN Rows' : SameOrder(orders'[o], Rows'[o])
      BY <1>7 DEF SameOrder
    <2>2. DOMAIN Rows' = DOMAIN orders' \ {n}
      BY <1>5, <1>6
    <2> QED BY <1>3, <1>5, <2>1, <2>2 DEF LoopRows
  <1>9. \A o \in DOMAIN Rows' : /\ Rows'[o].remaining \in Nat
                                /\ Rows'[o].price \in Nat
    <2>1. \A o \in DOMAIN Rows' : Rows'[o] \in Order
      BY <1>2, <1>6
    <2> QED BY <2>1 DEF Order
  <1>10. LoopPriority'
    BY <1>7, <1>9 DEF LoopPriority
  <1>11. LoopSettled'
    <2>1. Incoming'.player = p
      BY <1>3, <1>4, <1>5 DEF Incoming
    <2> SUFFICES ASSUME NEW q \in Players \ {p}
                 PROVE  /\ balance'[q] = committed'.balance[q]
                              + SumFunctionOnSet(SoldFor(q, orders)', DOMAIN Rows')
                        /\ \A i \in Items :
                              owed'[q][i] = committed'.owed[q][i]
                                + SumFunctionOnSet(Bought(q, i, orders)', DOMAIN Rows')
      BY <2>1 DEF LoopSettled
    <2>2. IsFiniteSet(DOMAIN Rows')
      BY <1>1, <1>6, FiniteTables
    <2>3. SumFunctionOnSet(SoldFor(q, orders)', DOMAIN Rows') = 0
      <3>1. \A o \in DOMAIN Rows' : SoldFor(q, orders)'[o] = 0
        BY <1>7, <1>9 DEF SoldFor, TradedQty
      <3> QED BY ONLY <2>2, <3>1, SumZero
    <2>4. \A i \in Items : SumFunctionOnSet(Bought(q, i, orders)', DOMAIN Rows') = 0
      <3> TAKE i \in Items
      <3>1. \A o \in DOMAIN Rows' : Bought(q, i, orders)'[o] = 0
        BY <1>7, <1>9 DEF Bought, TradedQty
      <3> QED BY ONLY <2>2, <3>1, SumZero
    <2>5. balance'[q] = committed'.balance[q] /\ balance'[q] \in Int
      <3>1. OpenedBalance(p) \in [Players -> 0 .. MaxCents]
        BY <1>1, OpenedType
      <3> QED BY <1>3, <1>6, <3>1, ConstantsAssumption
    <2>6. \A i \in Items : owed'[q][i] = committed'.owed[q][i] /\ owed'[q][i] \in Int
      BY <1>2, <1>3, <1>6
    <2> QED BY <2>3, <2>4, <2>5, <2>6
  <1> QED BY <1>8, <1>10, <1>11 DEF InLoop

\* What an iteration does to the counterpart c and to the other players when
\* fill items change hands.
Iteration(c, fill) ==
    /\ c # txn.order /\ txn.order \in DOMAIN orders
    /\ DOMAIN orders' = DOMAIN orders
    /\ \A o \in DOMAIN orders \ {c} : orders'[o] = orders[o]
    /\ orders'[c].remaining = orders[c].remaining - fill
    /\ SameOrder(orders'[c], orders[c])
    /\ IsOpen(orders[c]) /\ orders[c].remaining # 0
    /\ txn'.kind = txn.kind /\ txn'.order = txn.order
    /\ UNCHANGED <<committed, markets>>
    /\ \A p \in Players \ {Incoming.player} :
        /\ balance'[p] = balance[p] + (IF orders[c].player = p /\ orders[c].side = "SELL"
                                       THEN orders[c].price * fill ELSE 0)
        /\ \A i \in Items :
            owed'[p][i] = owed[p][i] + (IF /\ orders[c].player = p
                                           /\ orders[c].side = "BUY"
                                           /\ BookOf(orders[c]) = i THEN fill ELSE 0)

\* matchAsk and matchBid are such iterations.
LEMMA MatchIterates ==
    ASSUME Inductive, NEW c \in DOMAIN orders, matchAsk(c) \/ matchBid(c)
    PROVE  Placing /\ \E fill \in Nat : Iteration(c, fill)
  <1> DEFINE fill == IF txn.kind = "BUY" THEN BuyFill(c)
                     ELSE lesser(txn.remaining, orders[c].remaining)
             other == IF txn.kind = "BUY" THEN "SELL" ELSE "BUY"
             cost == orders[c].price * fill
  <1>1. /\ txn.kind \in {"BUY", "SELL"} /\ c \in Counterparts(other)
        /\ txn.kind = "BUY" => matchAsk(c)
        /\ txn.kind = "SELL" => matchBid(c)
        /\ txn.remaining > 0
    BY DEF matchAsk, NextAsk, Asks, matchBid, NextBid, Bids
  <1>2. /\ orders[c] \in Order /\ orders[c].side = other /\ IsOpen(orders[c])
        /\ Incoming \in Order /\ txn \in Txn
        /\ txn.order \in DOMAIN orders /\ txn.order # c
        /\ orders[c].price \in Nat \ {0}
        /\ orders[c].remaining \in Nat \ {0}
    BY <1>1, LoopFacts
  <1>3. /\ BookOf(orders[c]) = BookOf(Incoming) /\ orders[c].player # Incoming.player
        /\ BookOf(Incoming) = markets[txn.market].item
    BY <1>1 DEF Counterparts, Inductive, IncomingRow, Placing, BookOf
  <1>4. /\ txn.remaining \in Nat /\ txn.available \in Nat
        /\ Incoming.player \in Players /\ orders[c].player \in Players
        /\ Incoming.type \in {"LIMIT", "MARKET"}
    BY <1>2 DEF Txn, Order
  <1>5. fill \in Nat
    <2>1. txn.available \div orders[c].price \in Nat
      BY <1>2, <1>4, Quotients
    <2>2. CASE txn.kind = "BUY"
      <3>1. Incoming.type = "MARKET" => BuyFill(c) > 0
        BY <1>1, <2>2 DEF matchAsk
      <3> QED BY <1>2, <1>4, <2>1, <2>2, <3>1 DEF BuyFill, lesser, TradePrice
    <2>3. CASE txn.kind = "SELL"
      BY <1>2, <1>4, <2>3 DEF lesser
    <2> QED BY <1>1, <2>2, <2>3
  <1>6. /\ balance \in [Players -> 0 .. MaxCents]
        /\ owed \in [Players -> [Items -> Nat]] /\ orders \in Seq(Order)
    BY TypeFacts DEF Inductive
  <1>7. PICK held : orders' = [orders EXCEPT ![c].remaining = @ - fill,
                        ![c].reserved = held,
                        ![c].status = IF orders[c].remaining = fill THEN "FILLED"
                                      ELSE "PARTIAL"]
    <2>1. CASE txn.kind = "BUY"
      <3> DEFINE left == orders[c].remaining - fill
                 st == IF orders[c].remaining = fill THEN "FILLED" ELSE "PARTIAL"
                 e == [orders[c] EXCEPT !.remaining = left, !.status = st]
                 f == [orders[c] EXCEPT !.remaining = left,
                            !.reserved = orders[c].reserved, !.status = st]
      <3>1. orders' = [orders EXCEPT ![c] = e]
        BY <1>1, <2>1 DEF matchAsk
      <3> HIDE DEF left, st
      <3>2. e = f
        BY <1>2 DEF Order
      <3> HIDE DEF e
      <3>3. orders' = [orders EXCEPT ![c].remaining = left,
                        ![c].reserved = orders[c].reserved, ![c].status = st]
        BY <3>1, <3>2
      <3> QED BY <3>3 DEF left, st
    <2>2. CASE txn.kind = "SELL"
      BY <1>1, <2>2 DEF matchBid
    <2> QED BY <1>1, <2>1, <2>2
  <1>8. /\ txn'.kind = txn.kind /\ txn'.order = txn.order
        /\ UNCHANGED <<committed, markets>>
    BY <1>1, <1>2 DEF matchAsk, matchBid, marketVars, Txn
  <1>9. \A p \in Players \ {Incoming.player} :
            balance'[p] = balance[p] + (IF orders[c].player = p /\ orders[c].side = "SELL"
                                        THEN cost ELSE 0)
    <2>1. CASE txn.kind = "BUY"
      <3>1. balance' = credit(credit(balance, Incoming.player, BuyerChange(c, fill)),
                              orders[c].player, cost)
        BY <1>1, <2>1 DEF matchAsk, TradePrice
      <3> HIDE DEF cost, fill
      <3> QED BY <1>2, <1>3, <1>6, <2>1, <3>1 DEF credit
    <2>2. CASE txn.kind = "SELL"
      <3>1. balance' = credit(balance, Incoming.player, cost)
        BY <1>1, <2>2 DEF matchBid, TradePrice
      <3> HIDE DEF cost
      <3> QED BY <1>2, <1>6, <2>2, <3>1 DEF credit
    <2> QED BY <1>1, <2>1, <2>2
  <1>10. \A p \in Players \ {Incoming.player} : \A i \in Items :
            owed'[p][i] = owed[p][i] + (IF /\ orders[c].player = p
                                           /\ orders[c].side = "BUY"
                                           /\ BookOf(orders[c]) = i THEN fill ELSE 0)
    <2>1. CASE txn.kind = "BUY"
      <3>1. owed' = Owe(Incoming.player, BookOf(orders[c]), fill)
        BY <1>1, <1>3, <2>1 DEF matchAsk
      <3> HIDE DEF fill
      <3> QED BY <1>2, <1>6, <2>1, <3>1 DEF Owe
    <2>2. CASE txn.kind = "SELL"
      <3>1. owed' = Owe(orders[c].player, BookOf(orders[c]), fill)
        BY <1>1, <1>3, <2>2 DEF matchBid
      <3> HIDE DEF fill
      <3> QED BY <1>2, <1>5, <1>6, <2>2, <3>1 DEF Owe
    <2> QED BY <1>1, <2>1, <2>2
  <1> HIDE DEF fill
  <1>11. /\ DOMAIN orders' = DOMAIN orders
         /\ \A o \in DOMAIN orders \ {c} : orders'[o] = orders[o]
         /\ orders'[c].remaining = orders[c].remaining - fill
         /\ SameOrder(orders'[c], orders[c])
    <2> DEFINE left == orders[c].remaining - fill
               st == IF orders[c].remaining = fill THEN "FILLED" ELSE "PARTIAL"
               e == [orders[c] EXCEPT !.remaining = left, !.reserved = held, !.status = st]
    <2>1. DOMAIN orders' = DOMAIN orders /\ orders' = [orders EXCEPT ![c] = e]
      BY <1>7
    <2>2. left # 0 => st = "PARTIAL"
      BY <1>2, <1>5
    <2> HIDE DEF left, st
    <2>3. /\ e.remaining = left /\ e.status = st /\ e.type = orders[c].type
          /\ e.market = orders[c].market /\ e.player = orders[c].player
          /\ e.side = orders[c].side /\ e.price = orders[c].price
      BY <1>2 DEF Order
    <2> HIDE DEF e
    <2>4. SameOrder(e, orders[c])
      BY <2>2, <2>3 DEF SameOrder, IsOpen
    <2>5. orders'[c] = e /\ \A o \in DOMAIN orders \ {c} : orders'[o] = orders[o]
      BY <2>1
    <2> QED BY <2>1, <2>3, <2>4, <2>5 DEF left
  <1>12. Iteration(c, fill)
    BY <1>2, <1>8, <1>9, <1>10, <1>11 DEF Iteration
  <1> QED BY <1>1, <1>5, <1>12 DEF Placing

\* The row an iteration takes is the first of those that are left.
LEMMA TakesTheFirst ==
    ASSUME Inductive, LoopRows, NEW c \in DOMAIN orders, matchAsk(c) \/ matchBid(c),
           NEW x \in DOMAIN Rows, c \in DOMAIN Rows, Ahead(x, c),
           Rows[x].player # Incoming.player
    PROVE  orders[x].remaining = 0
  <1> SUFFICES ASSUME orders[x].remaining # 0 PROVE FALSE
    OBVIOUS
  <1>1. /\ SameOrder(orders[x], Rows[x]) /\ SameOrder(orders[c], Rows[c])
        /\ x \in DOMAIN orders
    BY DEF LoopRows
  <1>2. IsOpen(orders[x]) /\ x # c
    <2>1. committed \in Tables
      BY TypeFacts DEF Inductive
    <2>2. Rows \in Seq(Order)
      BY <2>1 DEF Rows, Tables
    <2>3. x \in Nat /\ Rows[x] \in Order
      BY <2>2
    <2>4. Rows[x].price \in Nat
      BY <2>3 DEF Order
    <2> QED BY <1>1, <2>3, <2>4 DEF Ahead, SameOrder
  <1>3. /\ x \in Nat /\ c \in Nat /\ orders[x].price \in Nat /\ orders[c].price \in Nat
        /\ Incoming.price \in Nat
    <2>1. orders \in Seq(Order) /\ txn.order \in DOMAIN orders
      BY TypeFacts DEF Inductive, LoopRows
    <2>2. x \in Nat /\ c \in Nat /\ orders[x] \in Order /\ orders[c] \in Order
          /\ Incoming \in Order
      BY <1>1, <2>1 DEF Incoming
    <2> QED BY <2>2 DEF Order
  <1>4. /\ BookOf(orders[x]) = BookOf(orders[c]) /\ orders[x].side = orders[c].side
        /\ orders[x].player # Incoming.player
        /\ \/ orders[x].price = orders[c].price /\ x < c
           \/ orders[x].price < orders[c].price /\ orders[x].side = "SELL"
           \/ orders[x].price > orders[c].price /\ orders[x].side = "BUY"
    BY <1>1 DEF Ahead, SameOrder, BookOf
  <1>5. CASE matchAsk(c)
    <2>1. c \in Asks /\ \A b \in Asks \ {c} : AskBefore(c, b)
      BY <1>5 DEF matchAsk, NextAsk
    <2>2. x \in Asks
      BY <1>1, <1>2, <1>3, <1>4, <2>1 DEF Asks, Counterparts
    <2>3. AskBefore(c, x) /\ orders[c].side = "SELL"
      BY <1>2, <2>1, <2>2 DEF Asks, Counterparts
    <2> QED BY <1>3, <1>4, <2>3 DEF AskBefore
  <1>6. CASE matchBid(c)
    <2>1. c \in Bids /\ \A b \in Bids \ {c} : BidBefore(c, b)
      BY <1>6 DEF matchBid, NextBid
    <2>2. x \in Bids
      BY <1>1, <1>2, <1>3, <1>4, <2>1 DEF Bids, Counterparts
    <2>3. BidBefore(c, x) /\ orders[c].side = "BUY"
      BY <1>2, <2>1, <2>2 DEF Bids, Counterparts
    <2> QED BY <1>3, <1>4, <2>3 DEF BidBefore
  <1> QED BY <1>5, <1>6

\* Trading f more of what is left, w, of a row that had r.
LEMMA TradedMore ==
    \A a, r, w, f \in Nat : /\ a * (r - (w - f)) = a * (r - w) + a * f
                           /\ a * (r - w) \in Int /\ a * f \in Int
                           /\ a * (r - (w - f)) \in Int
  BY Z3

\* An iteration adds what the counterpart's row traded to its player's sums.
LEMMA IterationSums ==
    ASSUME Inductive, LoopRows, NEW c \in DOMAIN Rows, NEW fill \in Nat,
           Iteration(c, fill), NEW p
    PROVE  /\ SumFunctionOnSet(SoldFor(p, orders), DOMAIN Rows) \in Int
           /\ SumFunctionOnSet(SoldFor(p, orders)', DOMAIN Rows)
                = SumFunctionOnSet(SoldFor(p, orders), DOMAIN Rows)
                    + (IF orders[c].player = p /\ orders[c].side = "SELL"
                       THEN orders[c].price * fill ELSE 0)
           /\ \A i \in Items :
                /\ SumFunctionOnSet(Bought(p, i, orders), DOMAIN Rows) \in Int
                /\ SumFunctionOnSet(Bought(p, i, orders)', DOMAIN Rows)
                    = SumFunctionOnSet(Bought(p, i, orders), DOMAIN Rows)
                        + (IF /\ orders[c].player = p /\ orders[c].side = "BUY"
                              /\ BookOf(orders[c]) = i THEN fill ELSE 0)
  <1>1. /\ Rows \in Seq(Order) /\ orders \in Seq(Order)
        /\ Rows' = Rows /\ markets' = markets
    <2>1. committed \in Tables /\ orders \in Seq(Order)
      BY TypeFacts DEF Inductive
    <2> QED BY <2>1 DEF Rows, Tables, Iteration
  <1>2. IsFiniteSet(DOMAIN Rows)
    <2>1. DOMAIN Rows = 1 .. Len(Rows) /\ Len(Rows) \in Nat
      BY <1>1
    <2> QED BY <2>1, FS_Interval
  <1>3. \A o \in DOMAIN Rows :
            /\ Rows[o].price \in Nat /\ Rows[o].remaining \in Nat
            /\ o \in DOMAIN orders /\ orders[o].remaining \in Nat
    <2>1. \A o \in DOMAIN Rows : Rows[o] \in Order /\ o \in DOMAIN orders
      <3>1. \A o \in DOMAIN Rows : Rows[o] \in Order
        BY <1>1
      <3>2. DOMAIN Rows \subseteq DOMAIN orders
        BY DEF LoopRows
      <3> QED BY <3>1, <3>2
    <2>2. \A o \in DOMAIN orders : orders[o] \in Order
      BY <1>1
    <2> QED BY <2>1, <2>2 DEF Order
  <1>4. /\ \A o \in DOMAIN Rows \ {c} : orders'[o] = orders[o]
        /\ orders'[c].remaining = orders[c].remaining - fill
    BY <1>3 DEF Iteration
  <1>5. /\ orders[c].player = Rows[c].player /\ orders[c].side = Rows[c].side
        /\ orders[c].price = Rows[c].price /\ BookOf(orders[c]) = BookOf(Rows[c])
    BY DEF LoopRows, SameOrder, BookOf
  <1>6. \A o \in DOMAIN Rows :
            /\ TradedQty(o, orders) \in Int /\ TradedQty(o, orders)' \in Int
            /\ Rows[o].price * TradedQty(o, orders) \in Int
    <2>1. \A o \in DOMAIN Rows : TradedQty(o, orders) \in Int
      BY <1>3 DEF TradedQty
    <2>2. \A o \in DOMAIN Rows : TradedQty(o, orders)' \in Int
      <3>1. \A o : TradedQty(o, orders)' = Rows[o].remaining - orders'[o].remaining
        BY <1>1 DEF TradedQty
      <3>2. \A o \in DOMAIN Rows : orders'[o].remaining \in Int
        BY <1>3, <1>4
      <3> QED BY <1>3, <3>1, <3>2
    <2>3. \A o \in DOMAIN Rows : Rows[o].price * TradedQty(o, orders) \in Int
      BY <1>3, TradedMore DEF TradedQty
    <2> QED BY <2>1, <2>2, <2>3
  <1>7. /\ \A o \in DOMAIN Rows \ {c} : TradedQty(o, orders)' = TradedQty(o, orders)
        /\ TradedQty(c, orders)' = TradedQty(c, orders) + fill
        /\ Rows[c].price * TradedQty(c, orders)'
                = Rows[c].price * TradedQty(c, orders) + Rows[c].price * fill
        /\ Rows[c].price * TradedQty(c, orders)' \in Int
        /\ Rows[c].price * fill \in Int
    <2>1. \A o \in DOMAIN Rows \ {c} : TradedQty(o, orders)' = TradedQty(o, orders)
      BY <1>1, <1>4 DEF TradedQty
    <2>2. TradedQty(c, orders)' = Rows[c].remaining - (orders[c].remaining - fill)
      BY <1>1, <1>4 DEF TradedQty
    <2>3. TradedQty(c, orders)' = TradedQty(c, orders) + fill
      BY <1>3, <2>2 DEF TradedQty
    <2> QED BY <1>3, <2>1, <2>2, <2>3, TradedMore DEF TradedQty
  <1>8. \A o : BookOf(Rows[o])' = BookOf(Rows[o])
    BY <1>1 DEF BookOf
  <1>9. /\ SumFunctionOnSet(SoldFor(p, orders), DOMAIN Rows) \in Int
        /\ SumFunctionOnSet(SoldFor(p, orders)', DOMAIN Rows)
                = SumFunctionOnSet(SoldFor(p, orders), DOMAIN Rows)
                    + (IF orders[c].player = p /\ orders[c].side = "SELL"
                       THEN orders[c].price * fill ELSE 0)
    <2> DEFINE f == SoldFor(p, orders)
               g == SoldFor(p, orders)'
               more == IF orders[c].player = p /\ orders[c].side = "SELL"
                       THEN orders[c].price * fill ELSE 0
    <2>1. \A o \in DOMAIN Rows : f[o] \in Int
      BY <1>6 DEF SoldFor
    <2>2. \A o \in DOMAIN Rows \ {c} : g[o] = f[o]
      BY <1>1, <1>7 DEF SoldFor
    <2>3. g[c] = f[c] + more /\ more \in Int /\ g[c] \in Int /\ f[c] \in Int
      BY <1>1, <1>5, <1>6, <1>7 DEF SoldFor
    <2> HIDE DEF f, g, more
    <2> DEFINE D == DOMAIN Rows
    <2>4. /\ IsFiniteSet(D) /\ c \in D /\ g[c] \in Int
          /\ \A o \in D : f[o] \in Int
          /\ \A o \in D \ {c} : g[o] = f[o]
      BY <1>2, <2>1, <2>2, <2>3
    <2> HIDE DEF D
    <2>5. /\ SumFunctionOnSet(g, D) = SumFunctionOnSet(f, D) + g[c] - f[c]
          /\ SumFunctionOnSet(f, D) \in Int
      BY ONLY <2>4, SumChange
    <2>6. SumFunctionOnSet(g, D) = SumFunctionOnSet(f, D) + more
      BY <2>3, <2>5
    <2> QED BY <2>5, <2>6 DEF f, g, more, D
  <1>10. ASSUME NEW i \in Items
         PROVE  /\ SumFunctionOnSet(Bought(p, i, orders), DOMAIN Rows) \in Int
                /\ SumFunctionOnSet(Bought(p, i, orders)', DOMAIN Rows)
                    = SumFunctionOnSet(Bought(p, i, orders), DOMAIN Rows)
                        + (IF /\ orders[c].player = p /\ orders[c].side = "BUY"
                              /\ BookOf(orders[c]) = i THEN fill ELSE 0)
    <2> DEFINE f == Bought(p, i, orders)
               g == Bought(p, i, orders)'
               more == IF /\ orders[c].player = p /\ orders[c].side = "BUY"
                          /\ BookOf(orders[c]) = i THEN fill ELSE 0
    <2>1. \A o \in DOMAIN Rows : f[o] \in Int
      BY <1>6 DEF Bought
    <2>2. \A o \in DOMAIN Rows \ {c} : g[o] = f[o]
      BY <1>1, <1>7, <1>8 DEF Bought
    <2>3. g[c] = f[c] + more /\ more \in Int /\ g[c] \in Int /\ f[c] \in Int
      BY <1>1, <1>5, <1>6, <1>7, <1>8 DEF Bought
    <2> HIDE DEF f, g, more
    <2> DEFINE D == DOMAIN Rows
    <2>4. /\ IsFiniteSet(D) /\ c \in D /\ g[c] \in Int
          /\ \A o \in D : f[o] \in Int
          /\ \A o \in D \ {c} : g[o] = f[o]
      BY <1>2, <2>1, <2>2, <2>3
    <2> HIDE DEF D
    <2>5. /\ SumFunctionOnSet(g, D) = SumFunctionOnSet(f, D) + g[c] - f[c]
          /\ SumFunctionOnSet(f, D) \in Int
      BY ONLY <2>4, SumChange
    <2>6. SumFunctionOnSet(g, D) = SumFunctionOnSet(f, D) + more
      BY <2>3, <2>5
    <2> QED BY <2>5, <2>6 DEF f, g, more, D
  <1> QED BY <1>9, <1>10

\* The loop keeps the order of price and age and the exact settlement.
LEMMA LoopContinues ==
    ASSUME Inductive, InLoop, NEW c \in DOMAIN orders, matchAsk(c) \/ matchBid(c)
    PROVE  InLoop'
  <1>1. PICK fill \in Nat : Iteration(c, fill)
    BY MatchIterates
  <1>2. LoopRows /\ LoopPriority /\ LoopSettled
    BY MatchIterates DEF InLoop
  <1>3. c \in DOMAIN Rows
    BY <1>1, <1>2 DEF LoopRows, Iteration
  <1>4. /\ Rows' = Rows /\ committed' = committed /\ markets' = markets
        /\ txn'.order = txn.order /\ Incoming' = Incoming
        /\ DOMAIN orders' = DOMAIN orders
        /\ \A o \in DOMAIN orders \ {c} : orders'[o] = orders[o]
        /\ SameOrder(orders'[c], orders[c])
        /\ IsOpen(orders[c]) /\ orders[c].remaining # 0
    BY <1>1 DEF Rows, Incoming, Iteration
  <1>5. LoopRows'
    <2>1. txn'.order \in DOMAIN orders' /\ DOMAIN Rows' = DOMAIN orders' \ {txn'.order}
      BY <1>2, <1>4 DEF LoopRows
    <2>2. SameOrder(orders'[c], Rows[c])
      BY <1>2, <1>3, <1>4 DEF SameOrder, LoopRows
    <2>3. \A o \in DOMAIN Rows \ {c} : SameOrder(orders'[o], Rows[o])
      BY <1>2, <1>4 DEF LoopRows
    <2>4. \A o \in DOMAIN Rows' : SameOrder(orders'[o], Rows'[o])
      BY <1>4, <2>2, <2>3
    <2> QED BY <2>1, <2>4 DEF LoopRows
  <1>6. LoopPriority'
    <2> SUFFICES ASSUME NEW x \in DOMAIN Rows, NEW y \in DOMAIN Rows,
                        Ahead(x, y), Rows[x].player # Incoming.player,
                        orders'[y].remaining < Rows[y].remaining
                 PROVE  orders'[x].remaining = 0
      <3>1. \A x, y : Ahead(x, y)' <=> Ahead(x, y)
        BY <1>4 DEF Ahead, BookOf
      <3> QED BY <1>4, <3>1 DEF LoopPriority
    <2>1. x # y
      <3>1. committed \in Tables
        BY TypeFacts DEF Inductive
      <3>2. Rows \in Seq(Order)
        BY <3>1 DEF Rows, Tables
      <3>3. x \in Nat /\ Rows[x] \in Order
        BY <3>2
      <3>4. Rows[x].price \in Nat
        BY <3>3 DEF Order
      <3> QED BY <3>3, <3>4 DEF Ahead
    <2>2. x \in DOMAIN orders /\ y \in DOMAIN orders
      BY <1>2 DEF LoopRows
    <2>3. CASE y = c
      <3>1. orders[x].remaining = 0
        BY <1>2, <1>3, <2>3, TakesTheFirst
      <3> QED BY <1>4, <2>1, <2>2, <2>3, <3>1
    <2>4. CASE y # c
      <3>1. orders[x].remaining = 0
        BY <1>2, <1>4, <2>2, <2>4 DEF LoopPriority
      <3> QED BY <1>4, <2>2, <3>1
    <2> QED BY <2>3, <2>4
  <1>7. LoopSettled'
    <2> SUFFICES ASSUME NEW p \in Players \ {Incoming.player}
                 PROVE  /\ balance'[p] = committed.balance[p]
                              + SumFunctionOnSet(SoldFor(p, orders)', DOMAIN Rows)
                        /\ \A i \in Items :
                              owed'[p][i] = committed.owed[p][i]
                                + SumFunctionOnSet(Bought(p, i, orders)', DOMAIN Rows)
      BY <1>4 DEF LoopSettled
    <2>1. /\ committed.balance[p] \in Int
          /\ \A i \in Items : committed.owed[p][i] \in Int
          /\ orders[c].price * fill \in Int
      <3>1. committed \in Tables /\ orders \in Seq(Order)
        BY TypeFacts DEF Inductive
      <3>2. orders[c] \in Order
        BY <3>1
      <3>3. orders[c].price \in Nat
        BY <3>2 DEF Order
      <3>4. orders[c].price * fill \in Int
        BY <3>3, Products
      <3> QED BY <3>1, <3>4, ConstantsAssumption DEF Tables
    <2>2. balance'[p] = committed.balance[p]
                          + SumFunctionOnSet(SoldFor(p, orders)', DOMAIN Rows)
      <3> DEFINE more == IF orders[c].player = p /\ orders[c].side = "SELL"
                         THEN orders[c].price * fill ELSE 0
      <3>1. balance'[p] = balance[p] + more
        BY <1>1 DEF Iteration
      <3>2. balance[p] = committed.balance[p]
                          + SumFunctionOnSet(SoldFor(p, orders), DOMAIN Rows)
        BY <1>2 DEF LoopSettled
      <3>3. /\ SumFunctionOnSet(SoldFor(p, orders), DOMAIN Rows) \in Int
            /\ SumFunctionOnSet(SoldFor(p, orders)', DOMAIN Rows)
                = SumFunctionOnSet(SoldFor(p, orders), DOMAIN Rows) + more
        BY <1>1, <1>2, <1>3, IterationSums
      <3>4. more \in Int
        BY <2>1
      <3> HIDE DEF more
      <3> QED BY <2>1, <3>1, <3>2, <3>3, <3>4
    <2>3. ASSUME NEW i \in Items
          PROVE  owed'[p][i] = committed.owed[p][i]
                          + SumFunctionOnSet(Bought(p, i, orders)', DOMAIN Rows)
      <3> DEFINE more == IF /\ orders[c].player = p /\ orders[c].side = "BUY"
                            /\ BookOf(orders[c]) = i THEN fill ELSE 0
      <3>1. owed'[p][i] = owed[p][i] + more
        BY <1>1 DEF Iteration
      <3>2. owed[p][i] = committed.owed[p][i]
                          + SumFunctionOnSet(Bought(p, i, orders), DOMAIN Rows)
        BY <1>2 DEF LoopSettled
      <3>3. /\ SumFunctionOnSet(Bought(p, i, orders), DOMAIN Rows) \in Int
            /\ SumFunctionOnSet(Bought(p, i, orders)', DOMAIN Rows)
                = SumFunctionOnSet(Bought(p, i, orders), DOMAIN Rows) + more
        BY <1>1, <1>2, <1>3, IterationSums
      <3>4. more \in Int
        BY <1>1
      <3> HIDE DEF more
      <3> QED BY <2>1, <3>1, <3>2, <3>3, <3>4
    <2> QED BY <2>2, <2>3
  <1> QED BY <1>5, <1>6, <1>7 DEF InLoop

\* Steps outside the loop, and its last one, leave no call placing an order.
LEMMA LeavesLoop ==
    ASSUME \/ \E p \in Players : ensureAccount(p)
           \/ \E p \in Players, d \in Deltas : addBalance(p, d)
           \/ \E t \in Targets, i \in Items : activateMarket(t, i)
           \/ \E m \in DOMAIN markets : closeMarket(m) \/ beginRetire(m)
           \/ \E o \in DOMAIN orders : cancelOrder(o) \/ retireOrder(o)
           \/ finishBuy \/ finishSell \/ finishRetire \/ Abort
    PROVE  ~Placing'
  <1>1. ASSUME Commit \/ Abort PROVE ~Placing'
    BY <1>1 DEF Commit, Abort, NoTxn, Placing
  <1>2. ASSUME Idle, UNCHANGED txn PROVE ~Placing'
    BY <1>2 DEF Idle, Placing
  <1>3. ASSUME NEW m \in DOMAIN markets, beginRetire(m) PROVE ~Placing'
    BY <1>3 DEF beginRetire, NoTxn, Placing
  <1>4. ASSUME NEW o \in DOMAIN orders, retireOrder(o) PROVE ~Placing'
    BY <1>4 DEF retireOrder, Placing
  <1> QED BY <1>1, <1>2, <1>3, <1>4
          DEF ensureAccount, addBalance, activateMarket, closeMarket,
              cancelOrder, finishBuy, finishSell, finishRetire

\* Every step keeps InLoop, one case per action that a placeOrder is part of.
LEMMA StepInLoop == Conserved /\ InLoop /\ [Next]_vars => InLoop'
  <1> SUFFICES ASSUME Conserved, InLoop, [Next]_vars PROVE InLoop'
    OBVIOUS
  <1>1. Inductive /\ Inductive'
    BY StepInductive DEF Conserved
  <1>2. CASE UNCHANGED vars
    <2>1. /\ Rows' = Rows /\ orders' = orders /\ committed' = committed
          /\ balance' = balance /\ owed' = owed /\ txn' = txn /\ markets' = markets
      BY <1>2 DEF vars, Rows
    <2>2. LoopRows' <=> LoopRows
      BY <2>1 DEF LoopRows
    <2>3. LoopPriority' <=> LoopPriority
      BY <2>1 DEF LoopPriority, Ahead, BookOf, Incoming
    <2>4. LoopSettled' <=> LoopSettled
      <3>1. \A p, i : /\ SoldFor(p, orders)' = SoldFor(p, orders)
                      /\ Bought(p, i, orders)' = Bought(p, i, orders)
        BY <2>1 DEF SoldFor, Bought, TradedQty, BookOf
      <3> QED BY <2>1, <3>1 DEF LoopSettled, Incoming
    <2> QED BY <2>1, <2>2, <2>3, <2>4 DEF InLoop, Placing
  <1>3. ASSUME NEW m \in DOMAIN markets, NEW p \in Players,
               NEW type \in {"LIMIT", "MARKET"}, NEW price \in Prices,
               NEW qty \in 1 .. MaxQty,
               beginBuy(m, p, type, price, qty) \/ beginSell(m, p, type, price, qty)
        PROVE  InLoop'
    <2> DEFINE r == IF type = "LIMIT" THEN price * qty ELSE 0
    <2>1. r \in Nat
      <3>1. price \in Nat /\ qty \in Nat
        BY ConstantsAssumption
      <3> QED BY <3>1, Products
    <2>2. \/ beginOrder(m, p, "BUY", type, price, qty, r)
          \/ beginOrder(m, p, "SELL", type, price, qty, 0)
      BY <1>3 DEF beginBuy, beginSell
    <2> HIDE DEF r
    <2> QED BY <1>1, <2>1, <2>2, LoopStarts
  <1>4. ASSUME NEW o \in DOMAIN orders, matchAsk(o) \/ matchBid(o)
        PROVE  InLoop'
    BY <1>1, <1>4, LoopContinues
  <1>5. ~Placing' => InLoop'
    BY DEF InLoop
  <1> QED BY <1>2, <1>3, <1>4, <1>5, LeavesLoop DEF Next

\* The tables are conserved, and in a loop they stand to the committed ones as
\* LoopRows, LoopPriority and LoopSettled say, in every reachable state.
THEOREM LoopInvariant == Spec => [](Conserved /\ InLoop)
  <1>1. Init => InLoop
    BY DEF Init, NoTxn, InLoop, Placing
  <1> QED BY <1>1, InitConserved, StepConserved, StepInLoop, PTL DEF Spec

-----------------------------------------------------------------------------
(* What a whole placeOrder does *)

\* The commit of a placeOrder writes, for the rows there were before it, what
\* the loop left of them.
LEMMA CallCommits ==
    ASSUME Inductive, InLoop, finishBuy \/ finishSell
    PROVE  /\ Placing /\ LoopRows /\ LoopPriority /\ LoopSettled
           /\ \A o \in DOMAIN Rows : Rows'[o] = orders[o]
           /\ committed'.balance = balance
           /\ committed'.owed = owed'
           /\ \A p \in Players \ {Incoming.player} : owed'[p] = owed[p]
  <1>1. Placing /\ balance' = balance /\ Commit
    BY DEF finishBuy, finishSell, Placing
  <1>2. LoopRows /\ LoopPriority /\ LoopSettled
    BY <1>1 DEF InLoop
  <1>3. /\ committed'.balance = balance /\ committed'.owed = owed'
        /\ Rows' = orders'
    BY <1>1 DEF Commit, Rows
  <1>4. \A o \in DOMAIN orders \ {txn.order} : orders'[o] = orders[o]
    <2>1. orders \in Seq(Order)
      BY TypeFacts DEF Inductive
    <2> QED BY <2>1 DEF finishBuy, finishSell
  <1>5. \A p \in Players \ {Incoming.player} : owed'[p] = owed[p]
    <2>1. owed \in [Players -> [Items -> Nat]]
      BY TypeFacts DEF Inductive
    <2>2. CASE finishBuy
      BY <2>2 DEF finishBuy
    <2>3. CASE finishSell
      BY <2>1, <2>3 DEF finishSell, Owe
    <2> QED BY <2>2, <2>3
  <1> QED BY <1>1, <1>2, <1>3, <1>4, <1>5 DEF LoopRows

\* A step of a placeOrder that is not its commit writes no row.
LEMMA OtherSteps ==
    ASSUME Inductive, Placing, [Next]_vars
    PROVE  \/ finishBuy \/ finishSell
           \/ committed' = committed /\ (txn'.kind = "IDLE" => Abort)
  <1>1. ~Idle /\ txn.kind # "RETIRE" /\ txn.kind # "IDLE"
    BY DEF Placing, Idle
  <1>2. CASE UNCHANGED vars
    BY <1>1, <1>2 DEF vars
  <1>3. ASSUME NEW c \in DOMAIN orders, matchAsk(c) \/ matchBid(c)
        PROVE  committed' = committed /\ txn'.kind # "IDLE"
    BY <1>1, <1>3, MatchIterates DEF Iteration
  <1>4. CASE Abort
    BY <1>4 DEF Abort
  <1>5. /\ \A p : ~ensureAccount(p)
        /\ \A p, d : ~addBalance(p, d)
    BY <1>1 DEF ensureAccount, addBalance
  <1>6. /\ \A t, i : ~activateMarket(t, i)
        /\ \A m : ~closeMarket(m)
        /\ \A m : ~beginRetire(m)
    BY <1>1 DEF activateMarket, closeMarket, beginRetire
  <1>7. \A m, p, type, price, qty :
            ~beginBuy(m, p, type, price, qty) /\ ~beginSell(m, p, type, price, qty)
    BY <1>1 DEF beginBuy, beginSell, beginOrder
  <1>8. ~finishRetire /\ \A o : ~retireOrder(o) /\ ~cancelOrder(o)
    BY <1>1 DEF finishRetire, retireOrder, cancelOrder
  <1> QED BY <1>2, <1>3, <1>4, <1>5, <1>6, <1>7, <1>8 DEF Next

\* A step takes the rows of the other side of the book in their order.
LEMMA StepTakesInOrder == Conserved /\ InLoop /\ [Next]_vars => TakesInOrder
  <1> SUFFICES ASSUME Conserved, InLoop, [Next]_vars, Placing,
                      NEW x \in DOMAIN Rows, NEW y \in DOMAIN Rows,
                      Ahead(x, y), Rows[x].player # Incoming.player,
                      Rows'[y].remaining < Rows[y].remaining
               PROVE  Rows'[x].remaining = 0
    BY DEF TakesInOrder, Placing, Taker, Incoming
  <1>1. Inductive
    BY DEF Conserved
  <1>2. CASE finishBuy \/ finishSell
    <2>1. /\ LoopPriority
          /\ \A o \in DOMAIN Rows : Rows'[o] = orders[o]
      BY <1>1, <1>2, CallCommits
    <2> QED BY <2>1 DEF LoopPriority
  <1>3. CASE committed' = committed
    <2>1. committed \in Tables
      BY <1>1, TypeFacts DEF Inductive
    <2>2. Rows \in Seq(Order) /\ Rows' = Rows
      BY <1>3, <2>1 DEF Rows, Tables
    <2>3. Rows[y] \in Order
      BY <2>2
    <2>4. Rows[y].remaining \in Nat
      BY <2>3 DEF Order
    <2> QED BY <2>2, <2>4
  <1> QED BY <1>1, <1>2, <1>3, OtherSteps

\* A step settles with the players whose orders were traded.
LEMMA StepSettlesWithMakers == Conserved /\ InLoop /\ [Next]_vars => SettlesWithMakers
  <1> SUFFICES ASSUME Conserved, InLoop, [Next]_vars, Placing, txn'.kind = "IDLE",
                      NEW p \in Players \ {Incoming.player}
               PROVE  /\ committed'.balance[p]
                            = committed.balance[p]
                                + SumFunctionOnSet(SoldFor(p, Rows'), DOMAIN Rows)
                      /\ \A i \in Items :
                            committed'.owed[p][i]
                                = committed.owed[p][i]
                                    + SumFunctionOnSet(Bought(p, i, Rows'), DOMAIN Rows)
    BY DEF SettlesWithMakers, Placing, Taker, Incoming
  <1>1. /\ Inductive /\ committed \in Tables
    BY TypeFacts DEF Conserved, Inductive
  <1>2. /\ Rows \in Seq(Order) /\ IsFiniteSet(DOMAIN Rows)
    <2>1. Rows \in Seq(Order)
      BY <1>1 DEF Rows, Tables
    <2>2. DOMAIN Rows = 1 .. Len(Rows) /\ Len(Rows) \in Nat
      BY <2>1
    <2> QED BY <2>1, <2>2, FS_Interval
  <1>3. CASE finishBuy \/ finishSell
    <2>1. /\ LoopSettled
          /\ \A o \in DOMAIN Rows : Rows'[o] = orders[o]
          /\ committed'.balance = balance
          /\ committed'.owed = owed' /\ owed'[p] = owed[p]
      BY <1>1, <1>3, CallCommits
    <2>2. SumFunctionOnSet(SoldFor(p, Rows'), DOMAIN Rows)
            = SumFunctionOnSet(SoldFor(p, orders), DOMAIN Rows)
      <3>1. \A o \in DOMAIN Rows : SoldFor(p, Rows')[o] = SoldFor(p, orders)[o]
        BY <2>1 DEF SoldFor, TradedQty
      <3> QED BY ONLY <1>2, <3>1, SumEqual
    <2>3. ASSUME NEW i \in Items
          PROVE  SumFunctionOnSet(Bought(p, i, Rows'), DOMAIN Rows)
                    = SumFunctionOnSet(Bought(p, i, orders), DOMAIN Rows)
      <3>1. \A o \in DOMAIN Rows : Bought(p, i, Rows')[o] = Bought(p, i, orders)[o]
        BY <2>1 DEF Bought, TradedQty
      <3> QED BY ONLY <1>2, <3>1, SumEqual
    <2> QED BY <2>1, <2>2, <2>3 DEF LoopSettled
  <1>4. CASE committed' = committed
    <2>1. /\ Rows' = Rows
          /\ committed.balance[p] \in Int
          /\ \A i \in Items : committed.owed[p][i] \in Int
      BY <1>1, <1>4, ConstantsAssumption DEF Rows, Tables
    <2>2. \A o \in DOMAIN Rows : Rows[o].remaining \in Nat /\ Rows[o].price \in Nat
      <3>1. \A o \in DOMAIN Rows : Rows[o] \in Order
        BY <1>2
      <3> QED BY <3>1 DEF Order
    <2>3. SumFunctionOnSet(SoldFor(p, Rows'), DOMAIN Rows) = 0
      <3>1. \A o \in DOMAIN Rows : SoldFor(p, Rows')[o] = 0
        BY <2>1, <2>2 DEF SoldFor, TradedQty
      <3> QED BY ONLY <1>2, <3>1, SumZero
    <2>4. \A i \in Items : SumFunctionOnSet(Bought(p, i, Rows'), DOMAIN Rows) = 0
      <3> TAKE i \in Items
      <3>1. \A o \in DOMAIN Rows : Bought(p, i, Rows')[o] = 0
        BY <2>1, <2>2 DEF Bought, TradedQty
      <3> QED BY ONLY <1>2, <3>1, SumZero
    <2> QED BY <1>4, <2>1, <2>3, <2>4
  <1> QED BY <1>1, <1>3, <1>4, OtherSteps

\* The matching loops take the other side of the book in the order of price and
\* age, over whole calls and through rollbacks.
THEOREM PriceTimePriorityHolds == Spec => PriceTimePriority
  BY LoopInvariant, StepTakesInOrder, PTL DEF Spec, PriceTimePriority

\* A placeOrder credits and delivers to the other players exactly what their
\* own orders traded, at the prices of those orders.
THEOREM MakersSettledExactlyHolds == Spec => MakersSettledExactly
  BY LoopInvariant, StepSettlesWithMakers, PTL DEF Spec, MakersSettledExactly

=============================================================================
