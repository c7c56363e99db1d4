-------------------------- MODULE TradeFormsProofs --------------------------
(***************************************************************************)
(* What holds of the trade dialog for every configuration, every bound on  *)
(* packets, tasks and mishaps and any number of players: the arithmetic of *)
(* the default price, the gate's promise of one effect per click, and that *)
(* forms, the set of players that see one and the orders sent agree.       *)
(***************************************************************************)
EXTENDS TradeForms, SequenceTheorems, TLAPS

-----------------------------------------------------------------------------
(* The default price *)

\* The configured limits are positive numbers.
LEMMA ConfigFacts ==
    ASSUME NEW c, ValidConfig(c)
    PROVE  /\ c.min \in Nat /\ c.max \in Nat /\ c.step \in Nat
           /\ c.quantity \in Nat
           /\ c.min > 0 /\ c.max > 0 /\ c.step > 0 /\ c.quantity > 0
           /\ c.min <= c.max
  BY DEF ValidConfig

\* Division by a step.
LEMMA StepDivision ==
    ASSUME NEW o \in Nat, NEW s \in Nat, s > 0
    PROVE  /\ o \div s \in Nat /\ o % s \in Nat
           /\ o % s < s
           /\ o = s * (o \div s) + (o % s)
  OBVIOUS

\* Multiples of a step are ordered as their factors.
LEMMA Multiples ==
    ASSUME NEW s \in Nat, s > 0, NEW a \in Int, NEW b \in Int
    PROVE  /\ a <= b => s * a <= s * b
           /\ s * a < s * b => a < b
           /\ a < b => s * a + s <= s * b
           /\ s * a \in Int
           /\ s * (a + 1) = s * a + s
  OBVIOUS

\* Whatever the reference, the default is on the grid of allowed prices and no
\* allowed price is nearer to the reference.
LEMMA NearestPrice ==
    ASSUME NEW c, ValidConfig(c), NEW r \in Int
    PROVE  /\ defaultTradePrice(c, r) \in Grid(c)
           /\ defaultTradePrice(c, r) \in Nat
           /\ \A g \in Grid(c) :
                Distance(defaultTradePrice(c, r), r) <= Distance(g, r)
  <1> DEFINE m == c.min
             M == c.max
             s == c.step
             v == Clamp(r, m, M)
             o == v - m
             q == o \div s
             t == o % s
             n == (M - m) \div s
             up == /\ t >= (s \div 2) + (s % 2)
                   /\ m + q * s <= M - s
             d == m + s * (IF up THEN q + 1 ELSE q)
  <1>1. /\ m \in Nat /\ M \in Nat /\ s \in Nat
        /\ s > 0 /\ m <= M
    BY ConfigFacts
  <1>2. /\ v \in Int /\ m <= v /\ v <= M
        /\ r < m => v = m
        /\ r > M => v = M
        /\ m <= r /\ r <= M => v = r
    BY <1>1 DEF Clamp
  <1>3. defaultTradePrice(c, r) = d
    BY DEF defaultTradePrice
  <1>4. Grid(c) = {m + k * s : k \in 0 .. n}
    BY DEF Grid
  <1> HIDE DEF m, M, s, v
  <1>5. o \in Nat /\ M - m \in Nat /\ o <= M - m
    BY <1>1, <1>2
  <1>6. q \in Nat /\ t \in Nat /\ t < s /\ o = s * q + t
    BY <1>1, <1>5, StepDivision
  <1>7. n \in Nat /\ (M - m) % s \in Nat /\ (M - m) % s < s
        /\ M - m = s * n + ((M - m) % s)
    BY <1>1, <1>5, StepDivision
  <1>8. s \div 2 \in Nat /\ s % 2 \in Nat /\ s = 2 * (s \div 2) + (s % 2) /\ s % 2 < 2
    BY <1>1
  <1> DEFINE half == (s \div 2) + (s % 2)
  <1>9. half \in Nat /\ 2 * half >= s /\ 2 * half <= s + 1 /\ half > 0
    BY <1>1, <1>8
  <1>10. up <=> t >= half /\ m + s * q <= M - s
    BY <1>1, <1>6
  <1> HIDE DEF o, q, t, n, up, half
  <1>11. q <= n
    <2>1. s * q < s * n + s
      BY <1>1, <1>5, <1>6, <1>7
    <2>2. s * (n + 1) = s * n + s
      BY <1>1, <1>7, Multiples
    <2>3. q < n + 1
      BY <1>1, <1>6, <1>7, <2>1, <2>2, Multiples
    <2> QED BY <1>6, <1>7, <2>3
  <1>12. q + 1 <= n <=> m + s * q <= M - s
    <2>1. s * (q + 1) = s * q + s /\ s * q \in Int /\ s * n \in Int
      BY <1>1, <1>6, <1>7, Multiples
    <2>2. q + 1 <= n => s * (q + 1) <= s * n
      BY <1>1, <1>6, <1>7, Multiples
    <2>3. ~(q + 1 <= n) => q = n
      BY <1>6, <1>7, <1>11
    <2> QED BY <1>1, <1>5, <1>7, <2>1, <2>2, <2>3
  <1>13. d = IF up THEN m + s * q + s ELSE m + s * q
    BY <1>1, <1>6, Multiples
  <1>14. d \in Grid(c) /\ d \in Nat
    <2>1. PICK k \in 0 .. n : k = IF up THEN q + 1 ELSE q
      BY <1>6, <1>7, <1>10, <1>11, <1>12
    <2>2. d = m + k * s
      BY <1>1, <2>1
    <2>3. k * s \in Nat
      BY <1>1, <2>1
    <2> QED BY <1>1, <1>4, <2>2, <2>3
  <1> HIDE DEF d
  <1>15. ASSUME NEW k \in 0 .. n
         PROVE  Distance(d, r) <= Distance(m + k * s, r)
    <2> DEFINE g == s * k
    <2>1. /\ g \in Int /\ s * q \in Int /\ s * n \in Int /\ k * s = g
          /\ k <= q => g <= s * q
          /\ q < k => s * q + s <= g
          /\ g <= s * n
          /\ 0 <= g
      <3>1. k \in Int /\ q \in Int /\ n \in Int /\ k <= n /\ 0 <= k /\ s * 0 = 0
        BY <1>1, <1>6, <1>7
      <3> QED BY <1>1, <3>1, Multiples
    <2> HIDE DEF g
    <2>2. k <= q \/ q < k
      BY <1>6, <1>7
    <2>3. CASE m <= r /\ r <= M
      <3>1. r = m + s * q + t
        BY <1>1, <1>2, <1>6, <2>1, <2>3 DEF o
      <3>2. CASE up
        <4>1. d = m + s * q + s /\ t >= half
          BY <1>10, <1>13, <3>2
        <4> QED BY <1>1, <1>6, <1>9, <2>1, <2>2, <3>1, <4>1 DEF Distance
      <3>3. CASE ~up /\ t < half
        <4>1. d = m + s * q
          BY <1>13, <3>3
        <4> QED BY <1>1, <1>6, <1>9, <2>1, <2>2, <3>1, <3>3, <4>1 DEF Distance
      <3>4. CASE ~up /\ ~(q + 1 <= n)
        <4>1. d = m + s * q /\ k <= q
          BY <1>6, <1>7, <1>13, <3>4
        <4> QED BY <1>1, <1>6, <2>1, <3>1, <4>1 DEF Distance
      <3> QED BY <1>6, <1>9, <1>10, <1>12, <3>2, <3>3, <3>4
    <2>4. CASE r < m
      <3>1. s * q + t = 0
        BY <1>1, <1>2, <1>6, <2>4 DEF o
      <3>2. 0 <= s * q
        BY <1>1, <1>6
      <3>3. s * q = 0 /\ t = 0
        BY <1>6, <2>1, <3>1, <3>2
      <3>4. d = m
        BY <1>1, <1>9, <1>10, <1>13, <3>3
      <3> QED BY <1>1, <2>1, <2>4, <3>4 DEF Distance
    <2>5. CASE r > M
      <3>1. s * q + t = M - m
        BY <1>1, <1>2, <1>6, <2>1, <2>5 DEF o
      <3>2. ~(q + 1 <= n)
        BY <1>1, <1>6, <1>12, <2>1, <3>1
      <3>3. k <= q /\ d = m + s * q
        BY <1>6, <1>7, <1>10, <1>12, <1>13, <3>2
      <3> QED BY <1>1, <1>6, <2>1, <2>5, <3>1, <3>3 DEF Distance
    <2> QED BY <1>1, <2>3, <2>4, <2>5
  <1> QED BY <1>3, <1>4, <1>14, <1>15

\* The price a form starts with is on the administrator's grid and as near to
\* the market as the grid allows (defaultTradePrice), for every valid
\* configuration.
THEOREM DefaultIsNearestHolds == Spec => []DefaultIsNearest
  <1> DEFINE Configured == config \in Configs
  <1>1. Init => Configured
    BY DEF Init
  <1>2. Configured /\ [Next]_vars => Configured'
    <2>1. [Next]_vars => config' = config
      <3>1. runTask => config' = config
        BY DEF runTask, dropTask, openTradeForm, openTradeInputForm,
               openTradeReviewForm, submitTradeDraft
      <3>2. ASSUME NEW p \in Players, player(p) PROVE config' = config
        BY <3>2 DEF player, startClick, interact, interactRejected,
                    chooseAction, enterDraft, confirmDraft, editDraft,
                    closeForm, quit, join
      <3> QED BY <3>1, <3>2
              DEF Next, tick, otherOrders, removeObject, restart, vars
    <2> QED BY <2>1
  <1>3. Configured => DefaultIsNearest
    <2> SUFFICES ASSUME config \in Configs, NEW r \in 0 .. config.max + config.step
                 PROVE  /\ defaultTradePrice(config, r) \in Grid(config)
                        /\ \A g \in Grid(config) :
                              Distance(defaultTradePrice(config, r), r)
                                <= Distance(g, r)
      BY DEF DefaultIsNearest
    <2>1. ValidConfig(config)
      BY ConstantsAssumption
    <2>2. r \in Int
      BY <2>1, ConfigFacts
    <2> QED BY <2>1, <2>2, NearestPrice
  <1> QED BY <1>1, <1>2, <1>3, PTL DEF Spec

-----------------------------------------------------------------------------
(* The gate *)

Clicks == [tool: {"none", "hand", "exchanger"}, left: Nat, age: Nat,
           accepted: Nat]

\* While packets of a click are to come the cooldown is not over, and once one
\* was accepted the gate counts from then on.
GateInv ==
    /\ age \in [Players -> 0 .. Cooldown]
    /\ click \in [Players -> Clicks]
    /\ \A p \in Players :
        /\ click[p].accepted <= 1
        /\ click[p].left > 0 =>
            /\ click[p].age < Cooldown
            /\ click[p].accepted = 1 => age[p] <= click[p].age

\* No click, and what is left of one.
LEMMA NoClickFacts ==
    /\ NoClick \in Clicks
    /\ NoClick.left = 0 /\ NoClick.accepted = 0
  BY DEF NoClick, Clicks

LEMMA TakenFacts ==
    ASSUME GateInv, NEW p \in Players, click[p].left > 0, NEW effect \in {0, 1}
    PROVE  /\ Taken(p, effect) \in Clicks
           /\ Taken(p, effect).accepted = click[p].accepted + effect
           /\ Taken(p, effect).left > 0 => Taken(p, effect).age = click[p].age
  <1> DEFINE c == [click[p] EXCEPT !.left = @ - 1, !.accepted = @ + effect]
  <1>1. /\ c \in Clicks
        /\ c.accepted = click[p].accepted + effect
        /\ c.age = click[p].age
    <2>1. click[p] \in Clicks
      BY DEF GateInv
    <2>2. /\ click[p].left - 1 \in Nat
          /\ click[p].accepted + effect \in Nat
      BY <2>1 DEF Clicks
    <2> QED BY <2>1, <2>2 DEF Clicks
  <1>2. Taken(p, effect) = IF c.left > 0 THEN c
                           ELSE [NoClick EXCEPT !.accepted = c.accepted]
    BY DEF Taken
  <1> HIDE DEF c
  <1>3. CASE c.left > 0
    BY <1>1, <1>2, <1>3
  <1>4. CASE ~(c.left > 0)
    <2>1. c.accepted \in Nat
      BY <1>1 DEF Clicks
    <2>2. Taken(p, effect) = [NoClick EXCEPT !.accepted = c.accepted]
      BY <1>2, <1>4
    <2> QED BY <1>1, <2>1, <2>2 DEF NoClick, Clicks
  <1> QED BY <1>3, <1>4

\* Every step keeps the gate's account of clicks.
LEMMA StepGate == GateInv /\ [Next]_vars => GateInv'
  <1> SUFFICES ASSUME GateInv, [Next]_vars PROVE GateInv'
    OBVIOUS
  <1>0. Cooldown \in Nat /\ Cooldown > 0
    BY ConstantsAssumption
  <1>1. CASE UNCHANGED gate
    BY <1>1 DEF gate, GateInv
  <1>2. ASSUME NEW p \in Players, NEW tool \in {"hand", "exchanger"},
               NEW n \in 1 .. MaxPackets, startClick(p, tool, n)
        PROVE  GateInv'
    <2> DEFINE c == [tool |-> tool, left |-> n, age |-> 0, accepted |-> 0]
    <2>1. c \in Clicks /\ c.accepted = 0 /\ c.age = 0
      BY ConstantsAssumption DEF Clicks
    <2>2. age' = age /\ click' = [click EXCEPT ![p] = c]
      BY <1>2 DEF startClick
    <2> HIDE DEF c
    <2> QED BY <1>0, <2>1, <2>2 DEF GateInv
  <1>3. ASSUME NEW p \in Players, interactRejected(p)
        PROVE  GateInv'
    <2> DEFINE c == Taken(p, 0)
    <2>1. age' = age /\ click' = [click EXCEPT ![p] = c] /\ click[p].left > 0
      BY <1>3 DEF interactRejected, Packet
    <2>2. /\ c \in Clicks /\ c.accepted = click[p].accepted
          /\ c.left > 0 => c.age = click[p].age
      BY <2>1, TakenFacts DEF GateInv, Clicks
    <2> HIDE DEF c
    <2> QED BY <2>1, <2>2 DEF GateInv
  <1>4. ASSUME NEW p \in Players, interact(p)
        PROVE  GateInv'
    <2> DEFINE c == Taken(p, 1)
    <2>1. /\ age' = [age EXCEPT ![p] = 0]
          /\ click' = [click EXCEPT ![p] = c]
          /\ click[p].left > 0 /\ age[p] >= Cooldown
      BY <1>4 DEF interact, Packet, accept
    <2>2. click[p] \in Clicks /\ age[p] \in 0 .. Cooldown
      BY DEF GateInv
    <2>3. click[p].accepted = 0
      <3>1. /\ click[p].accepted <= 1
            /\ click[p].age < Cooldown
            /\ click[p].accepted = 1 => age[p] <= click[p].age
        BY <2>1 DEF GateInv
      <3>2. click[p].accepted \in Nat /\ click[p].age \in Nat /\ age[p] \in Nat
        BY <1>0, <2>2 DEF Clicks
      <3> QED BY <1>0, <2>1, <3>1, <3>2
    <2>4. /\ c \in Clicks /\ c.accepted = 1
          /\ c.left > 0 => c.age = click[p].age
      BY <2>1, <2>3, TakenFacts
    <2> HIDE DEF c
    <2> QED BY <1>0, <2>1, <2>2, <2>4 DEF GateInv, Clicks
  <1>5. CASE tick
    <2>1. ASSUME NEW p \in Players
          PROVE  /\ age'[p] \in 0 .. Cooldown /\ age'[p] <= age[p] + 1
                 /\ click'[p] \in Clicks
                 /\ click'[p].accepted = click[p].accepted
                 /\ click'[p].left = click[p].left
                 /\ click[p].left > 0 =>
                      /\ click'[p].age = click[p].age + 1
                      /\ click[p].age < Cooldown - 1
      <3>1. age[p] \in 0 .. Cooldown /\ click[p] \in Clicks
        BY DEF GateInv
      <3>2. age'[p] = Clamp(age[p] + 1, 0, Cooldown)
        BY <1>5 DEF tick
      <3>3. click'[p] = IF click[p].left = 0 THEN click[p]
                        ELSE [click[p] EXCEPT !.age = @ + 1]
        BY <1>5 DEF tick
      <3>4. click[p].left > 0 => click[p].age < Cooldown - 1
        BY <1>5 DEF tick
      <3> QED BY <1>0, <3>1, <3>2, <3>3, <3>4 DEF Clamp, Clicks
    <2>2. /\ age' \in [Players -> 0 .. Cooldown]
          /\ click' \in [Players -> Clicks]
      <3>1. /\ age' = [p \in Players |-> age'[p]]
            /\ click' = [p \in Players |-> click'[p]]
        BY <1>5 DEF tick
      <3> QED BY <2>1, <3>1
    <2>3. ASSUME NEW p \in Players
          PROVE  /\ click'[p].accepted <= 1
                 /\ click'[p].left > 0 =>
                      /\ click'[p].age < Cooldown
                      /\ click'[p].accepted = 1 => age'[p] <= click'[p].age
      <3>1. age[p] \in 0 .. Cooldown /\ click[p] \in Clicks /\ age'[p] \in Int
        BY <2>1 DEF GateInv
      <3> QED BY <1>0, <2>1, <3>1 DEF GateInv, Clicks
    <2> QED BY <2>2, <2>3 DEF GateInv
  <1>6. ASSUME NEW p \in Players, quit(p)
        PROVE  GateInv'
    BY <1>6, NoClickFacts DEF quit, GateInv
  <1>7. CASE restart
    BY <1>0, <1>7, NoClickFacts DEF restart, GateInv
  <1>8. ASSUME NEW p \in Players,
               \/ \E action \in Actions : chooseAction(p, action)
               \/ \E quantity, price \in Texts : enterDraft(p, quantity, price)
               \/ confirmDraft(p) \/ editDraft(p) \/ closeForm(p) \/ join(p)
        PROVE  GateInv'
    BY <1>1, <1>8 DEF chooseAction, enterDraft, confirmDraft, editDraft,
                      closeForm, join
  <1>9. CASE runTask \/ otherOrders \/ removeObject \/ UNCHANGED vars
    BY <1>1, <1>9 DEF runTask, dropTask, openTradeForm, openTradeInputForm,
                      openTradeReviewForm, submitTradeDraft, otherOrders,
                      removeObject, vars, gate
  <1>10. ASSUME NEW p \in Players, player(p)
         PROVE  GateInv'
    BY <1>2, <1>3, <1>4, <1>6, <1>8, <1>10 DEF player
  <1> QED BY <1>5, <1>7, <1>9, <1>10 DEF Next

\* However the packets of a click are spread over its ticks, and whatever the
\* cooldown, one of them at most opens a form or toggles the market.
THEOREM OneEffectPerClickHolds == Spec => []OneEffectPerClick
  <1>1. Init => GateInv
    BY ConstantsAssumption, NoClickFacts DEF Init, GateInv
  <1>2. GateInv => OneEffectPerClick
    BY DEF GateInv, OneEffectPerClick
  <1> QED BY <1>1, <1>2, StepGate, PTL DEF Spec

-----------------------------------------------------------------------------
(* Forms, tasks and orders *)

Drafts == [action: Actions, quantity: Nat, price: Nat]

Requests == [player: SUBSET Players, market: Nat, side: {"BUY", "SELL"},
             type: {"LIMIT", "MARKET"}, quantity: Nat, price: Nat]

AnyTask == [kind: {"trade", "input", "review", "submit"}, player: Players,
            market: Nat, draft: Drafts, review: Requests]

\* A submission carries what its player confirmed.
Tasks == {t \in AnyTask :
            t.kind = "submit" => t.review = Request(t.player, t.market, t.draft)}

\* The types, that nobody sees a form while offline, and the two promises.
FormsInv ==
    /\ config \in Configs /\ market \in Nat /\ id \in Nat /\ book \in Books
    /\ online \subseteq Players
    /\ form \in [Players -> Form]
    /\ tasks \in Seq(Tasks)
    /\ \A p \in Players : p \notin online => form[p] = NoForm
    /\ OpenFormsExact
    /\ OrdersAsReviewed

\* The empty form and draft.
LEMMA NoFormFacts ==
    /\ NoDraft \in Drafts /\ NoForm \in Form /\ NoForm.kind = "none"
    /\ Nothing \in Requests
  BY DEF NoDraft, NoForm, Nothing, Drafts, Form, Actions, Requests

\* A task for a later tick.
LEMMA TaskFacts ==
    ASSUME NEW kind \in {"trade", "input", "review"}, NEW p \in Players,
           NEW m \in Nat, NEW draft \in Drafts
    PROVE  Task(kind, p, m, draft) \in Tasks
  BY NoFormFacts DEF Task, Tasks, AnyTask

\* A form that is shown.
LEMMA FormFacts ==
    ASSUME NEW f \in Form
    PROVE  /\ f.market \in Nat /\ f.draft \in Drafts /\ f.offer \in SUBSET Actions
           /\ f.draft.action \in Actions
           /\ f.draft.quantity \in Nat /\ f.draft.price \in Nat
  <1>1. f.market \in Nat /\ f.draft \in Drafts /\ f.offer \in SUBSET Actions
    BY DEF Form, Drafts
  <1> QED BY <1>1 DEF Drafts

\* The first task and the ones behind it.
LEMMA HeadTail ==
    ASSUME NEW s \in Seq(Tasks), s # <<>>
    PROVE  Head(s) \in AnyTask /\ Head(s) \in Tasks /\ Tail(s) \in Seq(Tasks)
  BY HeadTailProperties DEF Tasks

LEMMA AppendTask ==
    ASSUME NEW s \in Seq(Tasks), NEW t \in Tasks
    PROVE  Append(s, t) \in Seq(Tasks)
  BY AppendProperties

\* Forms stay, and the tasks and the object are typed.
LEMMA SameForms ==
    ASSUME FormsInv, UNCHANGED <<config, online, open, form, strays>>,
           market' \in Nat, id' \in Nat, book' \in Books, tasks' \in Seq(Tasks)
    PROVE  FormsInv'
  BY DEF FormsInv, OpenFormsExact, OrdersAsReviewed

\* An answer closes the form of its player and queues a task.
LEMMA AnswerForms ==
    ASSUME FormsInv, NEW p \in Players,
           UNCHANGED <<config, object, book, online, strays>>,
           form' = [form EXCEPT ![p] = NoForm], open' = open \ {p},
           tasks' \in Seq(Tasks)
    PROVE  FormsInv'
  BY NoFormFacts DEF FormsInv, OpenFormsExact, OrdersAsReviewed, object

\* A form is opened for a player that is there and sees none.
LEMMA OpenForms ==
    ASSUME FormsInv, NEW kind \in {"trade", "input", "review"},
           NEW offer \in SUBSET Actions, NEW draft \in Drafts,
           Runs(kind), Opens(kind, offer, draft),
           UNCHANGED <<config, object, book, online, strays>>
    PROVE  FormsInv'
  <1>1. PICK p \in Players : p = Job.player
    BY HeadTail DEF FormsInv, Runs, Job, AnyTask
  <1>2. Tail(tasks) \in Seq(Tasks)
    BY HeadTail DEF FormsInv, Runs
  <1> DEFINE f == [kind |-> kind, market |-> market, offer |-> offer,
                   draft |-> draft]
  <1>3. f \in Form /\ f.kind # "none"
    BY DEF FormsInv, Form, Drafts
  <1>4. /\ form' = [form EXCEPT ![p] = f] /\ open' = open \cup {p}
        /\ p \in online /\ tasks' = Tail(tasks)
    BY <1>1 DEF Opens, Runs, Job
  <1> HIDE DEF f
  <1>5. f # NoForm
    BY <1>3, NoFormFacts
  <1>6. /\ form' \in [Players -> Form]
        /\ \A q \in Players : q \notin online => form'[q] = NoForm
        /\ open' = {q \in Players : form'[q] # NoForm}
    BY <1>3, <1>4, <1>5 DEF FormsInv, OpenFormsExact
  <1> QED BY <1>2, <1>4, <1>6
          DEF FormsInv, OpenFormsExact, OrdersAsReviewed, object

\* A task that opens no form, or leads back to the first one.
LEMMA NotOpenedForms ==
    ASSUME FormsInv, NEW kind \in {"trade", "input", "review"}, Runs(kind),
           NotOpened \/ matchingOrderGone,
           UNCHANGED <<config, object, book, online, strays>>
    PROVE  FormsInv'
  <1>1. Job \in AnyTask /\ Tail(tasks) \in Seq(Tasks) /\ market \in Nat
    BY HeadTail DEF FormsInv, Runs, Job
  <1>2. Task("trade", Job.player, market, NoDraft) \in Tasks
    BY <1>1, NoFormFacts, TaskFacts DEF AnyTask
  <1>3. UNCHANGED <<open, form>> /\ tasks' \in Seq(Tasks)
    BY <1>1, <1>2, AppendTask DEF NotOpened, Ends, matchingOrderGone, ErasedAgain
  <1> QED BY <1>3, SameForms DEF FormsInv, object

\* The reference price is a number of cents.
LEMMA ReferenceFacts == \A b \in Books : Reference(b) \in Int
  <1> TAKE b \in Books
  <1>1. b.bid \in Nat /\ b.ask \in Nat /\ b.last \in Nat /\ FirstPrice \in Nat
    BY ConstantsAssumption
  <1>2. CASE b.bid > 0 /\ b.ask > 0
    BY <1>1, <1>2 DEF Reference
  <1>3. CASE b.bid > 0 /\ b.ask = 0
    BY <1>1, <1>3 DEF Reference
  <1>4. CASE b.bid = 0 /\ b.ask > 0
    BY <1>1, <1>4 DEF Reference
  <1>5. CASE b.bid = 0 /\ b.ask = 0
    BY <1>1, <1>5 DEF Reference
  <1> QED BY <1>1, <1>2, <1>3, <1>4, <1>5

\* The tasks of the form dialog.
LEMMA RunTaskForms ==
    ASSUME FormsInv, dropTask \/ openTradeForm \/ openTradeInputForm
                     \/ openTradeReviewForm
    PROVE  FormsInv'
  <1>1. CASE dropTask
    <2>1. Tail(tasks) \in Seq(Tasks)
      BY <1>1, HeadTail DEF FormsInv, dropTask
    <2> QED BY <1>1, <2>1, SameForms DEF FormsInv, dropTask, object
  <1>2. CASE openTradeForm
    <2> DEFINE d == [NoDraft EXCEPT !.price =
                        defaultTradePrice(config, Reference(book))]
               offer == availableTradeActions(book)
    <2>1. defaultTradePrice(config, Reference(book)) \in Nat
      <3>1. ValidConfig(config) /\ Reference(book) \in Int
        BY ConstantsAssumption, ReferenceFacts DEF FormsInv
      <3> QED BY <3>1, NearestPrice
    <2>2. d \in Drafts
      BY <2>1 DEF NoDraft, Drafts, Actions
    <2>3. offer \in SUBSET Actions
      BY DEF availableTradeActions, Actions
    <2>4. /\ Runs("trade")
          /\ NotOpened \/ Opens("trade", offer, d)
          /\ UNCHANGED <<config, object, book, online, strays>>
      BY <1>2 DEF openTradeForm
    <2> HIDE DEF d, offer
    <2> QED BY <2>2, <2>3, <2>4, OpenForms, NotOpenedForms
  <1>3. ASSUME NEW kind \in {"input", "review"}, Runs(kind),
               \/ NotOpened
               \/ matchingOrderGone
               \/ Offered(Job.draft) /\ Opens(kind, {}, Job.draft),
               UNCHANGED <<config, object, book, online, strays>>
        PROVE  FormsInv'
    <2>1. Job.draft \in Drafts
      BY <1>3, HeadTail DEF FormsInv, Runs, Job, AnyTask
    <2> QED BY <1>3, <2>1, OpenForms, NotOpenedForms
  <1>4. CASE openTradeInputForm \/ openTradeReviewForm
    BY <1>3, <1>4 DEF openTradeInputForm, openTradeReviewForm
  <1> QED BY <1>1, <1>2, <1>4

\* The request that is sent is the one that was confirmed.
LEMMA SubmitForms ==
    ASSUME FormsInv, submitTradeDraft
    PROVE  FormsInv'
  <1>1. /\ Job \in Tasks /\ Job.kind = "submit"
        /\ Tail(tasks) \in Seq(Tasks)
    BY HeadTail DEF FormsInv, submitTradeDraft, Runs, Job
  <1>2. Job.review = Request(Job.player, Job.market, Job.draft)
    BY <1>1 DEF Tasks
  <1>3. strays' = strays
    BY <1>2 DEF submitTradeDraft, Accepts
  <1>4. book' \in Books
    BY DEF submitTradeDraft, FormsInv
  <1> QED BY <1>1, <1>3, <1>4, SameForms DEF FormsInv, submitTradeDraft, object

\* What tradeReviewText shows is what submitTradeDraft sends.
LEMMA ReviewedIsRequested ==
    ASSUME FormsInv, NEW p \in Players
    PROVE  /\ Reviewed(p) = Request(p, form[p].market, form[p].draft)
           /\ Reviewed(p) \in Requests
  <1>1. /\ form[p].draft.action \in {"LimitBuy", "LimitSell", "MarketBuy", "MarketSell"}
        /\ form[p].draft.quantity \in Nat /\ form[p].draft.price \in Nat
        /\ form[p].market \in Nat
    BY FormFacts DEF FormsInv, Actions
  <1>2. Reviewed(p) = Request(p, form[p].market, form[p].draft)
    BY <1>1 DEF Reviewed, Request, tradeActionSide, tradeActionOrderType,
                tradeActionUsesPrice
  <1>3. Request(p, form[p].market, form[p].draft) \in Requests
    BY <1>1 DEF Request, Requests, tradeActionSide, tradeActionOrderType,
                tradeActionUsesPrice
  <1> QED BY <1>2, <1>3

\* Buttons and texts lead to the next form.
LEMMA AnswersForms ==
    ASSUME FormsInv, NEW p \in Players,
           \/ \E action \in Actions : chooseAction(p, action)
           \/ \E quantity, price \in Texts : enterDraft(p, quantity, price)
           \/ confirmDraft(p) \/ editDraft(p) \/ closeForm(p)
    PROVE  FormsInv'
  <1>1. /\ form[p].market \in Nat /\ form[p].draft \in Drafts
        /\ form[p].draft.action \in Actions
        /\ form[p].draft.quantity \in Nat /\ form[p].draft.price \in Nat
        /\ tasks \in Seq(Tasks)
    BY FormFacts DEF FormsInv
  <1>2. ASSUME NEW action \in Actions, chooseAction(p, action)
        PROVE  FormsInv'
    <2>1. Draft(action, 1, form[p].draft.price) \in Drafts
      BY <1>1 DEF Draft, Drafts
    <2>2. tasks' \in Seq(Tasks)
      BY <1>1, <1>2, <2>1, TaskFacts, AppendTask DEF chooseAction, Queue
    <2> QED BY <1>2, <2>2, AnswerForms DEF chooseAction, Answers
  <1>3. ASSUME NEW quantity \in Texts, NEW price \in Texts,
               enterDraft(p, quantity, price)
        PROVE  FormsInv'
    <2> DEFINE old == form[p].draft
               fine == /\ parseTradeQuantity(quantity)
                       /\ tradeActionUsesPrice(old.action) => parseTradePrice(price)
               d == Draft(old.action, quantity, price * Unit)
    <2>1. /\ config.min \in Nat /\ Unit \in Nat \ {0}
          /\ config.min \div Unit \in Nat
      <3>1. ValidConfig(config) /\ Unit \in Nat \ {0}
        BY ConstantsAssumption DEF FormsInv
      <3> QED BY <3>1, ConfigFacts
    <2>2. fine => d \in Drafts
      <3> SUFFICES ASSUME fine PROVE d \in Drafts
        OBVIOUS
      <3>1. quantity \in Nat
        BY ConstantsAssumption DEF parseTradeQuantity, Whole, Texts
      <3>2. tradeActionUsesPrice(old.action) => price * Unit \in Nat
        <4>1. tradeActionUsesPrice(old.action) => price \in Nat
          BY <2>1, ConstantsAssumption DEF parseTradePrice, Whole, Texts
        <4> QED BY <2>1, <4>1
      <3> QED BY <1>1, <3>1, <3>2 DEF Draft, Drafts
    <2>3. /\ Answers(p, "input")
          /\ \/ fine /\ Queue("review", p, form[p].market, d)
             \/ Queue("input", p, form[p].market, old)
          /\ UNCHANGED <<config, object, book, online, strays>>
      BY <1>3 DEF enterDraft
    <2> HIDE DEF fine, d
    <2>4. tasks' \in Seq(Tasks)
      BY <1>1, <2>2, <2>3, TaskFacts, AppendTask DEF Queue
    <2> QED BY <2>3, <2>4, AnswerForms DEF Answers
  <1>4. CASE confirmDraft(p)
    <2> DEFINE t == [Task("submit", p, form[p].market, form[p].draft)
                        EXCEPT !.review = Reviewed(p)]
    <2>1. Reviewed(p) = Request(p, form[p].market, form[p].draft)
          /\ Reviewed(p) \in Requests
      BY ReviewedIsRequested
    <2>2. t = [kind |-> "submit", player |-> p, market |-> form[p].market,
               draft |-> form[p].draft, review |-> Reviewed(p)]
      BY DEF Task
    <2>3. t \in Tasks
      BY <1>1, <2>1, <2>2 DEF Tasks, AnyTask
    <2>4. tasks' = Append(tasks, t)
      BY <1>4 DEF confirmDraft
    <2> HIDE DEF t
    <2>5. tasks' \in Seq(Tasks)
      BY <1>1, <2>3, <2>4, AppendTask
    <2> QED BY <1>4, <2>5, AnswerForms DEF confirmDraft, Answers
  <1>5. CASE editDraft(p)
    <2>1. tasks' \in Seq(Tasks)
      BY <1>1, <1>5, TaskFacts, AppendTask DEF editDraft, Queue
    <2> QED BY <1>5, <2>1, AnswerForms DEF editDraft, Answers
  <1>6. CASE closeForm(p)
    BY <1>1, <1>6, AnswerForms DEF closeForm
  <1> QED BY <1>2, <1>3, <1>4, <1>5, <1>6

\* A click toggles the market or queues the first form.
LEMMA InteractForms ==
    ASSUME FormsInv, NEW p \in Players, interact(p)
    PROVE  FormsInv'
  <1>1. UNCHANGED <<config, book, online, open, form, strays>>
    BY DEF interact
  <1>2. market \in Nat /\ id \in Nat /\ tasks \in Seq(Tasks) /\ book \in Books
    BY DEF FormsInv
  <1>3. /\ market' \in Nat /\ id' \in Nat
        /\ tasks' \in Seq(Tasks)
    <2>1. CASE toggleMarket /\ UNCHANGED tasks
      BY <1>2, <2>1 DEF toggleMarket, object
    <2>2. CASE Queue("trade", p, market, NoDraft) /\ UNCHANGED object
      BY <1>2, <2>2, NoFormFacts, TaskFacts, AppendTask DEF Queue, object
    <2> QED BY <2>1, <2>2 DEF interact
  <1> QED BY <1>1, <1>2, <1>3, SameForms

\* Every step keeps forms, the set of players that see one, and orders exact.
LEMMA StepForms == FormsInv /\ [Next]_vars => FormsInv'
  <1> SUFFICES ASSUME FormsInv, [Next]_vars PROVE FormsInv'
    OBVIOUS
  <1>0. /\ market \in Nat /\ id \in Nat /\ tasks \in Seq(Tasks) /\ book \in Books
    BY DEF FormsInv
  <1>1. CASE UNCHANGED vars
    BY <1>0, <1>1, SameForms DEF vars
  <1>2. CASE runTask
    BY <1>2, RunTaskForms, SubmitForms DEF runTask
  <1>3. CASE tick \/ otherOrders
    BY <1>0, <1>3, SameForms DEF tick, otherOrders, object
  <1>4. CASE removeObject
    BY <1>0, <1>4, SameForms DEF removeObject
  <1>5. CASE restart
    <2>1. tasks' \in Seq(Tasks) /\ market' \in Nat
      BY <1>0, <1>5 DEF restart
    <2> QED BY <1>0, <1>5, <2>1, NoFormFacts
            DEF restart, FormsInv, OpenFormsExact, OrdersAsReviewed
  <1>6. ASSUME NEW p \in Players, player(p)
        PROVE  FormsInv'
    <2>1. CASE \/ \E tool \in {"hand", "exchanger"}, n \in 1 .. MaxPackets :
                    startClick(p, tool, n)
               \/ interactRejected(p)
      BY <1>0, <2>1, SameForms DEF startClick, interactRejected, object
    <2>2. CASE interact(p)
      BY <2>2, InteractForms
    <2>3. CASE \/ \E action \in Actions : chooseAction(p, action)
               \/ \E quantity, price \in Texts : enterDraft(p, quantity, price)
               \/ confirmDraft(p) \/ editDraft(p) \/ closeForm(p)
      BY <2>3, AnswersForms
    <2>4. CASE quit(p)
      BY <2>4, NoFormFacts
         DEF quit, object, FormsInv, OpenFormsExact, OrdersAsReviewed
    <2>5. CASE join(p)
      BY <2>5 DEF join, object, FormsInv, OpenFormsExact, OrdersAsReviewed
    <2> QED BY <1>6, <2>1, <2>2, <2>3, <2>4, <2>5 DEF player
  <1> QED BY <1>1, <1>2, <1>3, <1>4, <1>5, <1>6 DEF Next

\* At the start nobody sees a form.
LEMMA InitForms == Init => FormsInv
  BY NoFormFacts DEF Init, FormsInv, OpenFormsExact, OrdersAsReviewed

\* open_trade_forms_ is who sees a form, over all callbacks, tasks, exceptions,
\* quits and restarts: nobody is locked out, nobody gets a second form.
THEOREM OpenFormsExactHolds == Spec => []OpenFormsExact
  <1>1. FormsInv => OpenFormsExact
    BY DEF FormsInv
  <1> QED BY <1>1, InitForms, StepForms, PTL DEF Spec

\* The service gets the order its player confirmed, and no other.
THEOREM OrdersAsReviewedHolds == Spec => []OrdersAsReviewed
  <1>1. FormsInv => OrdersAsReviewed
    BY DEF FormsInv
  <1> QED BY <1>1, InitForms, StepForms, PTL DEF Spec

=============================================================================
