---------------------------- MODULE BrokerProofs ----------------------------
(***************************************************************************)
(* Proofs about the paper broker and its clients: what each of its         *)
(* operations does, for any client; the life of orders (BrokerOrders), for *)
(* any set of orders and prices and any reprice budget, order size and     *)
(* concession; the books of a cycle (Execution), for any quotes, sizes,    *)
(* budgets and numbers of positions and orders.                            *)
(***************************************************************************)
EXTENDS BrokerOrders, Execution, FiniteLemmas

----------------------------------------------------------------------------
(* The operations of the broker *)

\* The records the broker builds are orders again: a reprice stays in its
\* attempt budget and a fill in the order's size.
LEMMA RecordTypes ==
    ASSUME NEW ord \in Order
    PROVE  /\ \A s \in Live \cup Terminal : [ord EXCEPT !.status = s] \in Order
           /\ ~Exhausted(ord) => Repriced(ord) \in Order
           /\ \A n \in 1..MaxContracts : ord.filled + n <= ord.contracts
                => Filled(ord, n) \in Order
<1> USE SizeAssumption, RepriceAssumption DEF Live, Terminal, Order
<1>1. \A s \in Live \cup Terminal : [ord EXCEPT !.status = s] \in Order
  OBVIOUS
<1>2. ASSUME ~Exhausted(ord) PROVE Repriced(ord) \in Order
  <2>1. ord.attempts + 1 \in 0..MaxReprice
    BY <1>2 DEF Exhausted
  <2>2. RepricedLimit(ord) \in Int
    BY DEF RepricedLimit
  <2> QED
    BY <2>1, <2>2 DEF Repriced
<1>3. ASSUME NEW n \in 1..MaxContracts, ord.filled + n <= ord.contracts
      PROVE  Filled(ord, n) \in Order
  <2>1. ord.filled + n \in 0..MaxContracts
    BY <1>3
  <2>2. \A s \in Live \cup Terminal : [ord EXCEPT !.status = s, !.filled = ord.filled + n] \in Order
    BY <2>1
  <2> QED
    BY <2>2 DEF Filled
<1> QED
  BY <1>1, <1>2, <1>3

\* A fill never exceeds what remains of the order.
LEMMA FillSizeBound ==
    ASSUME NEW ord \in Order, NEW depth \in 0..MaxContracts, FillSize(ord, depth) >= 1
    PROVE  /\ FillSize(ord, depth) \in 1..MaxContracts
           /\ ord.filled + FillSize(ord, depth) <= ord.contracts
  BY SizeAssumption, PartialAssumption DEF FillSize, Remaining, Order

----------------------------------------------------------------------------
(* Types of the broker *)

\* The empty broker is well typed.
LEMMA BrokerInitTypes == BrokerInit => BrokerTypeOK
  BY SizeAssumption, RepriceAssumption, AccountAssumption
  DEF BrokerInit, BrokerTypeOK, NoOrder, NoPosition, Order, Position, Fill, Live, Terminal

\* A submitted order is well typed.
LEMMA SubmitTypes ==
    ASSUME BrokerTypeOK, NEW o \in OrderId, NEW intent \in {"OPEN", "CLOSE"},
           NEW n \in 0..MaxContracts, NEW limit \in Int, Submit(o, intent, n, limit)
    PROVE  BrokerTypeOK'
<1>1. NewOrder(intent, n, limit) \in Order
  BY SizeAssumption, RepriceAssumption DEF NewOrder, Order, Live
<1> QED
  BY <1>1 DEF BrokerTypeOK, Submit

\* A poll keeps the types, whichever way it ends.
LEMMA PollTypes ==
    ASSUME BrokerTypeOK, NEW o \in OrderId, NEW P \in SUBSET Int, NEW m \in Market(P), Poll(o, m)
    PROVE  BrokerTypeOK'
<1> USE SizeAssumption, RepriceAssumption, AccountAssumption, PartialAssumption
<1>2. orders[o] \in Order
  BY DEF BrokerTypeOK
<1>3. m.price \in Int /\ m.depth \in 0..MaxContracts
  BY DEF Market
<1>4. polls' \in [OrderId -> Nat] /\ UNCHANGED <<positions, connected, asked>>
  BY DEF Poll, BrokerTypeOK
<1>5. CASE PollMiss(o)
  <2>1. orders' \in [OrderId -> Order]
    BY <1>2, <1>5, RecordTypes DEF PollMiss, BrokerTypeOK, Terminal
  <2> QED
    BY <1>4, <1>5, <2>1 DEF PollMiss, BrokerTypeOK
<1>6. CASE PollFill(o, m)
  <2> DEFINE n == FillSize(orders[o], m.depth)
  <2>1. n \in 1..MaxContracts /\ orders[o].filled + n <= orders[o].contracts
    BY <1>2, <1>3, <1>6, FillSizeBound DEF PollFill
  <2>2. Filled(orders[o], n) \in Order
    BY <1>2, <2>1, RecordTypes
  <2>3. orders' \in [OrderId -> Order]
    BY <1>6, <2>2 DEF PollFill, BrokerTypeOK
  <2>4. orders[o].filled + n \in 1..MaxContracts
    BY <1>2, <2>1 DEF Order
  <2>5. fills' \subseteq Fill
    BY <1>3, <1>6, <2>1, <2>4 DEF PollFill, BrokerTypeOK, Fill
  <2>6. equity' \in Int
    <3>1. n * Fee \in Int
      BY <2>1
    <3> QED
      BY <1>6, <3>1 DEF PollFill, BrokerTypeOK
  <2> QED
    BY <1>4, <2>3, <2>5, <2>6 DEF BrokerTypeOK
<1>7. CASE PollReject(o)
  <2>1. orders' \in [OrderId -> Order]
    BY <1>2, <1>7, RecordTypes DEF PollReject, BrokerTypeOK, Terminal
  <2> QED
    BY <1>4, <1>7, <2>1 DEF PollReject, BrokerTypeOK
<1> QED
  BY <1>5, <1>6, <1>7 DEF Poll

\* A cancel keeps the types.
LEMMA CancelTypes ==
    ASSUME BrokerTypeOK, NEW o \in OrderId, Cancel(o)
    PROVE  BrokerTypeOK'
<1>1. orders' \in [OrderId -> Order]
  BY RecordTypes DEF Cancel, BrokerTypeOK, Terminal
<1> QED
  BY <1>1 DEF Cancel, BrokerTypeOK

\* Registering or settling a position keeps the types.
LEMMA PositionTypes ==
    ASSUME BrokerTypeOK, NEW p \in PositionId, NEW pos \in Position, NEW pnl \in Int,
           RegisterPosition(p, pos) \/ SettlePosition(p, pos, pnl)
    PROVE  BrokerTypeOK'
  BY DEF RegisterPosition, SettlePosition, BrokerTypeOK

\* Losing or regaining the connection keeps the types.
LEMMA ConnectionTypes ==
    ASSUME BrokerTypeOK, Disconnect \/ Reconnect
    PROVE  BrokerTypeOK'
  BY DEF Disconnect, Reconnect, BrokerTypeOK

----------------------------------------------------------------------------
(* Polls *)

\* What a poll of a live order can do to it, as the later proofs use it.
LEMMA PollEffect ==
    ASSUME BrokerTypeOK, NEW o \in OrderId, NEW P, NEW m \in Market(P), Poll(o, m)
    PROVE  /\ orders[o] \in Order /\ orders[o].status \in Live
           /\ polls' = [polls EXCEPT ![o] = @ + 1] /\ asked' = asked
           /\ \A q \in OrderId \ {o} : orders'[q] = orders[q] /\ polls'[q] = polls[q]
           /\ \/ /\ orders'[o].status = "WORKING"
                 /\ orders'[o].attempts = orders[o].attempts + 1
                 /\ orders'[o].filled = orders[o].filled
                 /\ orders'[o].contracts = orders[o].contracts
                 /\ fills' = fills
              \/ /\ orders'[o].status \in {"EXPIRED", "REJECTED"}
                 /\ orders'[o].filled = orders[o].filled
                 /\ orders'[o].contracts = orders[o].contracts
                 /\ fills' = fills
              \/ \E n \in 1..MaxContracts :
                 /\ orders[o].filled + n <= orders[o].contracts
                 /\ orders'[o] = Filled(orders[o], n)
                 /\ fills' = fills \cup {[order |-> o, contracts |-> n,
                                          upto |-> orders[o].filled + n, price |-> m.price]}
<1>0. /\ orders[o] \in Order /\ orders[o].status \in Live
      /\ polls' = [polls EXCEPT ![o] = @ + 1] /\ asked' = asked
      /\ m.depth \in 0..MaxContracts
  BY DEF BrokerTypeOK, Poll, Market
<1>1. \A q \in OrderId \ {o} : orders'[q] = orders[q] /\ polls'[q] = polls[q]
  BY DEF Poll, PollMiss, PollFill, PollReject, BrokerTypeOK
<1>2. CASE PollMiss(o)
  <2>1. \/ orders'[o] = [orders[o] EXCEPT !.status = "EXPIRED"]
        \/ orders'[o] = Repriced(orders[o])
    BY <1>2 DEF PollMiss, BrokerTypeOK
  <2>2. /\ orders'[o].filled = orders[o].filled /\ orders'[o].contracts = orders[o].contracts
        /\ \/ orders'[o].status = "EXPIRED"
           \/ orders'[o].status = "WORKING" /\ orders'[o].attempts = orders[o].attempts + 1
    BY <1>0, <2>1 DEF Repriced, Order
  <2> QED
    BY <1>0, <1>1, <1>2, <2>2 DEF PollMiss
<1>3. CASE PollFill(o, m)
  BY <1>0, <1>1, <1>3, FillSizeBound DEF PollFill, BrokerTypeOK
<1>4. CASE PollReject(o)
  BY <1>0, <1>1, <1>4 DEF PollReject, BrokerTypeOK, Order
<1> QED
  BY <1>2, <1>3, <1>4 DEF Poll

----------------------------------------------------------------------------
(* Arithmetic of the concession budget *)

\* One more attempt costs one more concession.
LEMMA OneMoreStep ==
    ASSUME NEW a \in Nat, NEW c \in Nat
    PROVE  a * c \in Nat /\ (a + 1) * c = a * c + c
  OBVIOUS

\* Fewer attempts cost no more than the whole budget.
LEMMA BudgetBounds ==
    ASSUME NEW a \in Nat, NEW b \in Nat, NEW c \in Nat, a <= b
    PROVE  a * c <= b * c
<1>1. PICK d \in Nat : b = a + d
  <2>1. b - a \in Nat /\ b = a + (b - a)
    OBVIOUS
  <2> QED
    BY <2>1
<1>2. b * c = a * c + d * c
  BY <1>1
<1>3. d * c \in Nat /\ a * c \in Nat
  BY <1>1, OneMoreStep
<1> QED
  BY <1>2, <1>3

----------------------------------------------------------------------------
(* Types of the orders *)

\* Every step keeps the types.
LEMMA OrdersTypeStep == BrokerTypeOK /\ [OrdersNext]_brokerVars => BrokerTypeOK'
<1> SUFFICES ASSUME BrokerTypeOK, [OrdersNext]_brokerVars PROVE BrokerTypeOK'
  OBVIOUS
<1>1. CASE SubmitSome
  BY <1>1, SubmitTypes, PriceAssumption DEF SubmitSome
<1>2. ASSUME NEW o \in OrderId, PollSome(o) PROVE BrokerTypeOK'
  BY <1>2, PollTypes, PriceAssumption DEF PollSome
<1>3. CASE CancelSome
  BY <1>3, CancelTypes DEF CancelSome
<1>4. CASE Disconnect \/ Reconnect
  BY <1>4, ConnectionTypes
<1>5. CASE UNCHANGED brokerVars
  BY <1>5 DEF brokerVars, BrokerTypeOK
<1> QED
  BY <1>1, <1>2, <1>3, <1>4, <1>5 DEF OrdersNext

\* The broker's state is well typed in every behaviour: attempts stay within the
\* reprice budget, fills within the order's size.
THEOREM OrdersTypeCorrect == OrdersSpec => []BrokerTypeOK
  BY BrokerInitTypes, OrdersTypeStep, PTL DEF OrdersSpec

----------------------------------------------------------------------------
(* Prices: an order never trades beyond its concession budget *)

\* How far a limit has moved, and in which direction.
Moved(ord, a) == ord.limit = a + (IF a >= 0 THEN 1 ELSE -1) * (ord.attempts * Concession)

\* A reprice moves the limit one more concession away from where it started.
LEMMA RepriceMoves ==
    ASSUME NEW ord \in Order, NEW a \in Int, Moved(ord, a)
    PROVE  /\ Moved(Repriced(ord), a)
           /\ a >= 0 => ord.limit <= Repriced(ord).limit
           /\ a < 0 => ord.limit <= a
<1> DEFINE c == ord.attempts * Concession
<1>1. ord.attempts \in Nat /\ ord.limit \in Int /\ Concession \in Nat
  BY RepriceAssumption DEF Order
<1>2. c \in Nat /\ (ord.attempts + 1) * Concession = c + Concession
  BY <1>1, OneMoreStep
<1>3. /\ a >= 0 => ord.limit = a + c
      /\ a < 0 => ord.limit = a - c
  BY <1>1, <1>2 DEF Moved
<1>4. /\ Repriced(ord).attempts = ord.attempts + 1
      /\ Repriced(ord).limit = RepricedLimit(ord)
  BY DEF Repriced, Order
<1>5. /\ a >= 0 => RepricedLimit(ord) = a + (c + Concession)
      /\ a < 0 => RepricedLimit(ord) = a - (c + Concession)
  BY <1>1, <1>2, <1>3 DEF RepricedLimit
<1>6. Moved(Repriced(ord), a)
  <2> HIDE DEF c
  <2> QED
    BY <1>1, <1>2, <1>4, <1>5 DEF Moved
<1> QED
  BY <1>1, <1>2, <1>3, <1>4, <1>5, <1>6

\* What LimitHistory says of one order.
OrderHistory(o) ==
    /\ orders[o].status = "ABSENT" => Untouched(o)
    /\ Moved(orders[o], asked[o])
    /\ \A f \in fills : f.order = o =>
          f.price <= (IF asked[o] >= 0 THEN orders[o].limit ELSE asked[o])

\* LimitHistory is a statement about each order on its own.
LEMMA HistoryByOrder == LimitHistory <=> \A o \in OrderId : OrderHistory(o)
  BY DEF LimitHistory, OrderHistory, Moved

\* No order, no history.
LEMMA HistoryInit == BrokerInit => LimitHistory
<1> SUFFICES ASSUME BrokerInit, NEW o \in OrderId PROVE OrderHistory(o)
  BY HistoryByOrder
<1>1. orders[o] = NoOrder /\ asked[o] = 0 /\ fills = {} /\ polls[o] = 0
  BY DEF BrokerInit
<1>2. 0 * Concession = 0
  BY RepriceAssumption
<1> QED
  BY <1>1, <1>2 DEF OrderHistory, Moved, Untouched, NoOrder

\* A poll, a submission or a cancel keeps the history of the order it is about,
\* and leaves the others alone.
LEMMA HistoryStep == BrokerTypeOK /\ BrokerTypeOK' /\ LimitHistory /\ [OrdersNext]_brokerVars => LimitHistory'
<1> SUFFICES ASSUME BrokerTypeOK, BrokerTypeOK', LimitHistory, [OrdersNext]_brokerVars,
                    NEW o \in OrderId
             PROVE  OrderHistory(o)'
  BY DEF LimitHistory, OrderHistory, Moved
<1>0. OrderHistory(o) /\ orders[o] \in Order /\ asked[o] \in Int
  BY HistoryByOrder DEF BrokerTypeOK
<1> USE RepriceAssumption
<1>1. CASE SubmitSome
  <2>1. PICK q \in OrderId, intent \in {"OPEN", "CLOSE"}, n \in 1..MaxContracts, limit \in Price :
           Submit(q, intent, n, limit)
    BY <1>1 DEF SubmitSome
  <2>2. CASE q # o
    <3>1. orders'[o] = orders[o] /\ asked'[o] = asked[o] /\ fills' = fills /\ polls' = polls
      BY <2>1, <2>2 DEF Submit, BrokerTypeOK
    <3> QED
      BY <1>0, <3>1 DEF OrderHistory, Moved, Untouched
  <2>3. CASE q = o
    <3>1. orders'[o] = NewOrder(intent, n, limit) /\ asked'[o] = limit /\ fills' = fills
      BY <2>1, <2>3 DEF Submit, BrokerTypeOK
    <3>2. \A f \in fills : f.order # o
      BY <1>0, <2>1, <2>3 DEF Submit, OrderHistory, Untouched
    <3>3. limit \in Int /\ 0 * Concession = 0
      BY PriceAssumption
    <3>4. Moved(NewOrder(intent, n, limit), limit)
      BY <3>3 DEF Moved, NewOrder
    <3> QED
      BY <3>1, <3>2, <3>4 DEF OrderHistory, Moved, NewOrder
  <2> QED
    BY <2>2, <2>3
<1>2. ASSUME NEW q \in OrderId, PollSome(q) PROVE OrderHistory(o)'
  <2>1. PICK m \in Market(Price) : Poll(q, m)
    BY <1>2 DEF PollSome
  <2>2. m.price \in Int /\ asked' = asked /\ orders[q].status \in Live
    BY <2>1, PriceAssumption DEF Market, Poll
  <2>3. CASE q # o
    <3>1. orders'[o] = orders[o] /\ polls'[o] = polls[o]
      BY <2>1, <2>3 DEF Poll, PollMiss, PollFill, PollReject, BrokerTypeOK
    <3>2. \A f \in fills' : f.order = o => f \in fills
      BY <2>1, <2>3 DEF Poll, PollMiss, PollFill, PollReject
    <3> QED
      BY <1>0, <2>2, <3>1, <3>2 DEF OrderHistory, Moved, Untouched
  <2>4. CASE q = o
    <3>0. Moved(orders[o], asked[o]) /\ orders[o].status \in Live
      BY <1>0, <2>2, <2>4 DEF OrderHistory
    <3>1. /\ Moved(Repriced(orders[o]), asked[o])
          /\ asked[o] >= 0 => orders[o].limit <= Repriced(orders[o]).limit
          /\ asked[o] < 0 => orders[o].limit <= asked[o]
      BY <1>0, <3>0, RepriceMoves
    <3>2. CASE PollMiss(o)
      <4>0. fills' = fills
        BY <3>2 DEF PollMiss
      <4>1. CASE Exhausted(orders[o])
        <5>1. orders'[o] = [orders[o] EXCEPT !.status = "EXPIRED"]
          BY <3>2, <4>1 DEF PollMiss, BrokerTypeOK
        <5>2. /\ orders'[o].limit = orders[o].limit
              /\ orders'[o].attempts = orders[o].attempts
              /\ orders'[o].status # "ABSENT"
          BY <1>0, <5>1 DEF Order
        <5> QED
          BY <1>0, <2>2, <4>0, <5>2 DEF OrderHistory, Moved
      <4>2. CASE ~Exhausted(orders[o])
        <5>1. orders'[o] = Repriced(orders[o])
          BY <3>2, <4>2 DEF PollMiss, BrokerTypeOK
        <5>2. orders'[o].status # "ABSENT"
          BY <1>0, <5>1 DEF Repriced, Order
        <5>3. Repriced(orders[o]).limit \in Int /\ orders[o].limit \in Int
          BY <1>0, <5>1 DEF BrokerTypeOK, Order
        <5>4. \A f \in fills : f.price \in Int
          BY DEF BrokerTypeOK, Fill
        <5> QED
          BY <1>0, <2>2, <3>1, <4>0, <5>1, <5>2, <5>3, <5>4 DEF OrderHistory, Moved
      <4> QED
        BY <4>1, <4>2
    <3>3. CASE PollFill(o, m)
      <4> DEFINE n == FillSize(orders[o], m.depth)
      <4>1. orders'[o] = Filled(orders[o], n) /\ m.price <= orders[o].limit
        BY <3>3 DEF PollFill, BrokerTypeOK, Acceptable
      <4>2. /\ orders'[o].limit = orders[o].limit
            /\ orders'[o].attempts = orders[o].attempts
            /\ orders'[o].status # "ABSENT"
        BY <1>0, <4>1 DEF Filled, Order
      <4>3. \A f \in fills' : f \in fills \/ f.price = m.price
        BY <3>3 DEF PollFill
      <4>4. orders[o].limit \in Int
        BY <1>0 DEF Order
      <4> QED
        BY <1>0, <2>2, <3>1, <4>1, <4>2, <4>3, <4>4 DEF OrderHistory, Moved
    <3>4. CASE PollReject(o)
      <4>1. /\ orders'[o].limit = orders[o].limit
            /\ orders'[o].attempts = orders[o].attempts
            /\ orders'[o].status # "ABSENT"
            /\ fills' = fills
        BY <1>0, <3>4 DEF PollReject, BrokerTypeOK, Order
      <4> QED
        BY <1>0, <2>2, <4>1 DEF OrderHistory, Moved
    <3> QED
      BY <2>1, <2>4, <3>2, <3>3, <3>4 DEF Poll
  <2> QED
    BY <2>3, <2>4
<1>3. CASE CancelSome
  <2>1. PICK q \in OrderId : Cancel(q)
    BY <1>3 DEF CancelSome
  <2>2. /\ orders'[o].limit = orders[o].limit
        /\ orders'[o].attempts = orders[o].attempts
        /\ orders'[o] = orders[o] \/ orders'[o].status # "ABSENT"
        /\ UNCHANGED <<fills, asked, polls>>
    BY <1>0, <2>1 DEF Cancel, BrokerTypeOK, Order
  <2> QED
    BY <1>0, <2>2 DEF OrderHistory, Moved, Untouched
<1>4. CASE Disconnect \/ Reconnect
  BY <1>0, <1>4 DEF Disconnect, Reconnect, OrderHistory, Moved, Untouched
<1>5. CASE UNCHANGED brokerVars
  BY <1>0, <1>5 DEF brokerVars, OrderHistory, Moved, Untouched
<1> QED
  BY <1>1, <1>2, <1>3, <1>4, <1>5 DEF OrdersNext

\* A limit never leaves its concession budget, so neither does a fill.
LEMMA BudgetFromHistory == BrokerTypeOK /\ LimitHistory => FillsWithinBudget
<1> SUFFICES ASSUME BrokerTypeOK, LimitHistory, NEW f \in fills PROVE f.price <= WorstPrice(f.order)
  BY DEF FillsWithinBudget
<1> DEFINE o == f.order
<1>1. o \in OrderId /\ f.price \in Int /\ asked[o] \in Int /\ orders[o] \in Order
  BY DEF BrokerTypeOK, Fill
<1>2. OrderHistory(o)
  BY <1>1, HistoryByOrder
<1>3. /\ orders[o].attempts \in Nat /\ MaxReprice \in Nat /\ Concession \in Nat
      /\ orders[o].attempts <= MaxReprice /\ orders[o].limit \in Int
  BY <1>1, RepriceAssumption DEF Order
<1>4. /\ orders[o].attempts * Concession <= MaxReprice * Concession
      /\ orders[o].attempts * Concession \in Nat /\ MaxReprice * Concession \in Nat
  BY <1>3, BudgetBounds, OneMoreStep
<1>5. CASE asked[o] >= 0
  <2>1. f.price <= orders[o].limit /\ orders[o].limit = asked[o] + orders[o].attempts * Concession
    BY <1>1, <1>2, <1>4, <1>5 DEF OrderHistory, Moved
  <2> QED
    BY <1>1, <1>3, <1>4, <1>5, <2>1 DEF WorstPrice
<1>6. CASE ~(asked[o] >= 0)
  BY <1>1, <1>2, <1>6 DEF OrderHistory, WorstPrice
<1> QED
  BY <1>5, <1>6

\* No order ever trades at a price worse than its submitted limit plus the whole
\* concession budget, however its polls, reprices and partial fills interleave.
THEOREM FillsStayInBudget == OrdersSpec => []FillsWithinBudget
<1>1. BrokerInit => BrokerTypeOK /\ LimitHistory
  BY BrokerInitTypes, HistoryInit
<1>2. BrokerTypeOK /\ LimitHistory /\ [OrdersNext]_brokerVars => (BrokerTypeOK /\ LimitHistory)'
  BY OrdersTypeStep, HistoryStep
<1>3. BrokerTypeOK /\ LimitHistory => FillsWithinBudget
  BY BudgetFromHistory
<1> QED
  BY <1>1, <1>2, <1>3, PTL DEF OrdersSpec

----------------------------------------------------------------------------
(* Fills and polls of one order *)

\* FillsAddUp for one order.
OrderAddsUp(o) ==
    /\ orders[o].filled <= orders[o].contracts
    /\ orders[o].status = "FILLED" => orders[o].filled = orders[o].contracts
    /\ orders[o].status \in Live => orders[o].filled < orders[o].contracts
    /\ \A k \in 1..orders[o].filled :
          \E f \in fills : f.order = o /\ f.upto - f.contracts < k /\ k <= f.upto
    /\ \A f \in fills : f.order = o => f.upto <= orders[o].filled

\* FillsAddUp is a statement about each order on its own.
LEMMA AddsUpByOrder == FillsAddUp <=> \A o \in OrderId : OrderAddsUp(o)
<1>1. ASSUME FillsAddUp, NEW o \in OrderId PROVE OrderAddsUp(o)
  BY <1>1 DEF FillsAddUp, OrderAddsUp
<1>2. ASSUME \A o \in OrderId : OrderAddsUp(o) PROVE FillsAddUp
  BY <1>2 DEF FillsAddUp, OrderAddsUp
<1> QED
  BY <1>1, <1>2

\* Nothing has traded at the start.
LEMMA AddsUpInit == BrokerInit => FillsAddUp
<1> SUFFICES ASSUME BrokerInit, NEW o \in OrderId PROVE OrderAddsUp(o)
  BY AddsUpByOrder
<1>1. orders[o] = NoOrder /\ fills = {}
  BY DEF BrokerInit
<1> QED
  BY <1>1 DEF OrderAddsUp, NoOrder, Live

\* Each step keeps the sum: a fill extends the covered range without a gap.
LEMMA AddsUpStep ==
    BrokerTypeOK /\ LimitHistory /\ FillsAddUp /\ [OrdersNext]_brokerVars => FillsAddUp'
<1> SUFFICES ASSUME BrokerTypeOK, LimitHistory, FillsAddUp, [OrdersNext]_brokerVars, NEW o \in OrderId
             PROVE  OrderAddsUp(o)'
  BY DEF FillsAddUp, OrderAddsUp
<1>0. /\ OrderAddsUp(o) /\ OrderHistory(o) /\ orders[o] \in Order
      /\ \A f \in fills : f.upto \in Nat /\ f.contracts \in Nat
  BY AddsUpByOrder, HistoryByOrder, SizeAssumption DEF BrokerTypeOK, Fill
<1>1. CASE SubmitSome
  <2>1. PICK q \in OrderId, intent \in {"OPEN", "CLOSE"}, n \in 1..MaxContracts, limit \in Price :
           Submit(q, intent, n, limit)
    BY <1>1 DEF SubmitSome
  <2>2. CASE q # o
    <3>1. orders'[o] = orders[o] /\ fills' = fills
      BY <2>1, <2>2 DEF Submit, BrokerTypeOK
    <3> QED
      BY <1>0, <3>1 DEF OrderAddsUp
  <2>3. CASE q = o
    <3>1. orders'[o] = NewOrder(intent, n, limit) /\ fills' = fills
      BY <2>1, <2>3 DEF Submit, BrokerTypeOK
    <3>2. \A f \in fills : f.order # o
      BY <1>0, <2>1, <2>3 DEF Submit, OrderHistory, Untouched
    <3> QED
      BY <3>1, <3>2, SizeAssumption DEF OrderAddsUp, NewOrder
  <2> QED
    BY <2>2, <2>3
<1>2. ASSUME NEW q \in OrderId, PollSome(q) PROVE OrderAddsUp(o)'
  <2>1. PICK m \in Market(Price) : Poll(q, m)
    BY <1>2 DEF PollSome
  <2>2. CASE q # o
    <3>1. orders'[o] = orders[o]
      BY <2>1, <2>2, PollEffect DEF BrokerTypeOK
    <3>2. fills \subseteq fills' /\ \A f \in fills' : f.order = o => f \in fills
      BY <2>1, <2>2 DEF Poll, PollMiss, PollFill, PollReject
    <3> QED
      BY <1>0, <3>1, <3>2 DEF OrderAddsUp
  <2>3. CASE q = o
    <3>1. CASE /\ orders'[o].status \in {"WORKING", "EXPIRED", "REJECTED"}
               /\ orders'[o].filled = orders[o].filled
               /\ orders'[o].contracts = orders[o].contracts
               /\ fills' = fills
      <4>1. orders[o].status \in Live
        BY <2>1, <2>3, PollEffect DEF BrokerTypeOK
      <4> QED
        BY <1>0, <3>1, <4>1 DEF OrderAddsUp
    <3>2. ASSUME NEW n \in 1..MaxContracts,
                 orders[o].filled + n <= orders[o].contracts,
                 orders'[o] = Filled(orders[o], n),
                 fills' = fills \cup {[order |-> o, contracts |-> n,
                                       upto |-> orders[o].filled + n, price |-> m.price]}
          PROVE  OrderAddsUp(o)'
      <4> DEFINE ord == orders[o]
                 g   == [order |-> o, contracts |-> n, upto |-> ord.filled + n, price |-> m.price]
      <4>1. /\ orders'[o].filled = ord.filled + n
            /\ orders'[o].contracts = ord.contracts
            /\ orders'[o].status = IF ord.filled + n >= ord.contracts
                                   THEN "FILLED" ELSE "PARTIALLY_FILLED"
        BY <1>0, <3>2 DEF Filled, Order
      <4>2. ord.filled \in Nat /\ n \in Nat /\ n >= 1 /\ ord.contracts \in Nat
        BY <1>0, <3>2, SizeAssumption DEF Order
      <4>3. ASSUME NEW k \in 1..(ord.filled + n)
            PROVE  \E f \in fills' : f.order = o /\ f.upto - f.contracts < k /\ k <= f.upto
        <5>1. CASE k <= ord.filled
          <6>1. k \in 1..ord.filled
            BY <4>2, <5>1
          <6> QED
            BY <1>0, <3>2, <6>1 DEF OrderAddsUp
        <5>2. CASE k > ord.filled
          <6>1. g \in fills' /\ g.order = o /\ g.upto - g.contracts < k /\ k <= g.upto
            BY <3>2, <4>2, <5>2
          <6> QED
            BY <6>1
        <5> QED
          BY <4>2, <5>1, <5>2
      <4>4. \A f \in fills' : f.order = o => f.upto <= ord.filled + n
        BY <1>0, <3>2, <4>2 DEF OrderAddsUp
      <4>5. /\ orders'[o].filled <= orders'[o].contracts
            /\ orders'[o].status = "FILLED" => orders'[o].filled = orders'[o].contracts
            /\ orders'[o].status \in Live => orders'[o].filled < orders'[o].contracts
        BY <3>2, <4>1, <4>2 DEF Live
      <4> QED
        BY <4>1, <4>3, <4>4, <4>5 DEF OrderAddsUp
    <3> QED
      BY <2>1, <2>3, <3>1, <3>2, PollEffect DEF BrokerTypeOK
  <2> QED
    BY <2>2, <2>3
<1>3. CASE CancelSome
  <2>1. PICK q \in OrderId : Cancel(q)
    BY <1>3 DEF CancelSome
  <2>2. /\ orders'[o].filled = orders[o].filled /\ orders'[o].contracts = orders[o].contracts
        /\ orders'[o].status \in {orders[o].status, "CANCELLED"} /\ fills' = fills
    BY <1>0, <2>1 DEF Cancel, BrokerTypeOK, Order
  <2> QED
    BY <1>0, <2>2 DEF OrderAddsUp, Live
<1>4. CASE Disconnect \/ Reconnect
  BY <1>0, <1>4 DEF Disconnect, Reconnect, OrderAddsUp
<1>5. CASE UNCHANGED brokerVars
  BY <1>0, <1>5 DEF brokerVars, OrderAddsUp
<1> QED
  BY <1>1, <1>2, <1>3, <1>4, <1>5 DEF OrdersNext

\* An order never trades more than its size, is FILLED exactly when all of it
\* traded, and its fills cover what it traded without a gap.
THEOREM FillsAlwaysAddUp == OrdersSpec => []FillsAddUp
<1>1. BrokerInit => BrokerTypeOK /\ LimitHistory /\ FillsAddUp
  BY BrokerInitTypes, HistoryInit, AddsUpInit
<1>2. BrokerTypeOK /\ LimitHistory /\ FillsAddUp /\ [OrdersNext]_brokerVars
         => (BrokerTypeOK /\ LimitHistory /\ FillsAddUp)'
  BY OrdersTypeStep, HistoryStep, AddsUpStep
<1> QED
  BY <1>1, <1>2, PTL DEF OrdersSpec

----------------------------------------------------------------------------
(* Progress and finality *)

\* PollsMakeProgress for one order.
OrderProgress(o) ==
    /\ orders[o].status \in Live => polls[o] <= orders[o].attempts + orders[o].filled
    /\ polls[o] <= MaxReprice + MaxContracts + 1

\* A poll spends an attempt, trades a contract or ends the order.
LEMMA ProgressStep ==
    BrokerTypeOK /\ BrokerTypeOK' /\ LimitHistory /\ PollsMakeProgress /\ [OrdersNext]_brokerVars
        => PollsMakeProgress'
<1> SUFFICES ASSUME BrokerTypeOK, BrokerTypeOK', LimitHistory, PollsMakeProgress, [OrdersNext]_brokerVars,
                    NEW o \in OrderId
             PROVE  OrderProgress(o)'
  BY DEF PollsMakeProgress, OrderProgress
<1>0. /\ OrderProgress(o) /\ OrderHistory(o) /\ orders[o] \in Order /\ polls[o] \in Nat
      /\ MaxReprice \in Nat /\ MaxContracts \in Nat
  BY HistoryByOrder, SizeAssumption, RepriceAssumption
  DEF BrokerTypeOK, PollsMakeProgress, OrderProgress
<1>1. CASE SubmitSome
  <2>1. PICK q \in OrderId, intent \in {"OPEN", "CLOSE"}, n \in 1..MaxContracts, limit \in Price :
           Submit(q, intent, n, limit)
    BY <1>1 DEF SubmitSome
  <2>2. CASE q # o
    <3>1. orders'[o] = orders[o] /\ polls' = polls
      BY <2>1, <2>2 DEF Submit, BrokerTypeOK
    <3> QED
      BY <1>0, <3>1 DEF OrderProgress
  <2>3. CASE q = o
    <3>1. orders'[o] = NewOrder(intent, n, limit) /\ polls'[o] = 0
      BY <1>0, <2>1, <2>3 DEF Submit, BrokerTypeOK, OrderHistory, Untouched
    <3> QED
      BY <1>0, <3>1 DEF OrderProgress, NewOrder
  <2> QED
    BY <2>2, <2>3
<1>2. ASSUME NEW q \in OrderId, PollSome(q) PROVE OrderProgress(o)'
  <2>1. PICK m \in Market(Price) : Poll(q, m)
    BY <1>2 DEF PollSome
  <2>2. CASE q # o
    <3>1. orders'[o] = orders[o] /\ polls'[o] = polls[o]
      BY <2>1, <2>2, PollEffect DEF BrokerTypeOK
    <3> QED
      BY <1>0, <3>1 DEF OrderProgress
  <2>3. CASE q = o
    <3>1. polls'[o] = polls[o] + 1 /\ polls[o] <= orders[o].attempts + orders[o].filled
      BY <1>0, <2>1, <2>3, PollEffect DEF OrderProgress, BrokerTypeOK
    <3>2. orders[o].attempts \in 0..MaxReprice /\ orders[o].filled \in 0..MaxContracts
      BY <1>0 DEF Order
    <3>3. polls'[o] <= MaxReprice + MaxContracts + 1
      BY <1>0, <3>1, <3>2
    <3>4. CASE orders'[o].status = "WORKING" /\ orders'[o].attempts = orders[o].attempts + 1
                  /\ orders'[o].filled = orders[o].filled
      BY <1>0, <3>1, <3>2, <3>3, <3>4 DEF OrderProgress
    <3>5. CASE orders'[o].status \in {"EXPIRED", "REJECTED"}
      BY <3>3, <3>5 DEF OrderProgress, Live
    <3>6. ASSUME NEW n \in 1..MaxContracts, orders'[o] = Filled(orders[o], n)
          PROVE  OrderProgress(o)'
      <4>1. /\ orders'[o].attempts = orders[o].attempts
            /\ orders'[o].filled = orders[o].filled + n
        BY <1>0, <3>6 DEF Filled, Order
      <4> QED
        BY <1>0, <3>1, <3>2, <3>3, <4>1 DEF OrderProgress
    <3> QED
      BY <2>1, <2>3, <3>4, <3>5, <3>6, PollEffect DEF BrokerTypeOK
  <2> QED
    BY <2>2, <2>3
<1>3. CASE CancelSome
  <2>1. PICK q \in OrderId : Cancel(q)
    BY <1>3 DEF CancelSome
  <2>2. polls' = polls /\ (orders'[o] = orders[o] \/ orders'[o].status = "CANCELLED")
    BY <1>0, <2>1 DEF Cancel, BrokerTypeOK, Order
  <2> QED
    BY <1>0, <2>2 DEF OrderProgress, Live
<1>4. CASE Disconnect \/ Reconnect
  BY <1>0, <1>4 DEF Disconnect, Reconnect, OrderProgress
<1>5. CASE UNCHANGED brokerVars
  BY <1>0, <1>5 DEF brokerVars, OrderProgress
<1> QED
  BY <1>1, <1>2, <1>3, <1>4, <1>5 DEF OrdersNext

\* No client can poll a live order for ever: every poll uses up a reprice attempt
\* or a contract, of which there are finitely many.
THEOREM PollsAreBounded == OrdersSpec => []PollsMakeProgress
<1>1. BrokerInit => BrokerTypeOK /\ LimitHistory /\ PollsMakeProgress
  <2>1. BrokerInit => PollsMakeProgress
    BY SizeAssumption, RepriceAssumption
    DEF BrokerInit, PollsMakeProgress, NoOrder, Live
  <2> QED
    BY <2>1, BrokerInitTypes, HistoryInit
<1>2. BrokerTypeOK /\ LimitHistory /\ PollsMakeProgress /\ [OrdersNext]_brokerVars
         => (BrokerTypeOK /\ LimitHistory /\ PollsMakeProgress)'
  BY OrdersTypeStep, HistoryStep, ProgressStep
<1> QED
  BY <1>1, <1>2, PTL DEF OrdersSpec

\* A terminal order is never touched again, by a late poll, a cancel or a
\* submission under the same identifier.
THEOREM TerminalOrdersAreFinal == OrdersSpec => TerminalIsFinal
<1>1. ASSUME BrokerTypeOK, [OrdersNext]_brokerVars, NEW o \in OrderId, orders[o].status \in Terminal
      PROVE  orders'[o] = orders[o]
  <2>0. orders[o].status \notin Live /\ orders[o].status # "ABSENT"
    BY <1>1 DEF Live, Terminal
  <2>1. CASE SubmitSome
    BY <1>1, <2>0, <2>1 DEF SubmitSome, Submit, BrokerTypeOK
  <2>2. ASSUME NEW q \in OrderId, PollSome(q) PROVE orders'[o] = orders[o]
    <3>1. PICK m \in Market(Price) : Poll(q, m)
      BY <2>2 DEF PollSome
    <3> QED
      BY <1>1, <2>0, <3>1, PollEffect DEF BrokerTypeOK
  <2>3. CASE CancelSome
    BY <1>1, <2>0, <2>3 DEF CancelSome, Cancel, BrokerTypeOK
  <2>4. CASE Disconnect \/ Reconnect \/ UNCHANGED brokerVars
    BY <2>4 DEF Disconnect, Reconnect, brokerVars
  <2> QED
    BY <1>1, <2>1, <2>2, <2>3, <2>4 DEF OrdersNext
<1>2. BrokerTypeOK /\ [OrdersNext]_brokerVars =>
         [\A o \in OrderId : orders[o].status \in Terminal => orders'[o] = orders[o]]_brokerVars
  BY <1>1
<1> QED
  BY <1>2, BrokerInitTypes, OrdersTypeStep, PTL DEF OrdersSpec, TerminalIsFinal

----------------------------------------------------------------------------
(* Types of a cycle's execution *)

\* What a poll is shown of the snapshot is a market.
LEMMA MarketForType ==
    ASSUME TypeOK, NEW intent
    PROVE  MarketFor(intent) \in Market(Int)
<1>1. snap.quoted \in BOOLEAN /\ snap.bid \in Int /\ snap.ask \in Int /\ snap.depth \in 0..MaxContracts
  BY QuoteAssumption DEF TypeOK, Snapshot
<1>2. (IF intent = "CLOSE" THEN -snap.bid ELSE snap.ask) \in Int
  BY <1>1
<1> QED
  BY <1>1, <1>2 DEF MarketFor, Market

\* The first cycle starts well typed.
LEMMA TypeInit == Init => TypeOK
<1> SUFFICES ASSUME Init PROVE TypeOK
  OBVIOUS
<1>1. BrokerTypeOK
  BY BrokerInitTypes DEF Init
<1>2. NoPosition \in Position
  BY SizeAssumption DEF NoPosition, Position
<1>3. work \in Work
  BY PollAssumption DEF Init, Work
<1> QED
  BY <1>1, <1>2, <1>3 DEF Init, TypeOK

\* The result of a close is a number, whatever the position and the order.
LEMMA ClosePnlType ==
    ASSUME NEW pos \in Position, NEW ord \in Order
    PROVE  ClosePnl(pos, ord) \in Int
<1>1. /\ pos.entry \in Int /\ pos.contracts \in Int /\ pos.fee \in Int
      /\ ord.limit \in Int /\ ord.filled \in Int /\ Fee \in Int
  BY AccountAssumption, SizeAssumption DEF Position, Order
<1>2. (-ord.limit - pos.entry) * pos.contracts \in Int /\ ord.filled * Fee \in Int
  BY <1>1
<1> QED
  BY <1>1, <1>2 DEF ClosePnl

\* Every step of a cycle keeps the types.
LEMMA TypeStep == TypeOK /\ [Next]_vars => TypeOK'
<1> SUFFICES ASSUME TypeOK, [Next]_vars PROVE TypeOK'
  OBVIOUS
<1>0. /\ BrokerTypeOK /\ book \in [PositionId -> Position] /\ snap \in Snapshot
      /\ todo \subseteq PositionId /\ work \in Work /\ work.order \in OrderId
      /\ work.pos \in PositionId /\ held \in [PositionId -> Int] /\ cash \in Int
      /\ pc \in {"idle", "manage", "close", "open"}
  BY DEF TypeOK, Work
<1>00. snap.bid \in Int /\ snap.ask \in Int
  BY <1>0, QuoteAssumption DEF Snapshot
<1>1. ASSUME NEW s \in Snapshot, BeginStep(s) PROVE TypeOK'
  <2>1. BrokerTypeOK'
    BY <1>0, <1>1 DEF BeginStep, brokerVars, BrokerTypeOK
  <2> QED
    BY <1>0, <1>1, <2>1 DEF BeginStep, TypeOK, OpenIds
<1>2. ASSUME NEW p \in PositionId, Hold(p) \/ SubmitRaises(p) PROVE TypeOK'
  <2>1. BrokerTypeOK'
    BY <1>0, <1>2 DEF Hold, SubmitRaises, brokerVars, BrokerTypeOK
  <2> QED
    BY <1>0, <1>2, <2>1 DEF Hold, SubmitRaises, TypeOK
<1>3. ASSUME NEW p \in PositionId, NEW o \in OrderId, SubmitClose(p, o) PROVE TypeOK'
  <2>1. book[p].contracts \in 0..MaxContracts /\ ExitLimit(snap) \in Int
    BY <1>0, <1>00 DEF Position, ExitLimit
  <2>2. BrokerTypeOK'
    BY <1>0, <1>3, <2>1, SubmitTypes DEF SubmitClose
  <2>3. work' \in Work
    BY <1>00, <1>3, PollAssumption DEF SubmitClose, Work
  <2> QED
    BY <1>0, <1>3, <2>2, <2>3 DEF SubmitClose, TypeOK
<1>4. CASE PollWork
  <2> DEFINE o == work.order
             n == orders'[o].filled - orders[o].filled
  <2>0. MarketFor(orders[o].intent) \in Market(Int)
    BY MarketForType
  <2>1. BrokerTypeOK'
    BY <1>0, <1>4, <2>0, PollTypes DEF PollWork
  <2>2. work' \in Work
    BY <1>0, <1>4, PollAssumption DEF PollWork, Work
  <2>3. n \in Int /\ MarketFor(orders[o].intent).price \in Int /\ Fee \in Int
    BY <1>0, <2>0, <2>1, SizeAssumption, AccountAssumption DEF BrokerTypeOK, Order, Market
  <2>4. n * MarketFor(orders[o].intent).price \in Int /\ n * Fee \in Int
    BY <2>3
  <2>5. cash' \in Int
    BY <1>0, <1>4, <2>4 DEF PollWork, RecordFlow
  <2>6. held' \in [PositionId -> Int]
    <3> DEFINE delta == (IF pc = "close" THEN -1 ELSE 1) * n
    <3>1. delta \in Int
      BY <2>3
    <3>2. held' = [held EXCEPT ![work.pos] = @ + delta]
      BY <1>4 DEF PollWork, RecordFlow
    <3> HIDE DEF delta
    <3> QED
      BY <1>0, <3>1, <3>2
  <2> QED
    BY <1>0, <1>4, <2>1, <2>2, <2>5, <2>6 DEF PollWork, TypeOK
<1>5. CASE CloseFilled
  <2> DEFINE p == work.pos
             ord == orders[work.order]
  <2>1. ord \in Order /\ positions[p] \in Position /\ book[p] \in Position
    BY <1>0 DEF BrokerTypeOK
  <2>2. BookClosed(positions[p], ord) \in Position /\ BookClosed(book[p], ord) \in Position
    BY <2>1 DEF BookClosed, Position
  <2>3. ClosePnl(book[p], ord) \in Int
    BY <2>1, ClosePnlType
  <2>4. BrokerTypeOK'
    BY <1>0, <1>5, <2>2, <2>3, PositionTypes DEF CloseFilled
  <2>5. book' \in [PositionId -> Position]
    BY <1>0, <1>5, <2>2 DEF CloseFilled
  <2> QED
    BY <1>0, <1>5, <2>4, <2>5 DEF CloseFilled, TypeOK
<1>6. CASE CloseUnfilled \/ EndStep
  <2>1. BrokerTypeOK'
    BY <1>0, <1>6 DEF CloseUnfilled, EndStep, brokerVars, BrokerTypeOK
  <2> QED
    BY <1>0, <1>6, <2>1 DEF CloseUnfilled, EndStep, TypeOK
<1>7. ASSUME NEW p \in PositionId, NEW o \in OrderId, NEW n \in 1..MaxContracts, NEW r \in Rounding,
             SubmitOpen(p, o, n, r)
      PROVE  TypeOK'
  <2>1. snap.ask + r \in Int /\ n \in 0..MaxContracts
    BY <1>00, QuoteAssumption, SizeAssumption
  <2>2. PriceLimit(snap.ask + r) \in Int
    BY <2>1, QuoteAssumption DEF PriceLimit
  <2>3. BrokerTypeOK'
    BY <1>0, <1>7, <2>1, <2>2, SubmitTypes DEF SubmitOpen
  <2>4. work' \in Work
    BY <1>7, <2>1, PollAssumption DEF SubmitOpen, Work
  <2> QED
    BY <1>0, <1>7, <2>3, <2>4 DEF SubmitOpen, TypeOK
<1>8. CASE OpenFilled
  <2> DEFINE o == work.order
             pos == [status |-> "open", contracts |-> orders[o].filled,
                     entry |-> snap.ask, fee |-> orders[o].filled * Fee]
  <2>1. orders[o].filled \in 0..MaxContracts
    BY <1>0 DEF BrokerTypeOK, Order
  <2>2. orders[o].filled * Fee \in Int
    BY <2>1, SizeAssumption, AccountAssumption
  <2>3. pos \in Position
    BY <1>00, <2>1, <2>2 DEF Position
  <2>4. RegisterPosition(work.pos, pos) /\ book' = [book EXCEPT ![work.pos] = pos]
    BY <1>8 DEF OpenFilled
  <2> HIDE DEF pos
  <2>5. BrokerTypeOK'
    BY <1>0, <2>3, <2>4, PositionTypes
  <2>6. book' \in [PositionId -> Position]
    BY <1>0, <2>3, <2>4
  <2> QED
    BY <1>0, <1>8, <2>5, <2>6 DEF OpenFilled, TypeOK
<1>9. CASE OpenUnfilled
  <2>1. BrokerTypeOK'
    BY <1>0, <1>9, CancelTypes DEF OpenUnfilled, brokerVars, BrokerTypeOK
  <2> QED
    BY <1>0, <1>9, <2>1 DEF OpenUnfilled, TypeOK
<1>10. CASE Connection
  <2>1. BrokerTypeOK'
    BY <1>0, <1>10, ConnectionTypes DEF Connection
  <2> QED
    BY <1>0, <1>10, <2>1 DEF Connection, execVars, TypeOK
<1>11. CASE UNCHANGED vars
  BY <1>0, <1>11 DEF vars, brokerVars, execVars, TypeOK, BrokerTypeOK
<1> QED
  BY <1>1, <1>2, <1>3, <1>4, <1>5, <1>6, <1>7, <1>8, <1>9, <1>10, <1>11 DEF Next

\* The books, the cycle and the broker are well typed in every behaviour.
THEOREM TypeCorrect == Spec => []TypeOK
  BY TypeInit, TypeStep, PTL DEF Spec

----------------------------------------------------------------------------
(* The book and the fills *)

\* Contracts the book says are in the account.
Booked(p) == IF book[p].status = "open" THEN book[p].contracts ELSE 0

\* BookMatchesFills during an order: the worked position is off by what its order
\* has filled, every other position is right; the positions still to visit are
\* open, so a close always works on an open one.
BookInv ==
    /\ pc \in {"manage", "close"} => todo \subseteq OpenIds
    /\ pc = "close" => work.pos \in todo
    /\ pc = "open" => book[work.pos].status # "open"
    /\ \A p \in PositionId :
          (Settled \/ p # work.pos) => held[p] = Booked(p)
    /\ pc = "close" =>
          LET ord == orders[work.order] IN
          /\ ord.contracts = book[work.pos].contracts
          /\ ord.filled \in {0, ord.contracts}
          /\ held[work.pos] = Booked(work.pos) - ord.filled
    /\ pc = "open" => held[work.pos] = orders[work.order].filled

\* Without partial fills a poll of an unfilled order fills all of it or nothing.
LEMMA WholeFills ==
    ASSUME ~AllowPartial, BrokerTypeOK, NEW o \in OrderId, NEW P, NEW m \in Market(P),
           Poll(o, m), orders[o].filled = 0
    PROVE  /\ orders'[o].filled \in {0, orders[o].contracts}
           /\ orders'[o].contracts = orders[o].contracts
<1>0. orders[o] \in Order /\ orders[o].contracts \in Nat
  BY SizeAssumption DEF BrokerTypeOK, Order
<1>1. CASE PollMiss(o) \/ PollReject(o)
  <2>1. \/ orders'[o] = Repriced(orders[o])
        \/ \E s \in Terminal : orders'[o] = [orders[o] EXCEPT !.status = s]
    BY <1>0, <1>1 DEF PollMiss, PollReject, BrokerTypeOK, Terminal
  <2>2. orders'[o].filled = orders[o].filled /\ orders'[o].contracts = orders[o].contracts
    BY <1>0, <2>1 DEF Repriced, Order
  <2> QED
    BY <2>2
<1>2. CASE PollFill(o, m)
  <2> DEFINE n == FillSize(orders[o], m.depth)
  <2>1. orders'[o] = Filled(orders[o], n) /\ n >= 1
    BY <1>2 DEF PollFill, BrokerTypeOK
  <2>2. n = orders[o].contracts
    BY <1>0, <2>1 DEF FillSize, Remaining
  <2>3. orders'[o].filled = 0 + n /\ orders'[o].contracts = orders[o].contracts
    BY <1>0, <2>1 DEF Filled, Order
  <2> QED
    BY <1>0, <2>2, <2>3
<1> QED
  BY <1>1, <1>2 DEF Poll

\* Every step keeps the books equal to the fills, the order in work apart.
LEMMA BookStep ==
    ASSUME ~AllowPartial, TypeOK, TypeOK', BookInv, [Next]_vars
    PROVE  BookInv'
<1>0. /\ BrokerTypeOK /\ book \in [PositionId -> Position] /\ todo \subseteq PositionId
      /\ work.order \in OrderId /\ work.pos \in PositionId /\ held \in [PositionId -> Int]
      /\ \A p \in PositionId : book[p].contracts \in Nat
      /\ \A o \in OrderId : orders[o].filled \in Nat /\ orders[o].contracts \in Nat
  BY SizeAssumption DEF TypeOK, Work, Position, BrokerTypeOK, Order
<1>1. ASSUME NEW s \in Snapshot, BeginStep(s) PROVE BookInv'
  BY <1>1 DEF BeginStep, BookInv, Booked, Settled, OpenIds
<1>2. ASSUME NEW p \in PositionId, Hold(p) \/ SubmitRaises(p) PROVE BookInv'
  BY <1>2 DEF Hold, SubmitRaises, BookInv, Booked, Settled, OpenIds
<1>3. ASSUME NEW p \in PositionId, NEW o \in OrderId, SubmitClose(p, o) PROVE BookInv'
  <2>1. /\ pc = "manage" /\ pc' = "close" /\ p \in todo /\ work'.pos = p /\ work'.order = o
        /\ UNCHANGED <<book, todo, held>>
        /\ orders'[o] = NewOrder("CLOSE", book[p].contracts, ExitLimit(snap))
    BY <1>0, <1>3 DEF SubmitClose, Submit, BrokerTypeOK
  <2>2. orders'[o].filled = 0 /\ orders'[o].contracts = book[p].contracts
    BY <2>1 DEF NewOrder
  <2>3. \A q \in PositionId : held[q] = Booked(q) /\ Booked(q)' = Booked(q)
    BY <2>1 DEF BookInv, Settled, Booked
  <2>4. todo \subseteq OpenIds /\ OpenIds' = OpenIds
    BY <2>1 DEF BookInv, OpenIds
  <2>5. Booked(p) \in Int
    BY <1>0 DEF Booked
  <2> QED
    BY <1>0, <2>1, <2>2, <2>3, <2>4, <2>5 DEF BookInv, Settled
<1>4. CASE PollWork
  <2> DEFINE o == work.order
             p == work.pos
             n == orders'[o].filled - orders[o].filled
             delta == (IF pc = "close" THEN -1 ELSE 1) * n
  <2>1. /\ pc \in {"close", "open"} /\ orders[o].filled = 0
        /\ Poll(o, MarketFor(orders[o].intent)) /\ UNCHANGED <<book, pc, todo>>
        /\ work'.pos = p /\ work'.order = o
        /\ held' = [held EXCEPT ![p] = @ + delta]
    BY <1>4 DEF PollWork, RecordFlow, TypeOK, Work
  <2>2. orders'[o].filled \in {0, orders[o].contracts} /\ orders'[o].contracts = orders[o].contracts
    BY <1>0, <2>1, WholeFills, MarketForType
  <2>3. n = orders'[o].filled /\ n \in Int
    BY <1>0, <2>1, <2>2
  <2>4. /\ pc = "close" => held'[p] = held[p] - orders'[o].filled
        /\ pc = "open" => held'[p] = held[p] + orders'[o].filled
    BY <1>0, <2>1, <2>3
  <2>5. \A q \in PositionId : q # p => held'[q] = held[q]
    BY <1>0, <2>1
  <2>6. /\ \A q \in PositionId : Booked(q)' = Booked(q)
        /\ OpenIds' = OpenIds
    BY <2>1 DEF Booked, OpenIds
  <2>7. Booked(p) \in Int /\ held[p] \in Int
    BY <1>0 DEF Booked
  <2> HIDE DEF delta, n
  <2> QED
    BY <1>0, <2>1, <2>2, <2>4, <2>5, <2>6, <2>7 DEF BookInv, Settled
<1>5. CASE CloseFilled
  <2> DEFINE p == work.pos
             ord == orders[work.order]
  <2>1. /\ pc = "close" /\ pc' = "manage" /\ ord.filled > 0 /\ todo' = todo \ {p}
        /\ book' = [book EXCEPT ![p] = BookClosed(book[p], ord)] /\ UNCHANGED <<work, held>>
    BY <1>5 DEF CloseFilled
  <2>2. p \in todo /\ book[p].status = "open" /\ ord.filled = book[p].contracts
    BY <1>0, <2>1 DEF BookInv, OpenIds
  <2>3. held[p] = 0
    BY <1>0, <2>1, <2>2 DEF BookInv, Booked
  <2>4. book'[p].status = "closed" /\ \A q \in PositionId \ {p} : book'[q] = book[q]
    BY <1>0, <2>1 DEF BookClosed, Position
  <2>5. \A q \in PositionId : held'[q] = Booked(q)'
    BY <1>0, <2>1, <2>3, <2>4 DEF BookInv, Booked
  <2>6. todo' \subseteq OpenIds'
    BY <1>0, <2>1, <2>4 DEF BookInv, OpenIds
  <2> QED
    BY <2>1, <2>5, <2>6 DEF BookInv, Settled
<1>6. CASE CloseUnfilled \/ EndStep
  <2>1. /\ pc' \in {"idle", "manage"} /\ todo' \subseteq todo
        /\ UNCHANGED <<book, held, orders, work>>
        /\ pc = "close" => orders[work.order].filled = 0
        /\ pc \in {"close", "manage"}
    BY <1>6 DEF CloseUnfilled, EndStep, brokerVars
  <2>2. \A q \in PositionId : held[q] = Booked(q)
    BY <1>0, <2>1 DEF BookInv, Settled, Booked
  <2> QED
    BY <1>0, <2>1, <2>2 DEF BookInv, Booked, OpenIds, Settled
<1>7. ASSUME NEW p \in PositionId, NEW o \in OrderId, NEW n \in 1..MaxContracts, NEW r \in Rounding,
             SubmitOpen(p, o, n, r)
      PROVE  BookInv'
  <2>1. /\ pc = "manage" /\ pc' = "open" /\ book[p].status = "none"
        /\ work'.pos = p /\ work'.order = o /\ UNCHANGED <<book, todo, held>>
        /\ orders'[o] = NewOrder("OPEN", n, PriceLimit(snap.ask + r))
    BY <1>0, <1>7 DEF SubmitOpen, Submit, BrokerTypeOK
  <2>2. orders'[o].filled = 0
    BY <2>1 DEF NewOrder
  <2>3. \A q \in PositionId : held[q] = Booked(q) /\ Booked(q)' = Booked(q)
    BY <2>1 DEF BookInv, Settled, Booked
  <2>4. Booked(p) = 0
    BY <2>1 DEF Booked
  <2> QED
    BY <2>1, <2>2, <2>3, <2>4 DEF BookInv, Settled
<1>8. CASE OpenFilled
  <2> DEFINE o == work.order
             p == work.pos
             pos == [status |-> "open", contracts |-> orders[o].filled,
                     entry |-> snap.ask, fee |-> orders[o].filled * Fee]
  <2>1. /\ pc = "open" /\ pc' = "idle" /\ book' = [book EXCEPT ![p] = pos]
        /\ UNCHANGED <<held, work>>
    BY <1>8 DEF OpenFilled
  <2>2. book'[p].status = "open" /\ book'[p].contracts = orders[o].filled
        /\ \A q \in PositionId \ {p} : book'[q] = book[q]
    BY <1>0, <2>1
  <2>3. \A q \in PositionId : held'[q] = Booked(q)'
    BY <1>0, <2>1, <2>2 DEF BookInv, Booked
  <2> QED
    BY <2>1, <2>3 DEF BookInv, Settled
<1>9. CASE OpenUnfilled
  <2>1. /\ pc = "open" /\ pc' = "idle" /\ UNCHANGED <<book, held, work>>
        /\ orders[work.order].filled = 0
    BY <1>9 DEF OpenUnfilled
  <2>2. \A q \in PositionId : held'[q] = Booked(q)'
    BY <1>0, <2>1 DEF BookInv, Booked
  <2> QED
    BY <2>1, <2>2 DEF BookInv, Settled
<1>10. CASE Connection \/ UNCHANGED vars
  <2>1. UNCHANGED <<orders, book, pc, todo, work, held>>
    BY <1>10 DEF Connection, Disconnect, Reconnect, execVars, vars, brokerVars
  <2> QED
    BY <2>1 DEF BookInv, Booked, OpenIds, Settled
<1> QED
  BY <1>1, <1>2, <1>3, <1>4, <1>5, <1>6, <1>7, <1>8, <1>9, <1>10 DEF Next

\* With partial fills switched off, the book holds exactly the contracts the fills
\* left in the account, whatever orders failed, expired or were cancelled.
THEOREM BookAlwaysMatchesFills ==
    ASSUME ~AllowPartial
    PROVE  Spec => []BookMatchesFills
<1>1. Init => TypeOK /\ BookInv
  BY TypeInit DEF Init, BookInv, Booked, Settled, NoPosition
<1>2. TypeOK /\ BookInv /\ [Next]_vars => (TypeOK /\ BookInv)'
  BY TypeStep, BookStep
<1>3. BookInv => BookMatchesFills
  BY DEF BookInv, BookMatchesFills, Booked
<1> QED
  BY <1>1, <1>2, <1>3, PTL DEF Spec

----------------------------------------------------------------------------
(* Orders left working *)

\* Orders of one intent that are not being worked are done, or filled in part.
IdleDone(intent) ==
    \A o \in OrderId : (Settled \/ o # work.order) /\ orders[o].intent = intent
                          /\ orders[o].filled = 0 => orders[o].status \notin Live

\* While an order is worked, each poll that neither filled nor ended it has used
\* one of its reprice attempts: the broker gives up by poll MaxReprice + 1.
WorkInv ==
    /\ pc = "close" => orders[work.order].intent = "CLOSE"
    /\ pc = "open" => orders[work.order].intent = "OPEN"
    /\ ~Settled /\ orders[work.order].filled = 0 /\ orders[work.order].status \in Live
          => work.polls <= orders[work.order].attempts
    /\ IdleDone("OPEN")
    /\ MaxPoll > MaxReprice => IdleDone("CLOSE")

\* A worked order is the only one a poll changes, and it keeps its intent.
LEMMA PollWorkEffect ==
    ASSUME TypeOK, PollWork
    PROVE  /\ \A o \in OrderId \ {work.order} : orders'[o] = orders[o]
           /\ orders'[work.order].intent = orders[work.order].intent
           /\ \/ orders'[work.order].status \notin Live
              \/ orders'[work.order].filled > 0
              \/ orders'[work.order].attempts = orders[work.order].attempts + 1
           /\ pc' = pc /\ work'.order = work.order /\ work'.polls = work.polls + 1
           /\ pc \in {"close", "open"} /\ orders[work.order].status \in Live
           /\ orders[work.order].filled = 0
<1> DEFINE o == work.order
           m == MarketFor(orders[o].intent)
<1>1. o \in OrderId /\ m \in Market(Int) /\ Poll(o, m) /\ BrokerTypeOK
  BY MarketForType DEF PollWork, TypeOK, Work
<1>2. /\ pc' = pc /\ work'.order = work.order /\ work'.polls = work.polls + 1
      /\ pc \in {"close", "open"} /\ orders[o].filled = 0
  BY DEF PollWork, TypeOK, Work
<1> HIDE DEF m
<1>3. orders[o] \in Order /\ orders[o].status \in Live
      /\ \A q \in OrderId \ {o} : orders'[q] = orders[q]
  BY <1>1, PollEffect
<1>4. CASE PollMiss(o) \/ PollReject(o)
  <2>1. \/ orders'[o] = Repriced(orders[o])
        \/ \E s \in Terminal : orders'[o] = [orders[o] EXCEPT !.status = s]
    BY <1>1, <1>3, <1>4 DEF PollMiss, PollReject, BrokerTypeOK, Terminal
  <2>2. CASE orders'[o] = Repriced(orders[o])
    BY <1>2, <1>3, <2>2 DEF Repriced, Order
  <2>3. ASSUME NEW s \in Terminal, orders'[o] = [orders[o] EXCEPT !.status = s]
        PROVE  orders'[o].status \notin Live /\ orders'[o].intent = orders[o].intent
    BY <1>3, <2>3 DEF Order, Live, Terminal
  <2> QED
    BY <1>2, <1>3, <2>1, <2>2, <2>3
<1>5. CASE PollFill(o, m)
  <2> DEFINE n == FillSize(orders[o], m.depth)
  <2>1. orders'[o] = Filled(orders[o], n) /\ n >= 1
    BY <1>1, <1>5 DEF PollFill, BrokerTypeOK
  <2>2. n \in 1..MaxContracts
    BY <1>1, <1>3, <2>1, FillSizeBound DEF Market
  <2> HIDE DEF n
  <2>3. orders'[o].filled = orders[o].filled + n /\ orders'[o].intent = orders[o].intent
    BY <1>3, <2>1 DEF Filled, Order
  <2> QED
    BY <1>2, <1>3, <2>2, <2>3
<1> QED
  BY <1>1, <1>4, <1>5 DEF Poll

\* Every step keeps unfilled live orders confined to the one in work.
LEMMA WorkStep == TypeOK /\ TypeOK' /\ WorkInv /\ [Next]_vars => WorkInv'
<1> SUFFICES ASSUME TypeOK, TypeOK', WorkInv, [Next]_vars PROVE WorkInv'
  OBVIOUS
<1>0. /\ BrokerTypeOK /\ work.order \in OrderId /\ work.polls \in Nat /\ work.polls <= MaxPoll
      /\ MaxPoll \in Nat /\ MaxReprice \in Nat
      /\ \A o \in OrderId : orders[o].attempts \in Nat /\ orders[o].attempts <= MaxReprice
  BY PollAssumption, RepriceAssumption DEF TypeOK, Work, BrokerTypeOK, Order
<1>1. CASE \/ \E s \in Snapshot : BeginStep(s)
           \/ \E p \in PositionId : Hold(p) \/ SubmitRaises(p)
           \/ EndStep
  <2>1. Settled /\ Settled' /\ pc' \notin {"close", "open"} /\ orders' = orders
    BY <1>1 DEF BeginStep, Hold, SubmitRaises, EndStep, Settled, brokerVars
  <2> QED
    BY <2>1 DEF WorkInv, IdleDone
<1>2. ASSUME NEW p \in PositionId, NEW o \in OrderId, SubmitClose(p, o) PROVE WorkInv'
  <2>1. /\ Settled /\ pc' = "close" /\ work'.order = o /\ work'.polls = 0
        /\ orders' = [orders EXCEPT ![o] = NewOrder("CLOSE", book[p].contracts, ExitLimit(snap))]
    BY <1>2 DEF SubmitClose, Submit, Settled
  <2>2. /\ orders'[o].intent = "CLOSE" /\ orders'[o].attempts = 0
        /\ \A q \in OrderId \ {o} : orders'[q] = orders[q]
    BY <1>0, <2>1 DEF NewOrder, BrokerTypeOK
  <2> QED
    BY <2>1, <2>2 DEF WorkInv, IdleDone, Settled
<1>3. ASSUME NEW p \in PositionId, NEW o \in OrderId, NEW n \in 1..MaxContracts, NEW r \in Rounding,
             SubmitOpen(p, o, n, r)
      PROVE  WorkInv'
  <2>1. /\ Settled /\ pc' = "open" /\ work'.order = o /\ work'.polls = 0
        /\ orders' = [orders EXCEPT ![o] = NewOrder("OPEN", n, PriceLimit(snap.ask + r))]
    BY <1>3 DEF SubmitOpen, Submit, Settled
  <2>2. /\ orders'[o].intent = "OPEN" /\ orders'[o].attempts = 0
        /\ \A q \in OrderId \ {o} : orders'[q] = orders[q]
    BY <1>0, <2>1 DEF NewOrder, BrokerTypeOK
  <2> QED
    BY <2>1, <2>2 DEF WorkInv, IdleDone, Settled
<1>4. CASE PollWork
  BY <1>0, <1>4, PollWorkEffect DEF WorkInv, IdleDone, Settled
<1>5. CASE CloseFilled
  <2>1. /\ pc = "close" /\ pc' = "manage" /\ orders' = orders /\ work' = work
        /\ orders[work.order].filled > 0
    BY <1>5 DEF CloseFilled, SettlePosition
  <2> QED
    BY <1>0, <2>1 DEF WorkInv, IdleDone, Settled
<1>6. CASE CloseUnfilled
  <2>1. /\ pc = "close" /\ pc' = "manage" /\ orders' = orders /\ work' = work
        /\ orders[work.order].filled = 0
        /\ work.polls = MaxPoll \/ orders[work.order].status \in Terminal
    BY <1>6 DEF CloseUnfilled, LoopDone, brokerVars
  <2>2. MaxPoll > MaxReprice => orders[work.order].status \notin Live
    BY <1>0, <2>1 DEF WorkInv, Settled, Live, Terminal
  <2> QED
    BY <1>0, <2>1, <2>2 DEF WorkInv, IdleDone, Settled
<1>7. CASE OpenFilled
  <2>1. /\ pc = "open" /\ pc' = "idle" /\ orders' = orders /\ work' = work
        /\ orders[work.order].filled > 0
    BY <1>7 DEF OpenFilled, RegisterPosition
  <2> QED
    BY <1>0, <2>1 DEF WorkInv, IdleDone, Settled
<1>8. CASE OpenUnfilled
  <2>1. pc = "open" /\ pc' = "idle" /\ work' = work
    BY <1>8 DEF OpenUnfilled
  <2>2. /\ \A q \in OrderId \ {work.order} : orders'[q] = orders[q]
        /\ orders'[work.order].status \notin Live
    BY <1>0, <1>8 DEF OpenUnfilled, Cancel, brokerVars, BrokerTypeOK, Order, Live
  <2> QED
    BY <1>0, <2>1, <2>2 DEF WorkInv, IdleDone, Settled
<1>9. CASE Connection \/ UNCHANGED vars
  <2>1. UNCHANGED <<orders, pc, work>>
    BY <1>9 DEF Connection, Disconnect, Reconnect, execVars, vars, brokerVars
  <2> QED
    BY <2>1 DEF WorkInv, IdleDone, Settled
<1> QED
  BY <1>1, <1>2, <1>3, <1>4, <1>5, <1>6, <1>7, <1>8, <1>9 DEF Next

\* Outside the order in work no unfilled order is live.
LEMMA WorkInvariant ==
    /\ Init => TypeOK /\ WorkInv
    /\ TypeOK /\ WorkInv /\ [Next]_vars => (TypeOK /\ WorkInv)'
<1>1. Init => TypeOK /\ WorkInv
  BY TypeInit DEF Init, BrokerInit, NoOrder, WorkInv, IdleDone, Settled, Live
<1>2. TypeOK /\ WorkInv /\ [Next]_vars => (TypeOK /\ WorkInv)'
  BY TypeStep, WorkStep
<1> QED
  BY <1>1, <1>2

\* Whatever the poll and reprice budgets are, no unfilled opening order outlives
\* the cycle that sent it; a close, which nobody cancels, ends with its loop as
\* long as the loop polls more often than the broker reprices.
THEOREM OrdersEndWithTheirCycle == Spec => []NothingLeftWorking
<1>1. WorkInv => NothingLeftWorking
  BY DEF WorkInv, IdleDone, NothingLeftWorking, LeftWorking
<1> QED
  BY <1>1, WorkInvariant, PTL DEF Spec

----------------------------------------------------------------------------
(* The equity and the cash *)

\* What a position cost to enter.
EntryCost == [p \in PositionId |-> book[p].entry * book[p].contracts]

\* What the open positions cost to enter.
Invested == SumFunctionOnSet(EntryCost, OpenIds)

\* What the order in work has traded and the books do not show yet.
Pending ==
    LET ord == orders[work.order]
    IN  IF pc = "open" THEN ord.filled * snap.ask
        ELSE IF pc = "close" THEN ord.filled * (Fee - snap.bid) ELSE 0

\* EquityNeverOverstated while positions are open and orders are worked: the equity
\* is at most the cash plus what the open positions cost; an order that closes fills
\* at a price no worse than the limit the close is then booked at.
EquityInv ==
    /\ IsFiniteSet(OpenIds)
    /\ \A p \in PositionId : book[p].fee >= 0
    /\ pc = "close" /\ orders[work.order].filled > 0 => 0 <= snap.bid + orders[work.order].limit
    /\ equity <= StartingEquity + cash + Invested + Pending

\* What a position cost is a number.
LEMMA EntryCostType ==
    ASSUME NEW pos \in Position
    PROVE  pos.entry * pos.contracts \in Int
<1>1. pos.entry \in Int /\ pos.contracts \in Int
  BY SizeAssumption DEF Position
<1> QED
  BY <1>1

\* What the positions cost is a number, one by one and together.
LEMMA InvestedType ==
    ASSUME TypeOK, IsFiniteSet(OpenIds)
    PROVE  /\ EntryCost \in [PositionId -> Int]
           /\ Invested \in Int
<1>1. ASSUME NEW p \in PositionId PROVE book[p].entry * book[p].contracts \in Int
  BY EntryCostType DEF TypeOK
<1>2. EntryCost \in [PositionId -> Int]
  BY <1>1 DEF EntryCost
<1>3. \A p \in OpenIds : EntryCost[p] \in Int
  BY <1>2 DEF OpenIds
<1> QED
  BY <1>2, <1>3, SumType DEF Invested

\* A position that joins the open ones adds what it cost.
LEMMA InvestedGrows ==
    ASSUME TypeOK, TypeOK', IsFiniteSet(OpenIds), NEW p \in PositionId, p \notin OpenIds,
           book'[p].status = "open", \A q \in PositionId \ {p} : book'[q] = book[q]
    PROVE  /\ IsFiniteSet(OpenIds')
           /\ Invested' = Invested + book'[p].entry * book'[p].contracts
<1>1. OpenIds' = OpenIds \cup {p} /\ OpenIds' \ {p} = OpenIds
  BY DEF OpenIds
<1>2. IsFiniteSet(OpenIds')
  BY <1>1, FS_AddElement
<1>3. \A q \in OpenIds' : EntryCost'[q] \in Int
  BY EntryCostType DEF TypeOK, OpenIds, EntryCost
<1>4. Invested' = EntryCost'[p] + SumFunctionOnSet(EntryCost', OpenIds)
  BY <1>1, <1>2, <1>3, SumSplit DEF Invested
<1>5. \A q \in OpenIds : EntryCost'[q] = EntryCost[q]
  BY DEF EntryCost, OpenIds
<1>6. SumFunctionOnSet(EntryCost', OpenIds) = Invested
  BY <1>5, SumAgree DEF Invested
<1>7. EntryCost'[p] = book'[p].entry * book'[p].contracts /\ EntryCost'[p] \in Int
  BY <1>1, <1>3 DEF EntryCost
<1>8. Invested \in Int
  BY InvestedType
<1> QED
  BY <1>2, <1>4, <1>6, <1>7, <1>8

\* A position that leaves the open ones takes along what it cost.
LEMMA InvestedShrinks ==
    ASSUME TypeOK, IsFiniteSet(OpenIds), NEW p \in OpenIds,
           book'[p].status # "open", \A q \in PositionId \ {p} : book'[q] = book[q]
    PROVE  /\ IsFiniteSet(OpenIds')
           /\ Invested = Invested' + book[p].entry * book[p].contracts
<1>1. OpenIds' = OpenIds \ {p} /\ p \in PositionId
  BY DEF OpenIds
<1>2. IsFiniteSet(OpenIds')
  BY <1>1, FS_RemoveElement
<1>3. \A q \in OpenIds : EntryCost[q] \in Int
  BY InvestedType DEF OpenIds
<1>4. Invested = EntryCost[p] + SumFunctionOnSet(EntryCost, OpenIds')
  BY <1>1, <1>3, SumSplit DEF Invested
<1>5. \A q \in OpenIds' : EntryCost'[q] = EntryCost[q] /\ EntryCost[q] \in Int
  BY <1>1, <1>3 DEF EntryCost, OpenIds
<1>6. SumFunctionOnSet(EntryCost, OpenIds') = Invested' /\ SumFunctionOnSet(EntryCost, OpenIds') \in Int
  BY <1>2, <1>5, SumAgree, SumType DEF Invested
<1>7. EntryCost[p] = book[p].entry * book[p].contracts /\ EntryCost[p] \in Int
  BY <1>1, <1>3 DEF EntryCost
<1> QED
  BY <1>2, <1>4, <1>6, <1>7

\* The numbers the books, the orders and the snapshot hold.
LEMMA BookTypes ==
    ASSUME TypeOK
    PROVE  /\ \A p \in PositionId : book[p].contracts \in Nat /\ book[p].fee \in Int /\ book[p].entry \in Int
           /\ \A o \in OrderId : orders[o].filled \in Nat /\ orders[o].limit \in Int
           /\ snap.bid \in Int /\ snap.ask \in Int
           /\ BrokerTypeOK' => \A o \in OrderId : orders'[o].filled \in Nat /\ orders'[o].limit \in Int
<1>1. 0..MaxContracts \subseteq Nat
  BY SizeAssumption
<1>2. \A p \in PositionId : book[p].contracts \in Nat /\ book[p].fee \in Int /\ book[p].entry \in Int
  BY <1>1 DEF TypeOK, Position
<1>3. \A o \in OrderId : orders[o].filled \in Nat /\ orders[o].limit \in Int
  BY <1>1 DEF TypeOK, BrokerTypeOK, Order
<1>4. snap.bid \in Int /\ snap.ask \in Int
  BY QuoteAssumption DEF TypeOK, Snapshot
<1>5. BrokerTypeOK' => \A o \in OrderId : orders'[o].filled \in Nat /\ orders'[o].limit \in Int
  BY <1>1 DEF BrokerTypeOK, Order
<1> QED
  BY <1>2, <1>3, <1>4, <1>5

\* What a turn of a polling loop trades, it trades at the price of the snapshot, and
\* within the limit the order has then.
LEMMA PollWorkFlow ==
    ASSUME TypeOK, TypeOK', WorkInv, PollWork
    PROVE  LET o == work.order
               n == orders'[o].filled
           IN  /\ n \in Nat /\ orders[o].filled = 0
               /\ pc = "close" => cash' = cash + n * snap.bid - n * Fee /\ equity' = equity
               /\ pc = "open" => cash' = cash - n * snap.ask - n * Fee /\ equity' = equity - n * Fee
               /\ pc = "close" /\ n > 0 => 0 <= snap.bid + orders'[o].limit
<1> DEFINE o == work.order
           n == orders'[o].filled
           m == MarketFor(orders[o].intent)
<1>0. /\ o \in OrderId /\ orders[o].filled = 0 /\ pc \in {"close", "open"} /\ Poll(o, m)
      /\ cash' = cash - (n - 0) * m.price - (n - 0) * Fee
      /\ BrokerTypeOK /\ BrokerTypeOK' /\ m \in Market(Int)
      /\ cash \in Int /\ equity \in Int /\ Fee \in Int
  BY MarketForType, AccountAssumption DEF PollWork, RecordFlow, TypeOK, Work, BrokerTypeOK
<1>1. n \in Nat /\ snap.bid \in Int /\ snap.ask \in Int /\ orders[o] \in Order
  BY <1>0, BookTypes DEF BrokerTypeOK
<1>2. m.price = IF pc = "close" THEN -snap.bid ELSE snap.ask
  BY <1>0 DEF WorkInv, MarketFor
<1>3. orders[o].intent = IF pc = "close" THEN "CLOSE" ELSE "OPEN"
  BY <1>0 DEF WorkInv
<1>4. /\ n * Fee \in Int /\ n * snap.bid \in Int /\ n * snap.ask \in Int
      /\ n * (-snap.bid) = -(n * snap.bid)
  BY <1>0, <1>1
<1>5. CASE PollMiss(o) \/ PollReject(o)
  <2>1. \/ orders'[o] = Repriced(orders[o])
        \/ \E s \in Terminal : orders'[o] = [orders[o] EXCEPT !.status = s]
    BY <1>0, <1>5 DEF PollMiss, PollReject, BrokerTypeOK, Terminal
  <2>2. n = 0
    BY <1>0, <1>1, <2>1 DEF Repriced, Order
  <2>3. equity' = equity
    BY <1>5 DEF PollMiss, PollReject
  <2>4. n * Fee = 0 /\ n * snap.bid = 0 /\ n * snap.ask = 0 /\ n * m.price = 0
    BY <1>0, <1>1, <1>2, <2>2
  <2> HIDE DEF n, m
  <2> QED
    BY <1>0, <1>1, <2>2, <2>3, <2>4 DEF n
<1>6. CASE PollFill(o, m)
  <2> DEFINE k == FillSize(orders[o], m.depth)
  <2>1. /\ orders'[o] = Filled(orders[o], k) /\ m.price <= orders[o].limit
        /\ equity' = IF orders[o].intent = "OPEN" THEN equity - k * Fee ELSE equity
    BY <1>0, <1>6 DEF PollFill, BrokerTypeOK, Acceptable
  <2>2. k \in 1..MaxContracts
    BY <1>0, <1>1, <1>6, FillSizeBound DEF PollFill, Market
  <2> HIDE DEF k
  <2>3. n = k /\ orders'[o].limit = orders[o].limit /\ orders[o].limit \in Int
    BY <1>0, <1>1, <2>1, <2>2 DEF Filled, Order
  <2>4. pc = "close" => 0 <= snap.bid + orders'[o].limit
    BY <1>1, <1>2, <2>1, <2>3
  <2> HIDE DEF n, m
  <2>5. /\ pc = "close" => cash' = cash + n * snap.bid - n * Fee /\ equity' = equity
        /\ pc = "open" => cash' = cash - n * snap.ask - n * Fee /\ equity' = equity - n * Fee
    BY <1>0, <1>1, <1>2, <1>3, <1>4, <2>1, <2>3
  <2> QED
    BY <1>0, <1>1, <2>4, <2>5 DEF n
<1> QED
  BY <1>0, <1>5, <1>6 DEF Poll

\* Every step keeps the equity below what the account and the positions are worth.
LEMMA EquityStep ==
    ASSUME ~AllowPartial, TypeOK, TypeOK', BookInv, WorkInv, EquityInv, [Next]_vars
    PROVE  EquityInv'
<1>0. /\ BrokerTypeOK /\ book \in [PositionId -> Position] /\ todo \subseteq PositionId
      /\ work.order \in OrderId /\ work.pos \in PositionId
      /\ cash \in Int /\ equity \in Int /\ Fee \in Nat /\ StartingEquity \in Int
      /\ snap.bid \in Int /\ snap.ask \in Int
      /\ Invested \in Int
      /\ \A p \in PositionId : book[p].contracts \in Nat /\ book[p].fee \in Int /\ book[p].entry \in Int
      /\ \A o \in OrderId : orders[o].filled \in Nat /\ orders[o].limit \in Int
  BY BookTypes, InvestedType, AccountAssumption DEF TypeOK, Work, BrokerTypeOK, EquityInv
<1>1. ASSUME Settled, Settled', UNCHANGED <<book, cash, equity>> PROVE EquityInv'
  <2>1. OpenIds' = OpenIds /\ Invested' = Invested
    BY <1>1 DEF OpenIds, Invested, EntryCost
  <2>2. Pending = 0 /\ Pending' = 0 /\ pc' # "close"
    BY <1>1 DEF Pending, Settled
  <2> QED
    BY <1>1, <2>1, <2>2 DEF EquityInv
<1>2. CASE \/ \E s \in Snapshot : BeginStep(s)
           \/ \E p \in PositionId : Hold(p) \/ SubmitRaises(p)
           \/ EndStep
  <2>1. Settled /\ Settled' /\ UNCHANGED <<book, cash, equity>>
    BY <1>2 DEF BeginStep, Hold, SubmitRaises, EndStep, Settled, brokerVars
  <2> QED
    BY <1>1, <2>1
<1>3. ASSUME NEW p \in PositionId, NEW o \in OrderId,
             \/ SubmitClose(p, o)
             \/ \E n \in 1..MaxContracts, r \in Rounding : SubmitOpen(p, o, n, r)
      PROVE  EquityInv'
  <2>1. /\ Settled /\ UNCHANGED <<book, cash, equity, snap>> /\ pc' \in {"open", "close"}
        /\ work'.order = o /\ orders'[o].filled = 0
    BY <1>0, <1>3 DEF SubmitClose, SubmitOpen, Submit, Settled, NewOrder, BrokerTypeOK
  <2>2. OpenIds' = OpenIds /\ Invested' = Invested
    BY <2>1 DEF OpenIds, Invested, EntryCost
  <2>3. Pending = 0 /\ Pending' = 0
    BY <1>0, <2>1 DEF Pending, Settled
  <2> QED
    BY <2>1, <2>2, <2>3 DEF EquityInv
<1>4. CASE PollWork
  <2> DEFINE n == orders'[work.order].filled
  <2>1. /\ pc \in {"close", "open"} /\ UNCHANGED <<book, snap, pc>> /\ work'.order = work.order
    BY <1>4 DEF PollWork, TypeOK, Work
  <2>2. OpenIds' = OpenIds /\ Invested' = Invested
    BY <2>1 DEF OpenIds, Invested, EntryCost
  <2>3. /\ n \in Nat /\ orders[work.order].filled = 0
        /\ pc = "close" => cash' = cash + n * snap.bid - n * Fee /\ equity' = equity
        /\ pc = "open" => cash' = cash - n * snap.ask - n * Fee /\ equity' = equity - n * Fee
        /\ pc = "close" /\ n > 0 => 0 <= snap.bid + orders'[work.order].limit
    BY <1>4, PollWorkFlow
  <2>4. Pending = 0
    BY <1>0, <2>3 DEF Pending
  <2>5. Pending' = IF pc = "open" THEN n * snap.ask ELSE n * (Fee - snap.bid)
    BY <2>1 DEF Pending
  <2>6. n * (Fee - snap.bid) = n * Fee - n * snap.bid
    BY <1>0, <2>3
  <2>7. n * Fee \in Int /\ n * snap.bid \in Int /\ n * snap.ask \in Int
    BY <1>0, <2>3
  <2>8. equity <= StartingEquity + cash + Invested + Pending
    BY DEF EquityInv
  <2>9. equity' <= StartingEquity + cash' + Invested' + Pending'
    <3> HIDE DEF n
    <3> QED
      BY <1>0, <2>1, <2>2, <2>3, <2>4, <2>5, <2>6, <2>7, <2>8
  <2> QED
    BY <2>1, <2>2, <2>3, <2>9 DEF EquityInv
<1>5. CASE CloseFilled
  <2> DEFINE p == work.pos
             ord == orders[work.order]
             k == ord.filled
  <2>1. /\ pc = "close" /\ pc' = "manage" /\ k > 0 /\ cash' = cash
        /\ book' = [book EXCEPT ![p] = BookClosed(book[p], ord)]
        /\ equity' = equity + ClosePnl(book[p], ord)
    BY <1>5 DEF CloseFilled, SettlePosition
  <2>2. p \in OpenIds /\ k = book[p].contracts
    BY <1>0, <2>1 DEF BookInv, OpenIds
  <2>3. /\ book'[p].status = "closed" /\ book'[p].fee = book[p].fee
        /\ \A q \in PositionId \ {p} : book'[q] = book[q]
    BY <1>0, <2>1 DEF BookClosed, Position
  <2>4. IsFiniteSet(OpenIds') /\ Invested = Invested' + book[p].entry * book[p].contracts
    BY <2>2, <2>3, InvestedShrinks DEF EquityInv
  <2>5. ClosePnl(book[p], ord) = (-ord.limit - book[p].entry) * k - book[p].fee - k * Fee
    BY <2>2 DEF ClosePnl
  <2>6. (-ord.limit - book[p].entry) * k = -(k * ord.limit) - book[p].entry * k
    BY <1>0
  <2>7. Pending = k * Fee - k * snap.bid /\ Pending' = 0
    BY <1>0, <2>1 DEF Pending
  <2>8. 0 <= k * (snap.bid + ord.limit) /\ k * (snap.bid + ord.limit) = k * snap.bid + k * ord.limit
    BY <1>0, <2>1 DEF EquityInv
  <2>9. /\ k * Fee \in Int /\ k * snap.bid \in Int /\ k * ord.limit \in Int
        /\ book[p].entry * k \in Int /\ book[p].fee \in Int /\ book[p].fee >= 0
    BY <1>0 DEF EquityInv
  <2>10. Invested' \in Int
    BY <2>4, InvestedType, EntryCostType, SumType DEF Invested, TypeOK, EntryCost, OpenIds
  <2>11. equity <= StartingEquity + cash + Invested + Pending
    BY DEF EquityInv
  <2>12. equity' <= StartingEquity + cash' + Invested' + Pending'
    <3> HIDE DEF ord, p, k
    <3> QED
      BY <1>0, <2>1, <2>2, <2>4, <2>5, <2>6, <2>7, <2>8, <2>9, <2>10, <2>11
  <2>13. \A q \in PositionId : book'[q].fee >= 0
    BY <1>0, <2>3 DEF EquityInv
  <2> QED
    BY <2>1, <2>4, <2>12, <2>13 DEF EquityInv
<1>6. CASE CloseUnfilled \/ OpenUnfilled
  <2>1. /\ Settled' /\ UNCHANGED <<book, cash, equity>> /\ orders[work.order].filled = 0
        /\ ~Settled
    BY <1>6 DEF CloseUnfilled, OpenUnfilled, Cancel, brokerVars, Settled
  <2>2. OpenIds' = OpenIds /\ Invested' = Invested
    BY <2>1 DEF OpenIds, Invested, EntryCost
  <2>3. Pending = 0 /\ Pending' = 0 /\ pc' # "close"
    BY <1>0, <2>1 DEF Pending, Settled
  <2> QED
    BY <2>1, <2>2, <2>3 DEF EquityInv
<1>7. CASE OpenFilled
  <2> DEFINE o == work.order
             p == work.pos
             pos == [status |-> "open", contracts |-> orders[o].filled,
                     entry |-> snap.ask, fee |-> orders[o].filled * Fee]
  <2>1. /\ pc = "open" /\ pc' = "idle" /\ book' = [book EXCEPT ![p] = pos]
        /\ UNCHANGED <<cash, equity>>
    BY <1>7 DEF OpenFilled, RegisterPosition
  <2>2. /\ book'[p] = pos
        /\ \A q \in PositionId \ {p} : book'[q] = book[q]
    BY <1>0, <2>1
  <2>3. p \notin OpenIds
    BY <2>1 DEF BookInv, OpenIds
  <2>4. IsFiniteSet(OpenIds') /\ Invested' = Invested + snap.ask * orders[o].filled
    BY <1>0, <2>2, <2>3, InvestedGrows DEF EquityInv
  <2>5. Pending = orders[o].filled * snap.ask /\ Pending' = 0
    BY <2>1 DEF Pending
  <2>6. snap.ask * orders[o].filled = orders[o].filled * snap.ask /\ orders[o].filled * Fee >= 0
    BY <1>0
  <2>7. \A q \in PositionId : book'[q].fee >= 0
    BY <1>0, <2>2, <2>6 DEF EquityInv
  <2>8. equity <= StartingEquity + cash + Invested + Pending
    BY DEF EquityInv
  <2>9. snap.ask * orders[o].filled \in Int
    BY <1>0
  <2>10. equity' <= StartingEquity + cash' + Invested' + Pending'
    BY <1>0, <2>1, <2>4, <2>5, <2>6, <2>8, <2>9
  <2> QED
    BY <2>1, <2>4, <2>7, <2>10 DEF EquityInv
<1>8. CASE Connection \/ UNCHANGED vars
  <2>1. UNCHANGED <<orders, book, pc, work, snap, cash, equity>>
    BY <1>8 DEF Connection, Disconnect, Reconnect, execVars, vars, brokerVars
  <2> QED
    BY <2>1 DEF EquityInv, OpenIds, Invested, EntryCost, Pending
<1> QED
  BY <1>2, <1>3, <1>4, <1>5, <1>6, <1>7, <1>8 DEF Next

\* With partial fills switched off, and whatever the quotes do between an open and its
\* close, an account without open positions has at least the equity the risk limits are
\* computed from: every cycle books its closes at the limit and pays each commission.
THEOREM EquityStaysBelowCash ==
    ASSUME ~AllowPartial
    PROVE  Spec => []EquityNeverOverstated
<1> DEFINE Inv == TypeOK /\ BookInv /\ WorkInv /\ EquityInv
<1>1. Init => Inv
  <2> SUFFICES ASSUME Init PROVE Inv
    OBVIOUS
  <2>1. TypeOK /\ BookInv /\ WorkInv
    BY TypeInit, WorkInvariant DEF Init, BookInv, Booked, Settled, NoPosition
  <2>2. OpenIds = {} /\ pc = "idle" /\ cash = 0 /\ equity = StartingEquity
    BY DEF Init, BrokerInit, OpenIds, NoPosition
  <2>3. Invested = 0 /\ Pending = 0 /\ IsFiniteSet(OpenIds)
    BY <2>2, SumEmpty, FS_EmptySet DEF Invested, Pending
  <2>4. \A p \in PositionId : book[p].fee >= 0
    BY DEF Init, NoPosition
  <2> QED
    BY <2>1, <2>2, <2>3, <2>4, AccountAssumption DEF EquityInv
<1>2. Inv /\ [Next]_vars => Inv'
  BY TypeStep, BookStep, WorkStep, EquityStep
<1>3. Inv => EquityNeverOverstated
  <2> SUFFICES ASSUME Inv, Settled, OpenIds = {} PROVE equity <= StartingEquity + cash
    BY DEF EquityNeverOverstated
  <2>1. Invested = 0 /\ Pending = 0
    BY SumEmpty DEF Invested, Pending, Settled
  <2> QED
    BY <2>1, AccountAssumption DEF EquityInv, TypeOK, BrokerTypeOK
<1> QED
  BY <1>1, <1>2, <1>3, PTL DEF Spec
=============================================================================
