---------------------------- MODULE PaperBroker ----------------------------
(***************************************************************************)
(* The simulated broker of spy_der/execution/paper_broker.py: a dictionary *)
(* of multi-leg orders, the fills made against them, the positions that    *)
(* were registered, the account equity and a connection flag.  Prices are  *)
(* integers in ticks, net per structure, signed as in _achievable_price:   *)
(* lower is always better for the account, a debit is positive and a       *)
(* credit negative.                                                        *)
(*                                                                         *)
(* What the random generator, the quotes and the depth decide is chosen    *)
(* nondeterministically; fill_probability is clipped to [0.05, 0.99], so   *)
(* both outcomes of a draw are always possible.                            *)
(***************************************************************************)
EXTENDS Integers, FiniteSets

CONSTANTS
    OrderId,        \* identifiers the client may submit under (uuid4 in the code)
    PositionId,     \* identifiers of positions
    MaxContracts,   \* largest order size (TradeLimits.max_contracts)
    MaxReprice,     \* PaperBrokerConfig.max_reprice_attempts
    Concession,     \* reprice_step * leg_count, in ticks
    AllowPartial,   \* PaperBrokerConfig.allow_partial_fills
    Fee,            \* commission and fees of one structure, in ticks
    StartingEquity  \* PaperBrokerConfig.starting_equity, in ticks

ASSUME SizeAssumption     == MaxContracts \in Nat \ {0}
ASSUME RepriceAssumption  == MaxReprice \in Nat /\ Concession \in Nat \ {0}
ASSUME AccountAssumption  == Fee \in Nat /\ StartingEquity \in Int
ASSUME PartialAssumption  == AllowPartial \in BOOLEAN

VARIABLES
    orders,     \* PaperBroker.orders
    fills,      \* PaperBroker.fills
    positions,  \* PaperBroker._positions
    equity,     \* PaperBroker.equity
    connected,  \* PaperBroker.connected
    asked,      \* history: the limit each order was submitted with
    polls       \* history: how often each live order has been polled

brokerVars == <<orders, fills, positions, equity, connected, asked, polls>>

----------------------------------------------------------------------------
(* Records *)

Live     == {"WORKING", "PARTIALLY_FILLED"}

Terminal == {"FILLED", "CANCELLED", "REJECTED", "EXPIRED"}

\* An identifier that is not a key of the orders dictionary is "ABSENT".
Order == [intent   : {"OPEN", "CLOSE"},
          contracts: 0..MaxContracts,
          limit    : Int,
          status   : Live \cup Terminal \cup {"ABSENT"},
          filled   : 0..MaxContracts,
          attempts : 0..MaxReprice]

NoOrder == [intent |-> "OPEN", contracts |-> 0, limit |-> 0,
            status |-> "ABSENT", filled |-> 0, attempts |-> 0]

\* A fill; upto is the order's filled_contracts once this fill is in.
Fill == [order: OrderId, contracts: 1..MaxContracts, upto: 1..MaxContracts, price: Int]

\* A position as the books keep it: its size, entry price and entry commission.
Position == [status   : {"none", "open", "closed"},
             contracts: 0..MaxContracts,
             entry    : Int,
             fee      : Int]

NoPosition == [status |-> "none", contracts |-> 0, entry |-> 0, fee |-> 0]

\* What one snapshot tells the broker about an order's legs: whether all are
\* quoted, the achievable net price and the depth in whole structures.
Market(P) == [quoted: BOOLEAN, price: P, depth: 0..MaxContracts]

Remaining(ord) == ord.contracts - ord.filled

NewOrder(intent, n, limit) ==
    [intent |-> intent, contracts |-> n, limit |-> limit,
     status |-> "WORKING", filled |-> 0, attempts |-> 0]

\* Types of the broker's state.
BrokerTypeOK ==
    /\ orders    \in [OrderId -> Order]
    /\ fills     \subseteq Fill
    /\ positions \in [PositionId -> Position]
    /\ equity    \in Int
    /\ connected \in BOOLEAN
    /\ asked     \in [OrderId -> Int]
    /\ polls     \in [OrderId -> Nat]

----------------------------------------------------------------------------
(* Pricing and sizing of one poll *)

\* The comparison turned round for credits.
AcceptableBySign(ord, price) == IF ord.limit >= 0 THEN price <= ord.limit ELSE price >= ord.limit

Acceptable(ord, price) == price <= ord.limit

\* Fill whatever is there, even with partial fills switched off.
FillSizeIgnoringConfig(ord, depth) == IF depth >= Remaining(ord) THEN Remaining(ord) ELSE depth

\* Fill the size of the order, not what remains of it.
FillSizeOfWholeOrder(ord, depth) ==
    IF depth >= ord.contracts THEN ord.contracts ELSE IF AllowPartial THEN depth ELSE 0

FillSize(ord, depth) ==
    IF depth >= Remaining(ord) THEN Remaining(ord)
    ELSE IF AllowPartial THEN depth ELSE 0

Exhausted(ord) == ord.attempts >= MaxReprice

\* The limit moves away from zero whatever its sign.
RepricedLimit(ord) ==
    IF ord.limit >= 0 THEN ord.limit + Concession ELSE ord.limit - Concession

\* Repricing that forgets to count the attempt.
RepricedForFree(ord) == [ord EXCEPT !.status = "WORKING", !.limit = RepricedLimit(ord)]

Repriced(ord) ==
    [ord EXCEPT !.status = "WORKING", !.limit = RepricedLimit(ord), !.attempts = @ + 1]

Filled(ord, n) ==
    [ord EXCEPT !.status = IF ord.filled + n >= ord.contracts
                           THEN "FILLED" ELSE "PARTIALLY_FILLED",
                !.filled = @ + n]

----------------------------------------------------------------------------
(* Operations *)

BrokerInit ==
    /\ orders    = [o \in OrderId |-> NoOrder]
    /\ fills     = {}
    /\ positions = [p \in PositionId |-> NoPosition]
    /\ equity    = StartingEquity
    /\ connected = TRUE
    /\ asked     = [o \in OrderId |-> 0]
    /\ polls     = [o \in OrderId |-> 0]

\* submit: refused when disconnected or when the identifier is taken.
Submit(o, intent, n, limit) ==
    /\ connected
    /\ orders[o].status = "ABSENT"
    /\ orders' = [orders EXCEPT ![o] = NewOrder(intent, n, limit)]
    /\ asked'  = [asked EXCEPT ![o] = limit]
    /\ UNCHANGED <<fills, positions, equity, connected, polls>>

\* poll, "one or more legs are not quoted".
PollReject(o) ==
    /\ orders' = [orders EXCEPT ![o].status = "REJECTED"]
    /\ UNCHANGED <<fills, equity>>

\* _reprice_or_expire
PollMiss(o) ==
    /\ orders' = [orders EXCEPT ![o] = IF Exhausted(@) THEN [@ EXCEPT !.status = "EXPIRED"]
                                       ELSE Repriced(@)]
    /\ UNCHANGED <<fills, equity>>

\* _record_fill; the commission of an opening fill leaves the account at once.
PollFill(o, m) ==
    LET ord == orders[o]
        n   == FillSize(ord, m.depth)
    IN  /\ Acceptable(ord, m.price)
        /\ n >= 1
        /\ orders' = [orders EXCEPT ![o] = Filled(ord, n)]
        /\ fills'  = fills \cup {[order |-> o, contracts |-> n,
                                  upto |-> ord.filled + n, price |-> m.price]}
        /\ equity' = IF ord.intent = "OPEN" THEN equity - n * Fee ELSE equity

\* poll of a live order (a terminal or unknown one changes nothing).  A miss is
\* always possible: the draw may exceed the fill probability.
Poll(o, m) ==
    /\ orders[o].status \in Live
    /\ IF m.quoted THEN PollMiss(o) \/ PollFill(o, m) ELSE PollReject(o)
    /\ polls' = [polls EXCEPT ![o] = @ + 1]
    /\ UNCHANGED <<positions, connected, asked>>

\* A cancel that does not look at the order's status.
CancelAnything(o) ==
    /\ orders[o].status # "ABSENT"
    /\ orders' = [orders EXCEPT ![o].status = "CANCELLED"]
    /\ UNCHANGED <<fills, positions, equity, connected, asked, polls>>

\* cancel of a live order (a terminal one is returned as it is).
Cancel(o) ==
    /\ orders[o].status \in Live
    /\ orders' = [orders EXCEPT ![o].status = "CANCELLED"]
    /\ UNCHANGED <<fills, positions, equity, connected, asked, polls>>

RegisterPosition(p, pos) ==
    /\ positions' = [positions EXCEPT ![p] = pos]
    /\ UNCHANGED <<orders, fills, equity, connected, asked, polls>>

SettlePosition(p, pos, pnl) ==
    /\ positions' = [positions EXCEPT ![p] = pos]
    /\ equity'    = equity + pnl
    /\ UNCHANGED <<orders, fills, connected, asked, polls>>

Disconnect ==
    /\ connected
    /\ connected' = FALSE
    /\ UNCHANGED <<orders, fills, positions, equity, asked, polls>>

Reconnect ==
    /\ ~connected
    /\ connected' = TRUE
    /\ UNCHANGED <<orders, fills, positions, equity, asked, polls>>
=============================================================================
