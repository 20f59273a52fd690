----------------------------- MODULE Execution -----------------------------
(***************************************************************************)
(* How a decision cycle trades (spy_der/pipeline.py with                   *)
(* execution/orders.py and execution/manager.py): every open position is   *)
(* visited and closed if an exit is signalled, then at most one approved   *)
(* candidate is opened.  Each order is submitted, polled at most MaxPoll   *)
(* times against the one snapshot of the cycle, and the outcome is booked. *)
(*                                                                         *)
(* One structure is traded.  Its executable price is ask to open and bid   *)
(* to close (mid plus and minus the slippage of every leg), in ticks per   *)
(* share; the contract multiplier is one.  Which exits are signalled and   *)
(* which candidate is approved is left to the environment: modules         *)
(* RiskSession and Supervisor model those decisions.                       *)
(***************************************************************************)
EXTENDS PaperBroker

CONSTANTS
    MaxPoll,    \* PipelineConfig.max_poll_attempts
    MaxOpen,    \* PortfolioLimits.max_open_strategies
    Tolerance,  \* one tick per leg (RiskEngine._price_limit)
    Rounding,   \* rounding of leg prices to cents in a candidate's entry price
    Quote       \* net prices, in ticks, the structure trades at

ASSUME PollAssumption  == MaxPoll \in Nat /\ MaxOpen \in Nat \ {0}
ASSUME QuoteAssumption == Quote \subseteq Int /\ Rounding \subseteq Int /\ Tolerance \in Nat \ {0}

VARIABLES
    book,   \* pipeline.portfolio.positions
    snap,   \* the snapshot the current cycle trades against
    pc,     \* where the cycle stands
    todo,   \* positions _manage_open_positions has yet to visit
    work,   \* the order being worked: its id, its position, polls made
    held,   \* history: contracts of each position the fills leave in the account
    cash    \* history: the sum of Fill.cash_flow over all fills

execVars == <<book, snap, pc, todo, work, held, cash>>

vars == <<brokerVars, execVars>>

Snapshot == {s \in [quoted: BOOLEAN, bid: Quote, ask: Quote, depth: 0..MaxContracts] :
                s.bid <= s.ask}

Work == [order: OrderId, pos: PositionId, polls: 0..MaxPoll]

OpenIds == {p \in PositionId : book[p].status = "open"}

----------------------------------------------------------------------------
(* Prices of orders *)

\* RiskEngine._price_limit: away from zero whatever the sign.
PriceLimit(entry) == IF entry >= 0 THEN entry + Tolerance ELSE entry - Tolerance

\* build_exit_order: closing inverts every leg, so the limit inverts too.
ExitLimit(s) == -s.bid

\* A market as poll sees it: a close of the structure costs -bid, an open ask.
MarketFor(intent) ==
    [quoted |-> snap.quoted,
     price  |-> IF intent = "CLOSE" THEN -snap.bid ELSE snap.ask,
     depth  |-> snap.depth]

\* A close that is paid its commission instead of being charged it.
ClosePnlWrongSign(pos, ord) ==
    (-ord.limit - pos.entry) * pos.contracts + pos.fee + ord.filled * Fee

\* PositionManager.realized_pnl less the closing commission, as _close_position
\* books it: at the order's limit, and for the position's whole size.
ClosePnl(pos, ord) ==
    LET exit == -ord.limit
    IN  (exit - pos.entry) * pos.contracts - pos.fee - ord.filled * Fee

----------------------------------------------------------------------------
(* The cycle *)

Init ==
    /\ BrokerInit
    /\ book = [p \in PositionId |-> NoPosition]
    /\ snap \in Snapshot
    /\ pc   = "idle"
    /\ todo = {}
    /\ \E o \in OrderId, p \in PositionId :
          work = [order |-> o, pos |-> p, polls |-> 0]
    /\ held = [p \in PositionId |-> 0]
    /\ cash = 0

\* step: a snapshot arrives, the open positions are listed.
BeginStep(s) ==
    /\ pc = "idle"
    /\ snap' = s
    /\ todo' = OpenIds
    /\ pc'   = "manage"
    /\ UNCHANGED <<brokerVars, book, work, held, cash>>

\* A position without an exit signal, or one that cannot be priced to close
\* (build_exit_order returns None), stays as it is.
Hold(p) ==
    /\ pc = "manage" /\ p \in todo
    /\ todo' = todo \ {p}
    /\ UNCHANGED <<brokerVars, book, snap, pc, work, held, cash>>

\* _close_position: the closing order for the whole position.
SubmitClose(p, o) ==
    /\ pc = "manage" /\ p \in todo
    /\ snap.quoted
    /\ Submit(o, "CLOSE", book[p].contracts, ExitLimit(snap))
    /\ work' = [order |-> o, pos |-> p, polls |-> 0]
    /\ pc'   = "close"
    /\ UNCHANGED <<book, snap, todo, held, cash>>

\* The broker is disconnected: BrokerError leaves the cycle, the remaining
\* positions are not visited.
SubmitRaises(p) ==
    /\ pc = "manage" /\ p \in todo
    /\ snap.quoted /\ ~connected
    /\ pc'   = "idle"
    /\ todo' = {}
    /\ UNCHANGED <<brokerVars, book, snap, work, held, cash>>

\* What a poll adds to the history: contracts traded and their cash flow.
RecordFlow(o, p, sign) ==
    LET n == orders'[o].filled - orders[o].filled
    IN  /\ held' = [held EXCEPT ![p] = @ + sign * n]
        /\ cash' = cash - n * MarketFor(orders[o].intent).price - n * Fee

\* One turn of either polling loop; the loop stops at a fill or a terminal order.
PollWork ==
    LET o == work.order IN
    /\ pc \in {"close", "open"}
    /\ work.polls < MaxPoll
    /\ orders[o].filled = 0
    /\ Poll(o, MarketFor(orders[o].intent))
    /\ work' = [work EXCEPT !.polls = @ + 1]
    /\ RecordFlow(o, work.pos, IF pc = "close" THEN -1 ELSE 1)
    /\ UNCHANGED <<book, snap, pc, todo>>

LoopDone == work.polls = MaxPoll \/ orders[work.order].status \in Terminal

\* Position.closed: the whole position, whatever part of it the fill covered.
BookClosed(pos, ord) == [pos EXCEPT !.status = "closed"]

\* The rest of _close_position after a fill, full or partial.
CloseFilled ==
    LET p   == work.pos
        ord == orders[work.order]
    IN  /\ pc = "close" /\ ord.filled > 0
        /\ book' = [book EXCEPT ![p] = BookClosed(@, ord)]
        /\ SettlePosition(p, BookClosed(positions[p], ord), ClosePnl(book[p], ord))
        /\ todo' = todo \ {p}
        /\ pc'   = "manage"
        /\ UNCHANGED <<snap, work, held, cash>>

\* A close without a fill leaves the position open; the order is not cancelled.
CloseUnfilled ==
    /\ pc = "close" /\ orders[work.order].filled = 0 /\ LoopDone
    /\ todo' = todo \ {work.pos}
    /\ pc'   = "manage"
    /\ UNCHANGED <<brokerVars, book, snap, work, held, cash>>

\* _execute: the risk engine approved n contracts of a candidate whose entry
\* price is the executable price with every leg rounded to a cent.
SubmitOpen(p, o, n, r) ==
    /\ pc = "manage" /\ todo = {}
    /\ Cardinality(OpenIds) < MaxOpen
    /\ book[p].status = "none"
    /\ snap.quoted
    /\ Submit(o, "OPEN", n, PriceLimit(snap.ask + r))
    /\ work' = [order |-> o, pos |-> p, polls |-> 0]
    /\ pc'   = "open"
    /\ UNCHANGED <<book, snap, todo, held, cash>>

\* The position takes the size and price of the fill, not of the order.
OpenFilled ==
    LET o   == work.order
        p   == work.pos
        pos == [status |-> "open", contracts |-> orders[o].filled,
                entry |-> snap.ask, fee |-> orders[o].filled * Fee]
    IN  /\ pc = "open" /\ orders[o].filled > 0
        /\ book' = [book EXCEPT ![p] = pos]
        /\ RegisterPosition(p, pos)
        /\ pc'   = "idle"
        /\ UNCHANGED <<snap, todo, work, held, cash>>

\* No fill: a live order is cancelled, a terminal one needs nothing.
OpenUnfilled ==
    /\ pc = "open" /\ orders[work.order].filled = 0 /\ LoopDone
    /\ IF orders[work.order].status \in Live THEN Cancel(work.order) ELSE UNCHANGED brokerVars
    /\ pc' = "idle"
    /\ UNCHANGED <<book, snap, todo, work, held, cash>>

\* Nothing (more) to open in this cycle.
EndStep ==
    /\ pc = "manage" /\ todo = {}
    /\ pc' = "idle"
    /\ UNCHANGED <<brokerVars, book, snap, todo, work, held, cash>>

Connection == (Disconnect \/ Reconnect) /\ UNCHANGED execVars

Next ==
    \/ \E s \in Snapshot : BeginStep(s)
    \/ \E p \in PositionId : Hold(p) \/ SubmitRaises(p)
    \/ \E p \in PositionId, o \in OrderId : SubmitClose(p, o)
    \/ PollWork
    \/ CloseFilled
    \/ CloseUnfilled
    \/ \E p \in PositionId, o \in OrderId, n \in 1..MaxContracts, r \in Rounding :
          SubmitOpen(p, o, n, r)
    \/ OpenFilled
    \/ OpenUnfilled
    \/ EndStep
    \/ Connection

Spec == Init /\ [][Next]_vars

----------------------------------------------------------------------------
(* Properties *)

\* Between two orders: no order is being worked.
Settled == pc \in {"idle", "manage"}

\* Types of the execution state; the broker's own types come with it.
TypeOK ==
    /\ BrokerTypeOK
    /\ book \in [PositionId -> Position]
    /\ snap \in Snapshot
    /\ pc   \in {"idle", "manage", "close", "open"}
    /\ todo \subseteq PositionId
    /\ work \in Work
    /\ held \in [PositionId -> Int]
    /\ cash \in Int

\* The book says what the fills left in the account: an open position holds
\* exactly its contracts and a closed one nothing ("marking it closed without an
\* offsetting fill would desynchronize the book from the broker and defeat
\* reconciliation", pipeline.py:251).
BookMatchesFills ==
    Settled => \A p \in PositionId :
        held[p] = IF book[p].status = "open" THEN book[p].contracts ELSE 0

\* An unfilled order of this intent is live at the broker.
LeftWorking(intent) ==
    \E o \in OrderId :
        orders[o].intent = intent /\ orders[o].filled = 0 /\ orders[o].status \in Live

\* No unfilled order outlives the cycle that sent it: a later poll of it would
\* trade what the book does not know.  An open is cancelled by its cycle.  A close
\* has no cancel of its own ("loop always terminates via break above",
\* pipeline.py:247) and rests on MaxPoll > MaxReprice: the broker gives up first.
NothingLeftWorking ==
    Settled => /\ ~LeftWorking("OPEN")
               /\ MaxPoll > MaxReprice => ~LeftWorking("CLOSE")

\* "this broker is deliberately pessimistic" (paper_broker.py:6): with no
\* position open, the equity the risk limits are computed from never exceeds
\* what the fills really left in the account.
EquityNeverOverstated ==
    Settled /\ OpenIds = {} => equity <= StartingEquity + cash
=============================================================================
