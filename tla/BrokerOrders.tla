---------------------------- MODULE BrokerOrders ----------------------------
(***************************************************************************)
(* The life of orders at the paper broker under an arbitrary client: any   *)
(* order may be submitted, polled against any market, or cancelled at any  *)
(* time, and the connection may drop between any two calls.  What the      *)
(* broker promises here, the decision pipeline (module Execution) relies   *)
(* on.                                                                     *)
(***************************************************************************)
EXTENDS PaperBroker

CONSTANT Price     \* net prices, in ticks, that limits and markets take

ASSUME PriceAssumption == Price \subseteq Int

----------------------------------------------------------------------------

SubmitSome == \E o \in OrderId, intent \in {"OPEN", "CLOSE"},
                 n \in 1..MaxContracts, limit \in Price :
                    Submit(o, intent, n, limit)

PollSome(o) == \E m \in Market(Price) : Poll(o, m)

CancelSome == \E o \in OrderId : Cancel(o)

OrdersNext ==
    \/ SubmitSome
    \/ \E o \in OrderId : PollSome(o)
    \/ CancelSome
    \/ Disconnect
    \/ Reconnect

OrdersSpec == BrokerInit /\ [][OrdersNext]_brokerVars

----------------------------------------------------------------------------
(* Properties *)

\* The worst price an order may ever trade at: a debit may be conceded once
\* per reprice attempt, a credit never moves towards the market.
WorstPrice(o) == asked[o] + (IF asked[o] >= 0 THEN MaxReprice * Concession ELSE 0)

\* "an order that cannot fill at its limit is repriced a bounded number of
\* times and then expires, rather than filling at whatever price is available"
\* (paper_broker.py:8): no fill of an order, over all its polls and reprices,
\* is worse than the submitted limit plus the whole concession budget.
FillsWithinBudget == \A f \in fills : f.price <= WorstPrice(f.order)

\* An identifier that was never submitted has no history.
Untouched(o) == orders[o] = NoOrder /\ polls[o] = 0 /\ \A f \in fills : f.order # o

\* The relation between a limit and its history: the current limit is the
\* submitted one moved once per counted attempt, and every fill of a debit was
\* within the limit of that moment.  With it FillsWithinBudget is inductive.
LimitHistory ==
    \A o \in OrderId :
        /\ orders[o].status = "ABSENT" => Untouched(o)
        /\ orders[o].limit = asked[o] + (IF asked[o] >= 0 THEN 1 ELSE -1)
                                        * (orders[o].attempts * Concession)
        /\ \A f \in fills : f.order = o =>
              f.price <= (IF asked[o] >= 0 THEN orders[o].limit ELSE asked[o])

\* "an order that cannot fill at its limit is repriced a bounded number of
\* times and then expires": every poll of a live order makes progress, it ends
\* the order, spends one of the MaxReprice attempts or fills a contract, so that
\* partial fills and reprices cannot alternate for ever.  A client that polls
\* until its order is terminal needs at most MaxReprice + MaxContracts + 1 calls,
\* whatever the market does; one that stops earlier, as the pipeline does at a
\* partial fill (pipeline.py:243, 275), leaves a live order behind.
PollsMakeProgress ==
    \A o \in OrderId :
        LET ord == orders[o] IN
        /\ ord.status \in Live => polls[o] <= ord.attempts + ord.filled
        /\ polls[o] <= MaxReprice + MaxContracts + 1

\* An order never trades more than its size, over any number of partial fills,
\* and it is FILLED exactly when its whole size has traded; the fills on record
\* are numbered without gaps up to the order's filled_contracts.
FillsAddUp ==
    \A o \in OrderId :
        LET ord  == orders[o]
            mine == {f \in fills : f.order = o}
        IN  /\ ord.filled <= ord.contracts
            /\ ord.status = "FILLED" => ord.filled = ord.contracts
            /\ ord.status \in Live => ord.filled < ord.contracts
            /\ \A k \in 1..ord.filled : \E f \in mine : f.upto - f.contracts < k /\ k <= f.upto
            /\ \A f \in mine : f.upto <= ord.filled

\* Once an order is terminal nothing changes it: not a late poll, not a cancel
\* that arrives after the fill, not a resubmission under the same identifier.
TerminalIsFinal ==
    [][\A o \in OrderId : orders[o].status \in Terminal => orders'[o] = orders[o]]_brokerVars
=============================================================================
