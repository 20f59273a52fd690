--------------------------- MODULE MCTradeDecision ---------------------------
(* The small instance of TradeDecision that TLC checks. *)
EXTENDS TradeDecision

MCSizes == {-2, -1, 1, 2}
MCCosts == {-1, 1}
MCResults == {-400, 200}
MCMarks == {-310, -200, -150, 0, 100, 130}

Snapshot(chain) ==
    [kind |-> "snapshot", chain |-> chain, bars |-> TRUE, underlying |-> "ok", skewed |-> FALSE,
     duplicates |-> 0, oneSided |-> 0]

(* Clean contracts and two groups of faulty ones. *)
Groups == { f \in SUBSET Faults : Cardinality(f) \in {1, 2} /\ IsContract(f) }

Chain(clean, n, f, m, g) ==
    [h \in {{}, f, g} |-> IF h = {} THEN clean ELSE (IF h = f THEN n ELSE 0) + (IF h = g THEN m ELSE 0)]

MCMarkets ==
    { Snapshot(Chain(clean, 1, f, 6, {g})) : clean \in {13, 40}, f \in Groups, g \in Faults }
    \cup { [Snapshot([f \in {{}} |-> n]) EXCEPT !.bars = b, !.underlying = u, !.skewed = s] :
             n \in {19, 20}, b, s \in BOOLEAN, u \in {"ok", "missing", "crossed"} }
    \cup { [Snapshot([f \in {{}} |-> 20]) EXCEPT !.duplicates = d, !.oneSided = o] :
             d, o \in {0, 2, 10} }
    \cup { Snapshot([f \in {} |-> 0]) }

MCCycleMarkets ==
    {Snapshot([f \in {{}} |-> 20]), [Snapshot([f \in {{}} |-> 20]) EXCEPT !.bars = FALSE]}

Ladder(strikes) ==
    [strikes |-> strikes, spot |-> 11, shortPut |-> 8, shortCall |-> 14, median |-> 12, pin |-> 10,
     far |-> 2, unpriced |-> {}, oneSided |-> {}]

MCContexts ==
    {Ladder(1..20), Ladder({ 2 * k : k \in 1..12 }), [Ladder((1..20) \ {6, 9, 12}) EXCEPT !.oneSided = {<<1, 6, "put">>, <<1, 12, "call">>}],
     [Ladder(1..20) EXCEPT !.unpriced = {<<1, 13, "call">>, <<1, 8, "put">>}],
     [Ladder(4..16) EXCEPT !.median = 0, !.pin = 0, !.far = 0],
     [Ladder(4..16) EXCEPT !.shortPut = 0, !.shortCall = 10, !.unpriced = {<<2, 11, "call">>}]}

Offer(family, legs, cost, ev, liquidity) ==
    [kind |-> "offer", family |-> family, legs |-> legs, cost |-> cost, ev |-> ev, cvar |-> 100,
     slippage |-> 4, fill |-> 80, liquidity |-> liquidity, spread |-> 5, assignment |-> 10,
     hold |-> 120, greeksWithinLimits |-> TRUE, admitted |-> FALSE, maxLoss |-> 0]

Call(k, q) == Leg(1, k, "call", q)
Put(k, q) == Leg(1, k, "put", q)

MCOffers ==
    LET debit(w, liquidity, ev) ==
            Offer("BullCallDebitSpread", <<Call(10, 1), Call(10 + w, -1)>>, w - 1, ev, liquidity)
        credit == Offer("BullPutCreditSpread", <<Put(10, -1), Put(5, 1)>>, -1, 75, 9)
    IN  {debit(4, 8, 60), debit(4, 5, 70), debit(5, 10, 90), credit,
         Offer("BullishCalendar", <<Call(10, -1), Leg(2, 10, "call", 1)>>, 2, 60, 8),
         Offer("BullCallDebitSpread", <<Call(12, -1)>>, -1, 90, 10),
         [debit(2, 8, 16) EXCEPT !.slippage = 8, !.cvar = 0], [debit(2, 9, 50) EXCEPT !.assignment = 30]}

Forecast(confidence, stability, states) ==
    [confidence |-> confidence, stability |-> stability, calibration |-> 10, disagreement |-> 10,
     states |-> states]

MCForecasts ==
    LET grind == [BullGrind |-> 60, BroadRange |-> 20]
    IN  { Forecast(c, 10, grind) : c \in {20, 60, 100} } \cup {Forecast(21, 6, grind)}
        \cup {Forecast(60, 10, [BullGrind |-> 40, Transition |-> 40]),
              Forecast(60, 10, [BullGrind |-> 10, Unstable |-> 80]),
              [Forecast(60, 10, grind) EXCEPT !.calibration = 3],
              [Forecast(60, 10, grind) EXCEPT !.disagreement = 40]}

Position(family, cost, loss, profit, toClose, toExpiry) ==
    [family |-> family, cost |-> cost, maxLoss |-> loss, maxProfit |-> profit, toClose |-> toClose,
     toExpiry |-> toExpiry, plan |-> None, priced |-> None]

MCPositions ==
    { Position(family, cost, 300, 200, close, expiry) :
        family \in {"BullPutCreditSpread", "BullCallDebitSpread", "IronButterfly"},
        cost \in {-100, 100}, close \in {4, 6, 9, 12}, expiry \in {4, 6, 9, 12, 84} }

MCSamePositions == { p \in MCPositions : p.toExpiry \in {p.toClose, 84} }

=============================================================================
