--------------------------- MODULE DecisionProofs ---------------------------
(***************************************************************************)
(* What TLAPS proves of the decision, from the snapshot to the position,   *)
(* for every market, structure, forecast, account and exit plan.           *)
(***************************************************************************)
EXTENDS TradeDecision, FiniteLemmas

-----------------------------------------------------------------------------
(* The exit contract *)

Signals == {"none", "KILL_SWITCH", "ASSIGNMENT_RISK", "END_OF_SESSION", "RISK_STOP", "PROFIT_TARGET",
            "TIME_STOP"}

Plans == [target: 1..100, stop: 1..100, multiple: Nat, holding: Nat]

Held == [family: STRING, cost: Int, maxLoss: Nat \ {0}, maxProfit: Nat \ {0}, toClose: Nat,
         toExpiry: Nat, plan: Plans, priced: Plans]

(* What makes the simulator and the manager end a position.                *)
Stopped(plan, p, pnl) == 100 * pnl <= -StopLoss(plan, p.maxLoss, p.cost)
Gained(plan, p, pnl) == 100 * pnl >= plan.target * p.maxProfit

SimulatorEnds(p, held, pnl) ==
    \/ held >= p.toExpiry - Cutoff
    \/ Stopped(p.priced, p, pnl) \/ Gained(p.priced, p, pnl) \/ held >= p.priced.holding
    \/ held >= Min({LongestHold, Max({HorizonFloor, p.toClose, p.toExpiry})})

ManagerEnds(p, held, pnl, itm, switch) ==
    \/ switch \/ (itm /\ p.toExpiry - held <= Cutoff) \/ p.toClose - held <= Cutoff
    \/ Stopped(p.plan, p, pnl) \/ Gained(p.plan, p, pnl) \/ held >= p.plan.holding

LEMMA FirstOfType ==
    ASSUME NEW order, DOMAIN order \in SUBSET Int, IsFiniteSet(DOMAIN order), NEW holds,
           \A i \in DOMAIN order : order[i] \in Signals \ {"none"}
    PROVE  /\ FirstOf(order, holds) \in Signals
           /\ FirstOf(order, holds) = "none" <=> \A i \in DOMAIN order : order[i] \notin holds
           /\ FirstOf(order, holds) # "none" => FirstOf(order, holds) \in holds
<1> DEFINE hits == { i \in DOMAIN order : order[i] \in holds }
<1>1. hits \in SUBSET Int /\ hits \in SUBSET DOMAIN order
  OBVIOUS
<1>2. IsFiniteSet(hits)
  BY <1>1, FS_Subset
<1>3. CASE hits = {}
  <2>1. FirstOf(order, holds) = "none"
    BY <1>3 DEF FirstOf
  <2>2. \A i \in DOMAIN order : order[i] \notin holds
    BY <1>3
  <2> QED
    BY <2>1, <2>2 DEF Signals
<1>4. CASE hits # {}
  <2>1. Min(hits) \in hits
    BY <1>1, <1>2, <1>4, MinExists
  <2>2. FirstOf(order, holds) = order[Min(hits)]
    BY <1>4 DEF FirstOf
  <2> HIDE DEF hits
  <2>3. order[Min(hits)] \in Signals \ {"none"} /\ order[Min(hits)] \in holds
    BY <1>1, <2>1 DEF hits
  <2> QED
    BY <1>1, <2>1, <2>2, <2>3 DEF hits
<1> QED
  BY <1>3, <1>4

LEMMA SimulatedExitIs ==
    ASSUME NEW p \in Held, NEW held, NEW pnl
    PROVE  /\ SimulatedExit(p, held, pnl) \in Signals
           /\ SimulatedExit(p, held, pnl) # "none" <=> SimulatorEnds(p, held, pnl)
<1> DEFINE q == [p EXCEPT !.plan = p.priced]
           holds == (IF held >= p.toExpiry - Cutoff THEN {"ASSIGNMENT_RISK"} ELSE {})
                    \cup HitStop(StopLoss(q.plan, q.maxLoss, q.cost), pnl)
                    \cup HitTarget(q, pnl) \cup PastTimeStop(q, held)
                    \cup (IF held >= Min({LongestHold, Max({HorizonFloor, p.toClose, p.toExpiry})})
                          THEN {"END_OF_SESSION"} ELSE {})
<1>1. q.plan = p.priced /\ q.maxLoss = p.maxLoss /\ q.cost = p.cost /\ q.maxProfit = p.maxProfit
  BY DEF Held
<1>2. SimulatedExit(p, held, pnl) = FirstOf(SimulatorOrder, holds)
  BY DEF SimulatedExit
<1>3. /\ DOMAIN SimulatorOrder = 1..5 /\ DOMAIN SimulatorOrder \in SUBSET Int
      /\ \A i \in DOMAIN SimulatorOrder : SimulatorOrder[i] \in Signals \ {"none"}
  BY DEF SimulatorOrder, Signals
<1>4. SimulatorEnds(p, held, pnl) <=> \E i \in DOMAIN SimulatorOrder : SimulatorOrder[i] \in holds
  <2> HIDE DEF q
  <2>1. /\ "ASSIGNMENT_RISK" \in holds <=> held >= p.toExpiry - Cutoff
        /\ "RISK_STOP" \in holds <=> Stopped(p.priced, p, pnl)
        /\ "PROFIT_TARGET" \in holds <=> Gained(p.priced, p, pnl)
        /\ "TIME_STOP" \in holds <=> held >= p.priced.holding
        /\ "END_OF_SESSION" \in holds
           <=> held >= Min({LongestHold, Max({HorizonFloor, p.toClose, p.toExpiry})})
    BY <1>1 DEF HitStop, HitTarget, PastTimeStop, Stopped, Gained
  <2> HIDE DEF holds
  <2> QED
    BY <2>1 DEF SimulatorOrder, SimulatorEnds
<1> HIDE DEF holds, q
<1>fin. IsFiniteSet(1..5)
  <2>1. 5 \in Nat
    OBVIOUS
  <2> QED
    BY <2>1, FirstNumbersAreFinite, Zenon
<1> DEFINE signal == FirstOf(SimulatorOrder, holds)
<1>5. /\ signal \in Signals
      /\ signal = "none" <=> \A i \in DOMAIN SimulatorOrder : SimulatorOrder[i] \notin holds
      /\ signal # "none" => signal \in holds
  BY <1>3, <1>fin, FirstOfType
<1> HIDE DEF signal
<1>6. signal = SimulatedExit(p, held, pnl)
  BY <1>2 DEF signal
<1> QED
  BY <1>4, <1>5, <1>6

LEMMA CheckExitIs ==
    ASSUME NEW p \in Held, NEW held, NEW pnl, NEW itm \in BOOLEAN, NEW switch \in BOOLEAN
    PROVE  LET signal == CheckExit(p, held, pnl, itm, switch)
           IN  /\ signal \in Signals
               /\ signal # "none" <=> ManagerEnds(p, held, pnl, itm, switch)
               /\ signal = "RISK_STOP" => Stopped(p.plan, p, pnl)
<1> DEFINE holds == (IF switch THEN {"KILL_SWITCH"} ELSE {})
                    \cup AssignmentExposure(p, held, itm) \cup EndOfSession(p, held)
                    \cup HitStop(StopThreshold(p), pnl) \cup HitTarget(p, pnl)
                    \cup PastTimeStop(p, held)
<1>1. CheckExit(p, held, pnl, itm, switch) = FirstOf(ManagerOrder, holds)
  BY DEF CheckExit
<1>2. /\ DOMAIN ManagerOrder = 1..6 /\ DOMAIN ManagerOrder \in SUBSET Int
      /\ \A i \in DOMAIN ManagerOrder : ManagerOrder[i] \in Signals \ {"none"}
  BY DEF ManagerOrder, Signals
<1>3. /\ "KILL_SWITCH" \in holds <=> switch
      /\ "ASSIGNMENT_RISK" \in holds <=> itm /\ p.toExpiry - held <= Cutoff
      /\ "END_OF_SESSION" \in holds <=> p.toClose - held <= Cutoff
      /\ "RISK_STOP" \in holds <=> Stopped(p.plan, p, pnl)
      /\ "PROFIT_TARGET" \in holds <=> Gained(p.plan, p, pnl)
      /\ "TIME_STOP" \in holds <=> held >= p.plan.holding
  BY DEF AssignmentExposure, EndOfSession, HitStop, HitTarget, PastTimeStop, StopThreshold,
         Stopped, Gained
<1> HIDE DEF holds
<1>4. ManagerEnds(p, held, pnl, itm, switch) <=> \E i \in DOMAIN ManagerOrder : ManagerOrder[i] \in holds
  BY <1>3 DEF ManagerOrder, ManagerEnds
<1>fin. IsFiniteSet(1..6)
  <2>1. 6 \in Nat
    OBVIOUS
  <2> QED
    BY <2>1, FirstNumbersAreFinite, Zenon
<1> DEFINE signal == FirstOf(ManagerOrder, holds)
<1>5. /\ signal \in Signals
      /\ signal = "none" <=> \A i \in DOMAIN ManagerOrder : ManagerOrder[i] \notin holds
      /\ signal # "none" => signal \in holds
  BY <1>2, <1>fin, FirstOfType
<1> HIDE DEF signal
<1>6. signal = CheckExit(p, held, pnl, itm, switch)
  BY <1>1 DEF signal
<1> QED
  BY <1>3, <1>4, <1>5, <1>6

LEMMA ExitDefaultsType ==
    ASSUME NEW family
    PROVE  /\ ExitDefaults(family) \in [target: 1..100, stop: 1..100, multiple: Nat]
           /\ ExitDefaults(family).multiple > 0 => ExitDefaults(family).stop = 100
BY DEF ExitDefaults, Default

LEMMA HoldingIs ==
    ASSUME NEW toClose \in Nat, NEW toExpiry \in Nat
    PROVE  Holding(toClose, toExpiry) \in ShortestHold..LongestHold
<1> DEFINE a == Max({ShortestHold, toClose})
           b == Max({ShortestHold, toExpiry - Cutoff})
<1>1. a \in Nat /\ a >= ShortestHold
  BY MaxOfTwo DEF ShortestHold
<1>2. b \in Nat /\ b >= ShortestHold
  BY MaxOfTwo DEF ShortestHold, Cutoff
<1> HIDE DEF a, b
<1>3. Min({a, b, LongestHold}) \in {a, b, LongestHold} /\ Min({a, b, LongestHold}) <= LongestHold
  BY <1>1, <1>2, MinOfThree DEF LongestHold, ShortestHold
<1>4. Holding(toClose, toExpiry) = Min({a, b, LongestHold})
  BY DEF Holding, a, b
<1> QED
  BY <1>1, <1>2, <1>3, <1>4 DEF LongestHold, ShortestHold

LEMMA PlanForType ==
    ASSUME NEW family, NEW toClose \in Nat, NEW toExpiry \in Nat
    PROVE  LET plan == PlanFor(family, toClose, toExpiry)
           IN  /\ plan \in Plans /\ Restored(plan) \in Plans
               /\ plan.multiple > 0 => plan.stop = 100
               /\ plan.holding \in ShortestHold..LongestHold
               /\ Restored(plan).multiple = 0 /\ Restored(plan).stop = plan.stop
BY ExitDefaultsType, HoldingIs DEF PlanFor, Plans, Restored, ShortestHold, LongestHold

(* A plan that stops at a multiple of the credit has no fraction below the *)
(* whole maximum loss.                                                     *)
SoundPlans == { plan \in Plans : plan.multiple > 0 => plan.stop = 100 }

LEMMA StopLossIs ==
    ASSUME NEW plan \in SoundPlans, NEW maxLoss \in Nat \ {0}, NEW cost \in Int
    PROVE  /\ StopLoss(plan, maxLoss, cost) \in Int
           /\ StopLoss(plan, maxLoss, cost) > 0
           /\ StopLoss(plan, maxLoss, cost) <= 100 * maxLoss
           /\ StopLoss(plan, maxLoss, cost) <= plan.stop * maxLoss
           /\ plan.multiple = 0 => StopLoss(plan, maxLoss, cost) = plan.stop * maxLoss
<1>0. plan \in Plans /\ (plan.multiple > 0 => plan.stop = 100)
  BY DEF SoundPlans
<1>1. /\ plan.stop \in 1..100 /\ plan.multiple \in Nat
      /\ plan.stop * maxLoss \in Int /\ plan.stop * maxLoss > 0 /\ plan.stop * maxLoss <= 100 * maxLoss
  BY <1>0 DEF Plans
<1>2. CASE plan.multiple > 0 /\ cost < 0
  <2>1. plan.multiple * (-cost) \in Int /\ plan.multiple * (-cost) > 0
    BY <1>1, <1>2
  <2>2. StopLoss(plan, maxLoss, cost) = Min({plan.multiple * (-cost), 100 * maxLoss})
    BY <1>2 DEF StopLoss
  <2> DEFINE c == plan.multiple * (-cost)
  <2> HIDE DEF c
  <2>3. StopLoss(plan, maxLoss, cost) = IF c <= 100 * maxLoss THEN c ELSE 100 * maxLoss
    BY <2>1, <2>2, MinOfTwo DEF c
  <2> QED
    BY <1>0, <1>1, <1>2, <2>1, <2>3 DEF c
<1>3. CASE ~(plan.multiple > 0 /\ cost < 0)
  BY <1>1, <1>3 DEF StopLoss
<1> QED
  BY <1>2, <1>3

(* The life of a position as its plan, the results and the fills shape it. *)
Trades == [position: Held, held: Nat, mark: Int, exit: {None} \cup [kind: Signals, at: Nat],
           sold: Signals, soldAt: Nat, clean: BOOLEAN, restarted: BOOLEAN, killed: BOOLEAN,
           missed: BOOLEAN]

PlanInv(p) ==
    /\ p.priced = PlanFor(p.family, p.toClose, p.toExpiry)
    /\ p.toClose <= p.toExpiry /\ p.toExpiry >= Cutoff

(* The simulator sells at once only what is about to expire.               *)
HoldInv ==
    subject = "holding" =>
        /\ trade \in Trades /\ PlanInv(trade.position)
        /\ trade.held <= trade.position.toClose
        /\ trade.position.plan = IF trade.restarted THEN Restored(trade.position.priced)
                                 ELSE trade.position.priced
        /\ trade.held = 0 => /\ trade.exit = None /\ trade.soldAt = 0
                             /\ trade.sold # "none" => trade.position.toExpiry = Cutoff
        /\ trade.exit # None => trade.exit \in [kind: Signals, at: Nat]
        /\ EnforcedAsPriced /\ RestartOnlyLoosens /\ HeldOverOnlyIfUntradeable

(* On one day the two contracts end a position together; on a longer one   *)
(* the manager may be earlier.                                             *)
LEMMA ManagerFollowsSimulator ==
    ASSUME NEW p \in Held, PlanInv(p), p.plan = p.priced, NEW held \in Nat, NEW pnl \in Int,
           NEW itm \in BOOLEAN, held <= p.toClose
    PROVE  /\ SimulatorEnds(p, held, pnl) => ManagerEnds(p, held, pnl, itm, FALSE)
           /\ p.toClose = p.toExpiry /\ ManagerEnds(p, held, pnl, itm, FALSE)
              => SimulatorEnds(p, held, pnl)
<1> DEFINE far == Max({HorizonFloor, p.toClose, p.toExpiry})
<1>1. /\ p.toClose \in Nat /\ p.toExpiry \in Nat /\ p.toClose <= p.toExpiry
      /\ Cutoff = 6 /\ LongestHold = 78 /\ HorizonFloor = 12 /\ ShortestHold = 3
  BY DEF Held, PlanInv, Cutoff, LongestHold, HorizonFloor, ShortestHold
<1>2. p.priced.holding \in ShortestHold..LongestHold
  BY <1>1, PlanForType DEF PlanInv
<1>3. far \in Int /\ far >= p.toClose
  <2>1. \A a, b, c \in Int : Max({a, b, c}) \in Int /\ Max({a, b, c}) >= b
    <3> SUFFICES ASSUME NEW a \in Int, NEW b \in Int, NEW c \in Int
                 PROVE  Max({a, b, c}) \in Int /\ Max({a, b, c}) >= b
      OBVIOUS
    <3>1. Max({a, b, c}) \in {a, b, c} /\ Max({a, b, c}) >= b
      BY MaxOfThree
    <3> QED
      BY <3>1
  <2>2. HorizonFloor \in Int /\ p.toClose \in Int /\ p.toExpiry \in Int
    BY <1>1
  <2> QED
    BY <2>1, <2>2, Zenon
<1> HIDE DEF far
<1>4. Min({LongestHold, far}) = IF LongestHold <= far THEN LongestHold ELSE far
  BY <1>1, <1>3, MinOfTwo
<1>5. held >= Min({LongestHold, far}) => held >= p.priced.holding \/ p.toClose - held <= Cutoff
  BY <1>1, <1>2, <1>3, <1>4
<1>6. held >= p.toExpiry - Cutoff => p.toClose - held <= Cutoff
  BY <1>1
<1>7. p.toClose = p.toExpiry /\ p.toClose - held <= Cutoff => held >= p.toExpiry - Cutoff
  BY <1>1
<1>8. p.toExpiry - held <= Cutoff => held >= p.toExpiry - Cutoff
  BY <1>1
<1>9. SimulatorEnds(p, held, pnl) => ManagerEnds(p, held, pnl, itm, FALSE)
  BY <1>5, <1>6, Zenon DEF SimulatorEnds, ManagerEnds, far
<1>10. p.toClose = p.toExpiry /\ ManagerEnds(p, held, pnl, itm, FALSE) => SimulatorEnds(p, held, pnl)
  BY <1>7, <1>8 DEF SimulatorEnds, ManagerEnds
<1> QED
  BY <1>9, <1>10

(* Neither plan stops a position beyond its maximum loss, and the restored *)
(* one never before the one it was priced with.                            *)
LEMMA RestoredStopIsLooser ==
    ASSUME NEW p \in Held, PlanInv(p), NEW pnl \in Int,
           p.plan \in {p.priced, Restored(p.priced)}
    PROVE  /\ Stopped(p.plan, p, pnl) => Stopped(p.priced, p, pnl)
           /\ StopThreshold(p) <= 100 * p.maxLoss
<1>1. /\ p.maxLoss \in Nat \ {0} /\ p.cost \in Int /\ p.toClose \in Nat /\ p.toExpiry \in Nat
      /\ p.priced \in Plans /\ p.plan \in Plans
  BY DEF Held
<1>2. /\ p.priced.multiple > 0 => p.priced.stop = 100
      /\ p.plan.multiple > 0 => p.plan.stop = 100
      /\ p.plan = p.priced \/ (p.plan.multiple = 0 /\ p.plan.stop = p.priced.stop)
  BY <1>1, PlanForType DEF PlanInv
<1>3. p.priced.stop \in Nat /\ p.priced.stop * p.maxLoss \in Int
  BY <1>1 DEF Plans
<1>4. /\ StopLoss(p.plan, p.maxLoss, p.cost) \in Int /\ StopLoss(p.priced, p.maxLoss, p.cost) \in Int
      /\ StopLoss(p.plan, p.maxLoss, p.cost) <= 100 * p.maxLoss
      /\ StopLoss(p.priced, p.maxLoss, p.cost) <= p.priced.stop * p.maxLoss
      /\ p.plan.multiple = 0 => StopLoss(p.plan, p.maxLoss, p.cost) = p.plan.stop * p.maxLoss
  <2>0. \A plan \in {p.plan, p.priced} :
           /\ StopLoss(plan, p.maxLoss, p.cost) \in Int
           /\ StopLoss(plan, p.maxLoss, p.cost) > 0
           /\ StopLoss(plan, p.maxLoss, p.cost) <= 100 * p.maxLoss
           /\ StopLoss(plan, p.maxLoss, p.cost) <= plan.stop * p.maxLoss
           /\ plan.multiple = 0 => StopLoss(plan, p.maxLoss, p.cost) = plan.stop * p.maxLoss
    <3> TAKE plan \in {p.plan, p.priced}
    <3>1. plan \in SoundPlans /\ p.maxLoss \in Nat \ {0} /\ p.cost \in Int
      BY <1>1, <1>2 DEF SoundPlans
    <3> QED
      BY <3>1, StopLossIs, Zenon
  <2>1. /\ StopLoss(p.plan, p.maxLoss, p.cost) \in Int
        /\ StopLoss(p.plan, p.maxLoss, p.cost) <= 100 * p.maxLoss
        /\ p.plan.multiple = 0 => StopLoss(p.plan, p.maxLoss, p.cost) = p.plan.stop * p.maxLoss
    BY <2>0, Zenon
  <2>2. /\ StopLoss(p.priced, p.maxLoss, p.cost) \in Int
        /\ StopLoss(p.priced, p.maxLoss, p.cost) <= p.priced.stop * p.maxLoss
    BY <2>0, Zenon
  <2> QED
    BY <2>1, <2>2
<1>5. StopLoss(p.priced, p.maxLoss, p.cost) <= StopLoss(p.plan, p.maxLoss, p.cost)
  BY <1>2, <1>3, <1>4
<1> QED
  BY <1>4, <1>5 DEF Stopped, StopThreshold

LEMMA HoldStep ==
    ASSUME NEW p \in Positions, Hold(p)
    PROVE  HoldInv'
<1> DEFINE plan == PlanFor(p.family, p.toClose, p.toExpiry)
           q == [p EXCEPT !.plan = plan, !.priced = plan]
<1>1. /\ p \in AnyPosition /\ p.toClose \in Nat /\ p.toExpiry \in Nat /\ p.toClose <= p.toExpiry
      /\ p.maxLoss \in Nat \ {0} /\ p.maxProfit \in Nat \ {0} /\ p.cost \in Int
  BY HoldAssumption DEF AnyPosition
<1>2. plan.multiple > 0 => plan.stop = 100
  BY <1>1, PlanForType
<1>3. plan \in Plans /\ plan.holding >= ShortestHold
  BY <1>1, PlanForType DEF ShortestHold, LongestHold
<1> HIDE DEF plan
<1>4. /\ q \in Held /\ q.plan = plan /\ q.priced = plan /\ q.toClose = p.toClose
      /\ q.toExpiry = p.toExpiry /\ q.family = p.family /\ q.maxLoss = p.maxLoss
      /\ q.maxProfit = p.maxProfit /\ q.cost = p.cost
  BY <1>1, <1>3 DEF AnyPosition, Held
<1> HIDE DEF q
<1>5. PlanInv(q)
  BY <1>1, <1>4 DEF Hold, PlanInv, plan
<1>6. /\ subject' = "holding"
      /\ trade' = [position |-> q, held |-> 0, mark |-> 0, exit |-> None,
                   sold |-> SimulatedExit(q, 0, 0), soldAt |-> 0, clean |-> TRUE,
                   restarted |-> FALSE, killed |-> FALSE, missed |-> FALSE]
  BY DEF Hold, q, plan
<1>7. SimulatedExit(q, 0, 0) \in Signals /\ (SimulatedExit(q, 0, 0) # "none" => q.toExpiry = Cutoff)
  <2>1. /\ StopLoss(plan, p.maxLoss, p.cost) \in Int /\ StopLoss(plan, p.maxLoss, p.cost) > 0
        /\ plan.target \in 1..100 /\ plan.target * p.maxProfit > 0
    <3>1. StopLoss(plan, p.maxLoss, p.cost) \in Int /\ StopLoss(plan, p.maxLoss, p.cost) > 0
      <4>1. plan \in SoundPlans /\ p.maxLoss \in Nat \ {0} /\ p.cost \in Int
        BY <1>1, <1>2, <1>3 DEF SoundPlans
      <4> QED
        BY <4>1, StopLossIs, Zenon
    <3>2. plan.target \in 1..100
      BY <1>3 DEF Plans
    <3>3. plan.target * p.maxProfit > 0
      BY <1>1, <3>2
    <3> QED
      BY <3>1, <3>2, <3>3
  <2>2. ~Stopped(q.priced, q, 0) /\ ~Gained(q.priced, q, 0)
    BY <1>1, <1>4, <2>1 DEF Stopped, Gained
  <2>3. ~(0 >= q.priced.holding)
    BY <1>3, <1>4 DEF ShortestHold, Plans
  <2> DEFINE far == Max({HorizonFloor, q.toClose, q.toExpiry})
  <2>4. far \in Int /\ far >= HorizonFloor
    <3>1. HorizonFloor \in Int /\ q.toClose \in Int /\ q.toExpiry \in Int
      BY <1>1, <1>4 DEF HorizonFloor
    <3> QED
      BY <3>1, MaxOfThree
  <2> HIDE DEF far
  <2>5. ~(0 >= Min({LongestHold, far}))
    BY <2>4, MinOfTwo DEF LongestHold, HorizonFloor
  <2>6. SimulatorEnds(q, 0, 0) => 0 >= q.toExpiry - Cutoff
    BY <2>2, <2>3, <2>5 DEF SimulatorEnds, far
  <2>7. q.toExpiry >= Cutoff /\ q.toExpiry \in Nat
    BY <1>1, <1>4 DEF Hold
  <2>8. 0 >= q.toExpiry - Cutoff => q.toExpiry = Cutoff
    BY <2>7 DEF Cutoff
  <2> QED
    BY <1>4, <2>6, <2>8, SimulatedExitIs
<1>8. /\ trade' \in Trades /\ trade'.position = q /\ trade'.held = 0 /\ trade'.exit = None
      /\ trade'.sold = SimulatedExit(q, 0, 0) /\ trade'.soldAt = 0 /\ ~trade'.restarted
      /\ ~trade'.missed
  BY <1>4, <1>6, <1>7 DEF Trades
<1>9. StopThreshold(q) <= 100 * q.maxLoss
  BY <1>4, <1>5, RestoredStopIsLooser
<1>10. EnforcedAsPriced' /\ RestartOnlyLoosens' /\ HeldOverOnlyIfUntradeable'
  BY <1>8, <1>9 DEF EnforcedAsPriced, RestartOnlyLoosens, HeldOverOnlyIfUntradeable
<1> QED
  BY <1>1, <1>4, <1>5, <1>7, <1>8, <1>10 DEF HoldInv

LEMMA TickStep ==
    ASSUME HoldInv, NEW pnl \in Marks, NEW quoted \in BOOLEAN, NEW itm \in BOOLEAN,
           NEW fills \in BOOLEAN, Tick(pnl, quoted, itm, fills)
    PROVE  HoldInv'
<1> DEFINE p == trade.position
           n == trade.held + 1
           mark == IF quoted THEN pnl ELSE trade.mark
           signal == CheckExit(p, n, mark, itm, trade.killed)
           closed == signal # "none" /\ quoted /\ fills
           sim == SimulatedExit(p, n, pnl)
<1>1. /\ subject = "holding" /\ subject' = "holding" /\ trade.exit = None /\ n <= p.toClose
      /\ trade \in Trades /\ PlanInv(p) /\ pnl \in Int
      /\ p.plan = IF trade.restarted THEN Restored(p.priced) ELSE p.priced
  BY HoldAssumption DEF Tick, HoldInv
<1>2. p \in Held /\ n \in Nat /\ n >= 1 /\ mark \in Int /\ trade.killed \in BOOLEAN
  BY <1>1 DEF Trades
<1>3. /\ signal \in Signals
      /\ signal # "none" <=> ManagerEnds(p, n, mark, itm, trade.killed)
      /\ signal = "RISK_STOP" => Stopped(p.plan, p, mark)
  BY <1>2, CheckExitIs
<1>4. sim \in Signals /\ (sim # "none" <=> SimulatorEnds(p, n, pnl))
  BY <1>2, SimulatedExitIs
<1>5. trade' = [trade EXCEPT
              !.held = n, !.mark = mark,
              !.exit = IF closed THEN [kind |-> signal, at |-> n] ELSE None,
              !.sold = IF @ = "none" THEN sim ELSE @,
              !.soldAt = IF trade.sold = "none" THEN n ELSE @,
              !.clean = @ /\ quoted /\ fills,
              !.missed = @ \/ ((trade.killed \/ p.toClose - n <= Cutoff) /\ quoted /\ fills /\ ~closed)]
  BY DEF Tick
<1> HIDE DEF p, n, mark, signal, closed, sim
<1>6. /\ trade'.position = p /\ trade'.held = n
      /\ trade'.exit = IF closed THEN [kind |-> signal, at |-> n] ELSE None
      /\ trade'.sold = IF trade.sold = "none" THEN sim ELSE trade.sold
      /\ trade'.soldAt = IF trade.sold = "none" THEN n ELSE trade.soldAt
      /\ trade'.clean = (trade.clean /\ quoted /\ fills)
      /\ trade'.restarted = trade.restarted /\ trade'.killed = trade.killed
      /\ trade'.missed = (trade.missed \/ ((trade.killed \/ p.toClose - n <= Cutoff) /\ quoted /\ fills /\ ~closed))
  BY <1>1, <1>5 DEF Trades, p
<1>7. trade' \in Trades
  <2>1. /\ mark \in Int /\ closed \in BOOLEAN
        /\ (IF closed THEN [kind |-> signal, at |-> n] ELSE None) \in {None} \cup [kind: Signals, at: Nat]
    BY <1>2, <1>3 DEF closed
  <2> DEFINE exit == IF closed THEN [kind |-> signal, at |-> n] ELSE None
             sold == IF trade.sold = "none" THEN sim ELSE trade.sold
             soldAt == IF trade.sold = "none" THEN n ELSE trade.soldAt
             clean == trade.clean /\ quoted /\ fills
             missed == trade.missed \/ ((trade.killed \/ p.toClose - n <= Cutoff) /\ quoted /\ fills /\ ~closed)
  <2>2. sold \in Signals /\ soldAt \in Nat /\ exit \in {None} \cup [kind: Signals, at: Nat]
    BY <1>1, <1>2, <1>4, <2>1 DEF Trades
  <2>3. clean \in BOOLEAN /\ missed \in BOOLEAN
    BY Zenon
  <2>4. trade' = [trade EXCEPT !.held = n, !.mark = mark, !.exit = exit, !.sold = sold,
                              !.soldAt = soldAt, !.clean = clean, !.missed = missed]
    BY <1>5, Zenon
  <2> HIDE DEF exit, sold, soldAt, clean, missed
  <2> QED
    BY <1>1, <1>2, <2>1, <2>2, <2>3, <2>4 DEF Trades
<1>8. closed => [kind |-> signal, at |-> n] # None
  <2>1. [kind |-> signal, at |-> n].kind = signal /\ None.kind = "none"
    BY DEF None
  <2> QED
    BY <2>1 DEF closed
<1>9. RestartOnlyLoosens'
  <2>1. ASSUME trade'.exit # None, trade'.exit.kind = "RISK_STOP" PROVE trade'.sold # "none"
    <3>1. closed /\ signal = "RISK_STOP"
      BY <1>6, <2>1
    <3>2. quoted /\ mark = pnl
      BY <3>1 DEF closed, mark
    <3>3. Stopped(p.priced, p, pnl)
      BY <1>1, <1>2, <1>3, <3>1, <3>2, RestoredStopIsLooser
    <3>4. sim # "none"
      BY <1>4, <3>3 DEF SimulatorEnds
    <3> QED
      BY <1>6, <3>4
  <2>2. StopThreshold(p) <= 100 * p.maxLoss
    BY <1>1, <1>2, RestoredStopIsLooser
  <2> QED
    BY <1>6, <2>1, <2>2 DEF RestartOnlyLoosens
<1>10. HeldOverOnlyIfUntradeable'
  <2>1. trade.killed \/ p.toClose - n <= Cutoff => signal # "none"
    BY <1>3 DEF ManagerEnds
  <2>2. ~trade.missed
    BY <1>1 DEF HoldInv, HeldOverOnlyIfUntradeable
  <2> QED
    BY <1>6, <2>1, <2>2 DEF HeldOverOnlyIfUntradeable, closed
<1>11. EnforcedAsPriced'
  <2> SUFFICES ASSUME trade'.clean, ~trade'.restarted, ~trade'.killed
               PROVE  /\ trade'.sold # "none" => trade'.exit # None
                      /\ trade'.exit # None /\ p.toExpiry = p.toClose =>
                           trade'.sold # "none" /\ trade'.exit.at = Max({1, trade'.soldAt})
    BY <1>6 DEF EnforcedAsPriced
  <2>1. trade.clean /\ quoted /\ fills /\ ~trade.restarted /\ ~trade.killed
    BY <1>1, <1>6 DEF Trades
  <2>2. mark = pnl /\ p.plan = p.priced /\ (closed <=> ManagerEnds(p, n, pnl, itm, FALSE))
    <3>1. ManagerEnds(p, n, mark, itm, trade.killed) <=> ManagerEnds(p, n, mark, itm, FALSE)
      BY <2>1 DEF ManagerEnds
    <3>2. mark = pnl
      BY <2>1 DEF mark
    <3>3. p.plan = p.priced
      BY <1>1, <2>1
    <3> QED
      BY <1>3, <2>1, <3>1, <3>2, <3>3 DEF closed
  <2>3. /\ SimulatorEnds(p, n, pnl) => closed
        /\ closed /\ p.toClose = p.toExpiry => SimulatorEnds(p, n, pnl)
    BY <1>1, <1>2, <2>2, ManagerFollowsSimulator
  <2>4. trade.sold # "none" => trade.held = 0
    BY <1>1, <2>1 DEF HoldInv, EnforcedAsPriced, Trades
  <2>5. trade.sold # "none" => n = 1 /\ trade.soldAt = 0 /\ p.toExpiry = Cutoff
    BY <1>1, <2>4 DEF HoldInv, n, p
  <2>6. trade.sold # "none" => closed
    <3>1. trade.sold # "none" => p.toClose - n <= Cutoff
      BY <1>1, <1>2, <2>5 DEF PlanInv, Held, Cutoff
    <3> QED
      BY <2>2, <3>1 DEF ManagerEnds
  <2>7. CASE trade.sold = "none"
    <3>1. trade'.sold = sim /\ trade'.soldAt = n
      BY <1>6, <2>7
    <3>2. Max({1, n}) = n
      BY <1>2, MaxOfTwo
    <3> QED
      BY <1>4, <1>6, <1>8, <2>3, <3>1, <3>2
  <2>8. CASE trade.sold # "none"
    <3>1. trade'.sold = trade.sold /\ trade'.soldAt = 0 /\ n = 1 /\ closed
      BY <1>6, <2>5, <2>6, <2>8
    <3>2. Max({1, 0}) = 1
      BY MaxOfTwo
    <3> QED
      BY <1>6, <1>8, <2>8, <3>1, <3>2
  <2> QED
    BY <2>7, <2>8
<1>12. trade'.exit # None => trade'.exit \in [kind: Signals, at: Nat]
  BY <1>7 DEF Trades
<1> QED
  BY <1>1, <1>2, <1>6, <1>7, <1>9, <1>10, <1>11, <1>12 DEF HoldInv

LEMMA RestartStep ==
    ASSUME HoldInv, Restart
    PROVE  HoldInv'
<1> DEFINE p == trade.position
           q == [p EXCEPT !.plan = Restored(@)]
<1>1. /\ subject = "holding" /\ subject' = "holding" /\ trade.exit = None
      /\ trade \in Trades /\ PlanInv(p) /\ p.plan = p.priced
      /\ p \in Held /\ p.toClose \in Nat /\ p.toExpiry \in Nat
  BY DEF Restart, HoldInv, Trades, Held
<1>2. trade' = [trade EXCEPT !.position = q, !.restarted = TRUE]
  BY <1>1 DEF Restart, Trades
<1>3. Restored(p.priced) \in Plans
  BY <1>1, PlanForType DEF PlanInv
<1>4. /\ q \in Held /\ q.plan = Restored(p.priced) /\ q.priced = p.priced
      /\ q.toClose = p.toClose /\ q.toExpiry = p.toExpiry /\ q.family = p.family
  BY <1>1, <1>3 DEF Held
<1> HIDE DEF q
<1>5. /\ trade' \in Trades /\ trade'.position = q /\ trade'.restarted
      /\ trade'.held = trade.held /\ trade'.exit = None /\ trade'.sold = trade.sold
      /\ trade'.soldAt = trade.soldAt /\ trade'.missed = trade.missed
  BY <1>1, <1>2, <1>4 DEF Trades
<1>6. PlanInv(q)
  BY <1>1, <1>4 DEF PlanInv
<1>7. StopThreshold(q) <= 100 * q.maxLoss
  BY <1>4, <1>6, RestoredStopIsLooser
<1>8. EnforcedAsPriced' /\ RestartOnlyLoosens' /\ HeldOverOnlyIfUntradeable'
  BY <1>1, <1>5, <1>7 DEF HoldInv, EnforcedAsPriced, RestartOnlyLoosens, HeldOverOnlyIfUntradeable
<1> QED
  BY <1>1, <1>4, <1>5, <1>6, <1>8 DEF HoldInv

LEMMA TripStep ==
    ASSUME HoldInv, Trip
    PROVE  HoldInv'
<1>1. /\ subject = "holding" /\ subject' = "holding" /\ trade.exit = None /\ trade \in Trades
      /\ trade' = [trade EXCEPT !.killed = TRUE]
  BY DEF Trip, HoldInv
<1>2. /\ trade' \in Trades /\ trade'.position = trade.position /\ trade'.killed
      /\ trade'.restarted = trade.restarted
      /\ trade'.held = trade.held /\ trade'.exit = None /\ trade'.sold = trade.sold
      /\ trade'.soldAt = trade.soldAt /\ trade'.missed = trade.missed
  BY <1>1 DEF Trades
<1>3. EnforcedAsPriced' /\ RestartOnlyLoosens' /\ HeldOverOnlyIfUntradeable'
  BY <1>1, <1>2 DEF HoldInv, EnforcedAsPriced, RestartOnlyLoosens, HeldOverOnlyIfUntradeable
<1> QED
  BY <1>1, <1>2, <1>3 DEF HoldInv

(* The steps that leave the position that is held alone, or no longer look *)
(* at it.                                                                  *)
LEMMA NotHolding ==
    ASSUME [Next]_vars
    PROVE  \/ UNCHANGED <<subject, trade>> \/ subject' # "holding"
           \/ \E p \in Positions : Hold(p)
           \/ \E pnl \in Marks, quoted, itm, fills \in BOOLEAN : Tick(pnl, quoted, itm, fills)
           \/ Restart \/ Trip
<1> USE DEF vars
<1>1. CASE UNCHANGED vars
  BY <1>1
<1>2. CASE \E m \in Markets : Observe(m)
  BY <1>2 DEF Observe
<1>3. CASE \E f \in DOMAIN market.chain, fault \in Faults : Worsen(f, fault)
  BY <1>3 DEF Worsen
<1>4. CASE \E e \in {1, 2}, k \in Strikes, r \in {"call", "put"}, q \in Sizes : Compose(Leg(e, k, r, q))
  BY <1>4 DEF Compose
<1>5. CASE \E ctx \in Contexts : \E family \in AllFamilies : GenerateOne(ctx, family)
  BY <1>5 DEF GenerateOne
<1>6. ASSUME NEW family, NEW cost, Submit(family, cost) PROVE subject' # "holding"
  BY <1>6 DEF Submit
<1>7. CASE \E m \in CycleMarkets : BeginCycle(m)
  BY <1>7 DEF BeginCycle
<1>8. CASE \E p \in book, result \in Results : Close(p, result)
  BY <1>8 DEF Close
<1>9. CASE Lockout
  BY <1>9 DEF Lockout
<1>10. CASE \E f \in Forecasts, offers \in Pairs, n \in 0..MaxContracts : Decide(f, offers, n)
  BY <1>10 DEF Decide
<1>11. CASE StartOver
  BY <1>11 DEF StartOver
<1> QED
  BY <1>1, <1>2, <1>3, <1>4, <1>5, <1>6, <1>7, <1>8, <1>9, <1>10, <1>11 DEF Next

LEMMA HoldInvStep ==
    ASSUME HoldInv, [Next]_vars
    PROVE  HoldInv'
<1>1. CASE UNCHANGED <<subject, trade>>
  BY <1>1 DEF HoldInv, EnforcedAsPriced, RestartOnlyLoosens, HeldOverOnlyIfUntradeable
<1>2. CASE subject' # "holding"
  BY <1>2 DEF HoldInv
<1> QED
  BY <1>1, <1>2, NotHolding, HoldStep, TickStep, RestartStep, TripStep

(* Whatever a position is, however its results run, its quotes fail, its   *)
(* orders miss and the process restarts: the manager ends it when the      *)
(* simulator that priced its plan does (manager.py check_exit), what a     *)
(* restart leaves of the plan never stops it earlier or beyond its maximum *)
(* loss, and it outlives the session only without a market.                *)
THEOREM ExitsAlwaysFollowThePlan == Spec => []ExitsFollowThePlan
<1>1. Init => HoldInv
  BY DEF Init, HoldInv
<1>2. HoldInv /\ [Next]_vars => HoldInv'
  BY HoldInvStep
<1>3. HoldInv => ExitsFollowThePlan
  BY DEF HoldInv, ExitsFollowThePlan, EnforcedAsPriced, RestartOnlyLoosens, HeldOverOnlyIfUntradeable
<1> QED
  BY <1>1, <1>2, <1>3, PTL DEF Spec

-----------------------------------------------------------------------------
(* Data quality *)

LEMMA FaultsAreFinite == IsFiniteSet(Faults) /\ IsFiniteSet(SUBSET Faults)
<1>1. IsFiniteSet(Fatal)
  BY ThreeAreFinite DEF Fatal
<1>2. IsFiniteSet(Major)
  <2>1. IsFiniteSet({"zero_mid", "invalid_iv", "implausible_price"} \cup {"negative_size"})
    BY ThreeAreFinite, FS_AddElement
  <2>2. Major = {"zero_mid", "invalid_iv", "implausible_price"} \cup {"negative_size"}
    BY DEF Major
  <2> QED
    BY <2>1, <2>2
<1>3. IsFiniteSet(Minor)
  <2>1. Minor = {"locked_market"} \cup {"wide_spread"} /\ IsFiniteSet({"locked_market"})
    BY FS_Singleton DEF Minor
  <2> QED
    BY <2>1, FS_AddElement
<1>4. IsFiniteSet(Fatal \cup Major)
  BY <1>1, <1>2, FS_Union
<1>5. IsFiniteSet((Fatal \cup Major) \cup Minor)
  BY <1>3, <1>4, FS_Union
<1>6. IsFiniteSet(((Fatal \cup Major) \cup Minor) \cup {Stale})
  BY <1>5, FS_AddElement
<1> QED
  BY <1>6, FS_SUBSET DEF Faults

LEMMA ChainIsFinite ==
    ASSUME NEW m, IsSnapshot(m)
    PROVE  /\ IsFiniteSet(DOMAIN m.chain)
           /\ \A f \in DOMAIN m.chain : m.chain[f] \in Nat \ {0} /\ f \subseteq Faults
<1>1. DOMAIN m.chain \in SUBSET (SUBSET Faults)
  BY DEF IsSnapshot
<1> QED
  BY <1>1, FaultsAreFinite, FS_Subset DEF IsSnapshot

(* The number of contracts, and of those with some fault.                  *)
LEMMA CountsAreNumbers ==
    ASSUME NEW m, IsSnapshot(m), NEW X
    PROVE  /\ Total(m.chain) \in Nat /\ With(m.chain, X) \in Nat
           /\ With(m.chain, X) <= Total(m.chain)
           /\ \A f \in DOMAIN m.chain : f \cap X # {} => m.chain[f] <= With(m.chain, X)
<1> DEFINE D == DOMAIN m.chain
           F == m.chain
           G == [f \in D |-> IF f \cap X # {} THEN F[f] ELSE 0]
<1>1. IsFiniteSet(D) /\ \A f \in D : F[f] \in Nat
  BY ChainIsFinite
<1>2. Total(m.chain) = SumFunctionOnSet(F, D) /\ With(m.chain, X) = SumFunctionOnSet(G, D)
  BY DEF Total, With, SumFunction
<1> HIDE DEF D, F
<1>3. \A f \in D : G[f] \in Nat /\ F[f] \in Int /\ G[f] \in Int /\ G[f] <= F[f]
  BY <1>1
<1>4. \A f \in D : f \cap X # {} => G[f] = F[f]
  OBVIOUS
<1> HIDE DEF G
<1>5. SumFunctionOnSet(F, D) \in Nat
  BY <1>1, SumAtLeast
<1>6. SumFunctionOnSet(G, D) \in Nat /\ \A f \in D : G[f] <= SumFunctionOnSet(G, D)
  BY <1>1, <1>3, SumAtLeast
<1>7. SumFunctionOnSet(G, D) <= SumFunctionOnSet(F, D)
  BY <1>1, <1>3, SumMonotone
<1> QED
  BY <1>2, <1>4, <1>5, <1>6, <1>7 DEF D, F

LEMMA NoneOfThem ==
    ASSUME NEW m, IsSnapshot(m), NEW X, \A c \in X : With(m.chain, {c}) = 0
    PROVE  With(m.chain, X) = 0
<1> DEFINE D == DOMAIN m.chain
           G == [f \in D |-> IF f \cap X # {} THEN m.chain[f] ELSE 0]
<1>1. IsFiniteSet(D) /\ \A f \in D : m.chain[f] \in Nat
  BY ChainIsFinite
<1>2. ASSUME NEW f \in D PROVE G[f] = 0
  <2>1. CASE f \cap X = {}
    BY <2>1
  <2>2. CASE f \cap X # {}
    <3>1. PICK c \in X : c \in f
      BY <2>2
    <3>2. f \cap {c} # {} /\ With(m.chain, {c}) = 0
      BY <3>1
    <3>3. m.chain[f] <= 0
      BY <3>2, CountsAreNumbers
    <3> QED
      BY <1>1, <2>2, <3>3
  <2> QED
    BY <2>1, <2>2
<1>3. With(m.chain, X) = SumFunctionOnSet(G, D)
  BY DEF With, SumFunction
<1> HIDE DEF G, D
<1> QED
  BY <1>1, <1>2, <1>3, SumZero

(* What an issue says: its numbers are counts of the chain.                *)
LEMMA IssueTypes ==
    ASSUME NEW m, IsSnapshot(m), NEW i \in Issues(m)
    PROVE  /\ i.affected \in Nat /\ i.total \in {0, Total(m.chain)}
           /\ i.severity \in {"fatal", "major", "minor"}
<1> DEFINE n == Total(m.chain)
<1>1. n \in Nat /\ m.duplicates \in Nat /\ m.oneSided \in Nat
  BY CountsAreNumbers DEF IsSnapshot
<1>2. CASE n = 0
  BY <1>2 DEF Issues, Issue
<1>3. CASE i \in CheckUnderlying(m)
  BY <1>1, <1>3 DEF CheckUnderlying, Issue
<1>4. CASE i \in CheckQuotes(m)
  <2>1. PICK c \in Faults : i = Issue(c, Severity(c), With(m.chain, {c}), n)
    BY <1>4 DEF CheckQuotes
  <2>2. Severity(c) \in {"fatal", "major", "minor"}
    BY DEF Severity
  <2>3. With(m.chain, {c}) \in Nat
    BY CountsAreNumbers
  <2> QED
    BY <1>1, <2>1, <2>2, <2>3 DEF Issue
<1>5. CASE i \in CheckStructure(m)
  BY <1>1, <1>5 DEF CheckStructure, Issue
<1>6. CASE i \in CheckTimeliness(m)
  <2>1. With(m.chain, {Stale}) \in Nat
    BY CountsAreNumbers
  <2> QED
    BY <1>1, <1>6, <2>1 DEF CheckTimeliness, Issue
<1> QED
  BY <1>2, <1>3, <1>4, <1>5, <1>6 DEF Issues

LEMMA IssuesAreFinite ==
    ASSUME NEW m, IsSnapshot(m)
    PROVE  IsFiniteSet(Issues(m))
<1> DEFINE n == Total(m.chain)
           f == [c \in Faults |-> Issue(c, Severity(c), With(m.chain, {c}), n)]
           found == { c \in Faults \ {Stale} : With(m.chain, {c}) > 0 }
<1>1. \A x : IsFiniteSet({x}) /\ IsFiniteSet({})
  BY FS_Singleton, FS_EmptySet
<1>2. IsFiniteSet(CheckUnderlying(m))
  <2> DEFINE A == IF m.underlying = "missing" THEN {Issue("missing_underlying", "fatal", 1, 0)} ELSE {}
             B == IF m.underlying = "crossed" THEN {Issue("underlying_crossed", "fatal", 1, 0)} ELSE {}
             C == IF m.bars THEN {} ELSE {Issue("missing_bars", "major", 1, 0)}
  <2>1. IsFiniteSet(A) /\ IsFiniteSet(B) /\ IsFiniteSet(C)
    BY <1>1
  <2> HIDE DEF A, B, C
  <2>2. IsFiniteSet(A \cup B)
    BY <2>1, FS_Union
  <2>3. IsFiniteSet((A \cup B) \cup C)
    BY <2>1, <2>2, FS_Union
  <2> QED
    BY <2>3 DEF CheckUnderlying, A, B, C
<1>3. IsFiniteSet(CheckQuotes(m))
  <2>1. IsFiniteSet(found)
    BY FaultsAreFinite, FS_Subset
  <2>2. CheckQuotes(m) = { f[c] : c \in found }
    BY DEF CheckQuotes
  <2> HIDE DEF f, found
  <2> QED
    BY <2>1, <2>2, ImageIsFinite
<1>4. IsFiniteSet(CheckStructure(m))
  <2> DEFINE A == IF m.duplicates > 0 THEN {Issue("duplicate_contracts", "major", m.duplicates, n)} ELSE {}
             B == IF n < MinContracts THEN {Issue("sparse_chain", "major", n, n)} ELSE {}
             C == IF m.oneSided > 0 THEN {Issue("missing_chain_section", "major", m.oneSided, n)} ELSE {}
  <2>1. IsFiniteSet(A) /\ IsFiniteSet(B) /\ IsFiniteSet(C)
    BY <1>1
  <2>2. CheckStructure(m) = (A \cup B) \cup C
    BY DEF CheckStructure
  <2> HIDE DEF A, B, C
  <2>3. IsFiniteSet(A \cup B)
    BY <2>1, FS_Union
  <2> QED
    BY <2>1, <2>2, <2>3, FS_Union
<1>5. IsFiniteSet(CheckTimeliness(m))
  <2> DEFINE stale == With(m.chain, {Stale})
             A == IF stale = 0 THEN {}
                  ELSE {Issue(Stale, IF 4 * stale > n THEN "fatal" ELSE "major", stale, n)}
             B == IF m.skewed THEN {Issue("timestamp_mismatch", "major", 1, 0)} ELSE {}
  <2>1. IsFiniteSet(A) /\ IsFiniteSet(B)
    BY <1>1
  <2>2. CheckTimeliness(m) = A \cup B
    BY DEF CheckTimeliness
  <2> HIDE DEF A, B
  <2> QED
    BY <2>1, <2>2, FS_Union
<1>6. IsFiniteSet(CheckUnderlying(m) \cup CheckQuotes(m))
  BY <1>2, <1>3, FS_Union
<1>7. IsFiniteSet((CheckUnderlying(m) \cup CheckQuotes(m)) \cup CheckStructure(m))
  BY <1>4, <1>6, FS_Union
<1>8. IsFiniteSet(((CheckUnderlying(m) \cup CheckQuotes(m)) \cup CheckStructure(m)) \cup CheckTimeliness(m))
  BY <1>5, <1>7, FS_Union
<1> QED
  BY <1>1, <1>8 DEF Issues

(* Every issue adds its part to the penalty, and none takes away.          *)
LEMMA PenaltyAtLeast ==
    ASSUME NEW m, IsSnapshot(m)
    PROVE  /\ Penalty(m) \in Nat
           /\ \A i \in Issues(m) : Weight(i.severity) * Fraction(i, Total(m.chain)) <= Penalty(m)
<1> DEFINE n == Total(m.chain)
           I == Issues(m)
           F == [i \in I |-> Weight(i.severity) * Fraction(i, n)]
<1>1. n \in Nat
  BY CountsAreNumbers
<1>2. ASSUME NEW i \in I PROVE F[i] \in Nat
  <2>1. i.affected \in Nat /\ i.severity \in {"fatal", "major", "minor"}
    BY IssueTypes
  <2>2. Weight(i.severity) \in Nat
    BY <2>1 DEF Weight
  <2>3. Max({20 * i.affected, n}) \in Nat
    BY <1>1, <2>1, MaxOfTwo
  <2>4. Fraction(i, n) \in Nat
    BY <1>1, <2>1, <2>3 DEF Fraction
  <2> QED
    BY <2>2, <2>4
<1>3. Penalty(m) = SumFunctionOnSet(F, I)
  BY DEF Penalty, SumFunction
<1>4. IsFiniteSet(I)
  BY IssuesAreFinite
<1> HIDE DEF F
<1>5. SumFunctionOnSet(F, I) \in Nat /\ \A i \in I : F[i] <= SumFunctionOnSet(F, I)
  BY <1>2, <1>4, SumAtLeast
<1> QED
  BY <1>3, <1>5 DEF F

(* One major finding about the whole snapshot is enough for a lockout.     *)
LEMMA MajorLocksOut ==
    ASSUME NEW m, IsSnapshot(m), IsTradeable(m), NEW i \in Issues(m), i.severity = "major"
    PROVE  /\ i.total = 0 => i.affected = 0
           /\ i.total = Total(m.chain) => 20 * i.affected < 20 * Total(m.chain)
<1> DEFINE n == Total(m.chain)
           u == Usable(m.chain)
           p == Penalty(m)
<1>1. n \in Nat /\ With(m.chain, Unusable) \in Nat /\ With(m.chain, Unusable) <= n
  BY CountsAreNumbers
<1>2. u \in Nat /\ u <= n
  BY <1>1 DEF Usable
<1>3. p \in Nat /\ 45 * Fraction(i, n) <= p /\ i.affected \in Nat /\ i.total \in {0, n}
  BY PenaltyAtLeast, IssueTypes DEF Weight
<1>4. n # 0
  BY DEF IsTradeable, HasFatal, Issues, Issue
<1>5. Max({0, 2000 * n - p}) * (4 * n + 6 * u) >= 14000 * n * n
  BY DEF IsTradeable, Score
<1> HIDE DEF n, u, p
<1>6. p < 900 * n
  <2> SUFFICES ASSUME p >= 900 * n PROVE FALSE
    BY <1>1, <1>3
  <2> DEFINE x == Max({0, 2000 * n - p})
  <2>1. x = IF 0 >= 2000 * n - p THEN 0 ELSE 2000 * n - p
    BY <1>1, <1>3, MaxOfTwo
  <2>2. x \in Nat /\ x <= 1100 * n
    BY <1>1, <1>3, <2>1
  <2> HIDE DEF x
  <2>3. x * (4 * n + 6 * u) <= x * (10 * n)
    BY <1>1, <1>2, <2>2
  <2>4. x * (10 * n) <= (1100 * n) * (10 * n)
    BY <1>1, <2>2
  <2>5. (1100 * n) * (10 * n) = 11000 * (n * n) /\ 14000 * n * n = 14000 * (n * n)
    BY <1>1
  <2>6. n * n \in Nat /\ n * n > 0
    BY <1>1, <1>4
  <2>7. x * (4 * n + 6 * u) \in Int /\ x * (10 * n) \in Int
    BY <1>1, <1>2, <2>2
  <2> QED
    BY <1>5, <2>3, <2>4, <2>5, <2>6, <2>7 DEF x
<1>7. Fraction(i, n) \in Int => Fraction(i, n) < 20 * n
  BY <1>1, <1>3, <1>6
<1>8. i.total = 0 => i.affected = 0
  <2> SUFFICES ASSUME i.total = 0, i.affected > 0 PROVE FALSE
    BY <1>3
  <2>1. Fraction(i, n) = 20 * n
    BY DEF Fraction
  <2> QED
    BY <1>1, <1>7, <2>1
<1>9. i.total = n => 20 * i.affected < 20 * n
  <2> SUFFICES ASSUME i.total = n PROVE 20 * i.affected < 20 * n
    OBVIOUS
  <2> DEFINE a == 20 * i.affected
  <2>1. Fraction(i, n) = Max({a, n})
    BY <1>4 DEF Fraction, n
  <2>2. a \in Int
    BY <1>3
  <2> HIDE DEF a
  <2>3. Max({a, n}) \in Int /\ a <= Max({a, n})
    BY <1>1, <2>2, MaxOfTwo
  <2>4. a < 20 * n
    BY <1>1, <1>7, <2>1, <2>2, <2>3
  <2> QED
    BY <2>4 DEF a
<1> QED
  BY <1>8, <1>9 DEF n

(* A snapshot that scores enough to be traded on is sound.                 *)
LEMMA ScoredIsSound ==
    ASSUME NEW m, IsSnapshot(m), IsTradeable(m)
    PROVE  /\ m.bars /\ ~m.skewed /\ m.underlying = "ok"
           /\ With(m.chain, Fatal) = 0
           /\ 4 * With(m.chain, {Stale}) <= Total(m.chain)
           /\ 2 * Usable(m.chain) >= Total(m.chain) /\ Total(m.chain) >= MinContracts
<1> DEFINE n == Total(m.chain)
           u == Usable(m.chain)
           p == Penalty(m)
<1>1. n \in Nat /\ With(m.chain, Unusable) \in Nat /\ With(m.chain, Unusable) <= n
  BY CountsAreNumbers
<1>2. n # 0 /\ \A i \in Issues(m) : i.severity # "fatal"
  <2>1. \A i \in Issues(m) : i.severity # "fatal"
    BY DEF IsTradeable, HasFatal
  <2>2. n = 0 => Issue("empty_chain", "fatal", 0, 0) \in Issues(m)
    BY DEF Issues
  <2> QED
    BY <2>1, <2>2 DEF Issue
<1>3. CheckUnderlying(m) \cup CheckQuotes(m) \cup CheckStructure(m) \cup CheckTimeliness(m) = Issues(m)
  BY <1>2 DEF Issues
<1>4. m.underlying = "ok"
  <2>1. m.underlying \in {"ok", "missing", "crossed"}
    BY DEF IsSnapshot
  <2>2. m.underlying # "missing"
    <3> SUFFICES ASSUME m.underlying = "missing" PROVE FALSE
      OBVIOUS
    <3>1. Issue("missing_underlying", "fatal", 1, 0) \in Issues(m)
      BY <1>3 DEF CheckUnderlying
    <3> QED
      BY <1>2, <3>1 DEF Issue
  <2>3. m.underlying # "crossed"
    <3> SUFFICES ASSUME m.underlying = "crossed" PROVE FALSE
      OBVIOUS
    <3>1. Issue("underlying_crossed", "fatal", 1, 0) \in Issues(m)
      BY <1>3 DEF CheckUnderlying
    <3> QED
      BY <1>2, <3>1 DEF Issue
  <2> QED
    BY <2>1, <2>2, <2>3
<1>5. m.bars
  <2> SUFFICES ASSUME ~m.bars PROVE FALSE
    OBVIOUS
  <2> DEFINE i == Issue("missing_bars", "major", 1, 0)
  <2>1. i \in Issues(m)
    BY <1>3 DEF CheckUnderlying
  <2>2. i.severity = "major" /\ i.total = 0 /\ i.affected = 1
    BY DEF Issue
  <2> HIDE DEF i
  <2> QED
    BY <2>1, <2>2, MajorLocksOut
<1>6. ~m.skewed
  <2> SUFFICES ASSUME m.skewed PROVE FALSE
    OBVIOUS
  <2> DEFINE i == Issue("timestamp_mismatch", "major", 1, 0)
  <2>1. i \in Issues(m)
    BY <1>3 DEF CheckTimeliness
  <2>2. i.severity = "major" /\ i.total = 0 /\ i.affected = 1
    BY DEF Issue
  <2> HIDE DEF i
  <2> QED
    BY <2>1, <2>2, MajorLocksOut
<1>7. n >= MinContracts
  <2> SUFFICES ASSUME n < MinContracts PROVE FALSE
    BY <1>1, MinContractsAssumption
  <2> DEFINE i == Issue("sparse_chain", "major", n, n)
  <2>1. i \in Issues(m)
    BY <1>3 DEF CheckStructure
  <2>2. i.severity = "major" /\ i.total = n /\ i.affected = n
    BY DEF Issue
  <2> HIDE DEF i
  <2>3. 20 * n < 20 * n
    BY <2>1, <2>2, MajorLocksOut
  <2> QED
    BY <1>1, <2>3
<1>8. With(m.chain, Fatal) = 0
  <2>1. ASSUME NEW c \in Fatal PROVE With(m.chain, {c}) = 0
    <3>1. With(m.chain, {c}) \in Nat
      BY CountsAreNumbers
    <3>2. c \in Faults \ {Stale} /\ Severity(c) = "fatal"
      <4>1. c # Stale
        BY DEF Fatal, Stale
      <4>2. Severity(c) = "fatal"
        BY DEF Severity, Fatal, Major
      <4> QED
        BY <4>1, <4>2 DEF Faults
    <3> DEFINE i == Issue(c, Severity(c), With(m.chain, {c}), n)
    <3>3. With(m.chain, {c}) > 0 => i \in Issues(m)
      BY <1>3, <3>2 DEF CheckQuotes
    <3>4. i.severity = "fatal"
      BY <3>2 DEF Issue
    <3> HIDE DEF i
    <3> QED
      BY <1>2, <3>1, <3>3, <3>4
  <2> QED
    BY <2>1, NoneOfThem
<1>9. 4 * With(m.chain, {Stale}) <= n
  <2> DEFINE stale == With(m.chain, {Stale})
             i == Issue(Stale, IF 4 * stale > n THEN "fatal" ELSE "major", stale, n)
  <2>1. stale \in Nat
    BY CountsAreNumbers
  <2>2. stale # 0 => i \in Issues(m)
    BY <1>3 DEF CheckTimeliness
  <2>3. 4 * stale > n => i.severity = "fatal"
    BY DEF Issue
  <2> HIDE DEF i, stale, n
  <2>4. ~(4 * stale > n)
    BY <1>1, <1>2, <2>1, <2>2, <2>3
  <2> QED
    BY <1>1, <2>1, <2>4 DEF stale, n
<1>10. 2 * u >= n
  <2>1. u \in Nat /\ u <= n /\ p \in Nat
    BY <1>1, PenaltyAtLeast DEF Usable
  <2>2. Max({0, 2000 * n - p}) * (4 * n + 6 * u) >= 14000 * n * n
    BY DEF IsTradeable, Score
  <2> HIDE DEF n, u, p
  <2> DEFINE x == Max({0, 2000 * n - p})
             y == 4 * n + 6 * u
  <2>3. x = IF 0 >= 2000 * n - p THEN 0 ELSE 2000 * n - p
    BY <1>1, <2>1, MaxOfTwo
  <2>4. x \in Nat /\ x <= 2000 * n /\ y \in Nat
    BY <1>1, <2>1, <2>3
  <2>5. x * y >= 14000 * n * n
    BY <2>2
  <2> HIDE DEF x, y
  <2>6. x * y <= (2000 * n) * y /\ (2000 * n) * y = 2000 * (n * y)
    BY <1>1, <2>4
  <2>7. 14000 * n * n = 2000 * (n * (7 * n))
    BY <1>1
  <2>8. n * y \in Int /\ n * (7 * n) \in Int /\ x * y \in Int
    BY <1>1, <2>4
  <2>9. n * (7 * n) <= n * y
    BY <2>5, <2>6, <2>7, <2>8
  <2>10. 7 * n <= y
    <3> SUFFICES ASSUME y < 7 * n PROVE FALSE
      BY <1>1, <2>4
    <3>1. n * y < n * (7 * n)
      BY <1>1, <1>2, <2>4 DEF n
    <3> QED
      BY <2>8, <2>9, <3>1
  <2> QED
    BY <1>1, <2>1, <2>10 DEF y
<1> QED
  BY <1>4, <1>5, <1>6, <1>7, <1>8, <1>9, <1>10

(* One more fault leaves a snapshot a snapshot.                            *)
LEMMA WorseIsASnapshot ==
    ASSUME NEW m, IsSnapshot(m), NEW f \in DOMAIN m.chain, NEW fault, IsContract(f \cup {fault})
    PROVE  IsSnapshot([m EXCEPT !.chain = Moved(@, f, f \cup {fault})])
<1> DEFINE to == f \cup {fault}
           count(g) == (IF g \in DOMAIN m.chain THEN m.chain[g] ELSE 0)
                       + (IF g = to THEN 1 ELSE 0) - (IF g = f THEN 1 ELSE 0)
           classes == { g \in DOMAIN m.chain \cup {to} : count(g) > 0 }
           chain == Moved(m.chain, f, to)
           w == [m EXCEPT !.chain = chain]
<1>1. chain = [g \in classes |-> count(g)]
  BY DEF Moved
<1>2. \A g \in classes : count(g) \in Nat \ {0}
  <2>1. \A g \in DOMAIN m.chain \cup {to} : count(g) \in Int
    BY ChainIsFinite
  <2> HIDE DEF count
  <2> QED
    BY <2>1
<1>3. classes \subseteq SUBSET Faults
  BY ChainIsFinite DEF IsContract
<1> HIDE DEF count, classes
<1>4. DOMAIN chain = classes /\ chain \in [classes -> Nat \ {0}]
  BY <1>1, <1>2
<1> HIDE DEF chain
<1>5. w.chain = chain
  BY DEF IsSnapshot
<1>6. w \in [kind: {"snapshot"}, chain: {chain}, bars: BOOLEAN, skewed: BOOLEAN,
             underlying: {"ok", "missing", "crossed"}, duplicates: Nat, oneSided: Nat]
  BY DEF IsSnapshot
<1>7. IsSnapshot(w)
  BY <1>3, <1>4, <1>5, <1>6 DEF IsSnapshot
<1> QED
  BY <1>7 DEF w, chain, to

MarketInv == (market = None \/ IsSnapshot(market)) /\ (subject = "snapshot" => IsSnapshot(market))

LEMMA MarketStep ==
    ASSUME MarketInv, [Next]_vars
    PROVE  MarketInv'
<1>1. CASE \E m \in Markets : Observe(m)
  BY <1>1, MarketAssumption DEF Observe, MarketInv, IsSnapshot
<1>2. CASE subject = "snapshot" /\ \E f \in DOMAIN market.chain, fault \in Faults : Worsen(f, fault)
  <2>1. PICK f \in DOMAIN market.chain, fault \in Faults : Worsen(f, fault)
    BY <1>2
  <2>2. IsSnapshot(market) /\ IsContract(f \cup {fault}) /\ subject' = "worse"
    BY <1>2, <2>1 DEF Worsen, MarketInv
  <2>3. market' = [market EXCEPT !.chain = Moved(@, f, f \cup {fault})]
    BY <2>1 DEF Worsen
  <2>4. IsSnapshot(market')
    BY <2>2, <2>3, WorseIsASnapshot
  <2> QED
    BY <2>2, <2>4 DEF MarketInv
<1>3. CASE \E m \in CycleMarkets : BeginCycle(m)
  BY <1>3, MarketAssumption DEF BeginCycle, MarketInv
<1>4. CASE UNCHANGED market /\ subject' # "snapshot"
  BY <1>4 DEF MarketInv, IsSnapshot
<1>5. CASE market' = None /\ subject' # "snapshot"
  BY <1>5 DEF MarketInv
<1>6. CASE UNCHANGED vars
  BY <1>6 DEF vars, MarketInv, IsSnapshot
<1>7. CASE \E e \in {1, 2}, k \in Strikes, r \in {"call", "put"}, q \in Sizes : Compose(Leg(e, k, r, q))
  BY <1>4, <1>7 DEF Compose
<1>8. CASE \E ctx \in Contexts : \E family \in AllFamilies : GenerateOne(ctx, family)
  BY <1>4, <1>8 DEF GenerateOne
<1>9. ASSUME NEW family, NEW cost, Submit(family, cost) PROVE MarketInv'
  BY <1>4, <1>9 DEF Submit
<1>10. CASE \E p \in book, result \in Results : Close(p, result)
  BY <1>4, <1>10 DEF Close
<1>11. CASE Lockout \/ StartOver
  BY <1>5, <1>11 DEF Lockout, StartOver
<1>12. CASE \E f \in Forecasts, offers \in Pairs, n \in 0..MaxContracts : Decide(f, offers, n)
  BY <1>5, <1>12 DEF Decide
<1>13. CASE \E p \in Positions : Hold(p)
  BY <1>4, <1>13 DEF Hold
<1>14. CASE \E pnl \in Marks, quoted, itm, fills \in BOOLEAN : Tick(pnl, quoted, itm, fills)
  BY <1>4, <1>14 DEF Tick
<1>15. CASE Restart \/ Trip
  BY <1>4, <1>15 DEF Restart, Trip
<1> QED
  BY <1>1, <1>2, <1>3, <1>6, <1>7, <1>8, <1>9, <1>10, <1>11, <1>12, <1>13, <1>14, <1>15 DEF Next

(* Whatever the chain holds and however many contracts of each kind: the   *)
(* score of quality.py lets through no snapshot without bars, clock or     *)
(* underlying, none with a crossed, expired or negative quote, and none    *)
(* that is mostly stale, unusable or sparse.                               *)
THEOREM TradedOnIsSound == Spec => []TradeableIsSound
<1>1. Init => MarketInv
  BY DEF Init, MarketInv
<1>2. MarketInv /\ [Next]_vars => MarketInv'
  BY MarketStep
<1>3. MarketInv => TradeableIsSound
  BY ScoredIsSound DEF MarketInv, TradeableIsSound
<1> QED
  BY <1>1, <1>2, <1>3, PTL DEF Spec

-----------------------------------------------------------------------------
(* One more fault *)

(* How many contracts of a chain are of one of the classes.                *)
CountIn(chain, classes) ==
    SumFunctionOnSet([g \in DOMAIN chain |-> IF g \in classes THEN chain[g] ELSE 0], DOMAIN chain)

(* One contract moves from its class to another.                           *)
LEMMA MovedCount ==
    ASSUME NEW m, IsSnapshot(m), NEW f \in DOMAIN m.chain, NEW to, f # to, NEW X
    PROVE  /\ CountIn(m.chain, X) \in Nat
           /\ CountIn(Moved(m.chain, f, to), X)
                = CountIn(m.chain, X) + (IF to \in X THEN 1 ELSE 0) - (IF f \in X THEN 1 ELSE 0)
<1> DEFINE c == m.chain
           D == DOMAIN c
           E == D \cup {to}
           count(g) == (IF g \in D THEN c[g] ELSE 0) + (IF g = to THEN 1 ELSE 0) - (IF g = f THEN 1 ELSE 0)
           C == { g \in E : count(g) > 0 }
           n == Moved(c, f, to)
           old == [g \in E |-> IF g \in X /\ g \in D THEN c[g] ELSE 0]
           new == [g \in E |-> IF g \in X THEN count(g) ELSE 0]
           d == [g \in E |-> IF g \in X THEN (IF g = to THEN 1 ELSE 0) - (IF g = f THEN 1 ELSE 0) ELSE 0]
<1>1. IsFiniteSet(D) /\ \A g \in D : c[g] \in Nat \ {0}
  BY ChainIsFinite
<1>2. IsFiniteSet(E) /\ D \in SUBSET E /\ f \in E /\ to \in E
  BY <1>1, FS_AddElement
<1>3. n = [g \in C |-> count(g)]
  BY DEF Moved
<1>4. \A g \in E : /\ old[g] \in Nat /\ new[g] \in Nat /\ d[g] \in Int
                   /\ 1 * new[g] = 1 * old[g] + 1 * d[g]
  BY <1>1
<1>5. CountIn(c, X) = SumFunctionOnSet(old, E) /\ CountIn(c, X) \in Nat
  <2> DEFINE o == [g \in D |-> IF g \in X THEN c[g] ELSE 0]
  <2>1. CountIn(c, X) = SumFunctionOnSet(o, D)
    BY DEF CountIn
  <2>2. \A g \in D : o[g] = old[g]
    OBVIOUS
  <2>3. \A g \in E \ D : old[g] = 0
    OBVIOUS
  <2> HIDE DEF o, old, D, E, c
  <2>4. SumFunctionOnSet(o, D) = SumFunctionOnSet(old, D)
    BY <1>1, <2>2, SumAgree
  <2>5. SumFunctionOnSet(old, E) = SumFunctionOnSet(old, D)
    BY <1>2, <1>4, <2>3, SumPart
  <2>6. SumFunctionOnSet(old, E) \in Nat
    BY <1>2, <1>4, SumAtLeast
  <2> QED
    BY <2>1, <2>4, <2>5, <2>6
<1>6. CountIn(n, X) = SumFunctionOnSet(new, E)
  <2> DEFINE o == [g \in C |-> IF g \in X THEN n[g] ELSE 0]
  <2>1. DOMAIN n = C /\ C \in SUBSET E /\ \A g \in C : n[g] = count(g)
    <3> HIDE DEF count
    <3> QED
      BY <1>3
  <2>2. CountIn(n, X) = SumFunctionOnSet(o, C)
    BY <2>1 DEF CountIn
  <2>3. \A g \in C : o[g] = new[g]
    <3> HIDE DEF count, n
    <3> QED
      BY <2>1
  <2>4. \A g \in E \ C : new[g] = 0
    BY <1>1
  <2>5. IsFiniteSet(C)
    BY <1>2, <2>1, FS_Subset
  <2> HIDE DEF o, new, C, E, c
  <2>6. SumFunctionOnSet(o, C) = SumFunctionOnSet(new, C)
    BY <2>3, <2>5, SumAgree
  <2>7. SumFunctionOnSet(new, E) = SumFunctionOnSet(new, C)
    BY <1>2, <1>4, <2>1, <2>4, SumPart
  <2> QED
    BY <2>2, <2>6, <2>7
<1>7. SumFunctionOnSet(d, E) = (IF to \in X THEN 1 ELSE 0) - (IF f \in X THEN 1 ELSE 0)
  <2> DEFINE U == E \ {to}
             V == U \ {f}
  <2>1. /\ d[to] = (IF to \in X THEN 1 ELSE 0) /\ d[f] = -(IF f \in X THEN 1 ELSE 0)
        /\ \A g \in V : d[g] = 0
    BY <1>2
  <2>2. IsFiniteSet(U) /\ IsFiniteSet(V) /\ f \in U
    BY <1>2, FS_Subset
  <2> HIDE DEF d, E, U, V
  <2>3. SumFunctionOnSet(d, E) = d[to] + SumFunctionOnSet(d, U)
    BY <1>2, <1>4, SumSplit DEF U
  <2>4. SumFunctionOnSet(d, U) = d[f] + SumFunctionOnSet(d, V)
    <3>1. \A g \in U : d[g] \in Int
      BY <1>4 DEF U
    <3> QED
      BY <2>2, <3>1, SumSplit DEF V
  <2>5. SumFunctionOnSet(d, V) = 0
    BY <2>1, <2>2, SumZero
  <2> QED
    BY <2>1, <2>3, <2>4, <2>5
<1>8. 1 * SumFunctionOnSet(new, E) = 1 * SumFunctionOnSet(old, E) + 1 * SumFunctionOnSet(d, E)
  <2> HIDE DEF new, old, d, E
  <2>1. \A g \in E : new[g] \in Int /\ old[g] \in Int
    BY <1>4
  <2> QED
    BY <1>2, <1>4, <2>1, SumLinear
<1>9. SumFunctionOnSet(new, E) \in Int
  <2> HIDE DEF new, E
  <2> QED
    BY <1>2, <1>4, SumType
<1> HIDE DEF new, old, d, E
<1>10. CountIn(n, X) = CountIn(c, X) + ((IF to \in X THEN 1 ELSE 0) - (IF f \in X THEN 1 ELSE 0))
  BY <1>5, <1>6, <1>7, <1>8, <1>9
<1> QED
  BY <1>5, <1>10

(* The classes in which some of the faults are found.                      *)
Showing(faults) == { g \in SUBSET Faults : g \cap faults # {} }

LEMMA CountsAre ==
    ASSUME NEW m, IsSnapshot(m), NEW X
    PROVE  Total(m.chain) = CountIn(m.chain, SUBSET Faults) /\ With(m.chain, X) = CountIn(m.chain, Showing(X))
<1> DEFINE D == DOMAIN m.chain
           F == m.chain
           G == [g \in D |-> IF g \cap X # {} THEN F[g] ELSE 0]
           P == [g \in D |-> IF g \in SUBSET Faults THEN F[g] ELSE 0]
           Q == [g \in D |-> IF g \in Showing(X) THEN F[g] ELSE 0]
<1>1. IsFiniteSet(D) /\ \A g \in D : g \in SUBSET Faults
  BY ChainIsFinite
<1>2. /\ Total(m.chain) = SumFunctionOnSet(F, D) /\ With(m.chain, X) = SumFunctionOnSet(G, D)
      /\ CountIn(m.chain, SUBSET Faults) = SumFunctionOnSet(P, D)
      /\ CountIn(m.chain, Showing(X)) = SumFunctionOnSet(Q, D)
  BY DEF Total, With, SumFunction, CountIn
<1>3. \A g \in D : F[g] = P[g] /\ G[g] = Q[g]
  BY <1>1 DEF Showing
<1> HIDE DEF D, F, G, P, Q
<1>4. SumFunctionOnSet(F, D) = SumFunctionOnSet(P, D) /\ SumFunctionOnSet(G, D) = SumFunctionOnSet(Q, D)
  BY <1>1, <1>3, SumAgree
<1> QED
  BY <1>2, <1>4

(* w is m with one more fault in one of its contracts.                     *)
IsWorse(m, w) ==
    /\ IsSnapshot(m) /\ IsSnapshot(w)
    /\ w.bars = m.bars /\ w.skewed = m.skewed /\ w.underlying = m.underlying
    /\ w.duplicates = m.duplicates /\ w.oneSided = m.oneSided
    /\ Total(w.chain) = Total(m.chain) /\ Total(m.chain) > 0
    /\ \A X : With(w.chain, X) >= With(m.chain, X)

LEMMA WorsenedIsWorse ==
    ASSUME NEW m, IsSnapshot(m), NEW f \in DOMAIN m.chain, NEW fault \in Faults, fault \notin f,
           IsContract(f \cup {fault})
    PROVE  IsWorse(m, [m EXCEPT !.chain = Moved(@, f, f \cup {fault})])
<1> DEFINE to == f \cup {fault}
           w == [m EXCEPT !.chain = Moved(@, f, to)]
<1>1. IsSnapshot(w)
  BY WorseIsASnapshot
<1>2. /\ w.bars = m.bars /\ w.skewed = m.skewed /\ w.underlying = m.underlying
      /\ w.duplicates = m.duplicates /\ w.oneSided = m.oneSided /\ w.chain = Moved(m.chain, f, to)
  BY DEF IsSnapshot
<1>3. f # to /\ f \in SUBSET Faults /\ to \in SUBSET Faults
  BY ChainIsFinite DEF IsContract
<1> HIDE DEF w
<1>4. \A X : /\ CountIn(m.chain, X) \in Nat
             /\ CountIn(w.chain, X)
                = CountIn(m.chain, X) + (IF to \in X THEN 1 ELSE 0) - (IF f \in X THEN 1 ELSE 0)
  BY <1>2, <1>3, MovedCount
<1>5. Total(w.chain) = Total(m.chain)
  <2>1. /\ Total(m.chain) = CountIn(m.chain, SUBSET Faults)
        /\ Total(w.chain) = CountIn(w.chain, SUBSET Faults)
    BY <1>1, CountsAre
  <2>2. CountIn(w.chain, SUBSET Faults) = CountIn(m.chain, SUBSET Faults) + 1 - 1
        /\ CountIn(m.chain, SUBSET Faults) \in Nat
    BY <1>3, <1>4
  <2> QED
    BY <2>1, <2>2
<1>6. ASSUME NEW X PROVE With(w.chain, X) >= With(m.chain, X)
  <2> DEFINE S == Showing(X)
  <2>1. With(m.chain, X) = CountIn(m.chain, S) /\ With(w.chain, X) = CountIn(w.chain, S)
    BY <1>1, CountsAre
  <2>2. f \in S => to \in S
    BY <1>3 DEF Showing
  <2> HIDE DEF S
  <2>3. /\ CountIn(m.chain, S) \in Nat
        /\ CountIn(w.chain, S) = CountIn(m.chain, S) + (IF to \in S THEN 1 ELSE 0) - (IF f \in S THEN 1 ELSE 0)
    BY <1>4
  <2>4. CountIn(w.chain, S) >= CountIn(m.chain, S)
    BY <2>2, <2>3
  <2> QED
    BY <2>1, <2>4
<1>7. Total(m.chain) > 0
  <2>1. m.chain[f] \in Nat \ {0} /\ Total(m.chain) \in Nat
    BY ChainIsFinite, CountsAreNumbers
  <2>2. m.chain[f] <= SumFunctionOnSet(m.chain, DOMAIN m.chain)
    BY ChainIsFinite, SumAtLeast
  <2> QED
    BY <2>1, <2>2 DEF Total, SumFunction
<1>8. IsWorse(m, w)
  BY <1>1, <1>2, <1>5, <1>6, <1>7 DEF IsWorse
<1> QED
  BY <1>8 DEF w, to

(* What the check for a code reports.                                      *)
Finding(m, code) ==
    LET n == Total(m.chain)
        found == With(m.chain, {code})
    IN  CASE code \in {"missing_underlying", "underlying_crossed"} -> Issue(code, "fatal", 1, 0)
          [] code \in {"missing_bars", "timestamp_mismatch"} -> Issue(code, "major", 1, 0)
          [] code = "duplicate_contracts" -> Issue(code, "major", m.duplicates, n)
          [] code = "sparse_chain" -> Issue(code, "major", n, n)
          [] code = "missing_chain_section" -> Issue(code, "major", m.oneSided, n)
          [] code = Stale -> Issue(code, IF 4 * found > n THEN "fatal" ELSE "major", found, n)
          [] OTHER -> Issue(code, Severity(code), found, n)

LEMMA IssueIs ==
    ASSUME NEW code, NEW severity, NEW affected, NEW total
    PROVE  LET i == Issue(code, severity, affected, total)
           IN  i.code = code /\ i.severity = severity /\ i.affected = affected /\ i.total = total
BY DEF Issue

(* What an issue takes off the score.                                      *)
Cost(i, n) == Weight(i.severity) * Fraction(i, n)

LEMMA CostGrows ==
    ASSUME NEW code, NEW n \in Nat \ {0}, NEW a \in Nat, NEW b \in Nat, a <= b,
           NEW s \in {"fatal", "major", "minor"}, NEW t \in {s, "fatal"}
    PROVE  Cost(Issue(code, s, a, n), n) <= Cost(Issue(code, t, b, n), n)
<1> DEFINE x == Max({20 * a, n})
           y == Max({20 * b, n})
<1>1. x \in Nat /\ y \in Nat /\ x <= y
  BY MaxOfTwo
<1>2. Weight(s) \in Nat /\ Weight(t) \in Nat /\ Weight(s) <= Weight(t)
  BY DEF Weight
<1>3. /\ Cost(Issue(code, s, a, n), n) = Weight(s) * x
      /\ Cost(Issue(code, t, b, n), n) = Weight(t) * y
  BY DEF Cost, Fraction, Issue
<1> HIDE DEF x, y
<1>4. \A p, q, u, v \in Nat : p <= q /\ u <= v => p * u <= q * v
  <2> SUFFICES ASSUME NEW p \in Nat, NEW q \in Nat, NEW u \in Nat, NEW v \in Nat, p <= q, u <= v
               PROVE  p * u <= q * v
    OBVIOUS
  <2>1. p * u <= q * u /\ q * u <= q * v /\ p * u \in Nat /\ q * u \in Nat /\ q * v \in Nat
    OBVIOUS
  <2> QED
    BY <2>1
<1> QED
  BY <1>1, <1>2, <1>3, <1>4

LEMMA CostType ==
    ASSUME NEW m, IsSnapshot(m), NEW i \in Issues(m)
    PROVE  Cost(i, Total(m.chain)) \in Nat
<1> DEFINE n == Total(m.chain)
<1>1. n \in Nat /\ i.affected \in Nat /\ i.severity \in {"fatal", "major", "minor"}
  BY CountsAreNumbers, IssueTypes
<1>2. Weight(i.severity) \in Nat
  BY <1>1 DEF Weight
<1> HIDE DEF n
<1>3. Max({20 * i.affected, n}) \in Nat
  BY <1>1, MaxOfTwo
<1>4. Fraction(i, n) \in Nat
  BY <1>1, <1>3 DEF Fraction
<1>5. Cost(i, n) \in Nat
  BY <1>2, <1>4 DEF Cost
<1> QED
  BY <1>5 DEF n

(* Every issue of a snapshot is still found in the worse one, no lighter,  *)
(* and there is one for a code.                                            *)
LEMMA StillFound ==
    ASSUME NEW m, NEW w, IsWorse(m, w), NEW i \in Issues(m)
    PROVE  /\ i = Finding(m, i.code)
           /\ Finding(w, i.code) \in Issues(w) /\ Finding(w, i.code).code = i.code
           /\ i.severity = "fatal" => Finding(w, i.code).severity = "fatal"
           /\ Cost(i, Total(m.chain)) <= Cost(Finding(w, i.code), Total(m.chain))
<1> DEFINE n == Total(m.chain)
           j == Finding(w, i.code)
<1>1. /\ IsSnapshot(m) /\ IsSnapshot(w) /\ n \in Nat \ {0} /\ Total(w.chain) = n
      /\ w.bars = m.bars /\ w.skewed = m.skewed /\ w.underlying = m.underlying
      /\ w.duplicates = m.duplicates /\ w.oneSided = m.oneSided
  BY CountsAreNumbers DEF IsWorse
<1>2. \A X : /\ With(m.chain, X) \in Nat /\ With(w.chain, X) \in Nat
             /\ With(m.chain, X) <= With(w.chain, X)
  BY <1>1, CountsAreNumbers DEF IsWorse
<1>3. /\ Issues(m) = CheckUnderlying(m) \cup CheckQuotes(m) \cup CheckStructure(m) \cup CheckTimeliness(m)
      /\ Issues(w) = CheckUnderlying(w) \cup CheckQuotes(w) \cup CheckStructure(w) \cup CheckTimeliness(w)
  BY <1>1 DEF Issues
<1>4. Cost(i, n) \in Nat
  BY <1>1, CostType
<1> HIDE DEF n
<1>5. CASE i \in CheckUnderlying(m)
  <2>1. \/ i = Issue("missing_underlying", "fatal", 1, 0)
        \/ i = Issue("underlying_crossed", "fatal", 1, 0)
        \/ i = Issue("missing_bars", "major", 1, 0)
    BY <1>5 DEF CheckUnderlying
  <2>2. i \in CheckUnderlying(w)
    BY <1>1, <1>5 DEF CheckUnderlying
  <2>3. i = Finding(m, i.code) /\ j = i
    BY <2>1 DEF Finding, Issue, Stale
  <2> QED
    BY <1>3, <1>4, <2>2, <2>3 DEF n
<1>6. CASE i \in CheckStructure(m)
  <2>1. \/ i = Issue("duplicate_contracts", "major", m.duplicates, n)
        \/ i = Issue("sparse_chain", "major", n, n)
        \/ i = Issue("missing_chain_section", "major", m.oneSided, n)
    BY <1>6 DEF CheckStructure, n
  <2>2. i \in CheckStructure(w)
    BY <1>1, <1>6 DEF CheckStructure, n
  <2>3. i = Finding(m, i.code) /\ j = i
    BY <1>1, <2>1 DEF Finding, Issue, Stale, n
  <2> QED
    BY <1>3, <1>4, <2>2, <2>3 DEF n
<1>7. CASE i \in CheckQuotes(m)
  <2>1. PICK c \in Faults \ {Stale} :
           With(m.chain, {c}) > 0 /\ i = Issue(c, Severity(c), With(m.chain, {c}), n)
    BY <1>7 DEF CheckQuotes, n
  <2>2. i.code = c /\ i.severity = Severity(c)
    BY <2>1, IssueIs
  <2>3. Finding(m, c) = Issue(c, Severity(c), With(m.chain, {c}), n)
    BY DEF Finding, Faults, Fatal, Major, Minor, Stale, n
  <2>4. Finding(w, c) = Issue(c, Severity(c), With(w.chain, {c}), n)
    BY <1>1 DEF Finding, Faults, Fatal, Major, Minor, Stale
  <2>5. With(w.chain, {c}) > 0
    BY <1>2, <2>1
  <2>6. Finding(w, c) \in CheckQuotes(w)
    BY <1>1, <2>4, <2>5 DEF CheckQuotes
  <2>7. Severity(c) \in {"fatal", "major", "minor"}
    BY DEF Severity
  <2>8. Cost(Finding(m, c), n) <= Cost(Finding(w, c), n)
    BY <1>1, <1>2, <2>3, <2>4, <2>7, CostGrows
  <2>9. Finding(w, c).code = c /\ Finding(w, c).severity = Severity(c)
    BY <2>4, IssueIs
  <2> QED
    BY <1>3, <2>1, <2>2, <2>3, <2>6, <2>8, <2>9 DEF n
<1>8. CASE i \in CheckTimeliness(m) /\ i.code # Stale
  <2>1. i = Issue("timestamp_mismatch", "major", 1, 0) /\ m.skewed
    BY <1>8 DEF CheckTimeliness, Issue
  <2>2. i \in CheckTimeliness(w)
    BY <1>1, <2>1 DEF CheckTimeliness
  <2>3. i = Finding(m, i.code) /\ j = i
    BY <2>1 DEF Finding, Issue, Stale
  <2> QED
    BY <1>3, <1>4, <2>2, <2>3 DEF n
<1>9. CASE i \in CheckTimeliness(m) /\ i.code = Stale
  <2> DEFINE a == With(m.chain, {Stale})
             b == With(w.chain, {Stale})
             s == IF 4 * a > n THEN "fatal" ELSE "major"
             t == IF 4 * b > n THEN "fatal" ELSE "major"
  <2>1. a # 0 /\ i = Issue(Stale, s, a, n)
    BY <1>9 DEF CheckTimeliness, Issue, Stale, n
  <2>2. a \in Nat /\ b \in Nat /\ a <= b
    BY <1>2
  <2>3. Finding(m, Stale) = Issue(Stale, s, a, n)
    BY DEF Finding, Stale, n
  <2>4. Finding(w, Stale) = Issue(Stale, t, b, n)
    BY <1>1 DEF Finding, Stale
  <2>5. Finding(w, Stale) \in CheckTimeliness(w)
    BY <1>1, <2>1, <2>2, <2>4 DEF CheckTimeliness
  <2>6. s \in {"fatal", "major", "minor"} /\ t \in {s, "fatal"}
    BY <1>1, <2>2
  <2> HIDE DEF a, b, s, t
  <2>7. Cost(Issue(Stale, s, a, n), n) <= Cost(Issue(Stale, t, b, n), n)
    BY <1>1, <2>2, <2>6, CostGrows
  <2>8. Finding(w, Stale).code = Stale /\ Finding(w, Stale).severity = t /\ i.severity = s
    BY <2>1, <2>4, IssueIs
  <2>9. s = "fatal" => t = "fatal"
    BY <2>6
  <2> QED
    BY <1>3, <1>9, <2>1, <2>3, <2>4, <2>5, <2>7, <2>8, <2>9 DEF n
<1> QED
  BY <1>3, <1>5, <1>6, <1>7, <1>8, <1>9

LEMMA PenaltyGrows ==
    ASSUME NEW m, NEW w, IsWorse(m, w)
    PROVE  Penalty(m) <= Penalty(w)
<1> DEFINE n == Total(m.chain)
           S == Issues(m)
           T == Issues(w)
           F == [i \in S |-> Weight(i.severity) * Fraction(i, n)]
           G == [i \in T |-> Weight(i.severity) * Fraction(i, n)]
           e == [i \in S |-> Finding(w, i.code)]
<1>1. IsSnapshot(m) /\ IsSnapshot(w) /\ Total(w.chain) = n
  BY DEF IsWorse
<1>2. IsFiniteSet(S) /\ IsFiniteSet(T)
  BY <1>1, IssuesAreFinite
<1>3. Penalty(m) = SumFunctionOnSet(F, S) /\ Penalty(w) = SumFunctionOnSet(G, T)
  BY <1>1 DEF Penalty, SumFunction
<1>4. (\A i \in S : F[i] = Cost(i, n) /\ F[i] \in Nat) /\ (\A i \in T : G[i] = Cost(i, n) /\ G[i] \in Nat)
  BY <1>1, CostType DEF Cost
<1>5. \A i \in S : /\ e[i] = Finding(w, i.code) /\ e[i] \in T /\ e[i].code = i.code /\ i = Finding(m, i.code)
                   /\ Cost(i, n) <= Cost(e[i], n)
  BY StillFound
<1>6. e \in [S -> T]
  BY <1>5
<1> HIDE DEF e, F, G, S, T, n
<1>7. \A i, j \in S : e[i] = e[j] => i = j
  BY <1>5
<1>8. \A i \in S : F[i] \in Nat /\ F[i] <= G[e[i]]
  BY <1>4, <1>5
<1>9. SumFunctionOnSet(F, S) <= SumFunctionOnSet(G, T)
  BY <1>2, <1>4, <1>6, <1>7, <1>8, SumInto
<1> QED
  BY <1>3, <1>9

(* One more fault never raises the score.                                  *)
LEMMA ScoreFalls ==
    ASSUME NEW m, NEW w, IsWorse(m, w)
    PROVE  Score(w) <= Score(m) /\ (IsTradeable(w) => IsTradeable(m))
<1> DEFINE n == Total(m.chain)
           p == Penalty(m)
           q == Penalty(w)
           u == Usable(m.chain)
           v == Usable(w.chain)
           x == Max({0, 2000 * n - p})
           y == Max({0, 2000 * n - q})
<1>1. IsSnapshot(m) /\ IsSnapshot(w) /\ Total(w.chain) = n /\ n \in Nat
  BY CountsAreNumbers DEF IsWorse
<1>2. p \in Nat /\ q \in Nat /\ p <= q
  BY <1>1, PenaltyAtLeast, PenaltyGrows
<1>3. u \in Nat /\ v \in Nat /\ v <= u
  <2>1. /\ With(m.chain, Unusable) \in Nat /\ With(m.chain, Unusable) <= n
        /\ With(w.chain, Unusable) \in Nat /\ With(w.chain, Unusable) <= n
        /\ With(m.chain, Unusable) <= With(w.chain, Unusable)
    BY <1>1, CountsAreNumbers DEF IsWorse
  <2> QED
    BY <1>1, <2>1 DEF Usable
<1>4. HasFatal(m) => HasFatal(w)
  BY StillFound DEF HasFatal
<1>5. /\ Score(m) = IF HasFatal(m) THEN 0 ELSE x * (4 * n + 6 * u)
      /\ Score(w) = IF HasFatal(w) THEN 0 ELSE y * (4 * n + 6 * v)
  BY <1>1 DEF Score
<1> HIDE DEF n, p, q, u, v
<1>6. x \in Nat /\ y \in Nat /\ y <= x
  BY <1>1, <1>2, MaxOfTwo
<1> DEFINE a == 4 * n + 6 * u
           b == 4 * n + 6 * v
<1>7. a \in Nat /\ b \in Nat /\ b <= a
  BY <1>1, <1>3
<1> HIDE DEF x, y, a, b
<1>8. y * b <= x * a /\ y * b \in Nat /\ x * a \in Nat
  <2>1. y * b <= x * b /\ x * b <= x * a /\ y * b \in Nat /\ x * b \in Nat /\ x * a \in Nat
    BY <1>6, <1>7
  <2> QED
    BY <2>1
<1>9. Score(w) \in Nat /\ Score(m) \in Nat /\ Score(w) <= Score(m)
  BY <1>4, <1>5, <1>8 DEF a, b
<1>10. IsTradeable(w) => IsTradeable(m)
  <2> SUFFICES ASSUME IsTradeable(w) PROVE IsTradeable(m)
    OBVIOUS
  <2> DEFINE z == 14000 * n * n
  <2>1. ~HasFatal(w) /\ Score(w) >= z /\ z \in Int
    BY <1>1 DEF IsTradeable, n
  <2> HIDE DEF z
  <2>2. ~HasFatal(m) /\ Score(m) >= z
    BY <1>4, <1>9, <2>1
  <2> QED
    BY <2>2 DEF IsTradeable, z, n
<1> QED
  BY <1>9, <1>10

(* Whatever a snapshot holds: one more fault in one of its contracts,      *)
(* reported beside those already there, never raises the score of          *)
(* quality.py and never lifts the lockout.                                 *)
THEOREM WorseAlwaysScoresLower == Spec => WorseNeverScoresHigher
<1> DEFINE A == subject = "snapshot" /\ subject' = "worse" =>
                  /\ Score(market') <= Score(market)
                  /\ IsTradeable(market') => IsTradeable(market)
<1>1. Init => MarketInv
  BY DEF Init, MarketInv
<1>2. MarketInv /\ [Next]_vars => MarketInv'
  BY MarketStep
<1>3. ASSUME MarketInv, [Next]_vars PROVE [A]_vars
  <2> SUFFICES ASSUME subject = "snapshot", subject' = "worse"
               PROVE  /\ Score(market') <= Score(market)
                      /\ IsTradeable(market') => IsTradeable(market)
    OBVIOUS
  <2>1. PICK f \in DOMAIN market.chain, fault \in Faults : Worsen(f, fault)
    BY <1>3 DEF Next, vars, Observe, Compose, GenerateOne, Submit, BeginCycle, Close, Lockout, Decide,
                Hold, Tick, Restart, Trip, StartOver
  <2>2. IsSnapshot(market)
    BY <1>3 DEF MarketInv
  <2>3. /\ fault \notin f /\ IsContract(f \cup {fault})
        /\ market' = [market EXCEPT !.chain = Moved(@, f, f \cup {fault})]
    BY <2>1 DEF Worsen
  <2>4. IsWorse(market, market')
    BY <2>2, <2>3, WorsenedIsWorse
  <2> QED
    BY <2>4, ScoreFalls
<1> QED
  BY <1>1, <1>2, <1>3, PTL DEF Spec, WorseNeverScoresHigher

-----------------------------------------------------------------------------
(* Defined risk *)

LEMMA LegTypes ==
    ASSUME NEW s, IsStructure(s)
    PROVE  /\ IsFiniteSet(DOMAIN s.legs) /\ DOMAIN s.legs # {} /\ s.cost \in Int
           /\ \A i \in DOMAIN s.legs : s.legs[i] \in AnyLeg
           /\ LegSet(s) \subseteq AnyLeg /\ LegSet(s) # {} /\ IsFiniteSet(LegSet(s))
<1>1. s.legs \in Seq(AnyLeg) /\ s.legs # <<>> /\ s.cost \in Int
  BY DEF IsStructure
<1>2. Len(s.legs) \in Nat /\ DOMAIN s.legs = 1..Len(s.legs) /\ Len(s.legs) # 0
  BY <1>1
<1>3. IsFiniteSet(DOMAIN s.legs) /\ 1 \in DOMAIN s.legs
  BY <1>2, FirstNumbersAreFinite
<1>4. \A i \in DOMAIN s.legs : s.legs[i] \in AnyLeg
  BY <1>1
<1>5. IsFiniteSet(LegSet(s))
  BY <1>3, ImageIsFinite DEF LegSet
<1> QED
  BY <1>1, <1>3, <1>4, <1>5 DEF LegSet

LEMMA StrikeTypes ==
    ASSUME NEW s, IsStructure(s)
    PROVE  /\ StrikesOf(s) \subseteq Nat /\ StrikesOf(s) # {} /\ IsFiniteSet(StrikesOf(s))
           /\ Expiries(s) \subseteq Nat /\ Expiries(s) # {} /\ IsFiniteSet(Expiries(s))
           /\ \A i \in DOMAIN s.legs : s.legs[i].strike \in StrikesOf(s)
<1> DEFINE L == LegSet(s)
           f == [l \in L |-> l.strike]
           g == [l \in L |-> l.expiry]
<1>1. L \subseteq AnyLeg /\ L # {} /\ IsFiniteSet(L)
  BY LegTypes
<1>2. StrikesOf(s) = { f[l] : l \in L } /\ Expiries(s) = { g[l] : l \in L }
  BY DEF StrikesOf, Expiries
<1>3. IsFiniteSet({ f[l] : l \in L }) /\ IsFiniteSet({ g[l] : l \in L })
  BY <1>1, ImageIsFinite
<1>4. StrikesOf(s) \subseteq Nat /\ Expiries(s) \subseteq Nat
  BY <1>1 DEF AnyLeg, StrikesOf, Expiries
<1>5. StrikesOf(s) # {} /\ Expiries(s) # {}
  BY <1>1 DEF StrikesOf, Expiries
<1>6. \A i \in DOMAIN s.legs : s.legs[i].strike \in StrikesOf(s)
  BY DEF StrikesOf, LegSet
<1> QED
  BY <1>2, <1>3, <1>4, <1>5, <1>6

LEMMA IntrinsicIs ==
    ASSUME NEW l \in AnyLeg, NEW spot \in Nat
    PROVE  /\ l.strike \in Nat /\ l.qty \in Int /\ l.expiry \in Nat /\ l.right \in {"call", "put"}
           /\ Intrinsic(l, spot) = IF l.right = "call"
                                   THEN IF spot >= l.strike THEN spot - l.strike ELSE 0
                                   ELSE IF l.strike >= spot THEN l.strike - spot ELSE 0
           /\ UpperBound(l, spot) = IF l.right = "call" THEN spot ELSE l.strike
<1>1. l.strike \in Nat /\ l.qty \in Int /\ l.expiry \in Nat /\ l.right \in {"call", "put"}
  BY DEF AnyLeg
<1>2. CASE l.right = "call"
  <2>1. Intrinsic(l, spot) = Max({0, spot - l.strike})
    BY <1>2 DEF Intrinsic
  <2> QED
    BY <1>1, <1>2, <2>1, MaxOfTwo DEF UpperBound
<1>3. CASE l.right # "call"
  <2>1. Intrinsic(l, spot) = Max({0, l.strike - spot})
    BY <1>3 DEF Intrinsic
  <2> QED
    BY <1>1, <1>3, <2>1, MaxOfTwo DEF UpperBound
<1> QED
  BY <1>2, <1>3

(* Between two spots with no strike between them, a leg is worth what lies *)
(* on the line through its values there.                                   *)
LEMMA LegIsAffine ==
    ASSUME NEW l \in AnyLeg, NEW at, NEW a \in Nat, NEW b \in Nat, NEW x \in Nat,
           a < x, x < b, l.strike <= a \/ l.strike >= b
    PROVE  LET v(spot) == LegValueBound(l, spot, at)
           IN  /\ v(a) \in Nat /\ v(b) \in Nat /\ v(x) \in Nat
               /\ (b - a) * v(x) = (b - x) * v(a) + (x - a) * v(b)
<1> DEFINE k == l.strike
           v(spot) == LegValueBound(l, spot, at)
<1>1. k \in Nat /\ l.right \in {"call", "put"}
  BY IntrinsicIs
<1>2. ASSUME NEW c \in {0, 1, -1}, NEW d \in Int, v(a) = c * a + d, v(b) = c * b + d, v(x) = c * x + d
      PROVE  (b - a) * v(x) = (b - x) * v(a) + (x - a) * v(b)
  <2>1. (b - a) * (c * x + d) = (b - x) * (c * a + d) + (x - a) * (c * b + d)
    OBVIOUS
  <2> QED
    BY <1>2, <2>1
<1>3. \A spot \in {a, b, x} :
         v(spot) = IF l.expiry <= at \/ l.qty > 0
                   THEN IF l.right = "call"
                        THEN IF spot >= k THEN spot - k ELSE 0
                        ELSE IF k >= spot THEN k - spot ELSE 0
                   ELSE IF l.right = "call" THEN spot ELSE k
  BY IntrinsicIs DEF LegValueBound
<1> HIDE DEF v
<1>4. v(a) \in Nat /\ v(b) \in Nat /\ v(x) \in Nat
  BY <1>1, <1>3 DEF k
<1>5. \E c \in {0, 1, -1}, d \in Int : v(a) = c * a + d /\ v(b) = c * b + d /\ v(x) = c * x + d
  <2>1. CASE ~(l.expiry <= at \/ l.qty > 0) /\ l.right = "call"
    <3>1. v(a) = 1 * a + 0 /\ v(b) = 1 * b + 0 /\ v(x) = 1 * x + 0
      BY <1>3, <2>1
    <3> QED
      BY <3>1
  <2>2. CASE ~(l.expiry <= at \/ l.qty > 0) /\ l.right # "call"
    <3>1. v(a) = 0 * a + k /\ v(b) = 0 * b + k /\ v(x) = 0 * x + k
      BY <1>1, <1>3, <2>2
    <3> QED
      BY <1>1, <3>1
  <2>3. CASE (l.expiry <= at \/ l.qty > 0) /\ l.right = "call" /\ k <= a
    <3>0. /\ k \in Nat /\ k <= a /\ k <= b /\ k <= x
          /\ v(a) = a - k /\ v(b) = b - k /\ v(x) = x - k
      <4>1. k \in Nat /\ k <= a /\ k <= b /\ k <= x
        BY <1>1, <2>3
      <4> QED
        BY <1>3, <2>3, <4>1
    <3>1. v(a) = 1 * a + (-k) /\ v(b) = 1 * b + (-k) /\ v(x) = 1 * x + (-k)
      BY <3>0
    <3>2. 1 \in {0, 1, -1} /\ -k \in Int
      BY <3>0
    <3> QED
      BY <3>1, <3>2, Zenon
  <2>4. CASE (l.expiry <= at \/ l.qty > 0) /\ l.right = "call" /\ k >= b
    <3>1. v(a) = 0 * a + 0 /\ v(b) = 0 * b + 0 /\ v(x) = 0 * x + 0
      BY <1>1, <1>3, <2>4
    <3> QED
      BY <3>1
  <2>5. CASE (l.expiry <= at \/ l.qty > 0) /\ l.right # "call" /\ k <= a
    <3>1. v(a) = 0 * a + 0 /\ v(b) = 0 * b + 0 /\ v(x) = 0 * x + 0
      BY <1>1, <1>3, <2>5
    <3> QED
      BY <3>1
  <2>6. CASE (l.expiry <= at \/ l.qty > 0) /\ l.right # "call" /\ k >= b
    <3>1. v(a) = (-1) * a + k /\ v(b) = (-1) * b + k /\ v(x) = (-1) * x + k
      BY <1>1, <1>3, <2>6
    <3> QED
      BY <1>1, <3>1
  <2> QED
    BY <2>1, <2>2, <2>3, <2>4, <2>5, <2>6
<1>6. (b - a) * v(x) = (b - x) * v(a) + (x - a) * v(b)
  BY <1>2, <1>5
<1> QED
  BY <1>4, <1>6 DEF v

LEMMA Scaled ==
    ASSUME NEW q \in Int, NEW c \in Int, NEW d \in Int, NEW e \in Int,
           NEW u \in Int, NEW v \in Int, NEW w \in Int, c * u = d * v + e * w
    PROVE  c * (q * u) = d * (q * v) + e * (q * w)
<1>1. c * (q * u) = q * (c * u) /\ d * (q * v) = q * (d * v) /\ e * (q * w) = q * (e * w)
  OBVIOUS
<1>2. q * (d * v + e * w) = q * (d * v) + q * (e * w)
  OBVIOUS
<1> QED
  BY <1>1, <1>2

(* What the legs of a structure are worth together.                        *)
LegValues(s, spot, at) ==
    [i \in DOMAIN s.legs |-> s.legs[i].qty * LegValueBound(s.legs[i], spot, at)]

Value(s, spot, at) == SumFunctionOnSet(LegValues(s, spot, at), DOMAIN s.legs)

LEMMA ValueType ==
    ASSUME NEW s, IsStructure(s), NEW spot \in Nat, NEW at
    PROVE  /\ \A i \in DOMAIN s.legs : LegValues(s, spot, at)[i] \in Int
           /\ Value(s, spot, at) \in Int
           /\ PayoffAt(s, spot, at) = Value(s, spot, at) - s.cost
<1>1. ASSUME NEW i \in DOMAIN s.legs PROVE LegValues(s, spot, at)[i] \in Int
  <2> DEFINE l == s.legs[i]
  <2>1. l \in AnyLeg
    BY LegTypes
  <2> HIDE DEF l
  <2>2. LegValueBound(l, spot, at) \in Int /\ l.qty \in Int
    BY <2>1, IntrinsicIs DEF LegValueBound
  <2>3. LegValues(s, spot, at)[i] = l.qty * LegValueBound(l, spot, at)
    BY DEF LegValues, l
  <2> QED
    BY <2>2, <2>3
<1>2. PayoffAt(s, spot, at) = SumFunctionOnSet(LegValues(s, spot, at), DOMAIN LegValues(s, spot, at)) - s.cost
  BY DEF PayoffAt, SumFunction, LegValues
<1>3. DOMAIN LegValues(s, spot, at) = DOMAIN s.legs
  BY DEF LegValues
<1>4. Value(s, spot, at) \in Int
  BY <1>1, LegTypes, SumType DEF Value
<1> QED
  BY <1>1, <1>2, <1>3, <1>4 DEF Value

(* The payoff is piecewise linear with its corners at the strikes.         *)
LEMMA ValueIsAffine ==
    ASSUME NEW s, IsStructure(s), NEW at, NEW a \in Nat, NEW b \in Nat, NEW x \in Nat,
           a < x, x < b, \A k \in StrikesOf(s) : k <= a \/ k >= b
    PROVE  (b - a) * Value(s, x, at) = (b - x) * Value(s, a, at) + (x - a) * Value(s, b, at)
<1> DEFINE F == LegValues(s, a, at)
           G == LegValues(s, b, at)
           H == LegValues(s, x, at)
<1>1. ASSUME NEW i \in DOMAIN s.legs
      PROVE  (b - a) * H[i] = (b - x) * F[i] + (x - a) * G[i]
  <2> DEFINE l == s.legs[i]
             v(spot) == LegValueBound(l, spot, at)
  <2>1. l \in AnyLeg /\ l.strike \in StrikesOf(s) /\ l.qty \in Int
    BY LegTypes, StrikeTypes DEF AnyLeg
  <2>2. F[i] = l.qty * v(a) /\ G[i] = l.qty * v(b) /\ H[i] = l.qty * v(x)
    BY DEF LegValues
  <2> HIDE DEF l, F, G, H
  <2>3. /\ v(a) \in Nat /\ v(b) \in Nat /\ v(x) \in Nat
        /\ (b - a) * v(x) = (b - x) * v(a) + (x - a) * v(b)
    BY <2>1, LegIsAffine
  <2> HIDE DEF v
  <2> DEFINE c == b - a
             d == b - x
             e == x - a
             q == l.qty
             u == v(x)
             w == v(a)
             z == v(b)
  <2>4. /\ c \in Int /\ d \in Int /\ e \in Int /\ q \in Int /\ u \in Int /\ w \in Int /\ z \in Int
        /\ c * u = d * w + e * z
    BY <2>1, <2>3
  <2> HIDE DEF c, d, e, q, u, w, z
  <2>5. c * (q * u) = d * (q * w) + e * (q * z)
    BY <2>4, Scaled
  <2>6. (b - a) * (l.qty * v(x)) = (b - x) * (l.qty * v(a)) + (x - a) * (l.qty * v(b))
    BY <2>5 DEF c, d, e, q, u, w, z
  <2> QED
    BY <2>2, <2>6
<1>2. \A i \in DOMAIN s.legs : F[i] \in Int /\ G[i] \in Int /\ H[i] \in Int
  BY ValueType
<1>3. IsFiniteSet(DOMAIN s.legs)
  BY LegTypes
<1> HIDE DEF F, G, H
<1>4. (b - a) * SumFunctionOnSet(H, DOMAIN s.legs)
      = (b - x) * SumFunctionOnSet(F, DOMAIN s.legs) + (x - a) * SumFunctionOnSet(G, DOMAIN s.legs)
  <2>1. b - a \in Int /\ b - x \in Int /\ x - a \in Int
    OBVIOUS
  <2> QED
    BY <1>1, <1>2, <1>3, <2>1, SumLinear
<1> QED
  BY <1>4 DEF Value, F, G, H

(* Beyond every strike only the calls move, and all of them alike.         *)
LEMMA ValueBeyondStrikes ==
    ASSUME NEW s, IsStructure(s), NEW at, NEW far \in Nat, NEW x \in Nat, far <= x,
           \A k \in StrikesOf(s) : k <= far
    PROVE  /\ UpsideSlope(s) \in Int
           /\ Value(s, x, at) = Value(s, far, at) + (x - far) * UpsideSlope(s)
<1> DEFINE calls == { l \in LegSet(s) : l.right = "call" }
           F == LegValues(s, far, at)
           G == [i \in DOMAIN s.legs |-> IF s.legs[i] \in calls THEN s.legs[i].qty ELSE 0]
           H == LegValues(s, x, at)
<1>1. ASSUME NEW i \in DOMAIN s.legs
      PROVE  G[i] \in Int /\ 1 * H[i] = 1 * F[i] + (x - far) * G[i]
  <2> DEFINE l == s.legs[i]
  <2>1. l \in AnyLeg /\ l.strike <= far /\ l \in LegSet(s)
    BY LegTypes, StrikeTypes DEF LegSet
  <2>2. G[i] = IF l.right = "call" THEN l.qty ELSE 0
    BY <2>1
  <2>3. F[i] = l.qty * LegValueBound(l, far, at) /\ H[i] = l.qty * LegValueBound(l, x, at)
    BY DEF LegValues
  <2> HIDE DEF l, F, G, H
  <2>4. l.qty \in Int /\ l.strike \in Nat /\ l.right \in {"call", "put"}
    BY <2>1 DEF AnyLeg
  <2>5. /\ LegValueBound(l, far, at) \in Int
        /\ LegValueBound(l, x, at) = LegValueBound(l, far, at) + IF l.right = "call" THEN x - far ELSE 0
    BY <2>1, <2>4, IntrinsicIs DEF LegValueBound
  <2> DEFINE w == LegValueBound(l, far, at)
  <2>6. CASE l.right = "call"
    <3>1. H[i] = l.qty * (w + (x - far)) /\ G[i] = l.qty /\ F[i] = l.qty * w
      BY <2>2, <2>3, <2>5, <2>6
    <3> HIDE DEF w
    <3>2. w \in Int
      BY <2>5 DEF w
    <3>3. l.qty * (w + (x - far)) = l.qty * w + (x - far) * l.qty
      BY <2>4, <3>2
    <3>4. l.qty * w \in Int /\ (x - far) * l.qty \in Int
      BY <2>4, <3>2
    <3> QED
      BY <2>4, <3>1, <3>3, <3>4
  <2>7. CASE l.right # "call"
    <3>1. H[i] = l.qty * w /\ G[i] = 0 /\ F[i] = l.qty * w /\ l.qty * w \in Int
      BY <2>2, <2>3, <2>4, <2>5, <2>7
    <3> HIDE DEF w
    <3> QED
      BY <3>1
  <2> QED
    BY <2>6, <2>7
<1>2. \A i \in DOMAIN s.legs : F[i] \in Int /\ H[i] \in Int
  BY ValueType
<1>3. IsFiniteSet(DOMAIN s.legs)
  BY LegTypes
<1>4. UpsideSlope(s) = SumFunctionOnSet(G, DOMAIN s.legs)
  BY DEF UpsideSlope, Quantity, SumFunction
<1> HIDE DEF F, G, H
<1>5. SumFunctionOnSet(F, DOMAIN s.legs) \in Int /\ SumFunctionOnSet(G, DOMAIN s.legs) \in Int
      /\ SumFunctionOnSet(H, DOMAIN s.legs) \in Int
  BY <1>1, <1>2, <1>3, SumType
<1>6. 1 * SumFunctionOnSet(H, DOMAIN s.legs)
      = 1 * SumFunctionOnSet(F, DOMAIN s.legs) + (x - far) * SumFunctionOnSet(G, DOMAIN s.legs)
  <2>1. x - far \in Int /\ 1 \in Int
    OBVIOUS
  <2> QED
    BY <1>1, <1>2, <1>3, <2>1, SumLinear
<1>7. SumFunctionOnSet(H, DOMAIN s.legs)
      = SumFunctionOnSet(F, DOMAIN s.legs) + (x - far) * SumFunctionOnSet(G, DOMAIN s.legs)
  BY <1>5, <1>6
<1> QED
  BY <1>4, <1>5, <1>7 DEF Value, F, H

(* The points at which the payoff is evaluated: finitely many, with the    *)
(* strikes among them and the last one beyond every strike.                *)
LEMMA SpotTypes ==
    ASSUME NEW s, IsStructure(s)
    PROVE  /\ EvaluationSpots(s) \subseteq Nat /\ IsFiniteSet(EvaluationSpots(s))
           /\ 0 \in EvaluationSpots(s) /\ StrikesOf(s) \subseteq EvaluationSpots(s)
           /\ \E far \in EvaluationSpots(s) : \A k \in EvaluationSpots(s) : k <= far
<1> DEFINE K == StrikesOf(s)
           top == Max(K)
           far == Max({2 * top, top + FarMargin})
<1>1. K \subseteq Nat /\ K # {} /\ IsFiniteSet(K)
  BY StrikeTypes
<1>2. top \in K /\ \A k \in K : k <= top
  BY <1>1, MaxExists
<1>3. EvaluationSpots(s) = {0} \cup K \cup {far}
  BY DEF EvaluationSpots
<1>4. top \in Nat
  BY <1>1, <1>2
<1> HIDE DEF K, top
<1>5. far \in Nat /\ far >= top
  BY <1>4, FarAssumption, MaxOfTwo
<1> HIDE DEF far
<1>6. IsFiniteSet({0} \cup K \cup {far})
  BY <1>1, FS_AddElement, FS_Union, FS_Singleton
<1>7. \A k \in {0} \cup K \cup {far} : k <= far
  BY <1>1, <1>2, <1>4, <1>5
<1> QED
  BY <1>1, <1>3, <1>5, <1>6, <1>7 DEF K

LEMMA WorstIs ==
    ASSUME NEW s, IsStructure(s)
    PROVE  /\ Worst(s) \in Int
           /\ \A spot \in EvaluationSpots(s), at \in Expiries(s) : Worst(s) <= PayoffAt(s, spot, at)
<1> DEFINE E == EvaluationSpots(s)
           X == Expiries(s)
           f == [p \in E \X X |-> PayoffAt(s, p[1], p[2])]
           R == { f[p] : p \in E \X X }
<1>1. E \subseteq Nat /\ IsFiniteSet(E) /\ 0 \in E
  BY SpotTypes
<1>2. X \subseteq Nat /\ IsFiniteSet(X) /\ X # {}
  BY StrikeTypes
<1>3. IsFiniteSet(E \X X)
  BY <1>1, <1>2, FS_Product
<1>4. \A spot \in E, at \in X : PayoffAt(s, spot, at) \in Int
  <2> TAKE spot \in E, at \in X
  <2>1. spot \in Nat /\ s.cost \in Int
    BY <1>1, LegTypes
  <2> QED
    BY <2>1, ValueType
<1>5. \A p \in E \X X : f[p] = PayoffAt(s, p[1], p[2]) /\ f[p] \in Int
  BY <1>4
<1>6. Worst(s) = Min(R)
  BY DEF Worst
<1>7. \A spot \in E, at \in X : f[<<spot, at>>] = PayoffAt(s, spot, at) /\ <<spot, at>> \in E \X X
  OBVIOUS
<1> HIDE DEF f
<1>8. IsFiniteSet(R)
  BY <1>3, ImageIsFinite
<1>9. R \subseteq Int /\ R # {} /\ \A spot \in E, at \in X : PayoffAt(s, spot, at) \in R
  <2>1. \A spot \in E, at \in X : f[<<spot, at>>] \in R
    BY <1>7
  <2>2. R \subseteq Int
    BY <1>5
  <2> HIDE DEF R
  <2> QED
    BY <1>1, <1>2, <1>7, <2>1, <2>2
<1> HIDE DEF R, E, X
<1>10. Min(R) \in R /\ \A y \in R : Min(R) <= y
  BY <1>8, <1>9, MinExists
<1> QED
  BY <1>6, <1>9, <1>10 DEF E, X

LEMMA ProfileIs ==
    ASSUME NEW s, IsStructure(s)
    PROVE  /\ Profile(s).maxLoss \in Nat /\ Profile(s).maxLoss >= -Worst(s)
           /\ Profile(s).finite = (UpsideSlope(s) >= 0)
<1>1. Worst(s) \in Int
  BY WorstIs
<1>2. Profile(s).maxLoss = Max({0, -Worst(s)}) /\ Profile(s).finite = (UpsideSlope(s) >= 0)
  BY DEF Profile
<1> QED
  BY <1>1, <1>2, MaxOfTwo

(* A weighted mean of two numbers is not below the smaller one.            *)
LEMMA MeanIsAbove ==
    ASSUME NEW d \in Nat, NEW e \in Nat, NEW u \in Int, NEW v \in Int, NEW y \in Int, NEW w \in Int,
           d + e > 0, w <= u, w <= v, (d + e) * y = d * u + e * v
    PROVE  w <= y
<1>1. d * w <= d * u /\ e * w <= e * v
  OBVIOUS
<1>2. (d + e) * w = d * w + e * w
  OBVIOUS
<1>3. (d + e) * w <= (d + e) * y
  BY <1>1, <1>2
<1> DEFINE n == d + e
<1>4. n \in Nat \ {0} /\ n * w <= n * y
  BY <1>3
<1> HIDE DEF n
<1>5. ASSUME y < w PROVE FALSE
  <2>1. n * y < n * w
    BY <1>4, <1>5
  <2> QED
    BY <1>4, <2>1
<1> QED
  BY <1>5

(* Whatever the underlying is worth at an expiration, the conservative     *)
(* payoff is at least the worst one at the points of evaluation.           *)
LEMMA WorstBoundsEverySpot ==
    ASSUME NEW s, IsStructure(s), UpsideSlope(s) >= 0, NEW x \in Nat, NEW at \in Expiries(s)
    PROVE  Worst(s) <= PayoffAt(s, x, at)
<1> DEFINE E == EvaluationSpots(s)
           V(spot) == Value(s, spot, at)
           w == Worst(s) + s.cost
<1>1. E \subseteq Nat /\ IsFiniteSet(E) /\ 0 \in E /\ StrikesOf(s) \subseteq E
  BY SpotTypes
<1>2. PICK far \in E : \A k \in E : k <= far
  BY SpotTypes
<1>3. /\ \A spot \in Nat : V(spot) \in Int /\ PayoffAt(s, spot, at) = V(spot) - s.cost
      /\ s.cost \in Int /\ Worst(s) \in Int /\ w \in Int
  BY ValueType, LegTypes, WorstIs
<1>4. \A spot \in E : w <= V(spot)
  <2> TAKE spot \in E
  <2>1. Worst(s) <= PayoffAt(s, spot, at) /\ spot \in Nat
    BY <1>1, WorstIs
  <2> QED
    BY <1>3, <2>1
<1> SUFFICES w <= V(x)
  BY <1>3
<1>5. CASE x \in E
  BY <1>4, <1>5
<1>6. CASE x > far
  <2>1. \A k \in StrikesOf(s) : k <= far
    BY <1>1, <1>2
  <2>2. UpsideSlope(s) \in Int /\ V(x) = V(far) + (x - far) * UpsideSlope(s)
    BY <1>1, <1>6, <2>1, ValueBeyondStrikes
  <2> DEFINE n == x - far
             m == UpsideSlope(s)
  <2>3. n \in Nat /\ m \in Nat
    BY <1>1, <1>6, <2>2
  <2>4. V(x) = V(far) + n * m /\ V(far) \in Int /\ V(x) \in Int
    BY <1>1, <1>3, <2>2
  <2> HIDE DEF n, m, V, w
  <2>5. n * m \in Nat
    BY <2>3
  <2> QED
    BY <1>2, <1>3, <1>4, <2>4, <2>5
<1>7. CASE x \notin E /\ x <= far
  <2> DEFINE A == { k \in E : k < x }
             B == { k \in E : k > x }
             a == Max(A)
             b == Min(B)
  <2>1. 0 \in A /\ far \in B /\ A \subseteq Int /\ B \subseteq Int
    BY <1>1, <1>7
  <2>2. IsFiniteSet(A) /\ IsFiniteSet(B)
    BY <1>1, FS_Subset
  <2>3. a \in A /\ \A k \in A : k <= a
    BY <2>1, <2>2, MaxExists
  <2>4. b \in B /\ \A k \in B : b <= k
    BY <2>1, <2>2, MinExists
  <2>5. a \in E /\ b \in E /\ a < x /\ x < b
    BY <2>3, <2>4
  <2>6. \A k \in StrikesOf(s) : k <= a \/ k >= b
    <3> TAKE k \in StrikesOf(s)
    <3>1. k \in E /\ k # x /\ k \in Nat
      BY <1>1, <1>7
    <3>2. k < x \/ k > x
      BY <3>1
    <3>3. k \in A \/ k \in B
      BY <3>1, <3>2
    <3> HIDE DEF A, B, a, b
    <3>4. a \in Nat /\ b \in Nat
      BY <1>1, <2>5
    <3> QED
      BY <2>3, <2>4, <3>1, <3>3, <3>4
  <2> HIDE DEF A, B, a, b
  <2>7. a \in Nat /\ b \in Nat
    BY <1>1, <2>5
  <2>8. (b - a) * V(x) = (b - x) * V(a) + (x - a) * V(b)
    BY <2>5, <2>6, <2>7, ValueIsAffine
  <2> DEFINE d == b - x
             e == x - a
             u == V(a)
             v == V(b)
             y == V(x)
  <2>9. d \in Nat /\ e \in Nat /\ d + e > 0 /\ d + e = b - a
    BY <2>5, <2>7
  <2>10. u \in Int /\ v \in Int /\ y \in Int /\ w <= u /\ w <= v
    BY <1>3, <1>4, <2>5, <2>7
  <2>11. (d + e) * y = d * u + e * v
    BY <2>8, <2>9
  <2> HIDE DEF d, e, u, v, y, V, w
  <2>12. w <= y
    BY <1>3, <2>9, <2>10, <2>11, MeanIsAbove
  <2> QED
    BY <2>12 DEF y
<1> QED
  BY <1>1, <1>2, <1>5, <1>6, <1>7

(* However the legs that have not expired are valued, between exercise and *)
(* all they can be worth, the structure brings no less than the            *)
(* conservative payoff.                                                    *)
LEMMA ResultIsAbovePayoff ==
    ASSUME NEW s, IsStructure(s), NEW x \in Nat, NEW at \in Nat, NEW rich
    PROVE  ResultAt(s, x, at, rich) \in Int /\ PayoffAt(s, x, at) <= ResultAt(s, x, at, rich)
<1> DEFINE F == LegValues(s, x, at)
           G == [i \in DOMAIN s.legs |->
                    s.legs[i].qty * IF i \in rich /\ s.legs[i].expiry > at
                                    THEN UpperBound(s.legs[i], x) ELSE Intrinsic(s.legs[i], x)]
<1>1. ASSUME NEW i \in DOMAIN s.legs
      PROVE  F[i] \in Int /\ G[i] \in Int /\ F[i] <= G[i]
  <2> DEFINE l == s.legs[i]
             u == LegValueBound(l, x, at)
             v == IF i \in rich /\ l.expiry > at THEN UpperBound(l, x) ELSE Intrinsic(l, x)
             q == l.qty
  <2>1. l \in AnyLeg
    BY LegTypes
  <2>2. F[i] = q * u /\ G[i] = q * v
    BY DEF LegValues
  <2> HIDE DEF l, F, G
  <2>3. q \in Int /\ u \in Nat /\ v \in Nat /\ (IF q > 0 THEN u <= v ELSE v <= u)
    <3>1. l.expiry \in Nat /\ q \in Int
      BY <2>1, IntrinsicIs
    <3>2. /\ Intrinsic(l, x) \in Nat /\ UpperBound(l, x) \in Nat
          /\ Intrinsic(l, x) <= UpperBound(l, x)
      BY <2>1, IntrinsicIs
    <3> QED
      BY <3>1, <3>2 DEF LegValueBound
  <2> HIDE DEF u, v, q
  <2>4. CASE q > 0
    <3>1. u <= v
      BY <2>3, <2>4
    <3>2. q * u <= q * v
      BY <2>3, <2>4, <3>1
    <3> QED
      BY <2>2, <2>3, <3>2
  <2>5. CASE ~(q > 0)
    <3> DEFINE m == -q
    <3>1. v <= u /\ m \in Nat /\ q = -m
      BY <2>3, <2>5
    <3> HIDE DEF m
    <3>2. m * v <= m * u
      BY <2>3, <3>1
    <3>3. q * u = -(m * u) /\ q * v = -(m * v)
      BY <2>3, <3>1
    <3> QED
      BY <2>2, <2>3, <3>1, <3>2, <3>3
  <2> QED
    BY <2>4, <2>5
<1>2. ResultAt(s, x, at, rich) = SumFunctionOnSet(G, DOMAIN s.legs) - s.cost
  BY DEF ResultAt, SumFunction
<1>3. PayoffAt(s, x, at) = SumFunctionOnSet(F, DOMAIN s.legs) - s.cost
  BY ValueType DEF Value
<1>4. IsFiniteSet(DOMAIN s.legs) /\ s.cost \in Int
  BY LegTypes
<1> HIDE DEF F, G
<1>5. SumFunctionOnSet(F, DOMAIN s.legs) <= SumFunctionOnSet(G, DOMAIN s.legs)
  BY <1>1, <1>4, SumMonotone
<1>6. SumFunctionOnSet(F, DOMAIN s.legs) \in Int /\ SumFunctionOnSet(G, DOMAIN s.legs) \in Int
  BY <1>1, <1>4, SumType
<1> QED
  BY <1>2, <1>3, <1>4, <1>5, <1>6

(* The maximum loss is one: at every price of the underlying, at every     *)
(* expiration and for every valuation.                                     *)
LEMMA LossIsBounded ==
    ASSUME NEW s, IsStructure(s), Profile(s).finite, NEW x \in Nat, NEW at \in Expiries(s), NEW rich
    PROVE  ResultAt(s, x, at, rich) \in Int /\ ResultAt(s, x, at, rich) >= -Profile(s).maxLoss
<1>1. UpsideSlope(s) >= 0 /\ Profile(s).maxLoss \in Nat /\ Profile(s).maxLoss >= -Worst(s)
  BY ProfileIs
<1>2. Worst(s) <= PayoffAt(s, x, at) /\ Worst(s) \in Int
  BY <1>1, WorstBoundsEverySpot, WorstIs
<1>3. ResultAt(s, x, at, rich) \in Int /\ PayoffAt(s, x, at) <= ResultAt(s, x, at, rich)
  BY StrikeTypes, ResultIsAbovePayoff
<1>4. PayoffAt(s, x, at) \in Int
  BY ValueType, LegTypes
<1> QED
  BY <1>1, <1>2, <1>3, <1>4

LEMMA FiniteLosesAtMost ==
    ASSUME NEW s, IsStructure(s), Profile(s).finite, NEW loss \in Int, loss >= Profile(s).maxLoss
    PROVE  LosesAtMost(s, loss)
<1>2. Max(StrikesOf(s)) \in Nat /\ 2 * Max(StrikesOf(s)) + 2 * FarMargin \in Nat
  <2>1. Max(StrikesOf(s)) \in StrikesOf(s) /\ StrikesOf(s) \subseteq Nat
    BY StrikeTypes, MaxExists
  <2> QED
    BY <2>1, FarAssumption
<1>3. ASSUME NEW x \in 0..(2 * Max(StrikesOf(s)) + 2 * FarMargin), NEW at \in Expiries(s),
             NEW rich \in SUBSET DOMAIN s.legs
      PROVE  ResultAt(s, x, at, rich) >= -loss
  <2>1. x \in Nat
    BY <1>2
  <2>2. ResultAt(s, x, at, rich) \in Int /\ ResultAt(s, x, at, rich) >= -Profile(s).maxLoss
    BY <2>1, LossIsBounded
  <2>3. Profile(s).maxLoss \in Nat
    BY ProfileIs
  <2> QED
    BY <2>2, <2>3
<1> QED
  BY <1>3, Zenon DEF LosesAtMost

-----------------------------------------------------------------------------
(* Coverage *)

Rights == {"call", "put"}

(* What a quantity adds up.                                                *)
Amounts(s, legs) == [i \in DOMAIN s.legs |-> IF s.legs[i] \in legs THEN s.legs[i].qty ELSE 0]

(* How many contracts of leg i are held (or, with sign -1, owed) if it is  *)
(* one of the legs.                                                        *)
HeldOrOwed(s, legs, sign) ==
    [i \in DOMAIN s.legs |-> IF s.legs[i] \in legs /\ sign * s.legs[i].qty > 0
                             THEN sign * s.legs[i].qty ELSE 0]

UnitsOf(s, legs, sign) == { u \in Units(s, sign) : s.legs[u[1]] \in legs }

LEMMA UnitsCounted ==
    ASSUME NEW s, IsStructure(s), NEW legs, NEW sign \in {1, -1}
    PROVE  /\ IsFiniteSet(UnitsOf(s, legs, sign))
           /\ Cardinality(UnitsOf(s, legs, sign)) = SumFunctionOnSet(HeldOrOwed(s, legs, sign), DOMAIN s.legs)
           /\ \A i \in DOMAIN s.legs : HeldOrOwed(s, legs, sign)[i] \in Nat
           /\ \A u \in Units(s, sign) : u[1] \in DOMAIN s.legs
<1> DEFINE I == DOMAIN s.legs
           n == HeldOrOwed(s, legs, sign)
           J == { i \in I : sign * s.legs[i].qty > 0 }
<1>1. IsFiniteSet(I) /\ \A i \in I : s.legs[i].qty \in Int
  BY LegTypes DEF AnyLeg
<1>2. \A i \in I : n[i] = IF s.legs[i] \in legs /\ sign * s.legs[i].qty > 0 THEN sign * s.legs[i].qty ELSE 0
  BY DEF HeldOrOwed
<1>3. \A i \in I : sign * s.legs[i].qty \in Int
  BY <1>1
<1>4. \A i \in I : n[i] \in Nat
  BY <1>2, <1>3
<1>5. Units(s, sign) = UNION { {i} \X (1 .. (sign * s.legs[i].qty)) : i \in J }
  BY DEF Units
<1>6. \A u \in Units(s, sign) : u[1] \in J /\ u = <<u[1], u[2]>> /\ u[2] \in 1 .. (sign * s.legs[u[1]].qty)
  BY <1>5
<1> HIDE DEF n
<1>7. UnitsOf(s, legs, sign) = UNION { {i} \X (1 .. n[i]) : i \in I }
  <2>1. ASSUME NEW u \in UnitsOf(s, legs, sign) PROVE u \in UNION { {i} \X (1 .. n[i]) : i \in I }
    <3>1. u \in Units(s, sign) /\ s.legs[u[1]] \in legs
      BY DEF UnitsOf
    <3>2. u[1] \in J /\ u = <<u[1], u[2]>> /\ u[2] \in 1 .. (sign * s.legs[u[1]].qty)
      BY <1>6, <3>1
    <3>3. n[u[1]] = sign * s.legs[u[1]].qty
      BY <1>2, <3>1, <3>2
    <3>4. u \in {u[1]} \X (1 .. n[u[1]]) /\ u[1] \in I
      BY <3>2, <3>3
    <3> QED
      BY <3>4
  <2>2. ASSUME NEW i \in I, NEW u \in {i} \X (1 .. n[i]) PROVE u \in UnitsOf(s, legs, sign)
    <3>1. n[i] >= 1 /\ u[1] = i
      BY <1>4
    <3>2. s.legs[i] \in legs /\ i \in J /\ n[i] = sign * s.legs[i].qty
      BY <1>2, <3>1
    <3>3. u \in Units(s, sign)
      BY <1>5, <3>2
    <3> QED
      BY <3>1, <3>2, <3>3 DEF UnitsOf
  <2> QED
    BY <2>1, <2>2
<1>8. \A u \in Units(s, sign) : u[1] \in I
  BY <1>6
<1> HIDE DEF I, J
<1>9. IsFiniteSet(UnitsOf(s, legs, sign)) /\ Cardinality(UnitsOf(s, legs, sign)) = SumFunctionOnSet(n, I)
  BY <1>1, <1>4, <1>7, CopiesAddUp
<1> QED
  BY <1>4, <1>8, <1>9 DEF I, n

(* A quantity is what is held less what is owed.                           *)
LEMMA QuantityIs ==
    ASSUME NEW s, IsStructure(s), NEW legs
    PROVE  Quantity(s, legs) = Cardinality(UnitsOf(s, legs, 1)) - Cardinality(UnitsOf(s, legs, -1))
<1> DEFINE I == DOMAIN s.legs
           A == Amounts(s, legs)
           P == HeldOrOwed(s, legs, 1)
           N == HeldOrOwed(s, legs, -1)
<1>1. Quantity(s, legs) = SumFunctionOnSet(A, I)
  BY DEF Quantity, SumFunction, Amounts
<1>2. /\ Cardinality(UnitsOf(s, legs, 1)) = SumFunctionOnSet(P, I)
      /\ Cardinality(UnitsOf(s, legs, -1)) = SumFunctionOnSet(N, I)
      /\ \A i \in I : P[i] \in Nat /\ N[i] \in Nat
  BY UnitsCounted
<1>3. IsFiniteSet(I) /\ \A i \in I : s.legs[i].qty \in Int
  BY LegTypes DEF AnyLeg
<1>4. ASSUME NEW i \in I PROVE A[i] \in Int /\ P[i] \in Int /\ N[i] \in Int /\ 1 * A[i] = 1 * P[i] + (-1) * N[i]
  <2>1. /\ A[i] = IF s.legs[i] \in legs THEN s.legs[i].qty ELSE 0
        /\ P[i] = IF s.legs[i] \in legs /\ 1 * s.legs[i].qty > 0 THEN 1 * s.legs[i].qty ELSE 0
        /\ N[i] = IF s.legs[i] \in legs /\ (-1) * s.legs[i].qty > 0 THEN (-1) * s.legs[i].qty ELSE 0
    BY DEF Amounts, HeldOrOwed
  <2>2. s.legs[i].qty \in Int
    BY <1>3
  <2> QED
    BY <2>1, <2>2
<1> HIDE DEF A, P, N
<1>5. 1 * SumFunctionOnSet(A, I) = 1 * SumFunctionOnSet(P, I) + (-1) * SumFunctionOnSet(N, I)
  <2>1. 1 \in Int /\ -1 \in Int
    OBVIOUS
  <2> QED
    BY <1>3, <1>4, <2>1, SumLinear
<1>6. SumFunctionOnSet(A, I) \in Int /\ SumFunctionOnSet(P, I) \in Int /\ SumFunctionOnSet(N, I) \in Int
  BY <1>3, <1>4, SumType
<1> QED
  BY <1>1, <1>2, <1>5, <1>6 DEF P, N

Suffix(s, right, expiry) == { l \in LegSet(s) : l.right = right /\ l.expiry >= expiry }

(* No violation: of every right and from every expiration of a short on,   *)
(* at least as many are held as owed.                                      *)
LEMMA CoveredIs ==
    ASSUME NEW s, IsStructure(s)
    PROVE  CoverageViolations(s) = {} <=>
             \A u \in Units(s, -1) :
                LET l == s.legs[u[1]]
                IN  Cardinality(UnitsOf(s, Suffix(s, l.right, l.expiry), -1))
                      <= Cardinality(UnitsOf(s, Suffix(s, l.right, l.expiry), 1))
<1>1. \A legs, sign : sign \in {1, -1} => IsFiniteSet(UnitsOf(s, legs, sign)) /\ Cardinality(UnitsOf(s, legs, sign)) \in Nat
  BY UnitsCounted, FS_CardinalityType
<1>2. ASSUME NEW u \in Units(s, -1), CoverageViolations(s) = {}
      PROVE  LET l == s.legs[u[1]]
             IN  Cardinality(UnitsOf(s, Suffix(s, l.right, l.expiry), -1))
                   <= Cardinality(UnitsOf(s, Suffix(s, l.right, l.expiry), 1))
  <2> DEFINE l == s.legs[u[1]]
             X == Suffix(s, l.right, l.expiry)
  <2>1. u[1] \in DOMAIN s.legs
    BY UnitsCounted
  <2>2. l \in LegSet(s) /\ l \in AnyLeg
    BY <2>1, LegTypes DEF LegSet
  <2>3. <<l.right, l.expiry>> \in {"call", "put"} \X Expiries(s)
    BY <2>2 DEF AnyLeg, Expiries
  <2>4. ~(Quantity(s, X) < 0)
    BY <1>2, <2>2, <2>3 DEF CoverageViolations, Suffix
  <2> HIDE DEF X
  <2>5. Quantity(s, X) = Cardinality(UnitsOf(s, X, 1)) - Cardinality(UnitsOf(s, X, -1))
    BY QuantityIs
  <2>6. Cardinality(UnitsOf(s, X, -1)) <= Cardinality(UnitsOf(s, X, 1))
    BY <1>1, <2>4, <2>5
  <2> QED
    BY <2>6 DEF X
<1>3. ASSUME \A u \in Units(s, -1) :
                LET l == s.legs[u[1]]
                IN  Cardinality(UnitsOf(s, Suffix(s, l.right, l.expiry), -1))
                      <= Cardinality(UnitsOf(s, Suffix(s, l.right, l.expiry), 1)),
             NEW v \in CoverageViolations(s)
      PROVE  FALSE
  <2> DEFINE X == Suffix(s, v[1], v[2])
             S == UnitsOf(s, X, -1)
  <2>1. Quantity(s, X) < 0 /\ v[2] \in Expiries(s)
    BY DEF CoverageViolations, Suffix
  <2>2. Quantity(s, X) = Cardinality(UnitsOf(s, X, 1)) - Cardinality(S)
    BY QuantityIs
  <2>3. Cardinality(S) # 0 /\ IsFiniteSet(S)
    BY <1>1, <2>1, <2>2
  <2>4. S # {}
    BY <2>3, FS_EmptySet
  <2> DEFINE f == [u \in S |-> s.legs[u[1]].expiry]
             E == { f[u] : u \in S }
  <2>5. \A u \in S : /\ u \in Units(s, -1) /\ u[1] \in DOMAIN s.legs /\ s.legs[u[1]] \in X
                     /\ f[u] = s.legs[u[1]].expiry /\ f[u] \in Nat
    <3>1. \A u \in S : u \in Units(s, -1) /\ s.legs[u[1]] \in X /\ u[1] \in DOMAIN s.legs
      BY UnitsCounted DEF UnitsOf
    <3> QED
      BY <3>1, LegTypes DEF AnyLeg
  <2> HIDE DEF f
  <2>6. E \in SUBSET Int /\ E # {} /\ IsFiniteSet(E)
    BY <2>3, <2>4, <2>5, ImageIsFinite
  <2>7. Min(E) \in E /\ \A y \in E : Min(E) <= y
    <3> HIDE DEF E
    <3> QED
      BY <2>6, MinExists
  <2>8. PICK u \in S : \A w \in S : f[u] <= f[w]
    BY <2>7
  <2> DEFINE l == s.legs[u[1]]
             Y == Suffix(s, l.right, l.expiry)
  <2>9. l \in X /\ l.right = v[1] /\ l.expiry >= v[2] /\ v[2] \in Nat /\ l.expiry \in Nat
    <3>1. v[2] \in Nat
      BY <2>1, StrikeTypes
    <3> QED
      BY <2>5, <2>8, <3>1 DEF Suffix
  <2>10. Y \subseteq X
    BY <2>9, LegTypes DEF Suffix, AnyLeg
  <2>11. S \subseteq UnitsOf(s, Y, -1)
    <3> SUFFICES ASSUME NEW w \in S PROVE s.legs[w[1]] \in Y
      BY DEF UnitsOf
    <3> QED
      BY <2>5, <2>8, <2>9 DEF Suffix
  <2>12. UnitsOf(s, Y, 1) \subseteq UnitsOf(s, X, 1)
    BY <2>10 DEF UnitsOf
  <2>13. Cardinality(UnitsOf(s, Y, -1)) <= Cardinality(UnitsOf(s, Y, 1))
    BY <1>3, <2>5, <2>8
  <2> HIDE DEF S, X, Y
  <2>14. Cardinality(S) <= Cardinality(UnitsOf(s, Y, -1)) /\ Cardinality(UnitsOf(s, Y, 1)) <= Cardinality(UnitsOf(s, X, 1))
    BY <1>1, <2>11, <2>12, FS_Subset
  <2>15. /\ Cardinality(S) \in Nat /\ Cardinality(UnitsOf(s, Y, -1)) \in Nat
         /\ Cardinality(UnitsOf(s, Y, 1)) \in Nat /\ Cardinality(UnitsOf(s, X, 1)) \in Nat
    BY <1>1 DEF S
  <2> QED
    BY <2>1, <2>2, <2>13, <2>14, <2>15
<1> QED
  BY <1>2, <1>3

(* The contracts of one right.                                             *)
UnitsFor(s, right, sign) == { u \in Units(s, sign) : s.legs[u[1]].right = right }

LEMMA UnitsForAre ==
    ASSUME NEW s, IsStructure(s), NEW right \in Rights, NEW sign \in {1, -1}
    PROVE  /\ IsFiniteSet(UnitsFor(s, right, sign))
           /\ \A u \in Units(s, sign) : /\ u[1] \in DOMAIN s.legs /\ s.legs[u[1]] \in LegSet(s)
                                        /\ s.legs[u[1]].expiry \in Nat /\ s.legs[u[1]].right \in Rights
           /\ \A e : UnitsOf(s, Suffix(s, right, e), sign)
                       = { u \in UnitsFor(s, right, sign) : s.legs[u[1]].expiry >= e }
<1>1. \A u \in Units(s, sign) : u[1] \in DOMAIN s.legs
  BY UnitsCounted
<1>2. \A u \in Units(s, sign) : s.legs[u[1]] \in LegSet(s) /\ s.legs[u[1]] \in AnyLeg
  BY <1>1, LegTypes DEF LegSet
<1>3. \A u \in Units(s, sign) : s.legs[u[1]].expiry \in Nat /\ s.legs[u[1]].right \in Rights
  BY <1>2 DEF AnyLeg, Rights
<1>4. UnitsFor(s, right, sign) \subseteq UnitsOf(s, LegSet(s), sign)
  BY <1>2 DEF UnitsFor, UnitsOf
<1>5. IsFiniteSet(UnitsFor(s, right, sign))
  BY <1>4, UnitsCounted, FS_Subset
<1>6. \A e : UnitsOf(s, Suffix(s, right, e), sign)
              = { u \in UnitsFor(s, right, sign) : s.legs[u[1]].expiry >= e }
  BY <1>2 DEF UnitsFor, UnitsOf, Suffix
<1> QED
  BY <1>1, <1>2, <1>3, <1>5, <1>6

(* The contracts of one right can be paired if there are enough of them.   *)
LEMMA PairedByRight ==
    ASSUME NEW s, IsStructure(s), CoverageViolations(s) = {}, NEW right \in Rights
    PROVE  \E p \in [UnitsFor(s, right, -1) -> UnitsFor(s, right, 1)] :
              /\ \A u, v \in UnitsFor(s, right, -1) : p[u] = p[v] => u = v
              /\ \A u \in UnitsFor(s, right, -1) : s.legs[p[u][1]].expiry >= s.legs[u[1]].expiry
<1> DEFINE S == UnitsFor(s, right, -1)
           L == UnitsFor(s, right, 1)
           a == [u \in S |-> s.legs[u[1]].expiry]
           b == [x \in L |-> s.legs[x[1]].expiry]
<1>0. 1 \in {1, -1} /\ -1 \in {1, -1}
  OBVIOUS
<1>1. IsFiniteSet(S) /\ IsFiniteSet(L)
  BY <1>0, UnitsForAre
<1>2. (\A u \in S : a[u] = s.legs[u[1]].expiry /\ a[u] \in Int) /\ (\A x \in L : b[x] = s.legs[x[1]].expiry /\ b[x] \in Int)
  <2>1. (\A u \in S : s.legs[u[1]].expiry \in Nat) /\ (\A x \in L : s.legs[x[1]].expiry \in Nat)
    BY <1>0, UnitsForAre DEF UnitsFor
  <2> QED
    BY <2>1
<1> HIDE DEF a, b
<1>3. ASSUME NEW u \in S
      PROVE  Cardinality(AtLeast(S, a, a[u])) <= Cardinality(AtLeast(L, b, a[u]))
  <2> DEFINE X == Suffix(s, right, s.legs[u[1]].expiry)
  <2>1. u \in Units(s, -1) /\ s.legs[u[1]].right = right
    BY DEF UnitsFor
  <2>2. Cardinality(UnitsOf(s, X, -1)) <= Cardinality(UnitsOf(s, X, 1))
    BY <2>1, CoveredIs
  <2>3. /\ UnitsOf(s, X, -1) = { v \in S : s.legs[v[1]].expiry >= s.legs[u[1]].expiry }
        /\ UnitsOf(s, X, 1) = { x \in L : s.legs[x[1]].expiry >= s.legs[u[1]].expiry }
    BY <1>0, UnitsForAre
  <2>4. /\ { v \in S : s.legs[v[1]].expiry >= s.legs[u[1]].expiry } = AtLeast(S, a, a[u])
        /\ { x \in L : s.legs[x[1]].expiry >= s.legs[u[1]].expiry } = AtLeast(L, b, a[u])
    BY <1>2 DEF AtLeast
  <2> QED
    BY <2>2, <2>3, <2>4
<1> HIDE DEF S, L
<1>4. PICK p \in [S -> L] : (\A u, v \in S : p[u] = p[v] => u = v) /\ \A u \in S : b[p[u]] >= a[u]
  <2>1. Suffices(S, L, a, b)
    BY <1>2, <1>3 DEF Suffices
  <2>2. Partners(S, L, a, b) # {}
    BY <1>1, <2>1, PartnersExist
  <2> QED
    BY <2>2 DEF Partners
<1>5. \A u \in S : s.legs[p[u][1]].expiry >= s.legs[u[1]].expiry
  BY <1>2, <1>4
<1>6. p \in [S -> L] /\ (\A u, v \in S : p[u] = p[v] => u = v)
  BY <1>4
<1> QED
  BY <1>5, <1>6 DEF S, L

(* The suffix rule is right: it finds nothing exactly when every short     *)
(* contract has a long one of its own that covers it (validation.py:69).   *)
LEMMA CoverageIsPairing ==
    ASSUME NEW s, IsStructure(s)
    PROVE  CoverageViolations(s) = {} <=> Paired(s)
<1>0. 1 \in {1, -1} /\ -1 \in {1, -1} /\ Rights = {"call", "put"}
  BY DEF Rights
<1>1. \A sign \in {1, -1} : \A u \in Units(s, sign) :
         s.legs[u[1]] \in LegSet(s) /\ s.legs[u[1]].expiry \in Nat /\ s.legs[u[1]].right \in Rights
  BY <1>0, UnitsForAre
<1>2. ASSUME Paired(s) PROVE CoverageViolations(s) = {}
  <2>1. PICK pair \in [Units(s, -1) -> Units(s, 1)] :
           /\ IsInjective(pair)
           /\ \A u \in Units(s, -1) :
                /\ s.legs[pair[u][1]].right = s.legs[u[1]].right
                /\ s.legs[pair[u][1]].expiry >= s.legs[u[1]].expiry
    BY <1>2 DEF Paired
  <2>2. ASSUME NEW u \in Units(s, -1)
        PROVE  LET l == s.legs[u[1]]
               IN  Cardinality(UnitsOf(s, Suffix(s, l.right, l.expiry), -1))
                     <= Cardinality(UnitsOf(s, Suffix(s, l.right, l.expiry), 1))
    <3> DEFINE l == s.legs[u[1]]
               X == Suffix(s, l.right, l.expiry)
               S == UnitsOf(s, X, -1)
               L == UnitsOf(s, X, 1)
               q == [w \in S |-> pair[w]]
    <3>1. S \subseteq Units(s, -1) /\ \A w \in S : s.legs[w[1]] \in X
      BY DEF UnitsOf
    <3>2. ASSUME NEW w \in S PROVE pair[w] \in L
      <4>1. /\ pair[w] \in Units(s, 1) /\ s.legs[pair[w][1]].right = s.legs[w[1]].right
            /\ s.legs[pair[w][1]].expiry >= s.legs[w[1]].expiry
        BY <2>1, <3>1
      <4>2. s.legs[w[1]].right = l.right /\ s.legs[w[1]].expiry >= l.expiry
        BY <3>1 DEF Suffix
      <4>3. /\ s.legs[pair[w][1]] \in LegSet(s) /\ s.legs[pair[w][1]].expiry \in Nat
            /\ s.legs[w[1]].expiry \in Nat /\ l.expiry \in Nat
        BY <1>0, <1>1, <3>1, <4>1
      <4>4. s.legs[pair[w][1]] \in X
        BY <4>1, <4>2, <4>3 DEF Suffix
      <4> QED
        BY <4>1, <4>4 DEF UnitsOf
    <3>3. q \in [S -> L] /\ DOMAIN q = S /\ \A v, w \in S : q[v] = q[w] => v = w
      <4>1. \A v, w \in Units(s, -1) : pair[v] = pair[w] => v = w
        BY <2>1, Zenon DEF IsInjective
      <4> QED
        BY <3>1, <3>2, <4>1
    <3> HIDE DEF q, S, L
    <3>4. q \in Injection(S, L)
      BY <3>3, Zenon DEF Injection, IsInjective
    <3>5. IsFiniteSet(L)
      BY <1>0, UnitsCounted DEF L
    <3>6. Cardinality(S) <= Cardinality(L)
      BY <3>4, <3>5, FS_Injection
    <3> QED
      BY <3>6 DEF S, L
  <2> QED
    BY <2>2, CoveredIs
<1>3. ASSUME CoverageViolations(s) = {} PROVE Paired(s)
  <2> DEFINE SC == UnitsFor(s, "call", -1)
             LC == UnitsFor(s, "call", 1)
             SP == UnitsFor(s, "put", -1)
             LP == UnitsFor(s, "put", 1)
  <2>1. PICK c \in [SC -> LC] : /\ \A u, v \in SC : c[u] = c[v] => u = v
                                /\ \A u \in SC : s.legs[c[u][1]].expiry >= s.legs[u[1]].expiry
    BY <1>0, <1>3, PairedByRight
  <2>2. PICK p \in [SP -> LP] : /\ \A u, v \in SP : p[u] = p[v] => u = v
                                /\ \A u \in SP : s.legs[p[u][1]].expiry >= s.legs[u[1]].expiry
    BY <1>0, <1>3, PairedByRight
  <2> DEFINE pair == [u \in Units(s, -1) |-> IF u \in SC THEN c[u] ELSE p[u]]
  <2>3. \A u \in Units(s, -1) : u \in SC \/ u \in SP
    BY <1>0, <1>1 DEF UnitsFor
  <2>4. /\ \A x \in LC : x \in Units(s, 1) /\ s.legs[x[1]].right = "call"
        /\ \A x \in LP : x \in Units(s, 1) /\ s.legs[x[1]].right = "put"
        /\ \A u \in SC : s.legs[u[1]].right = "call"
        /\ \A u \in SP : s.legs[u[1]].right = "put"
    BY DEF UnitsFor
  <2> HIDE DEF SC, LC, SP, LP
  <2>5. ASSUME NEW u \in Units(s, -1)
        PROVE  /\ pair[u] \in Units(s, 1) /\ s.legs[pair[u][1]].right = s.legs[u[1]].right
               /\ s.legs[pair[u][1]].expiry >= s.legs[u[1]].expiry
    <3>1. CASE u \in SC
      <4>1. pair[u] = c[u]
        BY <3>1
      <4> HIDE DEF pair
      <4> QED
        BY <2>1, <2>4, <3>1, <4>1
    <3>2. CASE u \notin SC
      <4>1. pair[u] = p[u] /\ u \in SP
        BY <2>3, <3>2
      <4> HIDE DEF pair
      <4> QED
        BY <2>2, <2>4, <4>1
    <3> QED
      BY <3>1, <3>2
  <2>6. ASSUME NEW u \in Units(s, -1), NEW v \in Units(s, -1), pair[u] = pair[v] PROVE u = v
    <3>1. s.legs[u[1]].right = s.legs[v[1]].right
      BY <2>5, <2>6, Zenon
    <3>2. CASE u \in SC
      <4>1. v \in SC
        BY <2>3, <2>4, <3>1, <3>2
      <4> QED
        BY <2>1, <2>6, <3>2, <4>1
    <3>3. CASE u \notin SC
      <4>1. u \in SP
        BY <2>3, <3>3
      <4>2. v \notin SC
        BY <2>4, <3>1, <4>1
      <4>3. v \in SP
        BY <2>3, <4>2
      <4> QED
        BY <2>2, <2>6, <3>3, <4>1, <4>2, <4>3
    <3> QED
      BY <3>2, <3>3
  <2>7. pair \in [Units(s, -1) -> Units(s, 1)] /\ DOMAIN pair = Units(s, -1)
    BY <2>5
  <2> HIDE DEF pair
  <2>8. IsInjective(pair)
    BY <2>6, <2>7, Zenon DEF IsInjective
  <2> QED
    BY <2>5, <2>7, <2>8, Zenon DEF Paired
<1> QED
  BY <1>2, <1>3

-----------------------------------------------------------------------------
(* What the generators yield *)

LegLists == Seq(AnyLeg) \ {<<>>}

(* Neighbouring strikes differ.                                            *)
LEMMA StepIs ==
    ASSUME NEW ctx, IsContext(ctx)
    PROVE  Step(ctx) \in Nat \ {0}
<1> DEFINE K == ctx.strikes
           P == { p \in K \X K : p[1] < p[2] }
           f == [p \in P |-> p[2] - p[1]]
           G == { f[p] : p \in P }
<1>1. K \subseteq Nat /\ IsFiniteSet(K) /\ Cardinality(K) \in Nat
  BY FS_CardinalityType DEF IsContext
<1>2. CASE Cardinality(K) < 2
  BY <1>2 DEF Step
<1>3. CASE ~(Cardinality(K) < 2)
  <2>1. Step(ctx) = Min(G)
    <3>1. G = { p[2] - p[1] : p \in P }
      OBVIOUS
    <3> QED
      BY <1>3, <3>1 DEF Step
  <2>2. Cardinality(K) # 0 /\ Cardinality(K) # 1
    BY <1>1, <1>3
  <2>3. K # {}
    BY <2>2, FS_EmptySet
  <2>4. \A k : K # {k}
    BY <2>2, FS_Singleton
  <2>5. PICK k \in K, j \in K : k # j
    BY <2>3, <2>4
  <2>6. <<k, j>> \in P \/ <<j, k>> \in P
    BY <1>1, <2>5
  <2>7. IsFiniteSet(P)
    BY <1>1, FS_Product, FS_Subset
  <2>8. \A p \in P : f[p] = p[2] - p[1] /\ f[p] \in Nat \ {0}
    BY <1>1
  <2> HIDE DEF f
  <2>9. IsFiniteSet(G) /\ G # {}
    <3> HIDE DEF P
    <3> QED
      BY <2>6, <2>7, ImageIsFinite
  <2>10. G \subseteq Nat \ {0}
    BY <2>8
  <2> HIDE DEF G
  <2>11. G \in SUBSET Int
    BY <2>10
  <2>12. Min(G) \in G
    BY <2>9, <2>11, MinExists
  <2> QED
    BY <2>1, <2>10, <2>12
<1> QED
  BY <1>2, <1>3

(* All of the legs are quoted, or there is no structure.                   *)
LEMMA LegsAre ==
    ASSUME NEW ctx, NEW legs, NEW x \in Legs(ctx, legs)
    PROVE  x = legs /\ \A i \in DOMAIN legs : Quoted(ctx, legs[i])
BY DEF Legs

LEMMA QuotedIs ==
    ASSUME NEW ctx, IsContext(ctx), NEW e, NEW k, NEW r \in Rights, NEW q \in Int,
           Quoted(ctx, Leg(e, k, r, q))
    PROVE  k \in Nat /\ e \in Nat /\ Leg(e, k, r, q) \in AnyLeg
<1> DEFINE l == Leg(e, k, r, q)
<1>1. l.expiry = e /\ l.strike = k /\ l.right = r /\ l = [expiry |-> e, strike |-> k, right |-> r, qty |-> q]
  BY DEF Leg
<1>2. /\ k \in ctx.strikes \/ <<e, k, r>> \in ctx.oneSided
      /\ e \in {Near, ctx.far}
  BY <1>1 DEF Quoted
<1>3. k \in Nat /\ e \in Nat
  BY <1>2 DEF IsContext, Near
<1> QED
  BY <1>1, <1>3 DEF AnyLeg, Rights

LEMMA LegPair ==
    ASSUME NEW ctx, IsContext(ctx), NEW e1, NEW k1, NEW r1 \in Rights, NEW q1 \in Int,
           NEW e2, NEW k2, NEW r2 \in Rights, NEW q2 \in Int,
           NEW x \in Legs(ctx, <<Leg(e1, k1, r1, q1), Leg(e2, k2, r2, q2)>>)
    PROVE  /\ x = <<Leg(e1, k1, r1, q1), Leg(e2, k2, r2, q2)>> /\ x \in LegLists
           /\ k1 \in Nat /\ k2 \in Nat
<1> DEFINE a == Leg(e1, k1, r1, q1)
           b == Leg(e2, k2, r2, q2)
<1>1. (Quoted(ctx, a) => a \in AnyLeg /\ k1 \in Nat) /\ (Quoted(ctx, b) => b \in AnyLeg /\ k2 \in Nat)
  BY QuotedIs
<1> HIDE DEF a, b
<1>2. x = <<a, b>> /\ \A i \in DOMAIN <<a, b>> : Quoted(ctx, <<a, b>>[i])
  BY LegsAre DEF a, b
<1>3. Quoted(ctx, a) /\ Quoted(ctx, b)
  <2>1. DOMAIN <<a, b>> = {1, 2} /\ <<a, b>>[1] = a /\ <<a, b>>[2] = b
    OBVIOUS
  <2> QED
    BY <1>2, <2>1
<1>4. x \in LegLists
  BY <1>1, <1>2, <1>3 DEF LegLists
<1> QED
  BY <1>1, <1>2, <1>3, <1>4 DEF a, b

LEMMA LegTriple ==
    ASSUME NEW ctx, IsContext(ctx), NEW e1, NEW k1, NEW r1 \in Rights, NEW q1 \in Int,
           NEW e2, NEW k2, NEW r2 \in Rights, NEW q2 \in Int,
           NEW e3, NEW k3, NEW r3 \in Rights, NEW q3 \in Int,
           NEW x \in Legs(ctx, <<Leg(e1, k1, r1, q1), Leg(e2, k2, r2, q2), Leg(e3, k3, r3, q3)>>)
    PROVE  /\ x = <<Leg(e1, k1, r1, q1), Leg(e2, k2, r2, q2), Leg(e3, k3, r3, q3)>> /\ x \in LegLists
           /\ k1 \in Nat /\ k2 \in Nat /\ k3 \in Nat
<1> DEFINE a == Leg(e1, k1, r1, q1)
           b == Leg(e2, k2, r2, q2)
           c == Leg(e3, k3, r3, q3)
<1>1. /\ Quoted(ctx, a) => a \in AnyLeg /\ k1 \in Nat
      /\ Quoted(ctx, b) => b \in AnyLeg /\ k2 \in Nat
      /\ Quoted(ctx, c) => c \in AnyLeg /\ k3 \in Nat
  BY QuotedIs
<1> HIDE DEF a, b, c
<1>2. x = <<a, b, c>> /\ \A i \in DOMAIN <<a, b, c>> : Quoted(ctx, <<a, b, c>>[i])
  BY LegsAre DEF a, b, c
<1>3. Quoted(ctx, a) /\ Quoted(ctx, b) /\ Quoted(ctx, c)
  <2>1. DOMAIN <<a, b, c>> = {1, 2, 3} /\ <<a, b, c>>[1] = a /\ <<a, b, c>>[2] = b /\ <<a, b, c>>[3] = c
    OBVIOUS
  <2> QED
    BY <1>2, <2>1
<1>4. x \in LegLists
  BY <1>1, <1>2, <1>3 DEF LegLists
<1> QED
  BY <1>1, <1>2, <1>3, <1>4 DEF a, b, c

LEMMA LegQuad ==
    ASSUME NEW ctx, IsContext(ctx), NEW e1, NEW k1, NEW r1 \in Rights, NEW q1 \in Int,
           NEW e2, NEW k2, NEW r2 \in Rights, NEW q2 \in Int,
           NEW e3, NEW k3, NEW r3 \in Rights, NEW q3 \in Int,
           NEW e4, NEW k4, NEW r4 \in Rights, NEW q4 \in Int,
           NEW x \in Legs(ctx, <<Leg(e1, k1, r1, q1), Leg(e2, k2, r2, q2), Leg(e3, k3, r3, q3),
                                 Leg(e4, k4, r4, q4)>>)
    PROVE  /\ x = <<Leg(e1, k1, r1, q1), Leg(e2, k2, r2, q2), Leg(e3, k3, r3, q3), Leg(e4, k4, r4, q4)>>
           /\ x \in LegLists
           /\ k1 \in Nat /\ k2 \in Nat /\ k3 \in Nat /\ k4 \in Nat
<1> DEFINE a == Leg(e1, k1, r1, q1)
           b == Leg(e2, k2, r2, q2)
           c == Leg(e3, k3, r3, q3)
           d == Leg(e4, k4, r4, q4)
<1>1. /\ Quoted(ctx, a) => a \in AnyLeg /\ k1 \in Nat
      /\ Quoted(ctx, b) => b \in AnyLeg /\ k2 \in Nat
      /\ Quoted(ctx, c) => c \in AnyLeg /\ k3 \in Nat
      /\ Quoted(ctx, d) => d \in AnyLeg /\ k4 \in Nat
  BY QuotedIs
<1> HIDE DEF a, b, c, d
<1>2. x = <<a, b, c, d>> /\ \A i \in DOMAIN <<a, b, c, d>> : Quoted(ctx, <<a, b, c, d>>[i])
  BY LegsAre DEF a, b, c, d
<1>3. Quoted(ctx, a) /\ Quoted(ctx, b) /\ Quoted(ctx, c) /\ Quoted(ctx, d)
  <2>1. /\ DOMAIN <<a, b, c, d>> = {1, 2, 3, 4} /\ <<a, b, c, d>>[1] = a /\ <<a, b, c, d>>[2] = b
        /\ <<a, b, c, d>>[3] = c /\ <<a, b, c, d>>[4] = d
    OBVIOUS
  <2> QED
    BY <1>2, <2>1
<1>4. x \in LegLists
  BY <1>1, <1>2, <1>3 DEF LegLists
<1> QED
  BY <1>1, <1>2, <1>3, <1>4 DEF a, b, c, d

(* The shapes of the families.                                             *)
Verticals ==
    { x \in LegLists : \E k, j \in Nat, r \in Rights, q \in {<<1, -1>>, <<-1, 1>>, <<-1, 2>>} :
        k # j /\ x = <<Leg(Near, k, r, q[1]), Leg(Near, j, r, q[2])>> }

Volatilities ==
    { x \in LegLists : \E k, j \in Nat : x = <<Leg(Near, k, "call", 1), Leg(Near, j, "put", 1)>> }

FlyOf(k, low, high, r) == <<Leg(Near, k - low, r, 1), Leg(Near, k, r, -2), Leg(Near, k + high, r, 1)>>

IsFly(x, k, low, high, r) == low <= k /\ x = FlyOf(k, low, high, r)

Flies == { x \in LegLists : \E k \in Nat, low, high \in Nat \ {0}, r \in Rights : IsFly(x, k, low, high, r) }

(* The wing on the side of the right is the wider one.                     *)
Skewed(r) ==
    { x \in LegLists : \E k \in Nat, low, high \in Nat \ {0} :
        IsFly(x, k, low, high, r) /\ IF r = "call" THEN low < high ELSE high < low }

Irons ==
    { x \in LegLists : \E h, i, j, k \in Nat :
        /\ h # i /\ j # k
        /\ x = <<Leg(Near, h, "put", 1), Leg(Near, i, "put", -1), Leg(Near, j, "call", -1),
                 Leg(Near, k, "call", 1)>> }

Rolls ==
    { x \in LegLists : \E k, j, far \in Nat, r \in Rights :
        far > Near /\ x = <<Leg(Near, k, r, -1), Leg(far, j, r, 1)>> }

DoubleRolls ==
    { x \in LegLists : \E k, j, far \in Nat :
        far > Near /\ x = <<Leg(Near, k, "call", -1), Leg(far, k, "call", 1),
                            Leg(Near, j, "put", -1), Leg(far, j, "put", 1)>> }

(* A width is a positive number of steps.                                  *)
LEMMA Widths ==
    ASSUME NEW ctx, IsContext(ctx), NEW w \in Nat \ {0}
    PROVE  w * Step(ctx) \in Nat \ {0}
<1>1. Step(ctx) \in Nat \ {0}
  BY StepIs
<1> HIDE DEF Step
<1> QED
  BY <1>1

LEMMA VerticalShape ==
    ASSUME NEW ctx, IsContext(ctx), NEW right \in Rights, NEW sign \in {1, -1}
    PROVE  /\ DebitSpreads(ctx, right, sign) \subseteq Verticals
           /\ \A short : CreditSpreads(ctx, short, right, sign) \subseteq Verticals
           /\ Backspreads(ctx, right, sign) \subseteq Verticals
<1>0. 1 \in Int /\ -1 \in Int /\ 2 \in Int
  OBVIOUS
<1>1. ASSUME NEW k \in Nat, NEW w \in NarrowWidths, k + sign * w * Step(ctx) \in Nat
      PROVE  k # k + sign * w * Step(ctx)
  <2>1. w \in Nat \ {0} /\ Step(ctx) \in Nat \ {0}
    BY StepIs DEF NarrowWidths
  <2>2. w * Step(ctx) \in Nat \ {0}
    BY <2>1, Widths
  <2>3. sign * w * Step(ctx) = w * Step(ctx) \/ sign * w * Step(ctx) = -(w * Step(ctx))
    <3> HIDE DEF Step
    <3> QED
      BY <2>1
  <2> QED
    BY <2>2, <2>3
<1> DEFINE far(k, w) == k + sign * w * Step(ctx)
           D(k, w) == Legs(ctx, <<Leg(Near, k, right, 1), Leg(Near, far(k, w), right, -1)>>)
           C(k, w) == Legs(ctx, <<Leg(Near, k, right, -1), Leg(Near, far(k, w), right, 1)>>)
<1>2. ASSUME NEW k, NEW w \in NarrowWidths PROVE D(k, w) \subseteq Verticals
  <2> SUFFICES ASSUME NEW x \in D(k, w) PROVE x \in Verticals
    OBVIOUS
  <2> HIDE DEF far
  <2>1. /\ x = <<Leg(Near, k, right, 1), Leg(Near, far(k, w), right, -1)>> /\ x \in LegLists
        /\ k \in Nat /\ far(k, w) \in Nat
    BY <1>0, LegPair
  <2>2. k # far(k, w)
    BY <1>1, <2>1 DEF far
  <2>3. <<1, -1>> \in {<<1, -1>>, <<-1, 1>>, <<-1, 2>>} /\ <<1, -1>>[1] = 1 /\ <<1, -1>>[2] = -1
    OBVIOUS
  <2> QED
    BY <2>1, <2>2, <2>3, Zenon DEF Verticals
<1>3. ASSUME NEW k, NEW w \in NarrowWidths PROVE C(k, w) \subseteq Verticals
  <2> SUFFICES ASSUME NEW x \in C(k, w) PROVE x \in Verticals
    OBVIOUS
  <2> HIDE DEF far
  <2>1. /\ x = <<Leg(Near, k, right, -1), Leg(Near, far(k, w), right, 1)>> /\ x \in LegLists
        /\ k \in Nat /\ far(k, w) \in Nat
    BY <1>0, LegPair
  <2>2. k # far(k, w)
    BY <1>1, <2>1 DEF far
  <2>3. <<-1, 1>> \in {<<1, -1>>, <<-1, 1>>, <<-1, 2>>} /\ <<-1, 1>>[1] = -1 /\ <<-1, 1>>[2] = 1
    OBVIOUS
  <2> QED
    BY <2>1, <2>2, <2>3, Zenon DEF Verticals
<1>4. ASSUME NEW short, NEW long PROVE Backspread(ctx, short, long, right, sign) \subseteq Verticals
  <2> SUFFICES ASSUME NEW x \in Backspread(ctx, short, long, right, sign) PROVE x \in Verticals
    OBVIOUS
  <2>1. /\ ~(sign * long <= sign * short)
        /\ x \in Legs(ctx, <<Leg(Near, short, right, -1), Leg(Near, long, right, 2)>>)
    BY DEF Backspread
  <2>2. /\ x = <<Leg(Near, short, right, -1), Leg(Near, long, right, 2)>> /\ x \in LegLists
        /\ short \in Nat /\ long \in Nat
    BY <1>0, <2>1, LegPair
  <2>3. short # long
    BY <2>1, <2>2
  <2>4. <<-1, 2>> \in {<<1, -1>>, <<-1, 1>>, <<-1, 2>>} /\ <<-1, 2>>[1] = -1 /\ <<-1, 2>>[2] = 2
    OBVIOUS
  <2> QED
    BY <2>2, <2>3, <2>4, Zenon DEF Verticals
<1>5. DebitSpreads(ctx, right, sign) = UNION { UNION { D(k, w) : w \in NarrowWidths } : k \in Anchors(ctx) }
  BY Zenon DEF DebitSpreads
<1>6. \A short : \/ CreditSpreads(ctx, short, right, sign) = {}
                 \/ CreditSpreads(ctx, short, right, sign) = UNION { C(short, w) : w \in NarrowWidths }
  BY Zenon DEF CreditSpreads
<1> HIDE DEF C, D
<1>7. DebitSpreads(ctx, right, sign) \subseteq Verticals
  BY <1>2, <1>5
<1>8. \A short : CreditSpreads(ctx, short, right, sign) \subseteq Verticals
  BY <1>3, <1>6
<1>9. Backspreads(ctx, right, sign) \subseteq Verticals
  BY <1>4 DEF Backspreads
<1> QED
  BY <1>7, <1>8, <1>9

LEMMA FlyShape ==
    ASSUME NEW ctx, IsContext(ctx), NEW right \in Rights
    PROVE  Butterflies(ctx, right) \subseteq Flies /\ BrokenWings(ctx, right) \subseteq Skewed(right)
<1>0. 1 \in Int /\ -2 \in Int
  OBVIOUS
<1>1. ASSUME NEW c, NEW l \in Nat \ {0}, NEW h \in Nat \ {0}, NEW x \in Fly(ctx, c, right, l, h)
      PROVE  /\ x \in LegLists /\ c \in Nat /\ l * Step(ctx) \in Nat \ {0} /\ h * Step(ctx) \in Nat \ {0}
             /\ IsFly(x, c, l * Step(ctx), h * Step(ctx), right)
  <2>1. /\ x = <<Leg(Near, c - l * Step(ctx), right, 1), Leg(Near, c, right, -2),
                 Leg(Near, c + h * Step(ctx), right, 1)>>
        /\ x \in LegLists /\ c - l * Step(ctx) \in Nat /\ c \in Nat
    BY <1>0, LegTriple DEF Fly
  <2>2. l * Step(ctx) \in Nat \ {0} /\ h * Step(ctx) \in Nat \ {0}
    BY Widths
  <2>3. l * Step(ctx) <= c
    BY <2>1, <2>2
  <2> QED
    BY <2>1, <2>2, <2>3 DEF IsFly, FlyOf
<1>2. \A c : \A l, h \in Nat \ {0} : Fly(ctx, c, right, l, h) \subseteq Flies
  BY <1>1, Zenon DEF Flies
<1>3. Butterflies(ctx, right) \subseteq Flies
  BY <1>2 DEF Butterflies, WingWidths
<1>4. ASSUME NEW c, NEW w \in Nat \ {0}, NEW extra \in {1, 2}
      PROVE  (IF right = "call" THEN Fly(ctx, c, right, w, w + extra) ELSE Fly(ctx, c, right, w + extra, w))
               \subseteq Skewed(right)
  <2>1. w + extra \in Nat \ {0}
    OBVIOUS
  <2>2. w * Step(ctx) < (w + extra) * Step(ctx)
    <3>1. Step(ctx) \in Nat \ {0}
      BY StepIs
    <3>2. \A n \in Nat \ {0} : w * n \in Nat /\ (w + 1) * n = w * n + n /\ (w + 2) * n = w * n + n + n
      OBVIOUS
    <3>3. extra = 1 \/ extra = 2
      OBVIOUS
    <3> QED
      BY <3>1, <3>2, <3>3
  <2>3. CASE right = "call"
    BY <1>1, <2>1, <2>2, <2>3, Zenon DEF Skewed
  <2>4. CASE right # "call"
    BY <1>1, <2>1, <2>2, <2>4, Zenon DEF Skewed
  <2> QED
    BY <2>3, <2>4
<1>5. \A c : \A w \in Nat \ {0} : BrokenFlies(ctx, c, right, w) \subseteq Skewed(right)
  <2> DEFINE b(c, w, extra) ==
                IF right = "call" THEN Fly(ctx, c, right, w, w + extra) ELSE Fly(ctx, c, right, w + extra, w)
  <2>1. \A c, w : BrokenFlies(ctx, c, right, w) = UNION { b(c, w, extra) : extra \in {1, 2} }
    BY Zenon DEF BrokenFlies
  <2>2. \A c : \A w \in Nat \ {0}, extra \in {1, 2} : b(c, w, extra) \subseteq Skewed(right)
    BY <1>4, Zenon
  <2> HIDE DEF b
  <2> QED
    BY <2>1, <2>2
<1>6. BrokenWings(ctx, right) \subseteq Skewed(right)
  BY <1>5 DEF BrokenWings
<1> QED
  BY <1>3, <1>6

LEMMA IronShape ==
    ASSUME NEW ctx, IsContext(ctx)
    PROVE  /\ \A wings \in SUBSET ((Nat \ {0}) \X (Nat \ {0})) : Condors(ctx, wings) \subseteq Irons
           /\ IronButterflies(ctx) \subseteq Irons
<1>0. 1 \in Int /\ -1 \in Int /\ "put" \in Rights /\ "call" \in Rights
  BY DEF Rights
<1> DEFINE B(p, c, l, h) ==
              Legs(ctx, <<Leg(Near, p - l * Step(ctx), "put", 1), Leg(Near, p, "put", -1),
                          Leg(Near, c, "call", -1), Leg(Near, c + h * Step(ctx), "call", 1)>>)
<1>1. ASSUME NEW p, NEW c, NEW l \in Nat \ {0}, NEW h \in Nat \ {0} PROVE B(p, c, l, h) \subseteq Irons
  <2> SUFFICES ASSUME NEW x \in B(p, c, l, h) PROVE x \in Irons
    OBVIOUS
  <2>1. /\ x = <<Leg(Near, p - l * Step(ctx), "put", 1), Leg(Near, p, "put", -1),
                 Leg(Near, c, "call", -1), Leg(Near, c + h * Step(ctx), "call", 1)>>
        /\ x \in LegLists
        /\ p - l * Step(ctx) \in Nat /\ p \in Nat /\ c \in Nat /\ c + h * Step(ctx) \in Nat
    BY <1>0, LegQuad
  <2>2. l * Step(ctx) \in Nat \ {0} /\ h * Step(ctx) \in Nat \ {0}
    BY Widths
  <2>3. p - l * Step(ctx) # p /\ c # c + h * Step(ctx)
    BY <2>1, <2>2
  <2> QED
    BY <2>1, <2>3, Zenon DEF Irons
<1>2. \A wings : \/ Condors(ctx, wings) = {}
                 \/ Condors(ctx, wings) = UNION { B(ctx.shortPut, ctx.shortCall, w[1], w[2]) : w \in wings }
  BY Zenon DEF Condors
<1>3. IronButterflies(ctx) = UNION { UNION { B(c, c, w, w) : w \in WingWidths } : c \in ButterflyCentres(ctx) }
  BY Zenon DEF IronButterflies
<1> HIDE DEF B
<1>4. \A wings \in SUBSET ((Nat \ {0}) \X (Nat \ {0})) : Condors(ctx, wings) \subseteq Irons
  BY <1>1, <1>2
<1>5. IronButterflies(ctx) \subseteq Irons
  BY <1>1, <1>3 DEF WingWidths
<1> QED
  BY <1>4, <1>5

LEMMA VolatilityShape ==
    ASSUME NEW ctx, IsContext(ctx)
    PROVE  Straddles(ctx) \subseteq Volatilities /\ Strangles(ctx) \subseteq Volatilities
<1>0. 1 \in Int /\ "put" \in Rights /\ "call" \in Rights
  BY DEF Rights
<1>1. ASSUME NEW a, NEW b
      PROVE  Legs(ctx, <<Leg(Near, a, "call", 1), Leg(Near, b, "put", 1)>>) \subseteq Volatilities
  <2> SUFFICES ASSUME NEW x \in Legs(ctx, <<Leg(Near, a, "call", 1), Leg(Near, b, "put", 1)>>)
               PROVE  x \in Volatilities
    OBVIOUS
  <2>1. /\ x = <<Leg(Near, a, "call", 1), Leg(Near, b, "put", 1)>> /\ x \in LegLists
        /\ a \in Nat /\ b \in Nat
    BY <1>0, LegPair
  <2> QED
    BY <2>1, Zenon DEF Volatilities
<1>2. Straddles(ctx) \subseteq Volatilities
  BY <1>1 DEF Straddles
<1>3. Strangles(ctx) \subseteq Volatilities
  BY <1>1 DEF Strangles
<1> QED
  BY <1>2, <1>3

LEMMA RollShape ==
    ASSUME NEW ctx, IsContext(ctx), NEW right \in Rights, NEW sign
    PROVE  /\ Calendars(ctx, right, sign) \subseteq Rolls
           /\ Diagonals(ctx, right, sign) \subseteq Rolls
           /\ DoubleCalendars(ctx) \subseteq DoubleRolls
<1>0. 1 \in Int /\ -1 \in Int /\ "put" \in Rights /\ "call" \in Rights
  BY DEF Rights
<1>1. ctx.far \in Nat
  BY DEF IsContext
<1>2. ASSUME HasFar(ctx), NEW a, NEW b
      PROVE  Legs(ctx, <<Leg(Near, a, right, -1), Leg(ctx.far, b, right, 1)>>) \subseteq Rolls
  <2> SUFFICES ASSUME NEW x \in Legs(ctx, <<Leg(Near, a, right, -1), Leg(ctx.far, b, right, 1)>>)
               PROVE  x \in Rolls
    OBVIOUS
  <2>1. /\ x = <<Leg(Near, a, right, -1), Leg(ctx.far, b, right, 1)>> /\ x \in LegLists
        /\ a \in Nat /\ b \in Nat
    BY <1>0, LegPair
  <2> QED
    BY <1>1, <1>2, <2>1, Zenon DEF Rolls, HasFar
<1>3. ASSUME HasFar(ctx), NEW a, NEW b
      PROVE  Legs(ctx, <<Leg(Near, a, "call", -1), Leg(ctx.far, a, "call", 1),
                         Leg(Near, b, "put", -1), Leg(ctx.far, b, "put", 1)>>) \subseteq DoubleRolls
  <2> SUFFICES ASSUME NEW x \in Legs(ctx, <<Leg(Near, a, "call", -1), Leg(ctx.far, a, "call", 1),
                                            Leg(Near, b, "put", -1), Leg(ctx.far, b, "put", 1)>>)
               PROVE  x \in DoubleRolls
    OBVIOUS
  <2>1. /\ x = <<Leg(Near, a, "call", -1), Leg(ctx.far, a, "call", 1),
                 Leg(Near, b, "put", -1), Leg(ctx.far, b, "put", 1)>>
        /\ x \in LegLists /\ a \in Nat /\ b \in Nat
    BY <1>0, LegQuad
  <2> QED
    BY <1>1, <1>3, <2>1, Zenon DEF DoubleRolls, HasFar
<1>4. Calendars(ctx, right, sign) \subseteq Rolls
  BY <1>2 DEF Calendars
<1>5. Diagonals(ctx, right, sign) \subseteq Rolls
  BY <1>2 DEF Diagonals
<1>6. DoubleCalendars(ctx) \subseteq DoubleRolls
  BY <1>3 DEF DoubleCalendars
<1> QED
  BY <1>4, <1>5, <1>6

-----------------------------------------------------------------------------
(* No shape is refused for its legs *)

(* What leg i adds to the legs of one right that live at least until e.    *)
Part(x, i, r, e) == IF x[i].right = r /\ x[i].expiry >= e THEN x[i].qty ELSE 0

LEMMA PartsAre ==
    ASSUME NEW s, IsStructure(s), NEW r \in Rights, NEW e
    PROVE  /\ Quantity(s, Suffix(s, r, e)) = SumFunctionOnSet(Amounts(s, Suffix(s, r, e)), DOMAIN s.legs)
           /\ \A i \in DOMAIN s.legs : /\ Amounts(s, Suffix(s, r, e))[i] = Part(s.legs, i, r, e)
                                       /\ Part(s.legs, i, r, e) \in Int
<1>1. Quantity(s, Suffix(s, r, e)) = SumFunctionOnSet(Amounts(s, Suffix(s, r, e)), DOMAIN s.legs)
  BY DEF Quantity, SumFunction, Amounts
<1>2. ASSUME NEW i \in DOMAIN s.legs
      PROVE  Amounts(s, Suffix(s, r, e))[i] = Part(s.legs, i, r, e) /\ Part(s.legs, i, r, e) \in Int
  <2>1. s.legs[i] \in LegSet(s) /\ s.legs[i].qty \in Int
    BY LegTypes DEF LegSet, AnyLeg
  <2> QED
    BY <2>1 DEF Amounts, Suffix, Part
<1> QED
  BY <1>1, <1>2

(* If the parts never add up to less than nothing, no violation is found.  *)
LEMMA NothingUncovered ==
    ASSUME NEW s, IsStructure(s),
           \A r \in Rights, e \in Nat : Quantity(s, Suffix(s, r, e)) >= 0
    PROVE  CoverageViolations(s) = {}
<1> SUFFICES ASSUME NEW v \in CoverageViolations(s) PROVE FALSE
  OBVIOUS
<1>1. v[1] \in Rights /\ v[2] \in Nat /\ Quantity(s, Suffix(s, v[1], v[2])) < 0
  BY StrikeTypes DEF CoverageViolations, Suffix, Rights
<1>2. Quantity(s, Suffix(s, v[1], v[2])) >= 0
  BY <1>1
<1>3. Quantity(s, Suffix(s, v[1], v[2])) \in Int
  BY <1>1, PartsAre, LegTypes, SumType
<1> QED
  BY <1>1, <1>2, <1>3

LEMMA TwoCovered ==
    ASSUME NEW s, IsStructure(s), DOMAIN s.legs = {1, 2},
           \A r \in Rights, e \in Nat : Part(s.legs, 1, r, e) + Part(s.legs, 2, r, e) >= 0
    PROVE  CoverageViolations(s) = {}
<1>1. ASSUME NEW r \in Rights, NEW e \in Nat PROVE Quantity(s, Suffix(s, r, e)) >= 0
  <2> DEFINE A == Amounts(s, Suffix(s, r, e))
  <2>1. /\ Quantity(s, Suffix(s, r, e)) = SumFunctionOnSet(A, {1, 2})
        /\ A[1] = Part(s.legs, 1, r, e) /\ A[2] = Part(s.legs, 2, r, e) /\ A[1] \in Int /\ A[2] \in Int
    <3>1. /\ Quantity(s, Suffix(s, r, e)) = SumFunctionOnSet(A, DOMAIN s.legs)
          /\ \A i \in DOMAIN s.legs : A[i] = Part(s.legs, i, r, e) /\ Part(s.legs, i, r, e) \in Int
      BY PartsAre, Zenon
    <3> HIDE DEF A
    <3> QED
      BY <3>1
  <2> HIDE DEF A
  <2>2. Quantity(s, Suffix(s, r, e)) = A[1] + A[2]
    BY <2>1, SumOfTwo
  <2> QED
    BY <2>1, <2>2
<1> QED
  BY <1>1, NothingUncovered

LEMMA ThreeCovered ==
    ASSUME NEW s, IsStructure(s), DOMAIN s.legs = {1, 2, 3},
           \A r \in Rights, e \in Nat :
              Part(s.legs, 1, r, e) + Part(s.legs, 2, r, e) + Part(s.legs, 3, r, e) >= 0
    PROVE  CoverageViolations(s) = {}
<1>1. ASSUME NEW r \in Rights, NEW e \in Nat PROVE Quantity(s, Suffix(s, r, e)) >= 0
  <2> DEFINE A == Amounts(s, Suffix(s, r, e))
  <2>1. /\ Quantity(s, Suffix(s, r, e)) = SumFunctionOnSet(A, {1, 2, 3})
        /\ A[1] = Part(s.legs, 1, r, e) /\ A[2] = Part(s.legs, 2, r, e) /\ A[3] = Part(s.legs, 3, r, e)
        /\ A[1] \in Int /\ A[2] \in Int /\ A[3] \in Int
    <3>1. /\ Quantity(s, Suffix(s, r, e)) = SumFunctionOnSet(A, DOMAIN s.legs)
          /\ \A i \in DOMAIN s.legs : A[i] = Part(s.legs, i, r, e) /\ Part(s.legs, i, r, e) \in Int
      BY PartsAre, Zenon
    <3> HIDE DEF A
    <3> QED
      BY <3>1
  <2> HIDE DEF A
  <2>2. Quantity(s, Suffix(s, r, e)) = A[1] + A[2] + A[3]
    BY <2>1, SumOfThree
  <2> QED
    BY <2>1, <2>2
<1> QED
  BY <1>1, NothingUncovered

LEMMA FourCovered ==
    ASSUME NEW s, IsStructure(s), DOMAIN s.legs = {1, 2, 3, 4},
           \A r \in Rights, e \in Nat :
              Part(s.legs, 1, r, e) + Part(s.legs, 2, r, e) + Part(s.legs, 3, r, e) + Part(s.legs, 4, r, e) >= 0
    PROVE  CoverageViolations(s) = {}
<1>1. ASSUME NEW r \in Rights, NEW e \in Nat PROVE Quantity(s, Suffix(s, r, e)) >= 0
  <2> DEFINE A == Amounts(s, Suffix(s, r, e))
  <2>1. /\ Quantity(s, Suffix(s, r, e)) = SumFunctionOnSet(A, {1, 2, 3, 4})
        /\ A[1] = Part(s.legs, 1, r, e) /\ A[2] = Part(s.legs, 2, r, e) /\ A[3] = Part(s.legs, 3, r, e)
        /\ A[4] = Part(s.legs, 4, r, e)
        /\ A[1] \in Int /\ A[2] \in Int /\ A[3] \in Int /\ A[4] \in Int
    <3>1. /\ Quantity(s, Suffix(s, r, e)) = SumFunctionOnSet(A, DOMAIN s.legs)
          /\ \A i \in DOMAIN s.legs : A[i] = Part(s.legs, i, r, e) /\ Part(s.legs, i, r, e) \in Int
      BY PartsAre, Zenon
    <3> HIDE DEF A
    <3> QED
      BY <3>1
  <2> HIDE DEF A
  <2>2. Quantity(s, Suffix(s, r, e)) = A[1] + A[2] + A[3] + A[4]
    BY <2>1, SumOfFour
  <2> QED
    BY <2>1, <2>2
<1> QED
  BY <1>1, NothingUncovered

(* Two legs of one contract.                                               *)
SameContract(l, k) == l.expiry = k.expiry /\ l.strike = k.strike /\ l.right = k.right

Tidy(x) == Len(x) <= 4 /\ \A i, j \in DOMAIN x : i # j => ~SameContract(x[i], x[j])

OneExpiry(x) == \A i \in DOMAIN x : x[i].expiry = Near

LEMMA NothingDisorderly ==
    ASSUME NEW s, IsStructure(s), Tidy(s.legs), OneExpiry(s.legs) \/ s.family \in Calendarized
    PROVE  StructuralViolations(s) = {}
<1>1. ~(Len(s.legs) > MaxLegs)
  <2>1. Len(s.legs) \in Nat
    BY DEF IsStructure
  <2> QED
    BY <2>1, MaxLegsAssumption DEF Tidy
<1>2. ~(IsMultiExpiry(s) /\ s.family \notin Calendarized)
  <2>1. CASE OneExpiry(s.legs)
    <3>1. Expiries(s) = {Near}
      <4>1. Expiries(s) \subseteq {Near}
        BY <2>1 DEF OneExpiry, Expiries, LegSet
      <4>2. Expiries(s) # {}
        BY StrikeTypes
      <4> QED
        BY <4>1, <4>2
    <3>2. Cardinality(Expiries(s)) = 1
      BY <3>1, FS_Singleton
    <3> QED
      BY <3>2 DEF IsMultiExpiry
  <2> QED
    BY <2>1
<1>3. ASSUME NEW i \in DOMAIN s.legs, NEW j \in DOMAIN s.legs, i # j,
             [s.legs[i] EXCEPT !.qty = 0] = [s.legs[j] EXCEPT !.qty = 0]
      PROVE  FALSE
  <2> DEFINE a == s.legs[i]
             b == s.legs[j]
  <2>1. a \in AnyLeg /\ b \in AnyLeg /\ ~SameContract(a, b)
    BY <1>3, LegTypes DEF Tidy
  <2> HIDE DEF a, b
  <2>2. [a EXCEPT !.qty = 0] = [b EXCEPT !.qty = 0]
    BY <1>3 DEF a, b
  <2> DEFINE u == [a EXCEPT !.qty = 0]
             v == [b EXCEPT !.qty = 0]
  <2>3. u.expiry = a.expiry /\ u.strike = a.strike /\ u.right = a.right
    BY <2>1 DEF AnyLeg
  <2>4. v.expiry = b.expiry /\ v.strike = b.strike /\ v.right = b.right
    BY <2>1 DEF AnyLeg
  <2>5. u = v
    BY <2>2
  <2> HIDE DEF u, v
  <2> QED
    BY <2>1, <2>3, <2>4, <2>5 DEF SameContract
<1> QED
  BY <1>1, <1>2, <1>3, Zenon DEF StructuralViolations

(* Nothing in the legs speaks against the structure.                       *)
IsClean(s) == StructuralViolations(s) = {} /\ CoverageViolations(s) = {}

LEMMA LegIs ==
    ASSUME NEW e, NEW k, NEW r, NEW q
    PROVE  Leg(e, k, r, q).expiry = e /\ Leg(e, k, r, q).strike = k /\ Leg(e, k, r, q).right = r
           /\ Leg(e, k, r, q).qty = q
BY DEF Leg

LEMMA VerticalIsClean ==
    ASSUME NEW s, IsStructure(s), s.legs \in Verticals
    PROVE  IsClean(s)
<1>1. PICK k \in Nat, j \in Nat, r \in Rights, q \in {<<1, -1>>, <<-1, 1>>, <<-1, 2>>} :
         k # j /\ s.legs = <<Leg(Near, k, r, q[1]), Leg(Near, j, r, q[2])>>
  BY DEF Verticals
<1> DEFINE a == Leg(Near, k, r, q[1])
           b == Leg(Near, j, r, q[2])
<1>2. /\ a.expiry = 1 /\ a.strike = k /\ a.right = r /\ a.qty = q[1]
      /\ b.expiry = 1 /\ b.strike = j /\ b.right = r /\ b.qty = q[2]
  BY LegIs DEF Near
<1> HIDE DEF a, b
<1>3. DOMAIN s.legs = {1, 2} /\ Len(s.legs) = 2 /\ s.legs[1] = a /\ s.legs[2] = b
  <2>1. s.legs = <<a, b>>
    BY <1>1 DEF a, b
  <2> QED
    BY <2>1
<1>4. q[1] \in Int /\ q[2] \in Int /\ q[1] + q[2] >= 0
  OBVIOUS
<1>5. Tidy(s.legs) /\ OneExpiry(s.legs)
  BY <1>1, <1>2, <1>3 DEF Tidy, OneExpiry, SameContract, Near
<1>6. ASSUME NEW t \in Rights, NEW e \in Nat PROVE Part(s.legs, 1, t, e) + Part(s.legs, 2, t, e) >= 0
  BY <1>2, <1>3, <1>4 DEF Part
<1> QED
  BY <1>3, <1>5, <1>6, NothingDisorderly, TwoCovered DEF IsClean

LEMMA VolatilityIsClean ==
    ASSUME NEW s, IsStructure(s), s.legs \in Volatilities
    PROVE  IsClean(s)
<1>1. PICK k \in Nat, j \in Nat : s.legs = <<Leg(Near, k, "call", 1), Leg(Near, j, "put", 1)>>
  BY DEF Volatilities
<1> DEFINE a == Leg(Near, k, "call", 1)
           b == Leg(Near, j, "put", 1)
<1>2. /\ a.expiry = 1 /\ a.strike = k /\ a.right = "call" /\ a.qty = 1
      /\ b.expiry = 1 /\ b.strike = j /\ b.right = "put" /\ b.qty = 1
  BY LegIs DEF Near
<1> HIDE DEF a, b
<1>3. DOMAIN s.legs = {1, 2} /\ Len(s.legs) = 2 /\ s.legs[1] = a /\ s.legs[2] = b
  <2>1. s.legs = <<a, b>>
    BY <1>1 DEF a, b
  <2> QED
    BY <2>1
<1>4. Tidy(s.legs) /\ OneExpiry(s.legs)
  BY <1>2, <1>3 DEF Tidy, OneExpiry, SameContract, Near
<1>5. ASSUME NEW t \in Rights, NEW e \in Nat PROVE Part(s.legs, 1, t, e) + Part(s.legs, 2, t, e) >= 0
  BY <1>2, <1>3 DEF Part
<1> QED
  BY <1>3, <1>4, <1>5, NothingDisorderly, TwoCovered DEF IsClean

LEMMA RollIsClean ==
    ASSUME NEW s, IsStructure(s), s.legs \in Rolls, s.family \in Calendarized
    PROVE  IsClean(s)
<1>1. PICK k \in Nat, j \in Nat, far \in Nat, r \in Rights :
         far > Near /\ s.legs = <<Leg(Near, k, r, -1), Leg(far, j, r, 1)>>
  BY DEF Rolls
<1> DEFINE a == Leg(Near, k, r, -1)
           b == Leg(far, j, r, 1)
<1>2. /\ a.expiry = 1 /\ a.strike = k /\ a.right = r /\ a.qty = -1
      /\ b.expiry = far /\ b.strike = j /\ b.right = r /\ b.qty = 1 /\ far > 1
  BY <1>1, LegIs DEF Near
<1> HIDE DEF a, b
<1>3. DOMAIN s.legs = {1, 2} /\ Len(s.legs) = 2 /\ s.legs[1] = a /\ s.legs[2] = b
  <2>1. s.legs = <<a, b>>
    BY <1>1 DEF a, b
  <2> QED
    BY <2>1
<1>4. Tidy(s.legs)
  BY <1>2, <1>3 DEF Tidy, SameContract
<1>5. ASSUME NEW t \in Rights, NEW e \in Nat PROVE Part(s.legs, 1, t, e) + Part(s.legs, 2, t, e) >= 0
  BY <1>2, <1>3 DEF Part
<1> QED
  BY <1>3, <1>4, <1>5, NothingDisorderly, TwoCovered DEF IsClean

LEMMA FlyIsClean ==
    ASSUME NEW s, IsStructure(s), s.legs \in Flies
    PROVE  IsClean(s)
<1>1. PICK k \in Nat, low \in Nat \ {0}, high \in Nat \ {0}, r \in Rights : IsFly(s.legs, k, low, high, r)
  BY DEF Flies
<1> DEFINE a == Leg(Near, k - low, r, 1)
           b == Leg(Near, k, r, -2)
           c == Leg(Near, k + high, r, 1)
<1>2. /\ a.expiry = 1 /\ a.strike = k - low /\ a.right = r /\ a.qty = 1
      /\ b.expiry = 1 /\ b.strike = k /\ b.right = r /\ b.qty = -2
      /\ c.expiry = 1 /\ c.strike = k + high /\ c.right = r /\ c.qty = 1
  BY LegIs DEF Near
<1> HIDE DEF a, b, c
<1>3. DOMAIN s.legs = {1, 2, 3} /\ Len(s.legs) = 3 /\ s.legs[1] = a /\ s.legs[2] = b /\ s.legs[3] = c
  <2>1. s.legs = <<a, b, c>>
    BY <1>1 DEF a, b, c, IsFly, FlyOf
  <2> QED
    BY <2>1
<1>4. Tidy(s.legs) /\ OneExpiry(s.legs)
  BY <1>2, <1>3 DEF Tidy, OneExpiry, SameContract, Near
<1>5. ASSUME NEW t \in Rights, NEW e \in Nat
      PROVE  Part(s.legs, 1, t, e) + Part(s.legs, 2, t, e) + Part(s.legs, 3, t, e) >= 0
  BY <1>2, <1>3 DEF Part
<1> QED
  BY <1>3, <1>4, <1>5, NothingDisorderly, ThreeCovered DEF IsClean

LEMMA IronIsClean ==
    ASSUME NEW s, IsStructure(s), s.legs \in Irons
    PROVE  IsClean(s)
<1>1. PICK h \in Nat, i \in Nat, j \in Nat, k \in Nat :
         /\ h # i /\ j # k
         /\ s.legs = <<Leg(Near, h, "put", 1), Leg(Near, i, "put", -1), Leg(Near, j, "call", -1),
                       Leg(Near, k, "call", 1)>>
  BY DEF Irons
<1> DEFINE a == Leg(Near, h, "put", 1)
           b == Leg(Near, i, "put", -1)
           c == Leg(Near, j, "call", -1)
           d == Leg(Near, k, "call", 1)
<1>2. /\ a.expiry = 1 /\ a.strike = h /\ a.right = "put" /\ a.qty = 1
      /\ b.expiry = 1 /\ b.strike = i /\ b.right = "put" /\ b.qty = -1
      /\ c.expiry = 1 /\ c.strike = j /\ c.right = "call" /\ c.qty = -1
      /\ d.expiry = 1 /\ d.strike = k /\ d.right = "call" /\ d.qty = 1
  BY LegIs DEF Near
<1> HIDE DEF a, b, c, d
<1>3. /\ DOMAIN s.legs = {1, 2, 3, 4} /\ Len(s.legs) = 4
      /\ s.legs[1] = a /\ s.legs[2] = b /\ s.legs[3] = c /\ s.legs[4] = d
  <2>1. s.legs = <<a, b, c, d>>
    BY <1>1 DEF a, b, c, d
  <2> QED
    BY <2>1
<1>4. Tidy(s.legs) /\ OneExpiry(s.legs)
  BY <1>1, <1>2, <1>3 DEF Tidy, OneExpiry, SameContract, Near
<1>5. ASSUME NEW t \in Rights, NEW e \in Nat
      PROVE  Part(s.legs, 1, t, e) + Part(s.legs, 2, t, e) + Part(s.legs, 3, t, e) + Part(s.legs, 4, t, e) >= 0
  BY <1>2, <1>3 DEF Part
<1> QED
  BY <1>3, <1>4, <1>5, NothingDisorderly, FourCovered DEF IsClean

LEMMA DoubleRollIsClean ==
    ASSUME NEW s, IsStructure(s), s.legs \in DoubleRolls, s.family \in Calendarized
    PROVE  IsClean(s)
<1>1. PICK k \in Nat, j \in Nat, far \in Nat :
         /\ far > Near
         /\ s.legs = <<Leg(Near, k, "call", -1), Leg(far, k, "call", 1),
                       Leg(Near, j, "put", -1), Leg(far, j, "put", 1)>>
  BY DEF DoubleRolls
<1> DEFINE a == Leg(Near, k, "call", -1)
           b == Leg(far, k, "call", 1)
           c == Leg(Near, j, "put", -1)
           d == Leg(far, j, "put", 1)
<1>2. /\ a.expiry = 1 /\ a.strike = k /\ a.right = "call" /\ a.qty = -1
      /\ b.expiry = far /\ b.strike = k /\ b.right = "call" /\ b.qty = 1
      /\ c.expiry = 1 /\ c.strike = j /\ c.right = "put" /\ c.qty = -1
      /\ d.expiry = far /\ d.strike = j /\ d.right = "put" /\ d.qty = 1 /\ far > 1
  BY <1>1, LegIs DEF Near
<1> HIDE DEF a, b, c, d
<1>3. /\ DOMAIN s.legs = {1, 2, 3, 4} /\ Len(s.legs) = 4
      /\ s.legs[1] = a /\ s.legs[2] = b /\ s.legs[3] = c /\ s.legs[4] = d
  <2>1. s.legs = <<a, b, c, d>>
    BY <1>1 DEF a, b, c, d
  <2> QED
    BY <2>1
<1>4. Tidy(s.legs)
  BY <1>1, <1>2, <1>3 DEF Tidy, SameContract
<1>5. ASSUME NEW t \in Rights, NEW e \in Nat
      PROVE  Part(s.legs, 1, t, e) + Part(s.legs, 2, t, e) + Part(s.legs, 3, t, e) + Part(s.legs, 4, t, e) >= 0
  BY <1>2, <1>3 DEF Part
<1> QED
  BY <1>3, <1>4, <1>5, NothingDisorderly, FourCovered DEF IsClean

(* What a family yields has one of the shapes: several expirations are for *)
(* the calendarized families only, and the wider wing of a broken-wing     *)
(* butterfly is on the side of its right.                                  *)
Fitting(family, x) ==
    /\ x \in LegLists
    /\ \/ x \in Verticals \cup Volatilities \cup Flies \cup Irons
       \/ family \in Calendarized /\ x \in Rolls \cup DoubleRolls
    /\ family = "BrokenWingCallButterfly" => x \in Skewed("call")
    /\ family = "BrokenWingPutButterfly" => x \in Skewed("put")

LEMMA GeneratedFits ==
    ASSUME NEW ctx, IsContext(ctx), NEW family \in AllFamilies, NEW x \in Generate(ctx)[family]
    PROVE  Fitting(family, x)
<1> DEFINE G == Generate(ctx)
           Broken == {"BrokenWingCallButterfly", "BrokenWingPutButterfly"}
           Plain == Verticals \cup Volatilities \cup Flies \cup Irons
           Timed == Rolls \cup DoubleRolls
<1>0. "put" \in Rights /\ "call" \in Rights /\ 1 \in {1, -1} /\ -1 \in {1, -1}
  BY DEF Rights
<1>1. /\ DebitSpreads(ctx, "call", 1) \subseteq Plain
      /\ DebitSpreads(ctx, "put", -1) \subseteq Plain
      /\ CreditSpreads(ctx, ctx.shortPut, "put", -1) \subseteq Plain
      /\ CreditSpreads(ctx, ctx.shortCall, "call", 1) \subseteq Plain
      /\ Backspreads(ctx, "call", 1) \subseteq Plain
      /\ Backspreads(ctx, "put", -1) \subseteq Plain
  BY <1>0, VerticalShape
<1>2. /\ Butterflies(ctx, "call") \subseteq Plain
      /\ Butterflies(ctx, "put") \subseteq Plain
      /\ BrokenWings(ctx, "call") \subseteq Skewed("call")
      /\ BrokenWings(ctx, "put") \subseteq Skewed("put")
  BY <1>0, FlyShape
<1>3. /\ Condors(ctx, { <<w, w>> : w \in WingWidths }) \subseteq Plain
      /\ Condors(ctx, { <<w, w>> : w \in {2, 3} }) \subseteq Plain
      /\ Condors(ctx, {<<2, 5>>, <<5, 2>>}) \subseteq Plain
      /\ IronButterflies(ctx) \subseteq Plain
  <2> DEFINE P == (Nat \ {0}) \X (Nat \ {0})
  <2>1. /\ { <<w, w>> : w \in WingWidths } \in SUBSET P
        /\ { <<w, w>> : w \in {2, 3} } \in SUBSET P
        /\ {<<2, 5>>, <<5, 2>>} \in SUBSET P
    BY DEF WingWidths
  <2>2. /\ Condors(ctx, { <<w, w>> : w \in WingWidths }) \subseteq Irons
        /\ Condors(ctx, { <<w, w>> : w \in {2, 3} }) \subseteq Irons
        /\ Condors(ctx, {<<2, 5>>, <<5, 2>>}) \subseteq Irons
        /\ IronButterflies(ctx) \subseteq Irons
    BY <2>1, IronShape, Zenon
  <2> QED
    BY <2>2
<1>4. Straddles(ctx) \subseteq Plain /\ Strangles(ctx) \subseteq Plain
  BY VolatilityShape
<1>5. /\ Calendars(ctx, "call", 1) \subseteq Timed
      /\ Calendars(ctx, "put", -1) \subseteq Timed
      /\ DoubleCalendars(ctx) \subseteq Timed
      /\ Diagonals(ctx, "call", 1) \subseteq Timed
      /\ Diagonals(ctx, "put", -1) \subseteq Timed
  BY <1>0, RollShape
<1>6. /\ Plain \subseteq LegLists /\ Timed \subseteq LegLists
      /\ Skewed("call") \subseteq Plain /\ Skewed("put") \subseteq Plain
  <2>1. Plain \subseteq LegLists
    BY DEF Verticals, Volatilities, Flies, Irons
  <2>2. Timed \subseteq LegLists
    BY DEF Rolls, DoubleRolls
  <2>3. \A r \in Rights : Skewed(r) \subseteq Flies
    BY Zenon DEF Skewed, Flies
  <2> QED
    BY <1>0, <2>1, <2>2, <2>3
<1> HIDE DEF Plain, Timed
<1>7. family \in DOMAIN G
  BY DEF AllFamilies, StateFamilies, Generate
<1>8. /\ G["BrokenWingCallButterfly"] = BrokenWings(ctx, "call")
      /\ G["BrokenWingPutButterfly"] = BrokenWings(ctx, "put")
  BY DEF Generate
<1>9. \A name \in DOMAIN G : name \in Calendarized => G[name] \subseteq Timed
  BY <1>5 DEF Generate, Calendarized
<1>10. \A name \in DOMAIN G : name \notin Calendarized \cup Broken => G[name] \subseteq Plain
  BY <1>1, <1>2, <1>3, <1>4 DEF Generate, Calendarized
<1> HIDE DEF G
<1>11. x \in G[family]
  BY DEF G
<1>12. CASE family \in Calendarized
  <2>1. x \in Timed /\ x \in LegLists /\ family \notin Broken
    BY <1>6, <1>7, <1>9, <1>11, <1>12 DEF Calendarized
  <2> QED
    BY <1>12, <2>1 DEF Fitting, Timed
<1>13. CASE family \in Broken
  <2>1. /\ family = "BrokenWingCallButterfly" => x \in Skewed("call")
        /\ family = "BrokenWingPutButterfly" => x \in Skewed("put")
    BY <1>2, <1>8, <1>11
  <2>2. x \in Plain /\ x \in LegLists
    BY <1>6, <1>13, <2>1
  <2> QED
    BY <2>1, <2>2 DEF Fitting, Plain
<1>14. CASE family \notin Calendarized \cup Broken
  <2>1. x \in Plain /\ x \in LegLists
    BY <1>6, <1>7, <1>10, <1>11, <1>14
  <2> QED
    BY <1>14, <2>1 DEF Fitting, Plain
<1> QED
  BY <1>12, <1>13, <1>14

LEMMA FittingIsClean ==
    ASSUME NEW s, IsStructure(s), Fitting(s.family, s.legs)
    PROVE  IsClean(s)
BY VerticalIsClean, VolatilityIsClean, FlyIsClean, IronIsClean, RollIsClean, DoubleRollIsClean DEF Fitting

-----------------------------------------------------------------------------
(* Broken wings *)

LEMMA FlyPayoff ==
    ASSUME NEW s, IsStructure(s), NEW k \in Nat, NEW low \in Nat, NEW high \in Nat, NEW r \in Rights,
           IsFly(s.legs, k, low, high, r), NEW x \in Nat
    PROVE  PayoffAt(s, x, Near)
             = (IF r = "call"
                THEN (IF x >= k - low THEN x - (k - low) ELSE 0)
                     - 2 * (IF x >= k THEN x - k ELSE 0)
                     + (IF x >= k + high THEN x - (k + high) ELSE 0)
                ELSE (IF k - low >= x THEN (k - low) - x ELSE 0)
                     - 2 * (IF k >= x THEN k - x ELSE 0)
                     + (IF k + high >= x THEN (k + high) - x ELSE 0)) - s.cost
<1> DEFINE a == Leg(Near, k - low, r, 1)
           b == Leg(Near, k, r, -2)
           c == Leg(Near, k + high, r, 1)
           V == LegValues(s, x, Near)
<1>1. /\ a.expiry = 1 /\ a.strike = k - low /\ a.right = r /\ a.qty = 1
      /\ b.expiry = 1 /\ b.strike = k /\ b.right = r /\ b.qty = -2
      /\ c.expiry = 1 /\ c.strike = k + high /\ c.right = r /\ c.qty = 1
  BY LegIs DEF Near
<1> HIDE DEF a, b, c
<1>2. DOMAIN s.legs = {1, 2, 3} /\ s.legs[1] = a /\ s.legs[2] = b /\ s.legs[3] = c
  <2>1. s.legs = <<a, b, c>>
    BY DEF a, b, c, IsFly, FlyOf
  <2> QED
    BY <2>1
<1>3. a \in AnyLeg /\ b \in AnyLeg /\ c \in AnyLeg
  BY <1>2, LegTypes
<1>4. /\ V[1] = 1 * Intrinsic(a, x) /\ V[2] = (-2) * Intrinsic(b, x) /\ V[3] = 1 * Intrinsic(c, x)
  BY <1>1, <1>2 DEF LegValues, LegValueBound, Near
<1>5. /\ PayoffAt(s, x, Near) = SumFunctionOnSet(V, {1, 2, 3}) - s.cost
      /\ V[1] \in Int /\ V[2] \in Int /\ V[3] \in Int
  BY <1>2, ValueType DEF Value
<1> HIDE DEF V
<1>6. PayoffAt(s, x, Near) = V[1] + V[2] + V[3] - s.cost
  <2>1. SumFunctionOnSet(V, {1, 2, 3}) = V[1] + V[2] + V[3]
    BY <1>5, SumOfThree
  <2>2. s.cost \in Int
    BY LegTypes
  <2> QED
    BY <1>5, <2>1, <2>2
<1>7. r = "call" \/ r = "put"
  BY DEF Rights
<1>8. CASE r = "call"
  <2>1. /\ Intrinsic(a, x) = (IF x >= k - low THEN x - (k - low) ELSE 0)
        /\ Intrinsic(b, x) = (IF x >= k THEN x - k ELSE 0)
        /\ Intrinsic(c, x) = (IF x >= k + high THEN x - (k + high) ELSE 0)
    BY <1>1, <1>3, <1>8, IntrinsicIs
  <2>2. s.cost \in Int
    BY LegTypes
  <2> QED
    BY <1>4, <1>6, <1>8, <2>1, <2>2
<1>9. CASE r = "put"
  <2>1. /\ Intrinsic(a, x) = (IF k - low >= x THEN (k - low) - x ELSE 0)
        /\ Intrinsic(b, x) = (IF k >= x THEN k - x ELSE 0)
        /\ Intrinsic(c, x) = (IF k + high >= x THEN (k + high) - x ELSE 0)
    BY <1>1, <1>3, <1>9, IntrinsicIs
  <2>2. s.cost \in Int
    BY LegTypes
  <2> QED
    BY <1>4, <1>6, <1>9, <2>1, <2>2
<1> QED
  BY <1>7, <1>8, <1>9

(* The worst that can become of a broken-wing butterfly lies beyond the    *)
(* wider wing.                                                             *)
LEMMA SkewedWorst ==
    ASSUME NEW s, IsStructure(s), NEW k \in Nat, NEW low \in Nat \ {0}, NEW high \in Nat \ {0},
           NEW r \in Rights, IsFly(s.legs, k, low, high, r), IF r = "call" THEN low < high ELSE high < low
    PROVE  Worst(s) = -(IF r = "call" THEN high - low ELSE low - high) - s.cost
<1> DEFINE R == { PayoffAt(s, p[1], p[2]) : p \in EvaluationSpots(s) \X Expiries(s) }
           wide == IF r = "call" THEN high - low ELSE low - high
           worst == IF r = "call" THEN k + high ELSE k - low
<1>1. low <= k /\ s.legs = FlyOf(k, low, high, r) /\ s.cost \in Int
  BY LegTypes DEF IsFly
<1>2. Expiries(s) = {Near} /\ StrikesOf(s) = {k - low, k, k + high}
  <2> DEFINE a == Leg(Near, k - low, r, 1)
             b == Leg(Near, k, r, -2)
             c == Leg(Near, k + high, r, 1)
  <2>1. /\ a.expiry = Near /\ a.strike = k - low /\ b.expiry = Near /\ b.strike = k
        /\ c.expiry = Near /\ c.strike = k + high
    BY LegIs
  <2> HIDE DEF a, b, c
  <2>2. s.legs = <<a, b, c>>
    BY <1>1 DEF a, b, c, FlyOf
  <2>3. DOMAIN s.legs = {1, 2, 3} /\ s.legs[1] = a /\ s.legs[2] = b /\ s.legs[3] = c
    BY <2>2
  <2>4. LegSet(s) = {a, b, c}
    BY <2>3 DEF LegSet
  <2> QED
    BY <2>1, <2>4 DEF Expiries, StrikesOf
<1>3. EvaluationSpots(s) \subseteq Nat /\ worst \in EvaluationSpots(s) /\ worst \in Nat
  BY <1>1, <1>2, SpotTypes
<1>4. \A x \in Nat : PayoffAt(s, x, Near) \in Int /\ PayoffAt(s, x, Near) >= -wide - s.cost
  <2> TAKE x \in Nat
  <2>1. CASE r = "call"
    BY <1>1, <2>1, FlyPayoff
  <2>2. CASE r # "call"
    BY <1>1, <2>2, FlyPayoff
  <2> QED
    BY <2>1, <2>2
<1>5. PayoffAt(s, worst, Near) = -wide - s.cost
  <2>1. CASE r = "call"
    BY <1>1, <1>3, <2>1, FlyPayoff
  <2>2. CASE r # "call"
    BY <1>1, <1>3, <2>2, FlyPayoff
  <2> QED
    BY <2>1, <2>2
<1>6. R \in SUBSET Int /\ \A y \in R : -wide - s.cost <= y
  BY <1>1, <1>2, <1>3, <1>4
<1>7. -wide - s.cost \in R
  <2>1. <<worst, Near>> \in EvaluationSpots(s) \X Expiries(s)
    BY <1>2, <1>3
  <2> HIDE DEF worst, wide
  <2> QED
    BY <1>5, <2>1
<1> HIDE DEF R, wide
<1>8. Min(R) = -wide - s.cost
  BY <1>6, <1>7, MinIs
<1> QED
  BY <1>8 DEF Worst, R, wide

LEMMA SkewedIsCapped ==
    ASSUME NEW s, IsStructure(s), NEW r \in Rights, s.legs \in Skewed(r)
    PROVE  LET k == { l.strike : l \in { l \in LegSet(s) : l.qty > 0 } }
               body == CHOOSE b \in StrikesOf(s) \ k : TRUE
               skew == (Max(k) - body) - (body - Min(k))
               wrong == IF r = "call" THEN skew ELSE -skew
           IN  wrong > 0 /\ Profile(s).maxLoss = Max({0, wrong + s.cost, s.cost})
<1>1. PICK k \in Nat, low \in Nat \ {0}, high \in Nat \ {0} :
         IsFly(s.legs, k, low, high, r) /\ IF r = "call" THEN low < high ELSE high < low
  BY DEF Skewed
<1> DEFINE a == Leg(Near, k - low, r, 1)
           b == Leg(Near, k, r, -2)
           c == Leg(Near, k + high, r, 1)
           K == { l.strike : l \in { l \in LegSet(s) : l.qty > 0 } }
           wide == IF r = "call" THEN high - low ELSE low - high
<1>2. /\ a.strike = k - low /\ a.qty = 1 /\ b.strike = k /\ b.qty = -2
      /\ c.strike = k + high /\ c.qty = 1
  BY LegIs
<1>3. s.legs = <<a, b, c>> /\ low <= k /\ s.cost \in Int
  BY <1>1, LegTypes DEF IsFly, FlyOf
<1> HIDE DEF a, b, c
<1>4. LegSet(s) = {a, b, c}
  <2>1. DOMAIN s.legs = {1, 2, 3} /\ s.legs[1] = a /\ s.legs[2] = b /\ s.legs[3] = c
    BY <1>3
  <2> QED
    BY <2>1 DEF LegSet
<1>5. StrikesOf(s) = {k - low, k, k + high} /\ K = {k - low, k + high}
  <2>1. { l \in LegSet(s) : l.qty > 0 } = {a, c}
    BY <1>2, <1>4
  <2> QED
    BY <1>2, <1>4, <2>1 DEF StrikesOf
<1> HIDE DEF K
<1>6. StrikesOf(s) \ K = {k}
  BY <1>5
<1>7. (CHOOSE x \in StrikesOf(s) \ K : TRUE) = k
  BY <1>6
<1>8. Max(K) = k + high /\ Min(K) = k - low
  BY <1>3, <1>5, MaxOfTwo, MinOfTwo
<1>9. wide \in Nat \ {0} /\ (r = "call" => wide = high - low) /\ (r # "call" => wide = low - high)
  BY <1>1
<1>10. Worst(s) = -wide - s.cost
  BY <1>1, SkewedWorst
<1> HIDE DEF wide
<1>11. Profile(s).maxLoss = Max({0, wide + s.cost})
  <2>1. -Worst(s) = wide + s.cost
    BY <1>3, <1>9, <1>10
  <2> QED
    BY <2>1 DEF Profile
<1>12. Max({0, wide + s.cost}) = Max({0, wide + s.cost, s.cost})
  <2> DEFINE S == {0, wide + s.cost, s.cost}
  <2>1. S \in SUBSET Int
    BY <1>3, <1>9
  <2>2. CASE 0 >= wide + s.cost
    <3>1. Max(S) = 0
      BY <1>3, <1>9, <2>1, <2>2, MaxIs
    <3> QED
      BY <1>3, <1>9, <2>2, <3>1, MaxOfTwo
  <2>3. CASE ~(0 >= wide + s.cost)
    <3>1. wide + s.cost \in S /\ \A y \in S : y <= wide + s.cost
      BY <1>3, <1>9, <2>3
    <3>2. Max(S) = wide + s.cost
      <4> HIDE DEF S
      <4> QED
        BY <2>1, <3>1, MaxIs
    <3> QED
      BY <1>3, <1>9, <2>3, <3>2, MaxOfTwo
  <2> QED
    BY <2>2, <2>3
<1> DEFINE skew == (Max(K) - k) - (k - Min(K))
           wrong == IF r = "call" THEN skew ELSE -skew
<1>13. wrong = wide
  BY <1>8, <1>9
<1> HIDE DEF wrong
<1>14. wrong > 0 /\ Profile(s).maxLoss = Max({0, wrong + s.cost, s.cost})
  BY <1>9, <1>11, <1>12, <1>13
<1> QED
  BY <1>7, <1>14, Zenon DEF K, wrong

-----------------------------------------------------------------------------
(* What is admitted *)

IsDraft(s) ==
    \E kind, family : \E legs \in LegLists, cost \in Int :
        s = [kind |-> kind, family |-> family, legs |-> legs, cost |-> cost]

DraftInv ==
    /\ subject \in {"drafting", "admitted", "rejected"} =>
         IsDraft(draft) /\ (draft.kind = "generated" => Fitting(draft.family, draft.legs))
    /\ subject = "admitted" => IsValid(draft)

LEMMA DraftIsStructure == \A s : IsDraft(s) => IsStructure(s)
BY DEF IsDraft, IsStructure, LegLists

LEMMA ComposeStep ==
    ASSUME DraftInv, NEW l \in AnyLeg, Compose(l)
    PROVE  DraftInv'
<1>1. subject' = "drafting"
  BY DEF Compose
<1>2. CASE subject = "none"
  <2>1. draft' = [kind |-> "composed", family |-> "", legs |-> <<l>>, cost |-> 0]
    BY <1>2 DEF Compose
  <2>2. <<l>> \in LegLists /\ 0 \in Int
    BY DEF LegLists
  <2>3. IsDraft(draft') /\ draft'.kind # "generated"
    BY <2>1, <2>2 DEF IsDraft
  <2> QED
    BY <1>1, <2>3 DEF DraftInv
<1>3. CASE subject = "drafting"
  <2>1. draft' = [draft EXCEPT !.legs = Append(@, l)]
    BY <1>3 DEF Compose
  <2>2. PICK kind, family : \E legs \in LegLists, cost \in Int :
           draft = [kind |-> kind, family |-> family, legs |-> legs, cost |-> cost]
    BY <1>3, Zenon DEF DraftInv, IsDraft
  <2> PICK legs \in LegLists, cost \in Int :
         draft = [kind |-> kind, family |-> family, legs |-> legs, cost |-> cost]
    BY <2>2
  <2>3. Append(legs, l) \in LegLists
    BY DEF LegLists
  <2>4. draft' = [kind |-> kind, family |-> family, legs |-> Append(legs, l), cost |-> cost]
    BY <2>1
  <2>5. draft'.kind # "generated"
    BY <1>3, <2>4 DEF Compose
  <2>6. IsDraft(draft')
    BY <2>3, <2>4 DEF IsDraft
  <2> QED
    BY <1>1, <2>5, <2>6 DEF DraftInv
<1> QED
  BY <1>2, <1>3 DEF Compose

LEMMA GenerateStep ==
    ASSUME NEW ctx \in Contexts, NEW family \in AllFamilies, GenerateOne(ctx, family)
    PROVE  DraftInv'
<1>1. PICK legs \in Generate(ctx)[family] :
         draft' = [kind |-> "generated", family |-> family, legs |-> legs, cost |-> 0]
  BY DEF GenerateOne
<1>2. Fitting(family, legs) /\ legs \in LegLists
  BY GeneratedFits, StructureAssumption DEF Fitting
<1>3. IsDraft(draft')
  <2>1. 0 \in Int
    OBVIOUS
  <2> QED
    BY <1>1, <1>2, <2>1, Zenon DEF IsDraft
<1>4. draft'.family = family /\ draft'.legs = legs
  BY <1>1
<1>5. subject' = "drafting"
  BY DEF GenerateOne
<1> QED
  BY <1>2, <1>3, <1>4, <1>5 DEF DraftInv

LEMMA SubmitStep ==
    ASSUME DraftInv, NEW family, draft.kind = "generated" => family = draft.family,
           NEW price \in Costs, Submit(family, price)
    PROVE  DraftInv'
<1>1. PICK kind, old : \E legs \in LegLists, cost \in Int :
         draft = [kind |-> kind, family |-> old, legs |-> legs, cost |-> cost]
  BY Zenon DEF DraftInv, IsDraft, Submit
<1> PICK legs \in LegLists, cost \in Int :
       draft = [kind |-> kind, family |-> old, legs |-> legs, cost |-> cost]
  BY <1>1
<1>2. /\ draft' = [draft EXCEPT !.family = family, !.cost = price]
      /\ subject' = IF IsValid(draft') THEN "admitted" ELSE "rejected"
  BY DEF Submit
<1>3. draft' = [kind |-> kind, family |-> family, legs |-> legs, cost |-> price] /\ price \in Int
  BY <1>2, StructureAssumption
<1>4. IsDraft(draft')
  BY <1>3 DEF IsDraft
<1>5. subject' = "admitted" => IsValid(draft')
  BY <1>2
<1>6. draft'.kind = "generated" => Fitting(draft'.family, draft'.legs)
  <2>1. draft'.kind = draft.kind /\ draft'.legs = draft.legs /\ draft'.family = family
    BY <1>3
  <2>2. draft.kind = "generated" => Fitting(draft.family, draft.legs)
    BY DEF DraftInv, Submit
  <2> QED
    BY <2>1, <2>2
<1> QED
  BY <1>4, <1>5, <1>6 DEF DraftInv

LEMMA DraftStep ==
    ASSUME DraftInv, [Next]_vars
    PROVE  DraftInv'
<1> USE DEF vars
<1>1. CASE UNCHANGED <<subject, draft>>
  BY <1>1 DEF DraftInv
<1>2. CASE subject' \notin {"drafting", "admitted", "rejected"}
  BY <1>2 DEF DraftInv
<1>3. CASE \E e \in {1, 2}, k \in Strikes, r \in {"call", "put"}, q \in Sizes : Compose(Leg(e, k, r, q))
  <2>1. PICK e \in {1, 2}, k \in Strikes, r \in {"call", "put"}, q \in Sizes : Compose(Leg(e, k, r, q))
    BY <1>3
  <2>2. Leg(e, k, r, q) \in AnyLeg
    BY StructureAssumption DEF Leg, AnyLeg
  <2> QED
    BY <2>1, <2>2, ComposeStep
<1>4. CASE \E ctx \in Contexts : \E family \in AllFamilies : GenerateOne(ctx, family)
  BY <1>4, GenerateStep
<1>5. CASE subject = "drafting" /\ \E cost \in Costs :
             \E family \in IF draft.kind = "composed" THEN {"IronCondor", "BullishCalendar"}
                           ELSE {draft.family} : Submit(family, cost)
  <2>1. PICK cost \in Costs :
           \E family \in IF draft.kind = "composed" THEN {"IronCondor", "BullishCalendar"}
                         ELSE {draft.family} : Submit(family, cost)
    BY <1>5
  <2>2. PICK family : (draft.kind = "generated" => family = draft.family) /\ Submit(family, cost)
    BY <2>1
  <2> QED
    BY <2>2, SubmitStep
<1>6. CASE \E m \in Markets : Observe(m)
  BY <1>2, <1>6 DEF Observe
<1>7. CASE \E f \in DOMAIN market.chain, fault \in Faults : Worsen(f, fault)
  BY <1>2, <1>7 DEF Worsen
<1>8. CASE \E m \in CycleMarkets : BeginCycle(m)
  BY <1>2, <1>8 DEF BeginCycle
<1>9. CASE \E p \in book, result \in Results : Close(p, result)
  BY <1>1, <1>9 DEF Close
<1>10. CASE Lockout \/ StartOver
  BY <1>2, <1>10 DEF Lockout, StartOver
<1>11. CASE \E f \in Forecasts, offers \in Pairs, n \in 0..MaxContracts : Decide(f, offers, n)
  BY <1>2, <1>11 DEF Decide
<1>12. CASE \E p \in Positions : Hold(p)
  BY <1>2, <1>12 DEF Hold
<1>13. CASE \E pnl \in Marks, quoted, itm, fills \in BOOLEAN : Tick(pnl, quoted, itm, fills)
  BY <1>1, <1>13 DEF Tick
<1>14. CASE Restart \/ Trip
  BY <1>1, <1>14 DEF Restart, Trip
<1>15. CASE UNCHANGED vars
  BY <1>1, <1>15
<1> QED
  BY <1>3, <1>4, <1>5, <1>6, <1>7, <1>8, <1>9, <1>10, <1>11, <1>12, <1>13, <1>14, <1>15 DEF Next

(* No structure in the registry can lose more than its maximum loss: the   *)
(* payoff is linear between the points of evaluation and does not fall     *)
(* beyond them, and an unexpired leg is valued against its holder.         *)
LEMMA AdmittedNeverLosesMore ==
    ASSUME DraftInv
    PROVE  AdmittedLossIsBounded
<1> SUFFICES ASSUME IsDraft(draft), IsValid(draft)
             PROVE  LosesAtMost(draft, Profile(draft).maxLoss)
  BY DEF DraftInv, AdmittedLossIsBounded
<1>1. IsStructure(draft)
  BY DraftIsStructure
<1>2. Profile(draft).maxLoss \in Int /\ Profile(draft).maxLoss >= Profile(draft).maxLoss
  BY <1>1, ProfileIs
<1>3. Profile(draft).finite
  BY DEF IsValid
<1> QED
  BY <1>1, <1>2, <1>3, FiniteLosesAtMost

LEMMA BrokenWingsAreCapped ==
    ASSUME DraftInv
    PROVE  BrokenWingIsCapped
<1> DEFINE k == { l.strike : l \in { l \in LegSet(draft) : l.qty > 0 } }
           body == CHOOSE b \in StrikesOf(draft) \ k : TRUE
           skew == (Max(k) - body) - (body - Min(k))
           Capped(wrong) == wrong > 0 /\ Profile(draft).maxLoss = Max({0, wrong + draft.cost, draft.cost})
<1>0. "call" \in Rights /\ "put" \in Rights /\ "put" # "call"
  BY DEF Rights
<1>1. ASSUME subject = "admitted", draft.kind = "generated",
             draft.family \in {"BrokenWingCallButterfly", "BrokenWingPutButterfly"}
      PROVE  Capped(IF draft.family = "BrokenWingCallButterfly" THEN skew ELSE -skew)
  <2>1. IsStructure(draft) /\ Fitting(draft.family, draft.legs)
    BY <1>1, DraftIsStructure DEF DraftInv
  <2>2. CASE draft.family = "BrokenWingCallButterfly"
    <3>1. draft.legs \in Skewed("call")
      BY <2>1, <2>2 DEF Fitting
    <3>2. Capped(IF "call" = "call" THEN skew ELSE -skew)
      BY <1>0, <2>1, <3>1, SkewedIsCapped, Zenon
    <3> HIDE DEF skew, Capped
    <3> QED
      BY <2>2, <3>2, Zenon
  <2>3. CASE draft.family = "BrokenWingPutButterfly"
    <3>1. draft.legs \in Skewed("put")
      BY <2>1, <2>3 DEF Fitting
    <3>2. Capped(IF "put" = "call" THEN skew ELSE -skew)
      BY <1>0, <2>1, <3>1, SkewedIsCapped, Zenon
    <3>3. draft.family # "BrokenWingCallButterfly"
      BY <2>3
    <3> HIDE DEF skew, Capped
    <3> QED
      BY <1>0, <3>2, <3>3, Zenon
  <2> QED
    BY <1>1, <2>2, <2>3
<1> QED
  BY <1>1, Zenon DEF BrokenWingIsCapped

(* Of any strikes, sizes, costs and contexts: the suffix rule of           *)
(* validation.py finds a structure uncovered exactly when some short       *)
(* contract has no long one of its own to live as long; no family of       *)
(* families.py yields a structure that is refused for its legs; whatever   *)
(* the registry admits loses at most the maximum loss of payoff.py at      *)
(* every price and every valuation of the unexpired legs; and what a       *)
(* broken-wing butterfly loses is capped at the wing differential and the  *)
(* debit.                                                                  *)
THEOREM RiskIsAlwaysDefined == Spec => []RiskIsDefined
<1>1. Init => DraftInv
  BY DEF Init, DraftInv
<1>2. DraftInv /\ [Next]_vars => DraftInv'
  BY DraftStep
<1>3. DraftInv => RiskIsDefined
  <2> SUFFICES ASSUME DraftInv PROVE RiskIsDefined
    OBVIOUS
  <2>1. EveryShortIsCovered
    BY DraftIsStructure, CoverageIsPairing DEF DraftInv, EveryShortIsCovered
  <2>2. GeneratedIsCovered
    BY DraftIsStructure, FittingIsClean DEF DraftInv, GeneratedIsCovered, IsClean
  <2> QED
    BY <2>1, <2>2, AdmittedNeverLosesMore, BrokenWingsAreCapped DEF RiskIsDefined
<1> QED
  BY <1>1, <1>2, <1>3, PTL DEF Spec

-----------------------------------------------------------------------------
(* Sizing *)

LEMMA MinOfFour ==
    ASSUME NEW a \in Int, NEW b \in Int, NEW c \in Int, NEW d \in Int
    PROVE  /\ Min({a, b, c, d}) \in {a, b, c, d}
           /\ Min({a, b, c, d}) <= a /\ Min({a, b, c, d}) <= b
           /\ Min({a, b, c, d}) <= c /\ Min({a, b, c, d}) <= d
<1> DEFINE S == {a, b, c, d}
<1>1. IsFiniteSet({a, b, c} \cup {d})
  BY ThreeAreFinite, FS_AddElement
<1>2. S = {a, b, c} \cup {d} /\ S \subseteq Int /\ S # {}
  OBVIOUS
<1>3. Min(S) \in S /\ \A y \in S : Min(S) <= y
  BY <1>1, <1>2, MinExists
<1> QED
  BY <1>3

(* What the registry holds of an offer: a structure, its verdict and its   *)
(* loss.                                                                   *)
LEMMA EntryTypes ==
    ASSUME NEW o \in Offers, NEW e, e = Entry(o)
    PROVE  /\ IsStructure(e) /\ Profile(e) = Profile(o)
           /\ e.admitted = IsValid(o) /\ e.maxLoss = Multiplier * Profile(e).maxLoss
           /\ e.ev \in Int /\ e.cvar \in Int /\ e.slippage \in Nat /\ e.fill \in 0..100
           /\ e.liquidity \in 0..10 /\ e.hold \in Nat /\ e.cost \in Int
<1>1. o \in AnyOffer
  BY SessionAssumption
<1>2. /\ o.legs \in Seq(AnyLeg) \ {<<>>} /\ o.cost \in Int
      /\ o.ev \in Int /\ o.cvar \in Int /\ o.slippage \in Nat /\ o.fill \in 0..100
      /\ o.liquidity \in 0..10 /\ o.hold \in Nat
  BY <1>1 DEF AnyOffer
<1>3. /\ e.legs = o.legs /\ e.cost = o.cost /\ e.ev = o.ev /\ e.cvar = o.cvar
      /\ e.slippage = o.slippage /\ e.fill = o.fill /\ e.liquidity = o.liquidity /\ e.hold = o.hold
      /\ e.admitted = IsValid(o) /\ e.maxLoss = Multiplier * Profile(o).maxLoss
  BY <1>1 DEF Entry, AnyOffer
<1>4. LegSet(e) = LegSet(o)
  BY <1>3 DEF LegSet
<1>5. Expiries(e) = Expiries(o) /\ StrikesOf(e) = StrikesOf(o)
  BY <1>4 DEF Expiries, StrikesOf
<1>6. EvaluationSpots(e) = EvaluationSpots(o)
  BY <1>5 DEF EvaluationSpots
<1>7. \A spot, at : PayoffAt(e, spot, at) = PayoffAt(o, spot, at)
  BY <1>3 DEF PayoffAt
<1>8. Worst(e) = Worst(o)
  BY <1>5, <1>6, <1>7 DEF Worst
<1>9. UpsideSlope(e) = UpsideSlope(o)
  BY <1>3, <1>4 DEF UpsideSlope, Quantity
<1>10. Profile(e) = Profile(o)
  BY <1>8, <1>9 DEF Profile
<1> QED
  BY <1>2, <1>3, <1>10 DEF IsStructure

(* Positions as a session holds them.                                      *)
IsBook(b) == IsFiniteSet(b) /\ \A p \in b : p.risk \in Nat

LEMMA OpenRiskType ==
    ASSUME NEW b, IsBook(b)
    PROVE  OpenRisk(b) \in Nat
<1> DEFINE F == [p \in b |-> p.risk]
<1>1. \A p \in b : F[p] \in Nat
  BY DEF IsBook
<1>2. DOMAIN F = b
  OBVIOUS
<1>3. OpenRisk(b) = SumFunctionOnSet(F, b)
  BY <1>2 DEF OpenRisk, SumFunction
<1> HIDE DEF F
<1> QED
  BY <1>1, <1>3, SumAtLeast DEF IsBook

(* A new position adds its own risk.                                       *)
LEMMA OpenRiskGrows ==
    ASSUME NEW b, IsBook(b), NEW p, p.risk \in Nat, p \notin b
    PROVE  IsBook(b \cup {p}) /\ OpenRisk(b \cup {p}) = OpenRisk(b) + p.risk
<1> DEFINE c == b \cup {p}
           F == [q \in b |-> q.risk]
           G == [q \in c |-> q.risk]
<1>1. IsBook(c)
  BY FS_AddElement DEF IsBook
<1>2. DOMAIN F = b /\ DOMAIN G = c
  OBVIOUS
<1>3. OpenRisk(b) = SumFunctionOnSet(F, b) /\ OpenRisk(c) = SumFunctionOnSet(G, c)
  BY <1>2 DEF OpenRisk, SumFunction
<1>4. c \ {p} = b /\ p \in c /\ G[p] = p.risk /\ \A q \in b : G[q] = F[q]
  OBVIOUS
<1>5. \A q \in c : G[q] \in Int
  BY <1>1 DEF IsBook
<1>6. IsFiniteSet(c) /\ IsFiniteSet(b)
  BY <1>1 DEF IsBook
<1> HIDE DEF F, G, c
<1>7. SumFunctionOnSet(G, c) = G[p] + SumFunctionOnSet(G, c \ {p})
  BY <1>4, <1>5, <1>6, SumSplit
<1>8. SumFunctionOnSet(G, b) = SumFunctionOnSet(F, b)
  BY <1>4, <1>6, SumAgree
<1>9. OpenRisk(b) \in Nat
  BY OpenRiskType
<1>10. SumFunctionOnSet(G, c \ {p}) = OpenRisk(b)
  BY <1>3, <1>4, <1>8, Zenon
<1>11. OpenRisk(c) = OpenRisk(b) + p.risk
  BY <1>3, <1>4, <1>7, <1>9, <1>10
<1> QED
  BY <1>1, <1>11 DEF c

LEMMA AvailableRiskIs ==
    ASSUME NEW b, IsBook(b), NEW money \in Int
    PROVE  /\ AllowedTotal(money) \in Int /\ OpenRisk(b) \in Nat
           /\ AvailableRisk(b, money) \in Nat
           /\ AvailableRisk(b, money) = IF AllowedTotal(money) >= OpenRisk(b)
                                        THEN AllowedTotal(money) - OpenRisk(b) ELSE 0
<1>1. money \div 50 \in Int
  OBVIOUS
<1>2. AllowedTotal(money) \in Int
  BY <1>1, LimitsAssumption, MinOfTwo DEF AllowedTotal
<1>3. OpenRisk(b) \in Nat
  BY OpenRiskType
<1>4. AvailableRisk(b, money) = Max({0, AllowedTotal(money) - OpenRisk(b)})
  BY DEF AvailableRisk
<1> DEFINE x == AllowedTotal(money) - OpenRisk(b)
<1>5. x \in Int /\ 0 \in Int
  BY <1>2, <1>3
<1>6. Max({0, x}) = IF 0 >= x THEN 0 ELSE x
  BY <1>5, MaxOfTwo
<1> QED
  BY <1>2, <1>3, <1>4, <1>6

LEMMA QualityIs ==
    ASSUME NEW f, IsForecast(f), NEW l \in 0..10, NEW m \in 0..10, l <= m
    PROVE  Quality(f, l) \in Nat /\ Quality(f, l) <= Quality(f, m)
<1> DEFINE c == ConfidenceFactor(f.confidence)
           a == f.stability
           b == f.calibration
<1>1. c \in Nat
  <2>1. f.confidence \in 0..100
    BY DEF IsForecast
  <2>2. Min({f.confidence, 100}) = f.confidence
    <3>1. f.confidence \in Int /\ 100 \in Int /\ f.confidence <= 100
      BY <2>1
    <3> QED
      BY <3>1, MinOfTwo, Zenon
  <2> QED
    BY <2>1, <2>2 DEF ConfidenceFactor, MinConfidence
<1>2. a \in Nat /\ b \in Nat /\ l \in Nat /\ m \in Nat
  BY DEF IsForecast
<1>3. Quality(f, l) = c * l * a * b /\ Quality(f, m) = c * m * a * b
  BY DEF Quality
<1> HIDE DEF a, b, c
<1>4. c * l \in Nat /\ c * m \in Nat /\ c * l <= c * m
  BY <1>1, <1>2
<1> DEFINE u == c * l
           v == c * m
<1>5. u \in Nat /\ v \in Nat /\ u <= v
  BY <1>4
<1> HIDE DEF u, v
<1>6. u * a \in Nat /\ v * a \in Nat /\ u * a <= v * a
  BY <1>2, <1>5
<1> DEFINE y == u * a
           z == v * a
<1>7. y \in Nat /\ z \in Nat /\ y <= z
  BY <1>6
<1> HIDE DEF y, z
<1>8. y * b \in Nat /\ z * b \in Nat /\ y * b <= z * b
  BY <1>2, <1>7
<1> QED
  BY <1>3, <1>8 DEF u, v, y, z

(* The caps that the budget and the sizing have in common, and the one in  *)
(* which they differ.                                                      *)
Caps(q, b, money) ==
    Min({BaseRisk(money) * q, Scale * (money \div 200), Scale * MaxDollarRisk,
         Scale * AvailableRisk(b, money)})

LEMMA CapsTypes ==
    ASSUME NEW b, IsBook(b), NEW money \in Int, NEW q \in Nat
    PROVE  /\ Scale \in Nat \ {0} /\ BaseRisk(money) \in Nat /\ money \div 200 \in Int
           /\ BaseRisk(money) * q \in Int /\ Scale * (money \div 200) \in Int
           /\ Scale * MaxDollarRisk \in Int /\ Scale * AvailableRisk(b, money) \in Int
           /\ Caps(q, b, money) \in Int
           /\ Caps(q, b, money) \in {BaseRisk(money) * q, Scale * (money \div 200),
                                     Scale * MaxDollarRisk, Scale * AvailableRisk(b, money)}
           /\ Caps(q, b, money) <= BaseRisk(money) * q
           /\ Caps(q, b, money) <= Scale * (money \div 200)
           /\ Caps(q, b, money) <= Scale * MaxDollarRisk
           /\ Caps(q, b, money) <= Scale * AvailableRisk(b, money)
<1>1. Scale \in Nat \ {0}
  BY DEF Scale, MinConfidence
<1>2. money \div 200 \in Int
  OBVIOUS
<1>3. BaseRisk(money) \in Nat
  <2>1. Max({0, money}) \in Nat
    BY MaxOfTwo
  <2> QED
    BY <2>1 DEF BaseRisk
<1>4. AvailableRisk(b, money) \in Nat /\ MaxDollarRisk \in Nat
  BY AvailableRiskIs, LimitsAssumption
<1> DEFINE w == BaseRisk(money) * q
           x == Scale * (money \div 200)
           y == Scale * MaxDollarRisk
           z == Scale * AvailableRisk(b, money)
<1>5. w \in Int /\ x \in Int /\ y \in Int /\ z \in Int
  BY <1>1, <1>2, <1>3, <1>4
<1>6. Caps(q, b, money) = Min({w, x, y, z})
  BY DEF Caps
<1> HIDE DEF w, x, y, z
<1>7. /\ Min({w, x, y, z}) \in {w, x, y, z} /\ Min({w, x, y, z}) <= w /\ Min({w, x, y, z}) <= x
      /\ Min({w, x, y, z}) <= y /\ Min({w, x, y, z}) <= z
  BY <1>5, MinOfFour
<1>8. Caps(q, b, money) \in Int
  BY <1>5, <1>6, <1>7
<1> QED
  BY <1>1, <1>2, <1>3, <1>5, <1>6, <1>7, <1>8 DEF w, x, y, z

(* More quality and fewer positions never make the caps tighter.           *)
LEMMA CapsMonotone ==
    ASSUME NEW b, IsBook(b), NEW c, IsBook(c), OpenRisk(b) <= OpenRisk(c), NEW money \in Int,
           NEW q \in Nat, NEW r \in Nat, q <= r
    PROVE  Caps(q, c, money) <= Caps(r, b, money)
<1> DEFINE n == BaseRisk(money)
           x == Scale * (money \div 200)
           y == Scale * MaxDollarRisk
           u == AvailableRisk(b, money)
           v == AvailableRisk(c, money)
           low == Caps(q, c, money)
           high == Caps(r, b, money)
<1>1. /\ n \in Nat /\ Scale \in Nat \ {0} /\ x \in Int /\ y \in Int /\ low \in Int
      /\ low <= n * q /\ low <= x /\ low <= y /\ low <= Scale * v
  BY CapsTypes
<1>2. high \in {n * r, x, y, Scale * u} /\ high \in Int
  BY CapsTypes
<1>3. u \in Nat /\ v \in Nat /\ v <= u
  BY AvailableRiskIs
<1> HIDE DEF n, x, y, u, v, low, high
<1>4. n * q <= n * r /\ n * q \in Int /\ n * r \in Int
  BY <1>1
<1>5. Scale * v <= Scale * u /\ Scale * v \in Int /\ Scale * u \in Int
  BY <1>1, <1>3
<1>6. low <= high
  BY <1>1, <1>2, <1>4, <1>5
<1> QED
  BY <1>6 DEF low, high

(* A contract more is bought only when the caps allow for its loss.        *)
LEMMA SizeIs ==
    ASSUME NEW o, o.maxLoss \in Nat \ {0}, o.liquidity \in 0..10, NEW f, IsForecast(f),
           NEW b, IsBook(b), NEW money \in Int
    PROVE  LET cap == Caps(Quality(f, o.liquidity), b, money)
               size == SizePosition(o, f, b, money)
           IN  /\ Quality(f, o.liquidity) \in Nat
               /\ size \in Nat
               /\ size > 0 => size * (Scale * o.maxLoss) <= cap
               /\ (size = 0) <=> cap < Scale * o.maxLoss
<1> DEFINE cap == Caps(Quality(f, o.liquidity), b, money)
           size == SizePosition(o, f, b, money)
           d == Scale * o.maxLoss
           n == cap \div d
<1>1. Quality(f, o.liquidity) \in Nat
  BY QualityIs
<1>2. cap \in Int /\ Scale \in Nat \ {0}
  BY <1>1, CapsTypes
<1>3. d \in Nat \ {0}
  BY <1>2
<1>4. size = Max({0, Min({MaxContracts, n})})
  BY DEF SizePosition, SizingCap, Caps, MaxLoss
<1> HIDE DEF cap, d, size
<1>5. n \in Int /\ n * d <= cap /\ cap < (n + 1) * d
  BY <1>2, <1>3
<1> HIDE DEF n
<1>6. Min({MaxContracts, n}) = IF MaxContracts <= n THEN MaxContracts ELSE n
  BY <1>5, LimitsAssumption, MinOfTwo
<1> DEFINE m == Min({MaxContracts, n})
<1>7. m \in Int /\ m <= n /\ (m = MaxContracts \/ m = n) /\ MaxContracts \in Nat \ {0}
  BY <1>5, <1>6, LimitsAssumption
<1> HIDE DEF m
<1>8. Max({0, m}) = IF 0 >= m THEN 0 ELSE m
  BY <1>7, MaxOfTwo
<1>9. size = IF 0 >= m THEN 0 ELSE m
  BY <1>4, <1>8 DEF m
<1>10. size \in Nat
  BY <1>7, <1>9
<1>11. size > 0 => size * d <= cap
  <2> SUFFICES ASSUME size > 0 PROVE size * d <= cap
    OBVIOUS
  <2>1. size <= n
    BY <1>5, <1>7, <1>9
  <2>2. size * d <= n * d
    BY <1>3, <1>5, <1>10, <2>1
  <2>3. size * d \in Int /\ n * d \in Int
    BY <1>3, <1>5, <1>10
  <2> QED
    BY <1>2, <1>5, <2>2, <2>3
<1>12. (size = 0) <=> n <= 0
  BY <1>5, <1>7, <1>9
<1>13. n <= 0 <=> cap < d
  <2>1. CASE n <= 0
    <3>1. (n + 1) * d <= d
      BY <1>3, <1>5, <2>1
    <3>2. (n + 1) * d \in Int
      BY <1>3, <1>5
    <3> QED
      BY <1>2, <1>3, <1>5, <2>1, <3>1, <3>2
  <2>2. CASE n > 0
    <3>1. d <= n * d
      BY <1>3, <1>5, <2>2
    <3>2. n * d \in Int
      BY <1>3, <1>5
    <3> QED
      BY <1>2, <1>3, <1>5, <2>2, <3>1, <3>2
  <2> QED
    BY <1>5, <2>1, <2>2
<1> QED
  BY <1>1, <1>10, <1>11, <1>12, <1>13 DEF cap, size, d

(* The filter before the sizing: what it lets through is sized to one      *)
(* contract at least if it is as liquid as assumed, and what it drops to   *)
(* none if it is not more liquid, in this and in every larger book.        *)
LEMMA FilterAgrees ==
    ASSUME NEW o, o.maxLoss \in Nat \ {0}, o.liquidity \in 0..10, NEW f, IsForecast(f),
           NEW b, IsBook(b), NEW c, IsBook(c), OpenRisk(b) <= OpenRisk(c), NEW money \in Int
    PROVE  /\ Affordable(o, RiskBudget(f, b, money)) /\ SizePosition(o, f, b, money) = 0
                => o.liquidity < Placeholder
           /\ ~Affordable(o, RiskBudget(f, b, money)) /\ o.liquidity <= Placeholder
                => SizePosition(o, f, c, money) = 0
<1> DEFINE budget == RiskBudget(f, b, money)
           d == Scale * o.maxLoss
           q == Quality(f, o.liquidity)
           r == Quality(f, Placeholder)
<1>1. budget = Caps(r, b, money)
  BY DEF RiskBudget, Caps
<1>2. Affordable(o, budget) <=> d <= budget
  BY DEF Affordable, MaxLoss
<1>3. Placeholder \in 0..10
  BY DEF Placeholder
<1>4. q \in Nat /\ r \in Nat
  BY <1>3, QualityIs
<1>5. Scale \in Nat \ {0} /\ Caps(q, b, money) \in Int /\ Caps(r, b, money) \in Int /\ Caps(q, c, money) \in Int
  BY <1>4, CapsTypes
<1>6. d \in Nat
  BY <1>5
<1>7. (SizePosition(o, f, b, money) = 0) <=> Caps(q, b, money) < d
  BY SizeIs
<1>8. (SizePosition(o, f, c, money) = 0) <=> Caps(q, c, money) < d
  BY SizeIs
<1>9. o.liquidity >= Placeholder => Caps(r, b, money) <= Caps(q, b, money)
  <2> SUFFICES ASSUME o.liquidity >= Placeholder PROVE Caps(r, b, money) <= Caps(q, b, money)
    OBVIOUS
  <2>1. r <= q
    BY <1>3, QualityIs
  <2>2. OpenRisk(b) <= OpenRisk(b)
    BY OpenRiskType
  <2> HIDE DEF q, r
  <2> QED
    BY <1>4, <2>1, <2>2, CapsMonotone
<1>10. o.liquidity <= Placeholder => Caps(q, c, money) <= Caps(r, b, money)
  <2> SUFFICES ASSUME o.liquidity <= Placeholder PROVE Caps(q, c, money) <= Caps(r, b, money)
    OBVIOUS
  <2>1. q <= r
    BY <1>3, QualityIs
  <2> HIDE DEF q, r
  <2> QED
    BY <1>4, <2>1, CapsMonotone
<1> HIDE DEF budget, d, q, r
<1>11. o.liquidity \in Int /\ Placeholder \in Int
  BY <1>3
<1> QED
  BY <1>1, <1>2, <1>5, <1>6, <1>7, <1>8, <1>9, <1>10, <1>11 DEF budget

-----------------------------------------------------------------------------
(* Selection *)

LEMMA RegistryTypes ==
    ASSUME NEW e \in Registry
    PROVE  /\ IsStructure(e) /\ e.maxLoss = Multiplier * Profile(e).maxLoss
           /\ Profile(e).maxLoss \in Nat /\ e.maxLoss \in Nat
           /\ e.admitted => Profile(e).finite /\ e.maxLoss > 0
           /\ e.ev \in Int /\ e.cvar \in Int /\ e.slippage \in Nat /\ e.fill \in 0..100
           /\ e.liquidity \in 0..10 /\ e.hold \in Nat /\ e.cost \in Int /\ Len(e.legs) \in Nat
<1>1. PICK o \in Offers : e = Entry(o)
  BY DEF Registry
<1>2. /\ IsStructure(e) /\ Profile(e) = Profile(o)
      /\ e.admitted = IsValid(o) /\ e.maxLoss = Multiplier * Profile(e).maxLoss
      /\ e.ev \in Int /\ e.cvar \in Int /\ e.slippage \in Nat /\ e.fill \in 0..100
      /\ e.liquidity \in 0..10 /\ e.hold \in Nat /\ e.cost \in Int
  BY <1>1, EntryTypes
<1>3. Profile(e).maxLoss \in Nat
  BY <1>2, ProfileIs
<1>4. e.maxLoss \in Nat
  BY <1>2, <1>3 DEF Multiplier
<1>5. e.admitted => Profile(e).finite /\ e.maxLoss > 0
  <2> SUFFICES ASSUME e.admitted PROVE Profile(e).finite /\ e.maxLoss > 0
    OBVIOUS
  <2>1. Profile(e).finite /\ Profile(e).maxLoss > 0
    BY <1>2 DEF IsValid
  <2> QED
    BY <1>2, <1>3, <2>1 DEF Multiplier
<1>6. Len(e.legs) \in Nat
  BY <1>2 DEF IsStructure
<1> QED
  BY <1>2, <1>3, <1>4, <1>5, <1>6

(* Every term of the utility but the expected value is a cost.             *)
LEMMA UtilityIs ==
    ASSUME NEW e \in Registry, NEW f, IsForecast(f)
    PROVE  /\ Utility(e, f) \in Int
           /\ e.ev > 0 => Utility(e, f) <= 100 * (f.confidence * e.ev) - 10000 * e.slippage
<1> DEFINE loss == e.maxLoss
           ev == IF e.ev < 0 THEN -e.ev ELSE e.ev
           cvar == Max({0, e.cvar})
           legs == Max({0, Len(e.legs) - 2})
           usage == CapitalUsage(e)
           hold == Max({e.hold, 1})
           A == e.slippage * (10000 + 25 * (100 - e.fill))
           B == 100 * (100 - f.confidence) * ev
           C == 6 * (100 - 10 * e.liquidity) * loss
           D == 150 * legs * loss
           E == (usage * 500 * hold) \div MinutesPerYear
<1>1. /\ loss \in Nat /\ e.ev \in Int /\ e.cvar \in Int /\ e.slippage \in Nat /\ e.fill \in 0..100
      /\ e.liquidity \in 0..10 /\ e.hold \in Nat /\ e.cost \in Int
  BY RegistryTypes
<1>0. Len(e.legs) \in Nat
  BY RegistryTypes
<1>2. f.confidence \in 0..100
  BY DEF IsForecast
<1>3. ev \in Nat
  BY <1>1
<1>4. cvar \in Nat /\ legs \in Nat /\ hold \in Nat
  <2>1. Len(e.legs) - 2 \in Int
    BY <1>0
  <2> QED
    BY <1>1, <2>1, MaxOfTwo
<1>5. usage \in Nat
  <2>1. Multiplier * e.cost \in Int
    BY <1>1 DEF Multiplier
  <2> QED
    BY <1>1, <2>1, MaxOfTwo DEF CapitalUsage, MaxLoss
<1>6. Utility(e, f) = 10000 * e.ev - 500 * cvar - A - B - C - D - E
  BY DEF Utility, MaxLoss
<1> HIDE DEF loss, ev, cvar, legs, usage, hold
<1>7. A \in Int /\ A >= 10000 * e.slippage
  <2> DEFINE x == 25 * (100 - e.fill)
             s == e.slippage
  <2>1. x \in Nat /\ s \in Nat
    BY <1>1
  <2> HIDE DEF A
  <2>0. A = s * (10000 + x)
    BY DEF A
  <2> HIDE DEF x, s
  <2>2. s * (10000 + x) = 10000 * s + s * x /\ s * x \in Nat
    BY <2>1
  <2>3. A \in Int /\ A >= 10000 * s
    BY <2>0, <2>1, <2>2
  <2> QED
    BY <2>3 DEF s
<1>8. B \in Nat /\ (e.ev > 0 => B = 10000 * e.ev - 100 * (f.confidence * e.ev))
  <2> DEFINE c == f.confidence
             w == 100 - c
  <2>1. c \in Nat /\ w \in Nat /\ c = 100 - w /\ B = 100 * w * ev
    BY <1>2
  <2> HIDE DEF c, w
  <2>2. B \in Nat
    BY <1>3, <2>1
  <2>3. ASSUME e.ev > 0 PROVE B = 10000 * e.ev - 100 * (c * e.ev)
    <3>1. ev = e.ev
      BY <1>1, <2>3 DEF ev
    <3>2. c * ev = 100 * ev - w * ev /\ 100 * w * ev = 100 * (w * ev) /\ w * ev \in Int
      BY <1>3, <2>1
    <3> QED
      BY <1>3, <2>1, <3>1, <3>2
  <2> QED
    BY <2>2, <2>3 DEF c
<1>9. C \in Nat
  <2> DEFINE x == 6 * (100 - 10 * e.liquidity)
  <2>1. x \in Nat /\ C = x * loss
    BY <1>1
  <2> HIDE DEF x
  <2> QED
    BY <1>1, <2>1 DEF loss
<1>10. D \in Nat
  BY <1>1, <1>4 DEF loss
<1>11. E \in Nat
  <2>1. usage * 500 * hold \in Nat
    BY <1>4, <1>5
  <2> HIDE DEF E
  <2>2. E = (usage * 500 * hold) \div MinutesPerYear
    BY DEF E
  <2> QED
    BY <2>1, <2>2 DEF MinutesPerYear
<1> HIDE DEF A, B, C, D, E
<1>12. Utility(e, f) \in Int
  BY <1>1, <1>4, <1>6, <1>7, <1>8, <1>9, <1>10, <1>11
<1> DEFINE edge == f.confidence * e.ev
<1>13. edge \in Int
  <2> DEFINE c == f.confidence
             v == e.ev
  <2>1. c \in Int /\ v \in Int
    BY <1>1, <1>2
  <2> HIDE DEF c, v
  <2>2. c * v \in Int
    BY <2>1
  <2> QED
    BY <2>2 DEF c, v
<1>14. ASSUME e.ev > 0 PROVE Utility(e, f) <= 100 * edge - 10000 * e.slippage
  <2>1. B = 10000 * e.ev - 100 * edge
    BY <1>8, <1>14
  <2> HIDE DEF edge
  <2> QED
    BY <1>1, <1>4, <1>6, <1>7, <1>8, <1>9, <1>10, <1>11, <1>13, <2>1
<1> QED
  BY <1>12, <1>14

LEMMA BestIs ==
    ASSUME NEW offers \in Pairs, NEW f, IsForecast(f), NEW ranked \in SUBSET (1..2), ranked # {}
    PROVE  \E i \in ranked : Best(offers, ranked, f) = offers[i]
<1> DEFINE u == [i \in 1..2 |-> Utility(offers[i], f)]
           U == { u[i] : i \in ranked }
           top == { i \in ranked : \A j \in ranked : Utility(offers[i], f) >= Utility(offers[j], f) }
<1>1. \A i \in 1..2 : offers[i] \in Registry
  BY DEF Pairs
<1>2. \A i \in 1..2 : u[i] = Utility(offers[i], f) /\ u[i] \in Int
  BY <1>1, UtilityIs
<1> HIDE DEF u
<1>3. IsFiniteSet(ranked)
  <2>1. IsFiniteSet(1..2)
    BY FirstNumbersAreFinite
  <2> QED
    BY <2>1, FS_Subset
<1>4. U \in SUBSET Int /\ U # {} /\ IsFiniteSet(U)
  BY <1>2, <1>3, ImageIsFinite
<1>5. Max(U) \in U /\ \A y \in U : y <= Max(U)
  BY <1>4, MaxExists
<1>6. PICK i \in ranked : \A j \in ranked : u[j] <= u[i]
  BY <1>5
<1>7. i \in top
  BY <1>2, <1>6
<1>8. top \in SUBSET Int /\ IsFiniteSet(top) /\ top # {}
  <2>1. top \subseteq ranked /\ ranked \subseteq Int
    OBVIOUS
  <2> HIDE DEF top
  <2> QED
    BY <1>3, <1>7, <2>1, FS_Subset
<1> HIDE DEF top
<1>9. Min(top) \in top
  BY <1>8, MinExists
<1> QED
  BY <1>9 DEF Best, top

LEMMA RankedIs ==
    ASSUME NEW offers \in Pairs, NEW f, IsForecast(f), NEW budget,
           Evaluated(offers, f, budget) # {}
    PROVE  LET best == Best(offers, Evaluated(offers, f, budget), f)
           IN  /\ best \in Registry /\ best.admitted
               /\ Affordable(best, budget) /\ EntryGates(best)
<1> DEFINE ranked == Evaluated(offers, f, budget)
<1>1. DOMAIN offers = 1..2 /\ \A i \in 1..2 : offers[i] \in Registry
  BY DEF Pairs
<1>2. ranked \in SUBSET (1..2)
  BY <1>1 DEF Evaluated, Admitted
<1>3. PICK i \in ranked : Best(offers, ranked, f) = offers[i]
  BY <1>2, BestIs
<1>4. offers[i].admitted /\ Affordable(offers[i], budget) /\ EntryGates(offers[i])
  BY <1>3 DEF Evaluated, Admitted
<1>5. offers[i] \in Registry
  BY <1>1, <1>2, <1>3
<1> QED
  BY <1>3, <1>4, <1>5

(* What an opening has passed.                                             *)
LEMMA OpeningIs ==
    ASSUME NEW f \in Forecasts, NEW offers \in Pairs, NEW n \in 0..MaxContracts,
           Decide(f, offers, n), n > 0
    PROVE  \E best \in Registry :
              /\ book' = book \cup {Opened(best, n)} /\ best.admitted
              /\ EntryGates(best) /\ BeatsNoTrade(best, f)
              /\ Reasons(best, f, book, equity) = {} /\ n <= SizePosition(best, f, book, equity)
              /\ killed' = FALSE /\ decision'.forecast = f /\ UNCHANGED equity
<1> DEFINE budget == RiskBudget(f, book, equity)
           ranked == Evaluated(offers, f, budget)
           best == Best(offers, ranked, f)
           kill == killed \/ Trips(f)
           against == (IF kill THEN {"kill"} ELSE {}) \cup Reasons(best, f, book, equity)
<1>1. /\ ranked # {} /\ BeatsNoTrade(best, f) /\ against = {}
      /\ n <= SizePosition(best, f, book, equity)
      /\ book' = book \cup {Opened(best, n)} /\ killed' = kill /\ UNCHANGED equity
  BY DEF Decide
<1>2. decision'.forecast = f
  BY <1>1 DEF Decide
<1>3. best \in Registry /\ best.admitted /\ EntryGates(best)
  BY <1>1, RankedIs, SessionAssumption
<1>4. ~kill /\ Reasons(best, f, book, equity) = {}
  BY <1>1
<1> HIDE DEF best, kill
<1>5. kill = FALSE
  BY <1>4 DEF kill
<1> QED
  BY <1>1, <1>2, <1>3, <1>4, <1>5

LEMMA NoReasonIs ==
    ASSUME NEW o, NEW f, NEW b, NEW money, Reasons(o, f, b, money) = {}
    PROVE  ~StructuralVeto(f) /\ ~(Cardinality(b) >= MaxOpen)
<1>1. EnvironmentReasons(f) = {} /\ PortfolioReasons(o, b, money) = {}
  BY DEF Reasons
<1>2. ~StructuralVeto(f)
  <2> DEFINE checks == [ confidence |-> f.confidence < MinConfidence,
                         disagreement |-> f.disagreement > 35,
                         structural |-> StructuralVeto(f) ]
  <2>1. "structural" \in DOMAIN checks /\ checks["structural"] = StructuralVeto(f)
    OBVIOUS
  <2>2. EnvironmentReasons(f) = { reason \in DOMAIN checks : checks[reason] }
    BY Zenon DEF EnvironmentReasons, Found
  <2> HIDE DEF checks
  <2> QED
    BY <1>1, <2>1, <2>2, Zenon
<1>3. ~(Cardinality(b) >= MaxOpen)
  <2> DEFINE checks ==
        [ count |-> Cardinality(b) >= MaxOpen,
          total |-> OpenRisk(b) + MaxLoss(o) > AllowedTotal(money),
          expiration |-> ExpirationRisk(b, Min(Expiries(o))) + MaxLoss(o) > MaxExpirationRisk,
          capital |-> 4 * CapitalUsage(o) > money ]
  <2>1. "count" \in DOMAIN checks /\ checks["count"] = (Cardinality(b) >= MaxOpen)
    OBVIOUS
  <2>2. PortfolioReasons(o, b, money) = { reason \in DOMAIN checks : checks[reason] }
    BY Zenon DEF PortfolioReasons, Found
  <2> HIDE DEF checks
  <2> QED
    BY <1>1, <2>1, <2>2, Zenon
<1> QED
  BY <1>2, <1>3

(* There is a new name for a position as long as one may be opened.        *)
LEMMA NewIdIs ==
    ASSUME IsFiniteSet(book), ~(Cardinality(book) >= MaxOpen)
    PROVE  NewId \in 1..MaxOpen /\ \A p \in book : p.id # NewId
<1> DEFINE f == [p \in book |-> p.id]
           ids == { f[p] : p \in book }
<1>1. IsFiniteSet(ids) /\ Cardinality(ids) <= Cardinality(book)
  <2>1. f \in [book -> ids] /\ \A i \in ids : \E p \in book : f[p] = i
    OBVIOUS
  <2>2. f \in Surjection(book, ids)
    BY <2>1, Zenon DEF Surjection
  <2> QED
    BY <2>2, FS_Surjection
<1>2. IsFiniteSet(1..MaxOpen) /\ Cardinality(1..MaxOpen) = MaxOpen
  BY LimitsAssumption, FS_Interval
<1>3. Cardinality(ids) \in Nat /\ Cardinality(book) \in Nat
  BY <1>1, FS_CardinalityType
<1>4. ~(1..MaxOpen \subseteq ids)
  <2> SUFFICES ASSUME 1..MaxOpen \subseteq ids PROVE FALSE
    OBVIOUS
  <2>1. Cardinality(1..MaxOpen) <= Cardinality(ids)
    BY <1>1, FS_Subset
  <2> HIDE DEF ids
  <2> QED
    BY <1>1, <1>2, <1>3, <2>1, LimitsAssumption
<1>5. PICK i \in 1..MaxOpen : i \notin ids
  BY <1>4
<1>6. \A p \in book : p.id # i
  BY <1>5
<1> QED
  BY <1>6, Zenon DEF NewId

LEMMA SizeReason ==
    ASSUME NEW o, NEW f, NEW b, NEW money, "size" \in Reasons(o, f, b, money)
    PROVE  SizePosition(o, f, b, money) = 0
<1> DEFINE checks == [ size |-> SizePosition(o, f, b, money) = 0, equity |-> money <= 0 ]
<1>1. "size" \notin EnvironmentReasons(f)
  BY DEF EnvironmentReasons, Found
<1>2. "size" \notin CandidateReasons(o)
  BY DEF CandidateReasons, Found
<1>3. "size" \notin PortfolioReasons(o, b, money)
  BY DEF PortfolioReasons, Found
<1>4. "size" \in Found(checks)
  BY <1>1, <1>2, <1>3, Zenon DEF Reasons
<1>5. checks["size"] = (SizePosition(o, f, b, money) = 0)
  OBVIOUS
<1> HIDE DEF checks
<1>6. checks["size"]
  BY <1>4, Zenon DEF Found
<1> QED
  BY <1>5, <1>6, Zenon

SessionInv ==
    /\ subject \in {"none", "snapshot", "worse", "drafting", "admitted", "rejected",
                    "idle", "managing", "holding"}
    /\ IsBook(book) /\ \A p \in book : p.id \in 1..MaxOpen /\ p.contracts \in 1..MaxContracts
    /\ equity \in Int /\ killed \in BOOLEAN /\ closes \in 0..MaxCloses
    /\ subject = "managing" => decision = None
    /\ BudgetAgreesWithSizing

(* A new position is new in the book and risks what its contracts can      *)
(* lose, with their fees.                                                  *)
LEMMA OpenedIs ==
    ASSUME IsBook(book), NEW o \in Registry, NEW n \in 1..MaxContracts, NEW f,
           Reasons(o, f, book, equity) = {}
    PROVE  LET p == Opened(o, n)
           IN  /\ p \notin book /\ p.id \in 1..MaxOpen /\ p.contracts = n /\ p.offer = o
               /\ p.risk \in Nat /\ p.risk = n * o.maxLoss + n * Fee
<1> DEFINE p == Opened(o, n)
<1>1. NewId \in 1..MaxOpen /\ \A q \in book : q.id # NewId
  BY NoReasonIs, NewIdIs DEF IsBook
<1>2. p.id = NewId /\ p.contracts = n /\ p.offer = o /\ p.risk = n * o.maxLoss + n * Fee
  BY DEF Opened, MaxLoss
<1>3. o.maxLoss \in Nat /\ Fee \in Nat /\ n \in Nat
  BY RegistryTypes, SessionAssumption
<1> DEFINE x == o.maxLoss
<1> HIDE DEF x, p
<1>4. n * x \in Nat /\ n * Fee \in Nat
  BY <1>3 DEF x
<1>5. n * o.maxLoss + n * Fee \in Nat
  BY <1>4 DEF x
<1> QED
  BY <1>1, <1>2, <1>5 DEF p

LEMMA DecideStep ==
    ASSUME SessionInv, NEW f \in Forecasts, NEW offers \in Pairs, NEW n \in 0..MaxContracts,
           Decide(f, offers, n)
    PROVE  SessionInv'
<1> DEFINE budget == RiskBudget(f, book, equity)
           ranked == Evaluated(offers, f, budget)
           best == Best(offers, ranked, f)
           selected == ranked # {} /\ BeatsNoTrade(best, f)
           kill == killed \/ Trips(f)
           against == (IF kill THEN {"kill"} ELSE {}) \cup Reasons(best, f, book, equity)
           unaffordable == { o \in { offers[i] : i \in Admitted(offers, f) } : ~Affordable(o, budget) }
<1>1. IsBook(book) /\ equity \in Int /\ IsForecast(f) /\ n \in Nat /\ MaxContracts \in Nat
  BY SessionAssumption, LimitsAssumption DEF SessionInv
<1>2. /\ subject' = "idle" /\ UNCHANGED <<equity, closes>> /\ killed' = kill
  BY DEF Decide
<1>3. IsBook(book') /\ OpenRisk(book) <= OpenRisk(book')
      /\ \A p \in book' : p.id \in 1..MaxOpen /\ p.contracts \in 1..MaxContracts
  <2>1. CASE n > 0
    <3>1. n \in 1..MaxContracts
      BY <1>1, <2>1
    <3>2. PICK o \in Registry : /\ book' = book \cup {Opened(o, n)}
                                /\ Reasons(o, f, book, equity) = {}
      BY <2>1, OpeningIs
    <3> DEFINE p == Opened(o, n)
    <3>3. p \notin book /\ p.id \in 1..MaxOpen /\ p.contracts = n /\ p.risk \in Nat
      BY <1>1, <3>1, <3>2, OpenedIs
    <3> HIDE DEF p
    <3>4. IsBook(book \cup {p}) /\ OpenRisk(book \cup {p}) = OpenRisk(book) + p.risk
      BY <1>1, <3>3, OpenRiskGrows
    <3>5. OpenRisk(book) \in Nat
      BY <1>1, OpenRiskType
    <3>6. book' = book \cup {p}
      BY <3>2 DEF p
    <3>7. OpenRisk(book') = OpenRisk(book) + p.risk /\ IsBook(book')
      BY <3>4, <3>6
    <3>8. OpenRisk(book) <= OpenRisk(book')
      BY <3>3, <3>5, <3>7
    <3>9. \A q \in book' : q.id \in 1..MaxOpen /\ q.contracts \in 1..MaxContracts
      BY <3>1, <3>3, <3>6 DEF SessionInv
    <3> QED
      BY <3>7, <3>8, <3>9
  <2>2. CASE ~(n > 0)
    <3>1. book' = book
      BY <2>2 DEF Decide
    <3>2. OpenRisk(book) \in Nat
      BY <1>1, OpenRiskType
    <3> QED
      BY <1>1, <3>1, <3>2 DEF SessionInv
  <2> QED
    BY <2>1, <2>2
<1>4. /\ decision'.forecast = f /\ decision'.unaffordable = unaffordable
      /\ "size" \in decision'.against => selected /\ "size" \in against /\ decision'.best = best
  <2>1. CASE ~selected
    BY <2>1 DEF Decide
  <2>2. CASE selected
    BY <2>2 DEF Decide
  <2> QED
    BY <2>1, <2>2
<1>5. "size" \in decision'.against => decision'.best.liquidity < Placeholder
  <2> SUFFICES ASSUME "size" \in decision'.against PROVE best.liquidity < Placeholder
    BY <1>4
  <2>1. ranked # {} /\ "size" \in Reasons(best, f, book, equity)
    BY <1>4
  <2>2. best \in Registry /\ best.admitted /\ Affordable(best, budget)
    BY <1>1, <2>1, RankedIs
  <2> HIDE DEF best
  <2>3. SizePosition(best, f, book, equity) = 0
    BY <2>1, SizeReason
  <2>4. best.maxLoss \in Nat \ {0} /\ best.liquidity \in 0..10
    BY <2>2, RegistryTypes
  <2> QED
    BY <1>1, <1>3, <2>2, <2>3, <2>4, FilterAgrees
<1>6. ASSUME NEW o \in unaffordable, o.liquidity <= Placeholder
      PROVE  SizePosition(o, f, book', equity) = 0
  <2>1. PICK i \in Admitted(offers, f) : o = offers[i]
    OBVIOUS
  <2>2. o \in Registry /\ o.admitted
    BY <2>1 DEF Admitted, Pairs
  <2>3. ~Affordable(o, budget)
    OBVIOUS
  <2>4. o.maxLoss \in Nat \ {0} /\ o.liquidity \in 0..10
    BY <2>2, RegistryTypes
  <2> QED
    BY <1>1, <1>3, <1>6, <2>3, <2>4, FilterAgrees
<1> HIDE DEF unaffordable, kill, selected
<1>7. BudgetAgreesWithSizing'
  BY <1>2, <1>4, <1>5, <1>6 DEF BudgetAgreesWithSizing
<1>8. killed' \in BOOLEAN
  BY <1>2 DEF kill
<1> QED
  BY <1>1, <1>2, <1>3, <1>7, <1>8 DEF SessionInv

LEMMA CloseStep ==
    ASSUME SessionInv, NEW p \in book, NEW result \in Results, Close(p, result)
    PROVE  SessionInv'
<1>1. /\ subject = "managing" /\ closes < MaxCloses
      /\ book' = book \ {p} /\ equity' = equity + result /\ closes' = closes + 1
      /\ UNCHANGED <<subject, killed, decision>>
  BY DEF Close
<1>2. IsBook(book') /\ \A q \in book' : q.id \in 1..MaxOpen /\ q.contracts \in 1..MaxContracts
  BY <1>1, FS_Subset DEF SessionInv, IsBook
<1>3. equity' \in Int /\ closes' \in 0..MaxCloses
  BY <1>1, SessionAssumption DEF SessionInv
<1>4. decision' = None /\ subject' = "managing" /\ killed' \in BOOLEAN
  BY <1>1 DEF SessionInv
<1>5. BudgetAgreesWithSizing'
  BY <1>4 DEF BudgetAgreesWithSizing
<1> QED
  BY <1>2, <1>3, <1>4, <1>5 DEF SessionInv

LEMMA SessionStep ==
    ASSUME SessionInv, [Next]_vars
    PROVE  SessionInv'
<1> USE DEF vars
<1>1. ASSUME UNCHANGED <<book, equity, killed, closes, decision>>,
             subject' \in {"none", "snapshot", "worse", "drafting", "admitted", "rejected",
                           "idle", "managing", "holding"},
             subject' = "managing" => subject = "managing"
      PROVE  SessionInv'
  <2>1. BudgetAgreesWithSizing'
    BY <1>1 DEF SessionInv, BudgetAgreesWithSizing
  <2> QED
    BY <1>1, <2>1 DEF SessionInv
<1>2. ASSUME NEW m, BeginCycle(m) PROVE SessionInv'
  <2>1. decision' = None /\ subject' = "managing" /\ UNCHANGED <<book, equity, killed, closes>>
    BY <1>2 DEF BeginCycle
  <2>2. BudgetAgreesWithSizing'
    BY <2>1 DEF BudgetAgreesWithSizing
  <2> QED
    BY <2>1, <2>2 DEF SessionInv
<1>3. CASE StartOver
  <2>1. /\ decision' = None /\ subject' = "none" /\ book' = {} /\ equity' = StartingEquity
        /\ killed' = FALSE /\ closes' = 0
    BY <1>3 DEF StartOver
  <2>2. BudgetAgreesWithSizing'
    BY <2>1 DEF BudgetAgreesWithSizing
  <2>3. IsBook({})
    BY FS_EmptySet DEF IsBook
  <2>4. StartingEquity \in Int /\ 0 \in 0..MaxCloses
    BY SessionAssumption
  <2>5. IsBook(book') /\ \A p \in book' : p.id \in 1..MaxOpen /\ p.contracts \in 1..MaxContracts
    BY <2>1, <2>3
  <2> QED
    BY <2>1, <2>2, <2>4, <2>5 DEF SessionInv
<1>4. CASE \E e \in {1, 2}, k \in Strikes, r \in {"call", "put"}, q \in Sizes : Compose(Leg(e, k, r, q))
  BY <1>1, <1>4 DEF Compose
<1>5. CASE \E ctx \in Contexts : \E family \in AllFamilies : GenerateOne(ctx, family)
  BY <1>1, <1>5 DEF GenerateOne
<1>6. ASSUME NEW family, NEW cost, Submit(family, cost) PROVE SessionInv'
  BY <1>1, <1>6 DEF Submit
<1>7. CASE \E m \in Markets : Observe(m)
  BY <1>1, <1>7 DEF Observe
<1>8. CASE \E f \in DOMAIN market.chain, fault \in Faults : Worsen(f, fault)
  BY <1>1, <1>8 DEF Worsen
<1>9. CASE \E p \in book, result \in Results : Close(p, result)
  BY <1>9, CloseStep
<1>10. CASE Lockout
  BY <1>1, <1>10 DEF Lockout
<1>11. CASE \E f \in Forecasts, offers \in Pairs, n \in 0..MaxContracts : Decide(f, offers, n)
  BY <1>11, DecideStep
<1>12. CASE \E p \in Positions : Hold(p)
  BY <1>1, <1>12 DEF Hold
<1>13. CASE (\E pnl \in Marks, quoted, itm, fills \in BOOLEAN : Tick(pnl, quoted, itm, fills))
            \/ Restart \/ Trip \/ UNCHANGED vars
  <2>1. UNCHANGED <<subject, book, equity, killed, closes, decision>>
    BY <1>13 DEF Tick, Restart, Trip
  <2> QED
    BY <1>1, <2>1 DEF SessionInv
<1> QED
  BY <1>2, <1>3, <1>4, <1>5, <1>6, <1>7, <1>8, <1>9, <1>10, <1>11, <1>12, <1>13 DEF Next

LEMMA SessionStarts == Init => SessionInv /\ HoldInv
<1> SUFFICES ASSUME Init PROVE SessionInv /\ HoldInv
  OBVIOUS
<1>1. IsBook({})
  BY FS_EmptySet DEF IsBook
<1>2. BudgetAgreesWithSizing
  BY DEF Init, BudgetAgreesWithSizing
<1>3. SessionInv
  <2>1. StartingEquity \in Int /\ 0 \in 0..MaxCloses
    BY SessionAssumption
  <2>2. IsBook(book) /\ \A p \in book : p.id \in 1..MaxOpen /\ p.contracts \in 1..MaxContracts
    BY <1>1 DEF Init
  <2> QED
    BY <1>2, <2>1, <2>2 DEF Init, SessionInv
<1>4. HoldInv
  BY DEF Init, HoldInv
<1> QED
  BY <1>3, <1>4

(* For every account, book, forecast and offer: the filter of risk_budget  *)
(* and size_position, which compute the same caps apart, disagree on an    *)
(* offer only where its liquidity is on the other side of the assumed one, *)
(* and there is a name for every position that may be opened.              *)
THEOREM FilterNeverContradictsSizing == Spec => []SizingAgrees
<1>1. Init => SessionInv /\ HoldInv
  BY SessionStarts
<1>2. SessionInv /\ HoldInv /\ [Next]_vars => SessionInv' /\ HoldInv'
  BY SessionStep, HoldInvStep
<1>3. SessionInv /\ HoldInv => SizingAgrees
  <2> SUFFICES ASSUME SessionInv, HoldInv PROVE SizingAgrees
    OBVIOUS
  <2>1. subject = "holding" => trade.held \in 0..trade.position.toClose
    <3> SUFFICES ASSUME subject = "holding" PROVE trade.held \in 0..trade.position.toClose
      OBVIOUS
    <3>1. trade \in Trades /\ trade.held <= trade.position.toClose
      BY DEF HoldInv
    <3>2. trade.held \in Nat /\ trade.position.toClose \in Nat
      BY <3>1 DEF Trades, Held
    <3> QED
      BY <3>1, <3>2
  <2> QED
    BY <2>1 DEF SessionInv, TypeOK, SizingAgrees
<1> QED
  BY <1>1, <1>2, <1>3, PTL DEF Spec

(* The sizing bounds what a new position can lose, in dollars and as a     *)
(* part of the account, and what the book can lose with it.                *)
LEMMA SizedIsBounded ==
    ASSUME NEW o \in Registry, o.admitted, NEW f, IsForecast(f), NEW b, IsBook(b),
           NEW money \in Int, NEW n \in Nat \ {0}, n <= SizePosition(o, f, b, money)
    PROVE  /\ n * o.maxLoss \in Nat \ {0}
           /\ n * o.maxLoss <= MaxDollarRisk /\ n * o.maxLoss <= money \div 200
           /\ n * o.maxLoss <= AvailableRisk(b, money)
<1> DEFINE x == o.maxLoss
           q == Quality(f, o.liquidity)
           cap == Caps(q, b, money)
           size == SizePosition(o, f, b, money)
<1>1. x \in Nat \ {0} /\ o.liquidity \in 0..10
  BY RegistryTypes
<1>2. q \in Nat /\ size \in Nat /\ (size > 0 => size * (Scale * x) <= cap)
  BY <1>1, SizeIs
<1>3. /\ Scale \in Nat \ {0} /\ money \div 200 \in Int /\ cap \in Int
      /\ cap <= Scale * (money \div 200) /\ cap <= Scale * MaxDollarRisk
      /\ cap <= Scale * AvailableRisk(b, money)
  BY <1>2, CapsTypes
<1>4. AvailableRisk(b, money) \in Nat /\ MaxDollarRisk \in Nat
  BY AvailableRiskIs, LimitsAssumption
<1> HIDE DEF x, q, cap, size
<1>5. n * (Scale * x) <= cap
  <2> DEFINE d == Scale * x
  <2>1. d \in Nat /\ n <= size /\ size * d <= cap
    BY <1>1, <1>2, <1>3 DEF size
  <2> HIDE DEF d
  <2>2. n * d <= size * d /\ n * d \in Int /\ size * d \in Int
    BY <1>2, <2>1
  <2>3. n * d <= cap
    BY <1>3, <2>1, <2>2
  <2> QED
    BY <2>3 DEF d
<1> DEFINE y == n * x
<1>6. y \in Nat \ {0} /\ n * (Scale * x) = Scale * y
  BY <1>1, <1>3
<1> HIDE DEF y
<1>7. ASSUME NEW m \in Int, cap <= Scale * m PROVE y <= m
  <2>1. Scale * y <= Scale * m
    <3>1. Scale * y \in Int /\ Scale * m \in Int
      BY <1>3, <1>6
    <3> QED
      BY <1>3, <1>5, <1>6, <1>7, <3>1
  <2> QED
    BY <1>3, <1>6, <2>1
<1>8. y <= MaxDollarRisk /\ y <= money \div 200 /\ y <= AvailableRisk(b, money)
  BY <1>3, <1>4, <1>7
<1> QED
  BY <1>6, <1>8 DEF x, y

LEMMA OpenedIsWorthIt ==
    ASSUME SessionInv, NEW f \in Forecasts, NEW offers \in Pairs, NEW n \in 0..MaxContracts,
           Decide(f, offers, n), NEW p \in book' \ book
    PROVE  NewRiskBounded(p) /\ OpenRiskBounded(p) /\ EdgeSurvivesCosts(p)
<1>1. IsBook(book) /\ equity \in Int /\ IsForecast(f) /\ n \in Nat /\ MaxContracts \in Nat
  BY SessionAssumption, LimitsAssumption DEF SessionInv
<1>2. n > 0
  <2> SUFFICES ASSUME ~(n > 0) PROVE FALSE
    OBVIOUS
  <2>1. book' = book
    BY DEF Decide
  <2> QED
    BY <2>1
<1>3. PICK o \in Registry :
         /\ book' = book \cup {Opened(o, n)} /\ o.admitted
         /\ EntryGates(o) /\ BeatsNoTrade(o, f)
         /\ Reasons(o, f, book, equity) = {} /\ n <= SizePosition(o, f, book, equity)
         /\ killed' = FALSE /\ decision'.forecast = f /\ UNCHANGED equity
  BY <1>2, OpeningIs
<1>4. p = Opened(o, n)
  BY <1>3
<1>5. n \in 1..MaxContracts
  BY <1>1, <1>2
<1>6. /\ p \notin book /\ p.contracts = n /\ p.offer = o
      /\ p.risk \in Nat /\ p.risk = n * o.maxLoss + n * Fee
  BY <1>1, <1>3, <1>4, <1>5, OpenedIs
<1>7. /\ n * o.maxLoss \in Nat \ {0}
      /\ n * o.maxLoss <= MaxDollarRisk /\ n * o.maxLoss <= equity \div 200
      /\ n * o.maxLoss <= AvailableRisk(book, equity)
  BY <1>1, <1>2, <1>3, SizedIsBounded
<1>8. NewRiskBounded(p)
  <2> DEFINE m == Min({MaxDollarRisk, equity \div 200})
             x == Profile(o).maxLoss
             d == Multiplier * n
             loss == m \div d
  <2>1. IsStructure(o) /\ x \in Nat /\ o.maxLoss = 100 * x /\ Profile(o).finite
    BY <1>3, RegistryTypes DEF Multiplier
  <2>2. equity \div 200 \in Int
    BY <1>1
  <2>3. m \in Int /\ n * o.maxLoss <= m
    BY <1>7, <2>2, LimitsAssumption, MinOfTwo
  <2>4. d \in Nat \ {0} /\ n * (100 * x) = x * d
    BY <1>1, <1>2, <2>1 DEF Multiplier
  <2> HIDE DEF m, x, d
  <2>5. x * d <= m
    BY <2>1, <2>3, <2>4
  <2>6. loss \in Int /\ x <= loss
    BY <2>1, <2>3, <2>4, <2>5
  <2> HIDE DEF loss
  <2>7. LosesAtMost(o, loss)
    BY <2>1, <2>6, FiniteLosesAtMost DEF x
  <2> QED
    BY <1>3, <1>6, <2>7 DEF NewRiskBounded, loss, m, d
<1>9. OpenRiskBounded(p)
  <2>1. OpenRisk(book') = OpenRisk(book) + p.risk
    BY <1>1, <1>3, <1>4, <1>6, OpenRiskGrows
  <2>2. /\ AllowedTotal(equity) \in Int /\ OpenRisk(book) \in Nat
        /\ AvailableRisk(book, equity) = IF AllowedTotal(equity) >= OpenRisk(book)
                                         THEN AllowedTotal(equity) - OpenRisk(book) ELSE 0
    BY <1>1, AvailableRiskIs
  <2>3. Fee \in Nat /\ n * Fee \in Nat
    BY <1>1, SessionAssumption
  <2> DEFINE y == n * o.maxLoss
             z == n * Fee
  <2>4. y \in Nat \ {0} /\ z \in Nat /\ y <= AvailableRisk(book, equity) /\ p.risk = y + z
    BY <1>6, <1>7, <2>3
  <2>5. p.contracts * Fee = z
    BY <1>6
  <2> HIDE DEF y, z
  <2>6. OpenRisk(book') - z <= AllowedTotal(equity)
    BY <2>1, <2>2, <2>4
  <2> QED
    BY <2>5, <2>6 DEF OpenRiskBounded
<1>10. EdgeSurvivesCosts(p)
  <2>1. ~killed' /\ ~StructuralVeto(f)
    BY <1>3, NoReasonIs
  <2> DEFINE edge == f.confidence * o.ev
  <2>2. o.ev \in Int /\ o.slippage \in Nat /\ f.confidence \in 0..100
    BY <1>1, RegistryTypes DEF IsForecast
  <2>3. o.ev > 0
    BY <1>3 DEF EntryGates
  <2>4. Utility(o, f) \in Int /\ Utility(o, f) <= 100 * edge - 10000 * o.slippage
    BY <1>1, <2>3, UtilityIs
  <2>5. Utility(o, f) > 100000
    BY <1>3 DEF BeatsNoTrade, Margin
  <2>6. edge \in Int
    <3> DEFINE c == f.confidence
               v == o.ev
    <3>1. c \in Int /\ v \in Int
      BY <2>2
    <3> HIDE DEF c, v
    <3>2. c * v \in Int
      BY <3>1
    <3> QED
      BY <3>2 DEF c, v
  <2> HIDE DEF edge
  <2>7. edge > 100 * (o.slippage + Margin)
    BY <2>2, <2>4, <2>5, <2>6 DEF Margin
  <2>8. decision'.forecast.confidence * p.offer.ev > 100 * (p.offer.slippage + Margin)
    BY <1>3, <1>6, <2>7 DEF edge
  <2> QED
    BY <1>3, <2>1, <2>8 DEF EdgeSurvivesCosts
<1> QED
  BY <1>8, <1>9, <1>10

(* Only a decision adds to the book.                                       *)
LEMMA OnlyDecisionsOpen ==
    ASSUME [Next]_vars, NEW p \in book' \ book
    PROVE  \E f \in Forecasts, offers \in Pairs, n \in 0..MaxContracts : Decide(f, offers, n)
<1> USE DEF vars
<1>1. book' # book
  OBVIOUS
<1>2. ~(\E e \in {1, 2}, k \in Strikes, r \in {"call", "put"}, q \in Sizes : Compose(Leg(e, k, r, q)))
  BY <1>1 DEF Compose
<1>3. ~(\E ctx \in Contexts : \E family \in AllFamilies : GenerateOne(ctx, family))
  BY <1>1 DEF GenerateOne
<1>4. ~(\E family, cost : Submit(family, cost))
  BY <1>1 DEF Submit
<1>5. ~(\E m : Observe(m)) /\ ~(\E f, fault : Worsen(f, fault)) /\ ~(\E m : BeginCycle(m))
  BY <1>1 DEF Observe, Worsen, BeginCycle
<1>6. ~(\E q \in book, result \in Results : Close(q, result)) /\ ~StartOver /\ ~Lockout
  BY DEF Close, StartOver, Lockout
<1>7. ~(\E q \in Positions : Hold(q))
  BY <1>1 DEF Hold
<1>8. ~(\E pnl \in Marks, quoted, itm, fills \in BOOLEAN : Tick(pnl, quoted, itm, fills))
  BY <1>1 DEF Tick
<1>9. ~Restart /\ ~Trip /\ ~UNCHANGED vars
  BY <1>1 DEF Restart, Trip
<1> QED
  BY <1>2, <1>3, <1>4, <1>5, <1>6, <1>7, <1>8, <1>9 DEF Next

(* Through selection, sizing and vetoes that each see only a part: what is *)
(* opened can lose no more than the dollar limit and half a per cent of    *)
(* the account at any price of the underlying, the book stays within its   *)
(* allowance but for the new fees, and the edge survives costs and         *)
(* uncertainty (sizing.py size_position, utility.py, engine.py evaluate).  *)
THEOREM OpenedIsAlwaysWorthItsRisk == Spec => OpenedIsWorthItsRisk
<1>1. Init => SessionInv
  BY SessionStarts
<1>2. SessionInv /\ [Next]_vars => SessionInv'
  BY SessionStep
<1>3. SessionInv /\ [Next]_vars
      => [\A p \in book' \ book : NewRiskBounded(p) /\ OpenRiskBounded(p) /\ EdgeSurvivesCosts(p)]_vars
  BY OnlyDecisionsOpen, OpenedIsWorthIt
<1> QED
  BY <1>1, <1>2, <1>3, PTL DEF Spec, OpenedIsWorthItsRisk

=============================================================================
