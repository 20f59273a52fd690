----------------------------- MODULE ExitRules ------------------------------
(***************************************************************************)
(* The exit contract of a position: what the optimizer writes into it      *)
(* (optimizer/engine.py _exit_plan), what the path simulator prices        *)
(* (simulation/exits.py), what the position manager enforces               *)
(* (execution/manager.py check_exit) and what is left of it after a        *)
(* restart (runtime/state_store.py).                                       *)
(*                                                                         *)
(* Time is counted in ticks of five minutes, the cadence of the decision   *)
(* cycle; money in dollars per contract; fractions and multiples in per    *)
(* cent.  The pipeline calls check_exit without a forecast, so the exit on *)
(* an invalidated state never fires and is left out.                       *)
(***************************************************************************)
EXTENDS Integers, Sequences, FiniteSetsExt

Cutoff == 6            \* close_before_expiry_minutes: 30
ShortestHold == 3      \* 15 minutes
LongestHold == 78      \* 390 minutes
HorizonFloor == 12     \* HORIZON_MINUTES["60m"]

-----------------------------------------------------------------------------
(* ExitPlan *)

Default(target, stop, multiple) == [target |-> target, stop |-> stop, multiple |-> multiple]

(* EXIT_DEFAULTS; a multiple of 0 is none.                                 *)
ExitDefaults(family) ==
    CASE family \in {"BullPutCreditSpread", "BearCallCreditSpread"} -> Default(50, 100, 200)
      [] family \in {"IronCondor", "AsymmetricCondor", "BrokenWingCondor"} -> Default(50, 100, 180)
      [] family = "IronButterfly" -> Default(35, 100, 150)
      [] family \in {"CallButterfly", "PutButterfly"} -> Default(55, 80, 0)
      [] family \in {"BrokenWingCallButterfly", "BrokenWingPutButterfly"} -> Default(50, 100, 0)
      [] family \in {"BullCallDebitSpread", "BearPutDebitSpread"} -> Default(65, 60, 0)
      [] family \in {"LongStraddle", "LongStrangle"} -> Default(80, 50, 0)
      [] family \in {"CallBackspread", "PutBackspread"} -> Default(75, 60, 0)
      [] family \in {"BullishCalendar", "BearishCalendar", "DoubleCalendar"} -> Default(45, 70, 0)
      [] family \in {"BullishDiagonal", "BearishDiagonal"} -> Default(50, 70, 0)
      [] OTHER -> Default(55, 80, 0)

(* The session, the life of the near leg less the buffer, or a day.        *)
Holding(toClose, toExpiry) ==
    Min({Max({ShortestHold, toClose}), Max({ShortestHold, toExpiry - Cutoff}), LongestHold})

PlanFor(family, toClose, toExpiry) ==
    [target |-> ExitDefaults(family).target, stop |-> ExitDefaults(family).stop,
     multiple |-> ExitDefaults(family).multiple, holding |-> Holding(toClose, toExpiry)]

(* _exit_plan_to_dict and back: the credit multiple is not written.        *)
Restored(plan) == [plan EXCEPT !.multiple = 0]

(* stop_loss_dollars, in cents, for a structure entered at cost.           *)
StopLoss(plan, maxLoss, cost) ==
    IF plan.multiple > 0 /\ cost < 0 THEN Min({plan.multiple * (-cost), 100 * maxLoss})
    ELSE plan.stop * maxLoss

(* The stop in the terms of the maximum loss alone.                        *)
StopIgnoringCredit(p) == p.plan.stop * p.maxLoss

(* stop_threshold, the manager's.                                          *)
StopThreshold(p) == StopLoss(p.plan, p.maxLoss, p.cost)

-----------------------------------------------------------------------------
(* Of the conditions that hold, the one that comes first in the order.     *)
FirstOf(order, holds) ==
    LET hits == { i \in DOMAIN order : order[i] \in holds }
    IN  IF hits = {} THEN "none" ELSE order[Min(hits)]

(* What holds of p, marked at pnl after having been held for some ticks.   *)
HitStop(stop, pnl) == IF 100 * pnl <= -stop THEN {"RISK_STOP"} ELSE {}
HitTarget(p, pnl) == IF 100 * pnl >= p.plan.target * p.maxProfit THEN {"PROFIT_TARGET"} ELSE {}
PastTimeStop(p, held) == IF held >= p.plan.holding THEN {"TIME_STOP"} ELSE {}

(* simulate_exits: the plan is the one of the entry, p.priced.             *)
SimulatorOrder == <<"ASSIGNMENT_RISK", "RISK_STOP", "PROFIT_TARGET", "TIME_STOP", "END_OF_SESSION">>

SimulatedExit(p, held, pnl) ==
    LET q == [p EXCEPT !.plan = p.priced]
    IN  FirstOf(SimulatorOrder,
            (IF held >= p.toExpiry - Cutoff THEN {"ASSIGNMENT_RISK"} ELSE {})
            \cup HitStop(StopLoss(q.plan, q.maxLoss, q.cost), pnl)
            \cup HitTarget(q, pnl) \cup PastTimeStop(q, held)
            \cup (IF held >= Min({LongestHold, Max({HorizonFloor, p.toClose, p.toExpiry})})
                  THEN {"END_OF_SESSION"} ELSE {}))

(* check_exit.                                                             *)
ManagerOrder ==
    <<"KILL_SWITCH", "ASSIGNMENT_RISK", "END_OF_SESSION", "RISK_STOP", "PROFIT_TARGET", "TIME_STOP">>

(* Only a short leg that is in the money is exposed to assignment.         *)
AssignmentExposure(p, held, itm) ==
    IF itm /\ p.toExpiry - held <= Cutoff THEN {"ASSIGNMENT_RISK"} ELSE {}

EndOfSession(p, held) == IF p.toClose - held <= Cutoff THEN {"END_OF_SESSION"} ELSE {}

CheckExit(p, held, pnl, itm, killed) ==
    FirstOf(ManagerOrder,
        (IF killed THEN {"KILL_SWITCH"} ELSE {})
        \cup AssignmentExposure(p, held, itm) \cup EndOfSession(p, held)
        \cup HitStop(StopThreshold(p), pnl) \cup HitTarget(p, pnl) \cup PastTimeStop(p, held))

=============================================================================
