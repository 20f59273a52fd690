---------------------------- MODULE RiskSession ----------------------------
(***************************************************************************)
(* One decision cycle as the risk controls see it (spy_der/pipeline.py     *)
(* step, spy_der/risk/engine.py evaluate, spy_der/risk/limits.py): exits   *)
(* are booked into the session, the session rolls to a new day, the kill   *)
(* switches are updated, and a candidate is approved or vetoed.            *)
(*                                                                         *)
(* Money is in whole units.  Positions are counted; how an order fills is  *)
(* module Execution's business.  The market, the models and the candidate  *)
(* enter as what the risk engine reads of them: a data-quality score, the  *)
(* set of environment switches their readings trip, and whether any check  *)
(* that does not latch (minutes to close, events, confidence, structural   *)
(* veto, the candidate's own limits, sizing to zero) refuses the trade.    *)
(***************************************************************************)
EXTENDS Integers, FiniteSets

CONSTANTS
    MaxDay,           \* bound: number of trading days
    MaxOpened,        \* bound: positions opened in a behaviour
    MaxOpen,          \* PortfolioLimits.max_open_strategies
    MaxTrades,        \* SessionLimits.max_trades_per_session
    MaxLosses,        \* SessionLimits.max_consecutive_losses
    DailyLossLimit,   \* SessionLimits.daily_loss_limit
    DailyLossPct,     \* SessionLimits.daily_loss_fraction, per cent
    DrawdownPct,      \* SessionLimits.max_drawdown_fraction, per cent
    MinDataQuality,   \* TradeLimits.min_data_quality
    DqThreshold,      \* DataQualityConfig.threshold
    Score,            \* data-quality scores
    Pnl,              \* realized results of a close
    OpenFee,          \* entry commission
    EnvReason,        \* switches tripped by the broker, the models or slippage
    StartingEquity

ASSUME LimitsAssumption ==
    /\ MaxOpen \in Nat \ {0} /\ MaxTrades \in Nat \ {0} /\ MaxLosses \in Nat \ {0}
    /\ DailyLossLimit \in Nat /\ DailyLossPct \in Nat /\ DrawdownPct \in Nat \ {0}
    /\ OpenFee \in Nat /\ StartingEquity \in Int
    /\ Pnl \subseteq Int /\ Score \subseteq Int
    /\ MinDataQuality \in Int /\ DqThreshold \in Int
    /\ MaxDay \in Nat \ {0} /\ MaxOpened \in Nat
    /\ EnvReason \subseteq {"BROKER_STATE", "MODEL_DISAGREEMENT", "CALIBRATION", "SLIPPAGE"}

VARIABLES
    kill,       \* KillSwitch.active: the reasons that are tripped
    session,    \* RiskEngine.session
    equity,     \* PaperBroker.equity
    open,       \* number of open positions in the portfolio
    today,      \* the date of the snapshots
    pc,         \* "idle", or "manage" while a cycle visits the open positions
    cycle,      \* of the last cycle: its DQ score and how it ended
    opened,     \* history: positions opened so far, bounded by MaxOpened
    opensToday, \* history: positions opened today
    dayPnl,     \* history: results realized today
    lossRun,    \* history: losing closes since the last winning one
    high        \* history: the highest equity since the first decision

sessionVars == <<kill, session, equity, open>>
historyVars == <<opened, opensToday, dayPnl, lossRun, high>>
vars        == <<sessionVars, today, pc, cycle, historyVars>>

\* The reasons the code trips (three more are declared and never used).
Reason == {"MANUAL", "DATA_QUALITY", "BROKER_STATE", "MODEL_DISAGREEMENT", "CALIBRATION",
           "DAILY_LOSS", "CONSECUTIVE_LOSSES", "DRAWDOWN", "SLIPPAGE"}

\* What evaluate reads of the environment.
Env == [trips: SUBSET EnvReason, veto: BOOLEAN]

Min2(a, b) == IF a <= b THEN a ELSE b
Max2(a, b) == IF a >= b THEN a ELSE b

----------------------------------------------------------------------------
(* SessionState *)

NewSession == [day |-> 0, pnl |-> 0, trades |-> 0, losses |-> 0, peak |-> 0]

\* A roll that also forgets the high-water mark.
RollForgettingPeak(s, day, eq) ==
    IF s.day = day THEN s
    ELSE [s EXCEPT !.day = day, !.pnl = 0, !.trades = 0, !.peak = eq]

\* A roll that starts the losing streak afresh.
RollForgettingLosses(s, day, eq) ==
    IF s.day = day THEN s
    ELSE [s EXCEPT !.day = day, !.pnl = 0, !.trades = 0, !.losses = 0, !.peak = Max2(@, eq)]

RollTo(s, day, eq) ==
    IF s.day = day THEN s
    ELSE [s EXCEPT !.day = day, !.pnl = 0, !.trades = 0, !.peak = Max2(@, eq)]

RecordTrade(s, pnl, eq) ==
    [s EXCEPT !.pnl    = @ + pnl,
              !.trades = @ + 1,
              !.losses = IF pnl < 0 THEN @ + 1 ELSE 0,
              !.peak   = Max2(@, eq)]

----------------------------------------------------------------------------
(* RiskEngine *)

\* _update_kill_switches: the limits the session is measured against.
DailyLossHit(s, eq) == 100 * s.pnl <= -Min2(100 * DailyLossLimit, DailyLossPct * eq)
StreakHit(s)        == s.losses >= MaxLosses
DrawdownHit(s, eq)  == s.peak > 0 /\ 100 * (s.peak - eq) >= DrawdownPct * s.peak

Trips(s, eq, score, env) ==
    env.trips
    \cup (IF score < MinDataQuality THEN {"DATA_QUALITY"} ELSE {})
    \cup (IF DailyLossHit(s, eq)    THEN {"DAILY_LOSS"} ELSE {})
    \cup (IF StreakHit(s)           THEN {"CONSECUTIVE_LOSSES"} ELSE {})
    \cup (IF DrawdownHit(s, eq)     THEN {"DRAWDOWN"} ELSE {})

\* Switches that hold only while their condition does.
TripWithoutLatch(k, reasons) == reasons

\* KillSwitch.trip: a reason that is active stays active.
TripLatched(k, reasons) == k \cup reasons

\* The session's trade limit compared the wrong way round the boundary.
ApprovedOneTooMany(s, k, env) ==
    /\ k = {} /\ ~env.veto /\ s.trades <= MaxTrades /\ equity > 0 /\ open < MaxOpen

\* evaluate: no reason of any kind to refuse.
Approved(s, k, env) ==
    /\ k = {}
    /\ ~env.veto
    /\ s.trades < MaxTrades
    /\ equity > 0
    /\ open < MaxOpen

----------------------------------------------------------------------------
(* The cycle *)

NoCycle == [score |-> DqThreshold, outcome |-> "ok"]

CycleInit ==
    /\ kill = {}
    /\ session = NewSession
    /\ equity = StartingEquity
    /\ open = 0
    /\ today = 1
    /\ pc = "idle"
    /\ cycle = NoCycle
    /\ opened = 0 /\ opensToday = 0 /\ dayPnl = 0 /\ lossRun = 0 /\ high = 0

\* The next trading day; open positions may be carried into it.
NewDay ==
    /\ pc = "idle" /\ today < MaxDay
    /\ today' = today + 1
    /\ opensToday' = 0 /\ dayPnl' = 0
    /\ UNCHANGED <<sessionVars, pc, cycle, opened, lossRun, high>>

\* step: assess the snapshot, then visit the open positions.  Which of them
\* signal an exit, under a switch or not, is left open here (module ExitRules).
BeginCycle(score) ==
    /\ pc = "idle"
    /\ pc' = "manage"
    /\ cycle' = [score |-> score, outcome |-> "ok"]
    /\ UNCHANGED <<sessionVars, today, historyVars>>

\* A position is closed: settle_position, then record_trade with the new equity.
ClosePosition(pnl) ==
    /\ pc = "manage" /\ open > 0
    /\ open' = open - 1
    /\ equity' = equity + pnl
    /\ session' = RecordTrade(session, pnl, equity')
    /\ dayPnl' = dayPnl + pnl
    /\ lossRun' = IF pnl < 0 THEN lossRun + 1 ELSE 0
    /\ high' = Max2(high, equity')
    /\ UNCHANGED <<kill, today, pc, cycle, opened, opensToday>>

\* The cycle ends in an exception: a disconnected broker while closing, a
\* feature or forecast error, a failing audit write.  Nothing is undone.
Raise ==
    /\ pc = "manage"
    /\ pc' = "idle"
    /\ cycle' = [cycle EXCEPT !.outcome = "raised"]
    /\ UNCHANGED <<sessionVars, today, historyVars>>

\* "data quality lockout": the cycle returns before the risk engine is asked.
Lockout ==
    /\ pc = "manage" /\ cycle.score < DqThreshold
    /\ pc' = "idle"
    /\ UNCHANGED <<sessionVars, today, cycle, historyVars>>

\* evaluate and, if approved, _execute; the audit write after it may raise.
Decide(env, fill, outcome) ==
    LET s == RollTo(session, today, equity)
        k == TripLatched(kill, Trips(s, equity, cycle.score, env))
        n == IF Approved(s, k, env) /\ fill THEN 1 ELSE 0
    IN  /\ pc = "manage" /\ cycle.score >= DqThreshold
        /\ opened + n <= MaxOpened
        /\ session' = s
        /\ kill'    = k
        /\ open'    = open + n
        /\ equity'  = equity - n * OpenFee
        /\ pc'      = "idle"
        /\ cycle'   = [cycle EXCEPT !.outcome = outcome]
        /\ opened'     = opened + n
        /\ opensToday' = opensToday + n
        /\ high'       = Max2(high, equity)
        /\ UNCHANGED <<today, dayPnl, lossRun>>

CycleStep ==
    \/ \E score \in Score : BeginCycle(score)
    \/ \E pnl \in Pnl : ClosePosition(pnl)
    \/ Raise
    \/ Lockout
    \/ \E env \in Env, fill \in BOOLEAN, outcome \in {"ok", "raised"} :
          Decide(env, fill, outcome)

Next == CycleStep \/ NewDay

Spec == CycleInit /\ [][Next]_vars

----------------------------------------------------------------------------
(* Properties *)

Session == [day: 0..MaxDay, pnl: Int, trades: Nat, losses: Nat, peak: Int]

\* Types of the risk and session state.
TypeOK ==
    /\ kill \subseteq Reason
    /\ session \in Session
    /\ equity \in Int /\ open \in Nat
    /\ today \in 1..MaxDay
    /\ pc \in {"idle", "manage"}
    /\ cycle \in [score: Score \cup {DqThreshold}, outcome: {"ok", "raised"}]
    /\ opened \in Nat /\ opensToday \in Nat /\ lossRun \in Nat
    /\ dayPnl \in Int /\ high \in Int

\* trades_today counts closes, the limit is checked on opens: however exits,
\* carried positions and day rolls interleave, a day sees at most MaxTrades
\* opens plus the positions that can be open at once less one.
OpensPerDayBounded == opensToday <= MaxTrades + MaxOpen - 1

\* Why: opens of today are closed again inside the rolled session (and counted)
\* or still open; before the roll nothing has been opened today.
OpensAreCounted ==
    /\ opensToday <= IF session.day = today THEN session.trades + open ELSE 0
    /\ open <= MaxOpen
    /\ session.day <= today

\* "Peak equity deliberately survives the roll: drawdown is measured from the
\* high-water mark" (risk/limits.py:109): the recorded peak is the highest
\* equity there has been since the first decision, across days and exits.
PeakIsHighWaterMark == session.day # 0 => session.peak = Max2(high, 0) /\ equity <= session.peak

\* "Switches latch" (risk/limits.py:151): no cycle clears a tripped reason, and
\* a position is opened only in a cycle that leaves every switch clear.
SwitchesLatch ==
    [][kill \subseteq kill' /\ (open' > open => kill' = {})]_vars

\* After MaxLosses losing closes in a row nothing is opened any more, even when
\* the streak spans several days.
StreakStopsTrading == [][open' > open => lossRun < MaxLosses]_vars

\* "An exit that frees risk budget must land before the portfolio limits are
\* read" (pipeline.py:107), the session limits included: nothing is opened on a
\* day whose realized loss has reached the daily limit.
DailyLossStopsTrading ==
    [][open' > open => 100 * dayPnl > -100 * DailyLossLimit]_vars
=============================================================================
