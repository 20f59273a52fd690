-------------------------- MODULE SupervisorProofs --------------------------
(***************************************************************************)
(* Proofs about RiskSession, for any limits, results, scores and bounds,   *)
(* and about Supervisor, which runs its cycles, for any session length,    *)
(* cadence and failure budget.                                             *)
(***************************************************************************)
EXTENDS Supervisor, TLAPS

----------------------------------------------------------------------------
(* The operators of the session *)

\* What Max2 returns.
LEMMA MaxFacts ==
    ASSUME NEW a \in Int, NEW b \in Int
    PROVE  Max2(a, b) \in {a, b} /\ Max2(a, b) \in Int /\ a <= Max2(a, b) /\ b <= Max2(a, b)
  BY DEF Max2

\* roll_to lands on the day, keeps or clears the day's counters and never
\* touches the losing streak.
LEMMA RollEffect ==
    ASSUME NEW s \in Session, NEW d \in 1..MaxDay, NEW eq \in Int
    PROVE  LET r == RollTo(s, d, eq) IN
           /\ r \in Session /\ r.day = d /\ r.losses = s.losses
           /\ s.day = d => r = s
           /\ s.day # d => r.trades = 0 /\ r.peak = Max2(s.peak, eq)
<1>1. Max2(s.peak, eq) \in Int /\ d \in 0..MaxDay
  BY MaxFacts, LimitsAssumption DEF Session
<1>2. CASE s.day = d
  BY <1>2 DEF RollTo
<1>3. CASE s.day # d
  <2>1. PICK p \in Int, t \in Nat, m \in Int : p = 0 /\ t = 0 /\ m = Max2(s.peak, eq)
    BY <1>1
  <2> DEFINE r == [s EXCEPT !.day = d, !.pnl = p, !.trades = t, !.peak = m]
  <2>2. RollTo(s, d, eq) = r
    BY <1>3, <2>1 DEF RollTo
  <2>3. r \in Session /\ r.day = d /\ r.losses = s.losses /\ r.trades = t /\ r.peak = m
    BY <1>1 DEF Session
  <2> HIDE DEF r
  <2> QED
    BY <1>3, <2>1, <2>2, <2>3
<1> QED
  BY <1>2, <1>3

\* A close adds one trade, moves the streak and raises the peak.
LEMMA RecordEffect ==
    ASSUME NEW s \in Session, NEW pnl \in Int, NEW eq \in Int
    PROVE  LET r == RecordTrade(s, pnl, eq) IN
           /\ r \in Session /\ r.day = s.day /\ r.trades = s.trades + 1
           /\ r.losses = (IF pnl < 0 THEN s.losses + 1 ELSE 0)
           /\ r.peak = Max2(s.peak, eq)
<1>1. Max2(s.peak, eq) \in Int
  BY MaxFacts DEF Session
<1>2. s.trades + 1 \in Nat /\ s.pnl + pnl \in Int /\ (IF pnl < 0 THEN s.losses + 1 ELSE 0) \in Nat
  BY DEF Session
<1> QED
  BY <1>1, <1>2 DEF RecordTrade, Session

\* What a decision does, with the definitions of the engine unfolded once: it
\* opens at most one position, and only with every switch clear and every limit
\* respected.
LEMMA DecideEffect ==
    ASSUME TypeOK, NEW env \in Env, NEW fill \in BOOLEAN, NEW outcome \in {"ok", "raised"},
           Decide(env, fill, outcome)
    PROVE  /\ session' = RollTo(session, today, equity)
           /\ kill \subseteq kill' /\ kill' \subseteq Reason
           /\ today' = today /\ lossRun' = lossRun /\ high' = Max2(high, equity)
           /\ \/ /\ open' = open /\ opened' = opened /\ opensToday' = opensToday
                 /\ equity' = equity
              \/ /\ open' = open + 1 /\ opened' = opened + 1 /\ opensToday' = opensToday + 1
                 /\ equity' = equity - OpenFee
                 /\ kill' = {} /\ session'.trades < MaxTrades /\ open < MaxOpen
                 /\ session'.losses < MaxLosses /\ ~env.veto
<1> DEFINE s == RollTo(session, today, equity)
           k == TripLatched(kill, Trips(s, equity, cycle.score, env))
           n == IF Approved(s, k, env) /\ fill THEN 1 ELSE 0
<1>1. /\ session' = s /\ kill' = k /\ open' = open + n /\ equity' = equity - n * OpenFee
      /\ opened' = opened + n /\ opensToday' = opensToday + n
      /\ today' = today /\ lossRun' = lossRun /\ high' = Max2(high, equity)
  BY DEF Decide
<1>2. kill \subseteq k /\ Trips(s, equity, cycle.score, env) \subseteq k
  BY DEF TripLatched
<1>3. k \subseteq Reason
  BY LimitsAssumption DEF TripLatched, Trips, Env, TypeOK, Reason
<1>4. open \in Int /\ opened \in Int /\ opensToday \in Int /\ equity \in Int /\ OpenFee \in Int
  BY LimitsAssumption DEF TypeOK
<1>5. CASE ~(Approved(s, k, env) /\ fill)
  <2>1. n = 0
    BY <1>5
  <2> HIDE DEF n, k, s
  <2>2. open' = open /\ opened' = opened /\ opensToday' = opensToday /\ equity' = equity
    BY <1>1, <1>4, <2>1
  <2> QED
    BY <1>1, <1>2, <1>3, <2>2 DEF s
<1>6. CASE Approved(s, k, env) /\ fill
  <2>1. n = 1
    BY <1>6
  <2>2. k = {} /\ s.trades < MaxTrades /\ open < MaxOpen /\ ~env.veto
    BY <1>6 DEF Approved
  <2>3. ~StreakHit(s)
    BY <1>2, <2>2 DEF Trips
  <2>4. s \in Session
    BY RollEffect DEF TypeOK
  <2>5. s.losses < MaxLosses
    BY <2>3, <2>4, LimitsAssumption DEF StreakHit, Session
  <2> HIDE DEF n, k, s
  <2>6. /\ open' = open + 1 /\ opened' = opened + 1 /\ opensToday' = opensToday + 1
        /\ equity' = equity - OpenFee
    BY <1>1, <1>4, <2>1
  <2> QED
    BY <1>1, <1>2, <1>3, <2>2, <2>5, <2>6 DEF s
<1> QED
  BY <1>5, <1>6

----------------------------------------------------------------------------
(* Types *)

\* A fresh session is well typed.
LEMMA TypeInit == CycleInit => TypeOK
<1>1. NewSession \in Session
  BY LimitsAssumption DEF NewSession, Session
<1>2. NoCycle \in [score: Score \cup {DqThreshold}, outcome: {"ok", "raised"}]
  BY DEF NoCycle
<1>3. 1 \in 1..MaxDay /\ StartingEquity \in Int
  BY LimitsAssumption
<1> SUFFICES ASSUME CycleInit PROVE TypeOK
  OBVIOUS
<1>4. kill \subseteq Reason /\ session \in Session /\ equity \in Int /\ today \in 1..MaxDay
  BY <1>1, <1>3 DEF CycleInit
<1>5. cycle \in [score: Score \cup {DqThreshold}, outcome: {"ok", "raised"}]
  BY <1>2 DEF CycleInit
<1> QED
  BY <1>4, <1>5 DEF CycleInit, TypeOK

\* Every step keeps the types.
LEMMA TypeStep == TypeOK /\ [Next]_vars => TypeOK'
<1> SUFFICES ASSUME TypeOK, [Next]_vars PROVE TypeOK'
  OBVIOUS
<1> USE LimitsAssumption
<1>1. ASSUME NEW score \in Score, BeginCycle(score) PROVE TypeOK'
  BY <1>1 DEF BeginCycle, TypeOK, sessionVars, historyVars
<1>2. ASSUME NEW pnl \in Pnl, ClosePosition(pnl) PROVE TypeOK'
  <2>1. session' \in Session
    BY <1>2, RecordEffect DEF ClosePosition, TypeOK
  <2>2. high' \in Int
    BY <1>2, MaxFacts DEF ClosePosition, TypeOK
  <2>3. open' \in Nat /\ equity' \in Int /\ dayPnl' \in Int /\ lossRun' \in Nat
    BY <1>2 DEF ClosePosition, TypeOK
  <2> QED
    BY <1>2, <2>1, <2>2, <2>3 DEF ClosePosition, TypeOK
<1>3. CASE Raise
  BY <1>3 DEF Raise, TypeOK, sessionVars, historyVars
<1>4. CASE Lockout
  BY <1>4 DEF Lockout, TypeOK, sessionVars, historyVars
<1>5. ASSUME NEW env \in Env, NEW fill \in BOOLEAN, NEW outcome \in {"ok", "raised"},
             Decide(env, fill, outcome)
      PROVE  TypeOK'
  <2>1. session' \in Session
    BY <1>5, DecideEffect, RollEffect DEF TypeOK
  <2>2. high' \in Int
    BY <1>5, MaxFacts DEF Decide, TypeOK
  <2>3. cycle' \in [score: Score \cup {DqThreshold}, outcome: {"ok", "raised"}]
    BY <1>5 DEF Decide, TypeOK
  <2>4. /\ open' \in Nat /\ opened' \in Nat /\ opensToday' \in Nat /\ equity' \in Int
        /\ kill' \subseteq Reason
    BY <1>5, DecideEffect DEF TypeOK
  <2>5. pc' = "idle" /\ UNCHANGED <<today, dayPnl, lossRun>>
    BY <1>5 DEF Decide
  <2> QED
    BY <2>1, <2>2, <2>3, <2>4, <2>5 DEF TypeOK
<1>6. CASE NewDay
  BY <1>6 DEF NewDay, TypeOK, sessionVars
<1>7. CASE UNCHANGED vars
  BY <1>7 DEF vars, sessionVars, historyVars, TypeOK
<1> QED
  BY <1>1, <1>2, <1>3, <1>4, <1>5, <1>6, <1>7 DEF Next, CycleStep

\* The risk and session state is well typed in every behaviour.
THEOREM TypeCorrect == Spec => []TypeOK
  BY TypeInit, TypeStep, PTL DEF Spec

----------------------------------------------------------------------------
(* How many positions a day can open *)

\* Every step keeps today's opens accounted for.
LEMMA CountStep ==
    TypeOK /\ OpensAreCounted /\ OpensPerDayBounded /\ [Next]_vars
        => (OpensAreCounted /\ OpensPerDayBounded)'
<1> SUFFICES ASSUME TypeOK, OpensAreCounted, OpensPerDayBounded, [Next]_vars
             PROVE  (OpensAreCounted /\ OpensPerDayBounded)'
  OBVIOUS
<1> USE LimitsAssumption DEF OpensAreCounted, OpensPerDayBounded
<1>0. /\ session.day \in Int /\ session.trades \in Nat /\ today \in 1..MaxDay
      /\ open \in Nat /\ opensToday \in Nat /\ equity \in Int /\ session \in Session
  BY DEF TypeOK, Session
<1>1. ASSUME NEW score \in Score, BeginCycle(score)
      PROVE  (OpensAreCounted /\ OpensPerDayBounded)'
  BY <1>1 DEF BeginCycle, sessionVars, historyVars
<1>2. ASSUME NEW pnl \in Pnl, ClosePosition(pnl)
      PROVE  (OpensAreCounted /\ OpensPerDayBounded)'
  <2>1. session'.day = session.day /\ session'.trades = session.trades + 1
    BY <1>0, <1>2, RecordEffect DEF ClosePosition
  <2>2. open' = open - 1 /\ open > 0 /\ today' = today /\ opensToday' = opensToday
    BY <1>2 DEF ClosePosition
  <2> QED
    BY <1>0, <2>1, <2>2
<1>3. CASE Raise \/ Lockout
  BY <1>3 DEF Raise, Lockout, sessionVars, historyVars
<1>4. ASSUME NEW env \in Env, NEW fill \in BOOLEAN, NEW outcome \in {"ok", "raised"},
             Decide(env, fill, outcome)
      PROVE  (OpensAreCounted /\ OpensPerDayBounded)'
  <2>1. /\ session'.day = today /\ today' = today
        /\ session.day = today => session' = session
        /\ session.day # today => session'.trades = 0
    BY <1>0, <1>4, DecideEffect, RollEffect
  <2>2. opensToday <= session'.trades + open
    BY <1>0, <2>1
  <2>3. session'.trades \in Nat
    BY <1>0, <2>1
  <2>4. \/ open' = open /\ opensToday' = opensToday
        \/ /\ open' = open + 1 /\ opensToday' = opensToday + 1
           /\ session'.trades < MaxTrades /\ open < MaxOpen
    BY <1>4, DecideEffect
  <2> QED
    BY <1>0, <2>1, <2>2, <2>3, <2>4
<1>5. CASE NewDay
  <2>1. /\ today' = today + 1 /\ opensToday' = 0
        /\ session' = session /\ open' = open
    BY <1>5 DEF NewDay, sessionVars
  <2> QED
    BY <1>0, <2>1
<1>6. CASE UNCHANGED vars
  BY <1>6 DEF vars, sessionVars, historyVars
<1> QED
  BY <1>1, <1>2, <1>3, <1>4, <1>5, <1>6 DEF Next, CycleStep

\* A day opens at most MaxTrades positions plus the ones that can be open at once
\* less one, although the session counts closes and the limit is on opens.
THEOREM OpensBounded == Spec => []OpensPerDayBounded
<1>1. CycleInit => TypeOK /\ OpensAreCounted /\ OpensPerDayBounded
  BY TypeInit, LimitsAssumption
  DEF CycleInit, NewSession, OpensAreCounted, OpensPerDayBounded
<1>2. TypeOK /\ OpensAreCounted /\ OpensPerDayBounded /\ [Next]_vars
         => (TypeOK /\ OpensAreCounted /\ OpensPerDayBounded)'
  BY TypeStep, CountStep
<1> QED
  BY <1>1, <1>2, PTL DEF Spec

----------------------------------------------------------------------------
(* The high-water mark *)

\* PeakIsHighWaterMark and what holds before the first decision.
PeakInv ==
    /\ PeakIsHighWaterMark
    /\ session.day = 0 => open = 0 /\ session.peak = 0 /\ high = 0

\* Every step keeps the recorded peak equal to the highest equity.
LEMMA PeakStep == TypeOK /\ PeakInv /\ [Next]_vars => PeakInv'
<1> SUFFICES ASSUME TypeOK, PeakInv, [Next]_vars PROVE PeakInv'
  OBVIOUS
<1> USE LimitsAssumption DEF PeakInv, PeakIsHighWaterMark
<1>0. /\ session \in Session /\ session.day \in Nat /\ session.peak \in Int
      /\ today \in 1..MaxDay /\ open \in Nat /\ equity \in Int /\ high \in Int
  BY DEF TypeOK, Session
<1>1. ASSUME NEW score \in Score, BeginCycle(score) PROVE PeakInv'
  BY <1>1 DEF BeginCycle, sessionVars, historyVars
<1>2. ASSUME NEW pnl \in Pnl, ClosePosition(pnl) PROVE PeakInv'
  <2>1. equity' \in Int /\ high' = Max2(high, equity') /\ open > 0
    BY <1>0, <1>2 DEF ClosePosition
  <2>2. session'.day = session.day /\ session'.peak = Max2(session.peak, equity')
    BY <1>0, <1>2, <2>1, RecordEffect DEF ClosePosition
  <2>3. session.day # 0
    BY <2>1
  <2> QED
    BY <1>0, <2>1, <2>2, <2>3 DEF Max2
<1>3. CASE Raise \/ Lockout
  BY <1>3 DEF Raise, Lockout, sessionVars, historyVars
<1>4. ASSUME NEW env \in Env, NEW fill \in BOOLEAN, NEW outcome \in {"ok", "raised"},
             Decide(env, fill, outcome)
      PROVE  PeakInv'
  <2>1. /\ session'.day = today /\ today # 0
        /\ session.day = today => session' = session
        /\ session.day # today => session'.peak = Max2(session.peak, equity)
    <3>1. /\ TypeOK /\ session \in Session /\ today \in 1..MaxDay /\ equity \in Int
      BY <1>0 DEF TypeOK
    <3>2. session' = RollTo(session, today, equity)
      BY <1>4, <3>1, DecideEffect, Zenon
    <3> QED
      BY <3>1, <3>2, RollEffect
  <2>2. high' = Max2(high, equity) /\ equity' \in {equity, equity - OpenFee}
    BY <1>4, DecideEffect
  <2>3. session'.peak = Max2(high', 0) /\ equity <= session'.peak
    BY <1>0, <2>1, <2>2 DEF Max2
  <2>4. session'.peak \in Int
    <3>1. Max2(session.peak, equity) \in Int
      BY <1>0, MaxFacts, Zenon
    <3> QED
      BY <1>0, <2>1, <3>1
  <2> QED
    BY <1>0, <2>1, <2>2, <2>3, <2>4
<1>5. CASE NewDay
  BY <1>5 DEF NewDay, sessionVars
<1>6. CASE UNCHANGED vars
  BY <1>6 DEF vars, sessionVars, historyVars
<1> QED
  BY <1>1, <1>2, <1>3, <1>4, <1>5, <1>6 DEF Next, CycleStep

\* The recorded peak is the highest equity since the first decision, over all
\* exits, entries, failed cycles and day rolls.
THEOREM PeakIsTheHighWaterMark == Spec => []PeakIsHighWaterMark
<1>1. CycleInit => TypeOK /\ PeakInv
  BY TypeInit DEF CycleInit, NewSession, PeakInv, PeakIsHighWaterMark
<1>2. TypeOK /\ PeakInv /\ [Next]_vars => (TypeOK /\ PeakInv)'
  BY TypeStep, PeakStep
<1>3. PeakInv => PeakIsHighWaterMark
  BY DEF PeakInv
<1> QED
  BY <1>1, <1>2, <1>3, PTL DEF Spec

----------------------------------------------------------------------------
(* Switches and the losing streak *)

\* No step clears a switch, and a position is opened only with all of them clear.
LEMMA LatchStep ==
    ASSUME TypeOK, [Next]_vars
    PROVE  kill \subseteq kill' /\ (open' > open => kill' = {})
<1>0. open \in Nat
  BY DEF TypeOK
<1>1. ASSUME NEW pnl \in Pnl, ClosePosition(pnl)
      PROVE  kill \subseteq kill' /\ ~(open' > open)
  BY <1>0, <1>1 DEF ClosePosition
<1>2. ASSUME NEW env \in Env, NEW fill \in BOOLEAN, NEW outcome \in {"ok", "raised"},
             Decide(env, fill, outcome)
      PROVE  kill \subseteq kill' /\ (open' > open => kill' = {})
  BY <1>0, <1>2, DecideEffect
<1>3. CASE (\E score \in Score : BeginCycle(score)) \/ Raise \/ Lockout \/ NewDay \/ UNCHANGED vars
  <2>1. kill' = kill /\ open' = open
    BY <1>3 DEF BeginCycle, Raise, Lockout, NewDay, vars, sessionVars
  <2> QED
    BY <1>0, <2>1
<1> QED
  BY <1>1, <1>2, <1>3 DEF Next, CycleStep

\* A tripped switch stays tripped and nothing is opened under one.
THEOREM SwitchesAlwaysLatch == Spec => SwitchesLatch
<1>1. TypeOK /\ [Next]_vars => [kill \subseteq kill' /\ (open' > open => kill' = {})]_vars
  BY LatchStep
<1> QED
  BY <1>1, TypeInit, TypeStep, PTL DEF Spec, SwitchesLatch

\* The session's streak is the number of losing closes since the last winner.
StreakInv == session.losses = lossRun

\* Every step keeps the recorded streak equal to the real one.
LEMMA StreakStep == TypeOK /\ StreakInv /\ [Next]_vars => StreakInv'
<1> SUFFICES ASSUME TypeOK, StreakInv, [Next]_vars PROVE StreakInv'
  OBVIOUS
<1> USE LimitsAssumption DEF StreakInv
<1>0. session \in Session /\ today \in 1..MaxDay /\ equity \in Int
  BY DEF TypeOK
<1>1. ASSUME NEW pnl \in Pnl, ClosePosition(pnl) PROVE StreakInv'
  BY <1>0, <1>1, RecordEffect DEF ClosePosition
<1>2. ASSUME NEW env \in Env, NEW fill \in BOOLEAN, NEW outcome \in {"ok", "raised"},
             Decide(env, fill, outcome)
      PROVE  StreakInv'
  BY <1>0, <1>2, DecideEffect, RollEffect
<1>3. CASE (\E score \in Score : BeginCycle(score)) \/ Raise \/ Lockout \/ NewDay \/ UNCHANGED vars
  BY <1>3 DEF BeginCycle, Raise, Lockout, NewDay, vars, sessionVars, historyVars
<1> QED
  BY <1>1, <1>2, <1>3 DEF Next, CycleStep

\* After MaxLosses losing closes in a row nothing is opened any more, on no day.
THEOREM StreakAlwaysStops == Spec => StreakStopsTrading
<1>1. CycleInit => TypeOK /\ StreakInv
  BY TypeInit DEF CycleInit, NewSession, StreakInv
<1>2. TypeOK /\ StreakInv /\ [Next]_vars => (TypeOK /\ StreakInv)'
  BY TypeStep, StreakStep
<1>3. ASSUME TypeOK, StreakInv, [Next]_vars, open' > open
      PROVE  lossRun < MaxLosses
  <2>0. open \in Nat /\ session \in Session /\ today \in 1..MaxDay /\ equity \in Int
    BY <1>3 DEF TypeOK
  <2>1. ASSUME NEW env \in Env, NEW fill \in BOOLEAN, NEW outcome \in {"ok", "raised"},
               Decide(env, fill, outcome)
        PROVE  lossRun < MaxLosses
    <3>1. session'.losses = session.losses /\ session'.losses < MaxLosses
      BY <1>3, <2>0, <2>1, DecideEffect, RollEffect
    <3> QED
      BY <1>3, <3>1 DEF StreakInv
  <2>2. CASE \E pnl \in Pnl : ClosePosition(pnl)
    BY <1>3, <2>0, <2>2 DEF ClosePosition
  <2>3. CASE (\E score \in Score : BeginCycle(score)) \/ Raise \/ Lockout \/ NewDay
                \/ UNCHANGED vars
    BY <1>3, <2>0, <2>3 DEF BeginCycle, Raise, Lockout, NewDay, vars, sessionVars
  <2> QED
    BY <1>3, <2>1, <2>2, <2>3 DEF Next, CycleStep
<1>4. TypeOK /\ StreakInv /\ [Next]_vars => [open' > open => lossRun < MaxLosses]_vars
  BY <1>3
<1> QED
  BY <1>1, <1>2, <1>4, PTL DEF Spec, StreakStopsTrading

----------------------------------------------------------------------------
(* Types *)

\* A run that used up its failure budget is on its way out, under MANUAL.  With
\* it the type of the failure counter is inductive.
HaltInv ==
    failures >= MaxFailures =>
        stop /\ "MANUAL" \in kill /\ phase \in {"sleep", "loop", "stopping"}

RunInv == RunTypeOK /\ HaltInv

\* The first start is well typed.
LEMMA RunInitInv == RunInit => RunInv
<1> SUFFICES ASSUME RunInit PROVE RunInv
  OBVIOUS
<1>1. TypeOK
  BY TypeInit DEF RunInit
<1>2. disk = [kill |-> {}, session |-> session, equity |-> equity, open |-> open]
  BY DEF RunInit, Capture
<1>3. disk \in Stored
  BY <1>1, <1>2 DEF Stored, TypeOK
<1>4. stop \in BOOLEAN
  BY Zenon DEF RunInit
<1>5. unsaved \in Unsaved
  BY DEF RunInit, Saved, Unsaved
<1>6. failures = 0 /\ closedDay = 0 /\ left = SessionMinutes /\ phase = "down"
  BY DEF RunInit
<1> QED
  BY <1>1, <1>3, <1>4, <1>5, <1>6, RunAssumption, LimitsAssumption
  DEF RunInv, RunTypeOK, HaltInv, Phase

\* What the history of unsaved cycles becomes.
LEMMA UnsavedFacts ==
    ASSUME unsaved \in Unsaved, NEW b \in BOOLEAN
    PROVE  /\ CountedUnsaved(b) \in Unsaved
           /\ CountedUnsaved(b).cycles <= unsaved.cycles + 1 /\ CountedUnsaved(b).lost = b
           /\ [unsaved EXCEPT !.touched = b] \in Unsaved
           /\ [unsaved EXCEPT !.touched = b].cycles = unsaved.cycles
           /\ [unsaved EXCEPT !.touched = b].lost = unsaved.lost
<1>1. PICK u \in Nat, t \in BOOLEAN, l \in BOOLEAN :
         unsaved = [cycles |-> u, touched |-> t, lost |-> l]
  BY DEF Unsaved
<1>2. CountedUnsaved(b) = [cycles |-> u + (IF t THEN 1 ELSE 0), touched |-> FALSE, lost |-> b]
  BY <1>1 DEF CountedUnsaved
<1>3. PICK v \in Nat : v = u + (IF t THEN 1 ELSE 0) /\ v <= u + 1
  OBVIOUS
<1>4. [cycles |-> v, touched |-> FALSE, lost |-> b] \in Unsaved
  BY Zenon DEF Unsaved
<1>5. [unsaved EXCEPT !.touched = b] = [cycles |-> u, touched |-> b, lost |-> l]
  BY <1>1
<1>6. [cycles |-> u, touched |-> b, lost |-> l] \in Unsaved
  BY Zenon DEF Unsaved
<1> QED
  BY <1>1, <1>2, <1>3, <1>4, <1>5, <1>6

\* A save stores a well-typed row, or nothing.
LEMMA SaveTypes ==
    ASSUME RunTypeOK, NEW k \in SUBSET Reason, Save(k)
    PROVE  disk' \in Stored /\ unsaved' \in Unsaved
<1>1. Capture(k) \in Stored
  BY DEF Capture, Stored, RunTypeOK, TypeOK
<1>2. Saved \in Unsaved
  BY DEF Saved, Unsaved
<1>3. CountedUnsaved(TRUE) \in Unsaved
  BY UnsavedFacts DEF RunTypeOK
<1> QED
  BY <1>1, <1>2, <1>3 DEF Save, RunTypeOK

\* The memory of a process that is gone is well typed.
LEMMA ForgetTypes ==
    ASSUME RunTypeOK, ForgetMemory
    PROVE  TypeOK' /\ stop' = FALSE /\ failures' = 0 /\ closedDay' = 0 /\ open' = 0
<1>1. NewSession \in Session
  BY LimitsAssumption DEF NewSession, Session
<1>2. NoCycle \in [score: Score \cup {DqThreshold}, outcome: {"ok", "raised"}]
  BY DEF NoCycle
<1>4. /\ session' \in Session
      /\ cycle' \in [score: Score \cup {DqThreshold}, outcome: {"ok", "raised"}]
  BY <1>1, <1>2 DEF ForgetMemory
<1>5. kill' \subseteq Reason /\ equity' \in Int /\ today' \in 1..MaxDay /\ opened' \in Nat
  BY LimitsAssumption DEF ForgetMemory, RunTypeOK, TypeOK
<1>6. TypeOK'
  BY <1>4, <1>5 DEF ForgetMemory, TypeOK
<1> QED
  BY <1>6 DEF ForgetMemory

\* Steps that leave the cycle's state alone but for the switches and the
\* program counter keep its types.
LEMMA FrameTypes ==
    ASSUME TypeOK, UNCHANGED <<session, equity, open, today, cycle, historyVars>>,
           kill' \subseteq Reason, pc' \in {"idle", "manage"}
    PROVE  TypeOK'
  BY DEF TypeOK, historyVars

\* Time keeps the types of the cycle and of the clock.
LEMMA TimeTypes ==
    ASSUME RunTypeOK, (\E d \in Gap : Minutes(d)) \/ NextSession \/ NoTime
    PROVE  TypeOK' /\ left' \in 0..SessionMinutes /\ kill' = kill
<1>1. ASSUME NEW d \in Gap, Minutes(d)
      PROVE  UNCHANGED vars /\ left' \in 0..SessionMinutes
  BY <1>1, RunAssumption DEF Minutes, RunTypeOK, Max2
<1>2. CASE NextSession
  <2>1. NewDay /\ left' \in 0..SessionMinutes
    BY <1>2, RunAssumption DEF NextSession
  <2> QED
    BY <2>1, TypeStep DEF Next, RunTypeOK, NewDay, sessionVars
<1>3. ASSUME UNCHANGED vars PROVE TypeOK' /\ kill' = kill
  BY <1>3, TypeStep DEF RunTypeOK, vars, sessionVars
<1> QED
  BY <1>1, <1>2, <1>3 DEF NoTime, RunTypeOK

\* The program counter and the phases of a step, as FrameTypes needs them.
LEMMA RunStepInv == RunInv /\ [RunNext]_allVars => RunInv'
<1> SUFFICES ASSUME RunInv, [RunNext]_allVars PROVE RunInv'
  OBVIOUS
<1> USE RunAssumption
<1>0. /\ RunTypeOK /\ TypeOK /\ HaltInv /\ failures \in 0..MaxFailures /\ stop \in BOOLEAN
      /\ unsaved \in Unsaved /\ left \in 0..SessionMinutes
      /\ phase \in Phase /\ closedDay \in 0..MaxDay /\ disk \in Stored /\ today \in 1..MaxDay
      /\ kill \subseteq Reason
  BY DEF RunInv, RunTypeOK, TypeOK
<1>1. ASSUME NEW rebuilt \in 0..disk.open, Startup(rebuilt) PROVE RunInv'
  <2>1. kill' \subseteq Reason
    BY <1>0, <1>1 DEF Startup, RestoredSwitches, Stored, Reason
  <2>2. session' \in Session /\ equity' \in Int /\ open' \in Nat
    BY <1>0, <1>1 DEF Startup, Stored
  <2>3. TypeOK'
    BY <1>0, <1>1, <2>1, <2>2 DEF Startup, TypeOK, historyVars
  <2>4. unsaved' \in Unsaved
    BY <1>1 DEF Startup, Saved, Unsaved
  <2>5. ~(failures >= MaxFailures)
    BY <1>0, <1>1 DEF HaltInv, Startup
  <2> QED
    BY <1>0, <1>1, <2>3, <2>4, <2>5 DEF Startup, RunInv, RunTypeOK, HaltInv, Phase
<1>2. CASE Signal
  <2>1. TypeOK'
    BY <1>0, <1>2, TypeStep DEF Signal
  <2>2. kill' = kill
    BY <1>2 DEF Signal, vars, sessionVars
  <2>3. stop' \in BOOLEAN /\ stop'
    BY <1>2, Zenon DEF Signal
  <2> QED
    BY <1>0, <1>2, <2>1, <2>2, <2>3 DEF Signal, RunInv, RunTypeOK, HaltInv
<1>3. CASE Crash
  <2>1. TypeOK' /\ stop' = FALSE /\ failures' = 0 /\ closedDay' = 0
    BY <1>0, <1>3, ForgetTypes DEF Crash
  <2>2. stop' \in BOOLEAN
    BY <2>1, Zenon
  <2> QED
    BY <1>0, <1>3, <2>1, <2>2, LimitsAssumption DEF Crash, RunInv, RunTypeOK, HaltInv, Phase
<1>4. CASE Shutdown
  <2>1. TypeOK' /\ stop' = FALSE /\ failures' = 0 /\ closedDay' = 0
    BY <1>0, <1>4, ForgetTypes DEF Shutdown
  <2>2. stop' \in BOOLEAN
    BY <2>1, Zenon
  <2>3. disk' \in Stored /\ unsaved' \in Unsaved
    BY <1>0, <1>4, SaveTypes DEF Shutdown
  <2> QED
    BY <1>0, <1>4, <2>1, <2>2, <2>3, LimitsAssumption
    DEF Shutdown, RunInv, RunTypeOK, HaltInv, Phase
<1>5. CASE LoopHead
  <2>1. pc' \in {"idle", "manage"} /\ kill' = kill
        /\ UNCHANGED <<session, equity, open, today, cycle, historyVars>>
    BY <1>5 DEF LoopHead, sessionVars
  <2>2. TypeOK'
    BY <1>0, <2>1, FrameTypes
  <2>3. phase' \in Phase /\ (stop => phase' = "stopping")
    BY <1>5 DEF LoopHead, Phase
  <2> QED
    BY <1>0, <1>5, <2>1, <2>2, <2>3 DEF LoopHead, RunInv, RunTypeOK, HaltInv
<1>6. ASSUME NEW pnl \in Pnl, FlattenClose(pnl) \/ CycleCloses(pnl) PROVE RunInv'
  <2>1. ClosePosition(pnl) /\ UNCHANGED <<processVars, left, disk>> /\ Touch
    BY <1>6 DEF FlattenClose, CycleCloses
  <2>2. TypeOK' /\ kill' = kill
    BY <1>0, <2>1, TypeStep DEF Next, CycleStep, ClosePosition
  <2>3. unsaved' \in Unsaved
    BY <1>0, <2>1, UnsavedFacts DEF Touch
  <2> QED
    BY <1>0, <2>1, <2>2, <2>3 DEF RunInv, RunTypeOK, HaltInv, processVars
<1>7. CASE FlattenDone
  <2>1. Stranded \subseteq Reason /\ kill \subseteq Stranded
    BY <1>0 DEF Stranded, Reason
  <2>2. TypeOK'
    BY <1>0, <1>7, <2>1, FrameTypes DEF FlattenDone
  <2>3. disk' \in Stored /\ unsaved' \in Unsaved
    BY <1>0, <1>7, <2>1, SaveTypes DEF FlattenDone
  <2>4. ~(failures >= MaxFailures)
    BY <1>0, <1>7 DEF HaltInv, FlattenDone
  <2>5. closedDay' \in 0..MaxDay
    BY <1>0, <1>7, LimitsAssumption DEF FlattenDone
  <2> QED
    BY <1>0, <1>7, <2>2, <2>3, <2>4, <2>5 DEF FlattenDone, RunInv, RunTypeOK, HaltInv, Phase
<1>8. CASE FlattenRaises
  <2>1. TypeOK'
    BY <1>0, <1>8, FrameTypes DEF FlattenRaises, sessionVars
  <2>2. ~(failures >= MaxFailures)
    BY <1>0, <1>8 DEF HaltInv, FlattenRaises
  <2> QED
    BY <1>0, <1>8, <2>1, <2>2 DEF FlattenRaises, RunInv, RunTypeOK, HaltInv, Phase
<1>9. ASSUME NEW score \in Score, SnapshotArrives(score) PROVE RunInv'
  <2>1. TypeOK'
    BY <1>0, <1>9, TypeStep DEF SnapshotArrives, Next, CycleStep
  <2>2. ~(failures >= MaxFailures)
    BY <1>0, <1>9 DEF HaltInv, SnapshotArrives
  <2> QED
    BY <1>0, <1>9, <2>1, <2>2 DEF SnapshotArrives, RunInv, RunTypeOK, HaltInv, Phase
<1>10. CASE SnapshotRaises \/ CycleRaises \/ CycleLockout
  <2>1. TypeOK'
    BY <1>0, <1>10, TypeStep DEF SnapshotRaises, CycleRaises, CycleLockout, Next, CycleStep
  <2>2. ~(failures >= MaxFailures)
    BY <1>0, <1>10 DEF HaltInv, SnapshotRaises, CycleRaises, CycleLockout
  <2> QED
    BY <1>0, <1>10, <2>1, <2>2
    DEF SnapshotRaises, CycleRaises, CycleLockout, RunInv, RunTypeOK, HaltInv, Phase
<1>11. ASSUME NEW env \in Env, NEW fill \in BOOLEAN, NEW outcome \in {"ok", "raised"},
              CycleDecides(env, fill, outcome)
       PROVE  RunInv'
  <2>1. TypeOK'
    BY <1>0, <1>11, TypeStep DEF CycleDecides, Next, CycleStep
  <2>2. ~(failures >= MaxFailures)
    BY <1>0, <1>11 DEF HaltInv, CycleDecides
  <2>3. unsaved' \in Unsaved
    BY <1>0, <1>11, UnsavedFacts DEF CycleDecides
  <2> QED
    BY <1>0, <1>11, <2>1, <2>2, <2>3 DEF CycleDecides, RunInv, RunTypeOK, HaltInv, Phase
<1>12. CASE CycleSaved
  <2>1. TypeOK'
    BY <1>0, <1>12, TypeStep DEF CycleSaved
  <2>2. disk' \in Stored /\ unsaved' \in Unsaved
    BY <1>0, <1>12, SaveTypes DEF CycleSaved
  <2> QED
    BY <1>0, <1>12, <2>1, <2>2 DEF CycleSaved, RunInv, RunTypeOK, HaltInv, Phase
<1>13. CASE OnFailure
  <2>0. unsaved.lost \in BOOLEAN
    BY <1>0, Zenon DEF Unsaved
  <2>1. failures < MaxFailures
    BY <1>0, <1>13 DEF HaltInv, OnFailure
  <2>2. kill' \subseteq Reason /\ pc' = pc
    BY <1>0, <1>13 DEF OnFailure, Reason
  <2>3. TypeOK'
    BY <1>0, <1>13, <2>2, FrameTypes DEF OnFailure, TypeOK
  <2>4. unsaved' \in Unsaved
    BY <1>0, <1>13, <2>0, UnsavedFacts DEF OnFailure
  <2>5. failures' \in 0..MaxFailures
    BY <1>0, <1>13, <2>1 DEF OnFailure
  <2>6. HaltInv'
    BY <1>13 DEF OnFailure, HaltInv, Halts
  <2>7. stop' \in BOOLEAN
    BY <1>0, <1>13 DEF OnFailure, Halts
  <2> QED
    BY <1>0, <1>13, <2>3, <2>4, <2>5, <2>6, <2>7 DEF OnFailure, RunInv, RunTypeOK, Phase
<1>14. CASE Sleep
  <2>1. TypeOK' /\ left' \in 0..SessionMinutes /\ kill' = kill
    BY <1>0, <1>14, TimeTypes DEF Sleep
  <2> QED
    BY <1>0, <1>14, <2>1 DEF Sleep, RunInv, RunTypeOK, HaltInv, Phase
<1>15. CASE DownTime
  <2>1. TypeOK' /\ left' \in 0..SessionMinutes /\ kill' = kill
    BY <1>0, <1>15, TimeTypes DEF DownTime
  <2> QED
    BY <1>0, <1>15, <2>1 DEF DownTime, RunInv, RunTypeOK, HaltInv, processVars
<1>16. CASE UNCHANGED allVars
  <2>1. TypeOK' /\ kill' = kill
    BY <1>0, <1>16, TypeStep DEF allVars, vars, sessionVars
  <2> QED
    BY <1>0, <1>16, <2>1 DEF allVars, runVars, processVars, RunInv, RunTypeOK, HaltInv
<1> QED
  BY <1>1, <1>2, <1>3, <1>4, <1>5, <1>6, <1>7, <1>8, <1>9, <1>10, <1>11, <1>12, <1>13,
     <1>14, <1>15, <1>16 DEF RunNext, ProcessStep

\* The supervised run is well typed in every behaviour: in particular the failure
\* counter never passes its limit, across stops, crashes and restarts.
THEOREM RunTypeCorrect == RunSpec => []RunTypeOK
<1>1. RunInv => RunTypeOK
  BY DEF RunInv
<1> QED
  BY <1>1, RunInitInv, RunStepInv, PTL DEF RunSpec

----------------------------------------------------------------------------
(* A restart never clears a lockout *)

\* What a step does to the switches: a running process never drops one, and
\* whatever is saved is what the process has.
LEMMA SwitchStep ==
    ASSUME RunInv, SavedLatchHolds, [RunNext]_allVars
    PROVE  /\ disk.kill \subseteq disk'.kill
           /\ phase' # "down" => disk'.kill \subseteq kill'
<1>0. RunTypeOK /\ TypeOK /\ (phase # "down" => disk.kill \subseteq kill)
  BY DEF RunInv, RunTypeOK, SavedLatchHolds, Up
<1>1. ASSUME NEW rebuilt \in 0..disk.open, Startup(rebuilt)
      PROVE  disk' = disk /\ disk.kill \subseteq kill'
  BY <1>1 DEF Startup, RestoredSwitches
<1>2. ASSUME NEW k, Save(k), disk.kill \subseteq k
      PROVE  disk.kill \subseteq disk'.kill /\ disk'.kill \subseteq k
  <2>1. disk' = Capture(k) \/ disk' = disk
    BY <1>2 DEF Save
  <2>2. CASE disk' = Capture(k)
    BY <1>2, <2>2 DEF Capture
  <2>3. CASE disk' = disk
    BY <1>2, <2>3
  <2> QED
    BY <2>1, <2>2, <2>3
<1>3. CASE Signal \/ LoopHead \/ FlattenRaises \/ SnapshotRaises \/ CycleRaises \/ CycleLockout
  BY <1>0, <1>3 DEF Signal, LoopHead, FlattenRaises, SnapshotRaises, CycleRaises, CycleLockout,
     Raise, Lockout, Up, vars, sessionVars
<1>4. CASE Crash
  BY <1>4 DEF Crash
<1>5. CASE Shutdown
  BY <1>0, <1>2, <1>5 DEF Shutdown
<1>6. ASSUME NEW pnl \in Pnl, FlattenClose(pnl) \/ CycleCloses(pnl)
      PROVE  disk' = disk /\ kill' = kill /\ phase # "down"
  BY <1>6 DEF FlattenClose, CycleCloses, ClosePosition
<1>7. CASE FlattenDone
  <2>1. disk.kill \subseteq Stranded
    BY <1>0, <1>7 DEF FlattenDone, Stranded
  <2> QED
    BY <1>2, <1>7, <2>1 DEF FlattenDone
<1>8. ASSUME NEW score \in Score, SnapshotArrives(score)
      PROVE  disk' = disk /\ kill' = kill /\ phase # "down"
  BY <1>8 DEF SnapshotArrives, BeginCycle, sessionVars
<1>9. ASSUME NEW env \in Env, NEW fill \in BOOLEAN, NEW outcome \in {"ok", "raised"},
             CycleDecides(env, fill, outcome)
      PROVE  disk' = disk /\ kill \subseteq kill' /\ phase # "down"
  BY <1>0, <1>9, DecideEffect DEF CycleDecides
<1>10. CASE CycleSaved
  <2>1. kill' = kill /\ disk.kill \subseteq kill /\ Save(kill)
    BY <1>0, <1>10 DEF CycleSaved, vars, sessionVars
  <2> QED
    BY <1>2, <2>1
<1>11. CASE OnFailure
  BY <1>0, <1>11 DEF OnFailure
<1>12. CASE Sleep
  <2>1. kill' = kill
    BY <1>0, <1>12, TimeTypes DEF Sleep
  <2> QED
    BY <1>0, <1>12, <2>1 DEF Sleep
<1>13. CASE DownTime
  BY <1>13 DEF DownTime, processVars
<1>14. CASE UNCHANGED allVars
  BY <1>0, <1>14 DEF allVars, runVars, processVars, vars, sessionVars
<1> QED
  BY <1>0, <1>1, <1>3, <1>4, <1>5, <1>6, <1>7, <1>8, <1>9, <1>10, <1>11, <1>12, <1>13, <1>14
  DEF RunNext, ProcessStep

\* Types and the stored switches, together, hold in every run.
LEMMA LatchInv ==
    /\ RunInit => RunInv /\ SavedLatchHolds
    /\ RunInv /\ SavedLatchHolds /\ [RunNext]_allVars => (RunInv /\ SavedLatchHolds)'
<1>1. RunInit => RunInv /\ SavedLatchHolds
  BY RunInitInv DEF RunInit, SavedLatchHolds, Up
<1>2. RunInv /\ SavedLatchHolds /\ [RunNext]_allVars => (RunInv /\ SavedLatchHolds)'
  BY RunStepInv, SwitchStep DEF SavedLatchHolds, Up
<1> QED
  BY <1>1, <1>2

\* A running process has every switch that was ever saved, whatever crashes,
\* failed saves and restarts came before.
THEOREM RestartKeepsLatch == RunSpec => []SavedLatchHolds
  BY LatchInv, PTL DEF RunSpec

\* The stored switches only grow, and a run whose stored state has one up opens
\* nothing.
THEOREM StoredLatchStays == RunSpec => StoredLatchIsFinal
<1>1. ASSUME RunInv, SavedLatchHolds, [RunNext]_allVars, phase = "cycle", open' > open
      PROVE  disk.kill = {}
  <2>0. TypeOK /\ RunTypeOK /\ open \in Nat /\ disk.kill \subseteq kill
    BY <1>1 DEF RunInv, RunTypeOK, TypeOK, SavedLatchHolds, Up
  <2>1. ASSUME NEW env \in Env, NEW fill \in BOOLEAN, NEW outcome \in {"ok", "raised"},
               CycleDecides(env, fill, outcome)
        PROVE  disk.kill = {}
    <3>1. kill \subseteq kill' /\ (open' = open \/ kill' = {})
      BY <2>0, <2>1, DecideEffect DEF CycleDecides
    <3> QED
      BY <1>1, <2>0, <3>1
  <2>2. ASSUME NEW pnl \in Pnl, CycleCloses(pnl) PROVE FALSE
    BY <1>1, <2>0, <2>2 DEF CycleCloses, ClosePosition
  <2>3. CASE Crash
    BY <1>1, <2>0, <2>3 DEF Crash, ForgetMemory
  <2>4. CASE Signal \/ CycleRaises \/ CycleLockout \/ UNCHANGED allVars
    BY <1>1, <2>0, <2>4
    DEF Signal, CycleRaises, CycleLockout, Raise, Lockout, allVars, vars, sessionVars
  <2> QED
    BY <1>1, <2>1, <2>2, <2>3, <2>4
    DEF RunNext, ProcessStep, LoopHead, FlattenClose, FlattenDone, FlattenRaises,
        SnapshotArrives, SnapshotRaises, CycleSaved, OnFailure, Sleep, Shutdown, Startup,
        DownTime
<1>2. RunInv /\ SavedLatchHolds /\ [RunNext]_allVars
         => [disk.kill \subseteq disk'.kill
             /\ (phase = "cycle" /\ open' > open => disk.kill = {})]_allVars
  BY <1>1, SwitchStep
<1> QED
  BY <1>2, LatchInv, PTL DEF RunSpec, StoredLatchIsFinal

----------------------------------------------------------------------------
(* The flatten before the bell *)

\* Why nothing is opened after the flatten: it runs inside the last FlattenAt
\* minutes of its day, and the clock of that day only runs down.
FlattenInv ==
    /\ FlatOrEscalated
    /\ closedDay <= today
    /\ closedDay = today => left <= FlattenAt
    /\ phase = "flatten" => left <= FlattenAt
    /\ phase = "down" => closedDay = 0

\* No step re-opens a flattened book before the bell without a switch up.
LEMMA FlattenStep ==
    ASSUME FlattenAt < EntryCutoff, RunInv, FlattenInv, [RunNext]_allVars
    PROVE  FlattenInv'
<1> USE RunAssumption
<1>0. /\ RunTypeOK /\ TypeOK /\ left \in Nat /\ closedDay \in Nat /\ today \in Nat /\ today >= 1
      /\ open \in Nat
  BY DEF RunInv, RunTypeOK, TypeOK
<1>1. ASSUME NEW rebuilt \in 0..disk.open, Startup(rebuilt) PROVE FlattenInv'
  BY <1>0, <1>1 DEF Startup, FlattenInv, FlatOrEscalated
<1>2. CASE Signal \/ SnapshotRaises \/ CycleRaises \/ CycleLockout \/ FlattenRaises
  BY <1>0, <1>2 DEF Signal, SnapshotRaises, CycleRaises, CycleLockout, FlattenRaises, Raise,
     Lockout, FlattenInv, FlatOrEscalated, Up, vars, sessionVars
<1>3. CASE Crash \/ Shutdown
  BY <1>0, <1>3 DEF Crash, Shutdown, ForgetMemory, FlattenInv, FlatOrEscalated, Up
<1>4. CASE LoopHead
  BY <1>0, <1>4 DEF LoopHead, FlattenDue, FlattenInv, FlatOrEscalated, Up, sessionVars
<1>5. ASSUME NEW pnl \in Pnl, FlattenClose(pnl) \/ CycleCloses(pnl) PROVE FlattenInv'
  <2>1. /\ open > 0 /\ kill' = kill /\ today' = today /\ phase' = phase /\ left' = left
        /\ closedDay' = closedDay /\ phase # "down"
    BY <1>5 DEF FlattenClose, CycleCloses, ClosePosition, processVars
  <2> QED
    BY <1>0, <2>1 DEF FlattenInv, FlatOrEscalated, Up
<1>6. CASE FlattenDone
  BY <1>0, <1>6 DEF FlattenDone, Stranded, FlattenInv, FlatOrEscalated, Up
<1>7. ASSUME NEW score \in Score, SnapshotArrives(score) PROVE FlattenInv'
  BY <1>0, <1>7 DEF SnapshotArrives, BeginCycle, FlattenInv, FlatOrEscalated, Up, sessionVars
<1>8. ASSUME NEW env \in Env, NEW fill \in BOOLEAN, NEW outcome \in {"ok", "raised"},
             CycleDecides(env, fill, outcome)
      PROVE  FlattenInv'
  <2>1. /\ kill \subseteq kill' /\ today' = today
        /\ open' = open \/ ~env.veto
    BY <1>0, <1>8, DecideEffect DEF CycleDecides
  <2>2. /\ left' = left /\ closedDay' = closedDay /\ phase = "cycle"
        /\ phase' \in {"save", "failed"} /\ (left < EntryCutoff => env.veto)
    BY <1>8 DEF CycleDecides, EntryAllowed
  <2>3. closedDay = today => open' = open
    BY <1>0, <2>1, <2>2 DEF FlattenInv
  <2> QED
    BY <1>0, <2>1, <2>2, <2>3 DEF FlattenInv, FlatOrEscalated, Up
<1>9. CASE CycleSaved
  BY <1>0, <1>9 DEF CycleSaved, FlattenInv, FlatOrEscalated, Up, vars, sessionVars
<1>10. CASE OnFailure
  BY <1>0, <1>10 DEF OnFailure, FlattenInv, FlatOrEscalated, Up
<1>11. CASE Sleep \/ DownTime
  <2>0. /\ phase \in {"sleep", "down"} /\ phase' \in {"loop", "down"} /\ closedDay' = closedDay
        /\ (phase = "down" <=> phase' = "down")
        /\ (\E d \in Gap : Minutes(d)) \/ NextSession \/ NoTime
    BY <1>11 DEF Sleep, DownTime, processVars
  <2>1. CASE NextSession
    <3>1. today' = today + 1
      BY <2>1 DEF NextSession, NewDay
    <3> QED
      BY <1>0, <2>0, <3>1 DEF FlattenInv, FlatOrEscalated
  <2>2. CASE NoTime \/ \E d \in Gap : Minutes(d)
    <3>1. left' <= left /\ kill' = kill /\ open' = open /\ today' = today
      BY <1>0, <2>2 DEF NoTime, Minutes, Max2, vars, sessionVars
    <3>2. left' \in Int
      BY <1>0, <2>2, TimeTypes
    <3> QED
      BY <1>0, <2>0, <3>1, <3>2 DEF FlattenInv, FlatOrEscalated, Up
  <2> QED
    BY <2>0, <2>1, <2>2
<1>12. CASE UNCHANGED allVars
  BY <1>0, <1>12
  DEF allVars, runVars, processVars, vars, sessionVars, FlattenInv, FlatOrEscalated, Up
<1> QED
  BY <1>1, <1>2, <1>3, <1>4, <1>5, <1>6, <1>7, <1>8, <1>9, <1>10, <1>11, <1>12
  DEF RunNext, ProcessStep

\* With the entry cutoff before the flatten (20 minutes against decision_interval
\* + 1), a book that was flattened stays flat or under BROKER_STATE to the bell.
THEOREM FlattenedStaysFlat ==
    ASSUME FlattenAt < EntryCutoff
    PROVE  RunSpec => []FlatOrEscalated
<1>1. RunInit => RunInv /\ FlattenInv
  BY RunInitInv, RunAssumption DEF RunInit, CycleInit, FlattenInv, FlatOrEscalated, Up
<1>2. RunInv /\ FlattenInv /\ [RunNext]_allVars => (RunInv /\ FlattenInv)'
  BY RunStepInv, FlattenStep
<1>3. FlattenInv => FlatOrEscalated
  BY DEF FlattenInv
<1> QED
  BY <1>1, <1>2, <1>3, PTL DEF RunSpec

----------------------------------------------------------------------------
(* What a crash can cost *)

\* Every step keeps the unsaved cycles within the failures, or loses a save.
LEMMA CostStep ==
    ASSUME RunInv, RunInv', CrashCostBounded, [RunNext]_allVars
    PROVE  CrashCostBounded'
<1> DEFINE Bounded(u, n) == u.lost \/ u.cycles <= n
<1>0. /\ unsaved \in Unsaved /\ unsaved.cycles \in Nat /\ failures \in Nat /\ TypeOK
      /\ Up => Bounded(unsaved, failures)
  BY RunAssumption DEF RunInv, RunTypeOK, CrashCostBounded, Unsaved
<1>1. Up' => failures' < MaxFailures \/ (stop' /\ "MANUAL" \in kill')
  BY RunAssumption DEF RunInv, HaltInv, RunTypeOK
<1> SUFFICES Up' => Bounded(unsaved', failures')
  BY <1>1 DEF CrashCostBounded, Up
<1>2. ASSUME NEW k, Save(k) PROVE unsaved'.cycles = 0 \/ unsaved'.lost
  <2>1. unsaved' = Saved \/ unsaved' = CountedUnsaved(TRUE)
    BY <1>2 DEF Save
  <2>2. CountedUnsaved(TRUE).lost
    BY <1>0, UnsavedFacts
  <2>3. Saved.cycles = 0
    BY DEF Saved
  <2> QED
    BY <2>1, <2>2, <2>3, Zenon
<1>3. CASE \E rebuilt \in 0..disk.open : Startup(rebuilt)
  <2>1. unsaved'.cycles = 0 /\ failures' = failures
    BY <1>3 DEF Startup, Saved
  <2> QED
    BY <1>0, <2>1
<1>4. CASE FlattenDone \/ CycleSaved
  <2>1. unsaved'.cycles = 0 \/ unsaved'.lost
    BY <1>2, <1>4 DEF FlattenDone, CycleSaved
  <2>2. failures' \in {0, failures}
    BY <1>4 DEF FlattenDone, CycleSaved
  <2> QED
    BY <1>0, <2>1, <2>2
<1>5. CASE OnFailure
  <2>1. unsaved'.cycles <= unsaved.cycles + 1 /\ unsaved'.lost = unsaved.lost
    BY <1>0, <1>5, UnsavedFacts DEF OnFailure, Unsaved
  <2>2. unsaved'.cycles \in Nat /\ failures' = failures + 1 /\ Up
    BY <1>5 DEF OnFailure, RunInv, RunTypeOK, Up, Unsaved
  <2> QED
    BY <1>0, <2>1, <2>2
<1>6. CASE Crash \/ Shutdown \/ DownTime
  BY <1>6 DEF Crash, Shutdown, DownTime, Up, processVars
<1>7. ASSUME Up, unsaved'.cycles = unsaved.cycles, unsaved'.lost = unsaved.lost,
             failures' = failures
      PROVE  Bounded(unsaved', failures')
  BY <1>0, <1>7
<1>8. ASSUME NEW pnl \in Pnl, FlattenClose(pnl) \/ CycleCloses(pnl)
      PROVE  Bounded(unsaved', failures')
  <2>1. Up /\ failures' = failures /\ Touch
    BY <1>8 DEF FlattenClose, CycleCloses, Up, processVars
  <2> QED
    BY <1>0, <1>7, <2>1, UnsavedFacts DEF Touch
<1>9. ASSUME NEW env \in Env, NEW fill \in BOOLEAN, NEW outcome \in {"ok", "raised"},
             CycleDecides(env, fill, outcome)
      PROVE  Bounded(unsaved', failures')
  <2>1. /\ Up /\ failures' = failures
        /\ unsaved' = [unsaved EXCEPT !.touched = @ \/ open' > open]
    BY <1>9 DEF CycleDecides, Up
  <2> QED
    BY <1>0, <1>7, <2>1, UnsavedFacts
<1>10. CASE \/ Signal \/ LoopHead \/ FlattenRaises \/ SnapshotRaises \/ CycleRaises
            \/ CycleLockout \/ Sleep \/ \E score \in Score : SnapshotArrives(score)
  <2>1. Up /\ unsaved' = unsaved /\ failures' = failures
    BY <1>10 DEF Signal, LoopHead, FlattenRaises, SnapshotRaises, CycleRaises, CycleLockout,
       Sleep, SnapshotArrives, Up
  <2> QED
    BY <1>7, <2>1
<1>11. CASE UNCHANGED allVars
  <2>1. unsaved' = unsaved /\ failures' = failures /\ phase' = phase
    BY <1>11 DEF allVars, runVars, processVars
  <2> QED
    BY <1>0, <2>1 DEF Up
<1> QED
  BY <1>3, <1>4, <1>5, <1>6, <1>8, <1>9, <1>10, <1>11 DEF RunNext, ProcessStep

\* While saves succeed a crash costs at most the trades of the cycles that failed
\* since the last save, fewer than MaxFailures of them before MANUAL is up.
THEOREM CrashCostIsBounded == RunSpec => []CrashCostBounded
<1>1. RunInit => RunInv /\ CrashCostBounded
  BY RunInitInv DEF RunInit, CrashCostBounded, Up
<1>2. RunInv /\ CrashCostBounded /\ [RunNext]_allVars => (RunInv /\ CrashCostBounded)'
  BY RunStepInv, CostStep
<1> QED
  BY <1>1, <1>2, PTL DEF RunSpec

----------------------------------------------------------------------------
(* What is on disk at a loop head *)

\* The stored row is the state in memory, but for a position that could not be
\* rebuilt, and then BROKER_STATE is up.
RowIsCurrent ==
    /\ disk.session = session /\ disk.equity = equity
    /\ \/ disk.open = open /\ disk.kill = kill
       \/ open < disk.open /\ kill = disk.kill \cup {"BROKER_STATE"}

\* StoredIsCurrent from the end of one iteration to the head of the next: what the
\* last save stored is not touched while the loop waits.
StoredInv ==
    phase \in {"loop", "sleep"} /\ failures = 0 /\ ~unsaved.lost => RowIsCurrent

\* A restart, a saved cycle and the waits of the loop keep the row current; a cycle
\* that failed leaves a failure behind.
LEMMA StoredStep ==
    ASSUME RunInv, StoredInv, [RunNext]_allVars
    PROVE  StoredInv'
<1>0. failures \in Nat /\ disk \in Stored /\ disk.open \in Nat /\ unsaved \in Unsaved
  BY RunAssumption DEF RunInv, RunTypeOK, Stored
<1>1. ASSUME NEW rebuilt \in 0..disk.open, Startup(rebuilt) PROVE StoredInv'
  <2>1. disk' = disk /\ session' = disk.session /\ equity' = disk.equity /\ open' = rebuilt
    BY <1>1 DEF Startup
  <2>2. CASE rebuilt = disk.open
    <3>1. kill' = disk.kill
      BY <1>0, <1>1, <2>2 DEF Startup, RestoredSwitches
    <3> QED
      BY <2>1, <2>2, <3>1 DEF StoredInv, RowIsCurrent
  <2>3. CASE rebuilt < disk.open
    <3>1. kill' = disk.kill \cup {"BROKER_STATE"}
      BY <1>1, <2>3 DEF Startup, RestoredSwitches
    <3> QED
      BY <2>1, <2>3, <3>1 DEF StoredInv, RowIsCurrent
  <2> QED
    BY <1>0, <2>2, <2>3
<1>2. CASE CycleSaved
  <2>1. UNCHANGED <<kill, session, equity, open>> /\ Save(kill)
    BY <1>2 DEF CycleSaved, vars, sessionVars
  <2>2. CASE disk' = Capture(kill)
    BY <2>1, <2>2 DEF Capture, StoredInv, RowIsCurrent
  <2>3. CASE unsaved' = CountedUnsaved(TRUE)
    <3>1. unsaved'.lost = TRUE
      BY <1>0, <2>3, UnsavedFacts
    <3> QED
      BY <3>1 DEF StoredInv
  <2> QED
    BY <2>1, <2>2, <2>3 DEF Save
<1>3. CASE OnFailure
  BY <1>0, <1>3 DEF OnFailure, StoredInv
<1>4. ASSUME UNCHANGED <<kill, session, equity, open, failures, disk, unsaved>>,
             phase \in {"loop", "sleep"}
      PROVE  StoredInv'
  BY <1>4 DEF StoredInv, RowIsCurrent
<1>5. CASE Sleep
  <2>1. UNCHANGED <<kill, session, equity, open>>
    BY <1>5 DEF Sleep, Minutes, NextSession, NewDay, NoTime, vars, sessionVars
  <2> QED
    BY <1>4, <1>5, <2>1 DEF Sleep
<1>6. CASE LoopHead
  BY <1>4, <1>6 DEF LoopHead, sessionVars
<1>7. CASE Signal
  <2>1. UNCHANGED <<kill, session, equity, open, failures, disk, unsaved, phase>>
    BY <1>7 DEF Signal, vars, sessionVars
  <2> QED
    BY <2>1 DEF StoredInv, RowIsCurrent
<1>8. CASE UNCHANGED allVars
  <2>1. UNCHANGED <<kill, session, equity, open, failures, disk, unsaved, phase>>
    BY <1>8 DEF allVars, runVars, processVars, vars, sessionVars
  <2> QED
    BY <2>1 DEF StoredInv, RowIsCurrent
<1>9. ASSUME phase' \notin {"loop", "sleep"} PROVE StoredInv'
  BY <1>9 DEF StoredInv
<1>10. CASE \/ Crash \/ DownTime \/ Shutdown \/ FlattenDone \/ FlattenRaises \/ SnapshotRaises
            \/ CycleRaises \/ CycleLockout \/ \E score \in Score : SnapshotArrives(score)
  BY <1>9, <1>10 DEF Crash, DownTime, Shutdown, FlattenDone, FlattenRaises, SnapshotRaises,
     CycleRaises, CycleLockout, SnapshotArrives, processVars
<1>11. ASSUME NEW pnl \in Pnl, FlattenClose(pnl) \/ CycleCloses(pnl) PROVE StoredInv'
  BY <1>9, <1>11 DEF FlattenClose, CycleCloses, processVars
<1>12. ASSUME NEW env \in Env, NEW fill \in BOOLEAN, NEW outcome \in {"ok", "raised"},
              CycleDecides(env, fill, outcome)
       PROVE  StoredInv'
  BY <1>9, <1>12 DEF CycleDecides
<1> QED
  BY <1>1, <1>2, <1>3, <1>5, <1>6, <1>7, <1>8, <1>10, <1>11, <1>12 DEF RunNext, ProcessStep

\* Unless a save failed, a loop head with no failure pending has the state in
\* memory on disk, through any crashes and restarts: a crash there costs nothing
\* but what the restart itself reports with BROKER_STATE.
THEOREM StoredStaysCurrent == RunSpec => []StoredIsCurrent
<1>1. RunInit => RunInv /\ StoredInv
  BY RunInitInv DEF RunInit, StoredInv
<1>2. RunInv /\ StoredInv /\ [RunNext]_allVars => (RunInv /\ StoredInv)'
  BY RunStepInv, StoredStep
<1>3. StoredInv => StoredIsCurrent
  BY DEF StoredInv, RowIsCurrent, StoredIsCurrent
<1> QED
  BY <1>1, <1>2, <1>3, PTL DEF RunSpec

----------------------------------------------------------------------------
(* The runtime implements TradingGate *)

\* The image of the stored row, and of the whole state, in the gate.
Row == [active |-> disk.kill, exposure |-> disk.open]

\* A save stores what is true after the step, or nothing.
LEMMA SaveImage ==
    ASSUME NEW k, Save(k)
    PROVE  Row' \in {Row, [active |-> k, exposure |-> open]}
<1>1. disk' = disk \/ disk' = Capture(k)
  BY DEF Save
<1>2. CASE disk' = disk
  BY <1>2 DEF Row
<1>3. CASE disk' = Capture(k)
  BY <1>3 DEF Row, Capture
<1> QED
  BY <1>1, <1>2, <1>3

\* Every step of the runtime is a step of the gate or leaves it alone.
LEMMA GateStep ==
    ASSUME RunInv, RunInv', [RunNext]_allVars
    PROVE  [Gate!Next]_(Gate!gateVars)
<1> DEFINE GateStays == Up' = Up /\ kill' = kill /\ open' = open /\ Row' = Row
<1>0. /\ TypeOK /\ kill \subseteq Reason /\ kill' \subseteq Reason /\ open \in Nat /\ open' \in Nat
      /\ disk \in Stored /\ disk.open \in Nat
  BY DEF RunInv, RunTypeOK, TypeOK, Stored
<1>1. ASSUME GateStays PROVE UNCHANGED Gate!gateVars
  BY <1>1 DEF Gate!gateVars, Row
<1>2. ASSUME Up, Up', kill \subseteq kill', open' = open,
             Row' \in {Row, [active |-> kill', exposure |-> open']}
      PROVE  Gate!Trip
  BY <1>0, <1>2 DEF Gate!Trip, Gate!Store, Row
<1>3. ASSUME Up, Up', kill' = kill, open > 0, open' = open - 1, Row' = Row
      PROVE  Gate!Leave
  BY <1>3 DEF Gate!Leave, Row
<1>4. ASSUME Up, ~Up', kill' = {}, open' = 0,
             Row' \in {Row, [active |-> kill, exposure |-> open]}
      PROVE  Gate!Stop
  BY <1>4 DEF Gate!Stop, Row
<1>5. ASSUME NEW rebuilt \in 0..disk.open, Startup(rebuilt) PROVE Gate!Start
  <2>1. ~Up /\ Up' /\ kill' = RestoredSwitches(rebuilt) /\ open' = rebuilt /\ disk' = disk
    BY <1>5 DEF Startup, Up
  <2>2. disk.kill \subseteq kill' /\ (rebuilt < disk.open => kill' # {})
    BY <2>1 DEF RestoredSwitches
  <2> QED
    BY <1>0, <2>1, <2>2 DEF Gate!Start
<1>6. ASSUME NEW pnl \in Pnl, FlattenClose(pnl) \/ CycleCloses(pnl) PROVE Gate!Leave
  <2>1. Up /\ Up' /\ kill' = kill /\ open > 0 /\ open' = open - 1 /\ disk' = disk
    BY <1>6 DEF FlattenClose, CycleCloses, ClosePosition, Up, processVars
  <2> QED
    BY <1>3, <2>1 DEF Row
<1>7. CASE FlattenDone
  <2>1. Up /\ Up' /\ kill' = Stranded /\ open' = open /\ Save(Stranded)
    BY <1>7 DEF FlattenDone, Up
  <2>2. kill \subseteq Stranded
    BY DEF Stranded
  <2> QED
    BY <1>2, <2>1, <2>2, SaveImage DEF Gate!Next
<1>8. CASE CycleSaved
  <2>1. Up /\ Up' /\ kill' = kill /\ open' = open /\ Save(kill)
    BY <1>8 DEF CycleSaved, Up, vars, sessionVars
  <2> QED
    BY <1>2, <2>1, SaveImage DEF Gate!Next
<1>9. CASE OnFailure
  <2>1. Up /\ Up' /\ kill \subseteq kill' /\ open' = open /\ disk' = disk
    BY <1>9 DEF OnFailure, Up
  <2> QED
    BY <1>2, <2>1 DEF Gate!Next, Row
<1>10. ASSUME NEW env \in Env, NEW fill \in BOOLEAN, NEW outcome \in {"ok", "raised"},
              CycleDecides(env, fill, outcome)
       PROVE  Gate!Next
  <2>1. Up /\ Up' /\ disk' = disk /\ Decide(env, fill, outcome)
    BY <1>10 DEF CycleDecides, Up
  <2>2. /\ kill \subseteq kill'
        /\ open' = open \/ (open' = open + 1 /\ kill' = {} /\ open < MaxOpen)
    BY <1>0, <2>1, DecideEffect
  <2>3. CASE open' = open
    BY <1>2, <2>1, <2>2, <2>3 DEF Gate!Next, Row
  <2>4. CASE open' = open + 1 /\ kill' = {} /\ open < MaxOpen
    <3>1. kill = {}
      BY <2>2, <2>4
    <3> QED
      BY <2>1, <2>4, <3>1 DEF Gate!Next, Gate!Enter
  <2> QED
    BY <2>2, <2>3, <2>4
<1>11. CASE Shutdown
  <2>1. Up /\ ~Up' /\ kill' = {} /\ open' = 0 /\ Save(kill)
    BY <1>11 DEF Shutdown, ForgetMemory, Up
  <2> QED
    BY <1>4, <2>1, SaveImage DEF Gate!Next
<1>12. CASE Crash
  <2>1. Up /\ ~Up' /\ kill' = {} /\ open' = 0 /\ disk' = disk
    BY <1>12 DEF Crash, ForgetMemory, Up
  <2> QED
    BY <1>4, <2>1 DEF Gate!Next, Row
<1>13. CASE \/ Signal \/ LoopHead \/ FlattenRaises \/ SnapshotRaises \/ CycleRaises
            \/ CycleLockout \/ Sleep \/ DownTime \/ UNCHANGED allVars
            \/ \E score \in Score : SnapshotArrives(score)
  <2>1. ASSUME (\E d \in Gap : Minutes(d)) \/ NextSession \/ NoTime
        PROVE  kill' = kill /\ open' = open
    BY <2>1 DEF Minutes, NextSession, NewDay, NoTime, vars, sessionVars
  <2>2. Up' = Up /\ disk' = disk /\ kill' = kill /\ open' = open
    <3>1. CASE Sleep
      BY <2>1, <3>1 DEF Sleep, Up
    <3>2. CASE DownTime
      BY <2>1, <3>2 DEF DownTime, Up, processVars
    <3>3. CASE \E score \in Score : SnapshotArrives(score)
      BY <3>3 DEF SnapshotArrives, BeginCycle, sessionVars, Up
    <3>4. CASE Signal \/ LoopHead \/ FlattenRaises \/ SnapshotRaises
      BY <3>4 DEF Signal, LoopHead, FlattenRaises, SnapshotRaises, vars, sessionVars, Up
    <3>5. CASE CycleRaises \/ CycleLockout
      BY <3>5 DEF CycleRaises, CycleLockout, Raise, Lockout, sessionVars, Up
    <3>6. CASE UNCHANGED allVars
      BY <3>6 DEF allVars, runVars, processVars, vars, sessionVars, Up
    <3> QED
      BY <1>13, <3>1, <3>2, <3>3, <3>4, <3>5, <3>6
  <2> QED
    BY <1>1, <2>2 DEF Row
<1> QED
  BY <1>5, <1>6, <1>7, <1>8, <1>9, <1>10, <1>11, <1>12, <1>13
  DEF RunNext, ProcessStep, Gate!Next

\* The unattended run is a gate on the exposure: over any sequence of cycles,
\* failures, crashes, saves and restarts, a position is taken on only with every
\* switch clear, and no restart loses a stored switch or a stored position
\* without coming up locked.
THEOREM RunImplementsGate == RunSpec => ImplementsGate
<1>1. RunInit => Gate!Init
  BY DEF RunInit, CycleInit, Capture, Up, Gate!Init
<1>2. RunInv /\ RunInv' /\ [RunNext]_allVars => [Gate!Next]_(Gate!gateVars)
  BY GateStep
<1> QED
  BY <1>1, <1>2, RunInitInv, RunStepInv, PTL DEF RunSpec, ImplementsGate, Gate!Spec
=============================================================================
