----------------------------- MODULE Supervisor -----------------------------
(***************************************************************************)
(* The unattended run (spy_der/runtime/supervisor.py with                  *)
(* runtime/state_store.py and the session clock of runtime/calendar.py):   *)
(* the loop around the decision cycle of RiskSession, its containment of   *)
(* failures, the flatten before the bell, the state saved in SQLite, stop  *)
(* signals, crashes and restarts.                                          *)
(*                                                                         *)
(* A crash may fall between any two steps; a save is one transaction, so   *)
(* the stored row is the one before it or the one after it.  Of a stored   *)
(* row the model keeps the switches, the session, the equity and the       *)
(* number of open positions.                                               *)
(***************************************************************************)
EXTENDS RiskSession

CONSTANTS
    SessionMinutes,  \* length of a trading session
    Gap,             \* minutes from one decision to the next: decision_interval or more
    FlattenAt,       \* max(5, decision_interval + 1)
    EntryCutoff,     \* SessionLimits.min_minutes_to_close
    MaxFailures      \* SupervisorConfig.max_consecutive_failures

ASSUME RunAssumption ==
    /\ SessionMinutes \in Nat \ {0} /\ Gap \subseteq Nat \ {0} /\ FlattenAt \in Nat
    /\ EntryCutoff \in Nat /\ MaxFailures \in Nat \ {0}

VARIABLES
    phase,      \* where the process stands; "down" when there is none
    stop,       \* Supervisor._stop_event
    failures,   \* SupervisorStats.consecutive_failures
    closedDay,  \* Supervisor._closed_session (0 is None)
    left,       \* minutes to close; 0 outside a session
    disk,       \* the row of runtime_state
    unsaved     \* history: cycles that traded since the last save, whether the
                \* current one has, and whether a save failed since then

processVars == <<phase, stop, failures, closedDay>>
runVars     == <<processVars, left, disk, unsaved>>
allVars     == <<vars, runVars>>

Phase == {"down", "loop", "flatten", "run", "cycle", "failed", "save", "sleep", "stopping"}

Up == phase # "down"

----------------------------------------------------------------------------
(* RuntimeStateStore *)

\* capture, with the switches as they are in the state being saved.
Capture(k) == [kill |-> k, session |-> session, equity |-> equity, open |-> open]

Saved == [cycles |-> 0, touched |-> FALSE, lost |-> FALSE]

\* The cycle ends without a save.
CountedUnsaved(lost) ==
    [cycles  |-> unsaved.cycles + (IF unsaved.touched THEN 1 ELSE 0),
     touched |-> FALSE,
     lost    |-> lost]

\* save_every_cycle switched off.
SaveSkipped(k) == disk' = disk /\ unsaved' = CountedUnsaved(unsaved.lost)

\* _save: an exception (disk full, database locked) is logged and swallowed.
Save(k) ==
    \/ /\ disk' = Capture(k)
       /\ unsaved' = Saved
    \/ /\ disk' = disk
       /\ unsaved' = CountedUnsaved(TRUE)

\* Memory of a process that is gone; the histories of RiskSession start afresh
\* with each process.
ForgetMemory ==
    /\ kill' = {} /\ session' = NewSession /\ equity' = StartingEquity /\ open' = 0
    /\ pc' = "idle"
    /\ stop' = FALSE /\ failures' = 0 /\ closedDay' = 0
    /\ opensToday' = 0 /\ dayPnl' = 0 /\ lossRun' = 0 /\ high' = 0
    /\ cycle' = NoCycle
    /\ UNCHANGED <<today, opened>>

\* A restore that does not trip anything for a position it could not rebuild.
RestoredQuietly(rebuilt) == disk.kill

\* A restore that starts with clear switches.
RestoredClear(rebuilt) == IF rebuilt < disk.open THEN {"BROKER_STATE"} ELSE {}

\* restore: a stored position that cannot be rebuilt trips BROKER_STATE.
RestoredSwitches(rebuilt) ==
    disk.kill \cup (IF rebuilt < disk.open THEN {"BROKER_STATE"} ELSE {})

----------------------------------------------------------------------------
(* Lifecycle *)

\* startup: restore; the reconciliation after it compares the restored book
\* with the positions restore itself registered, and always agrees.
Startup(rebuilt) ==
    /\ phase = "down"
    /\ kill' = RestoredSwitches(rebuilt)
    /\ session' = disk.session
    /\ equity' = disk.equity
    /\ open' = rebuilt
    /\ phase' = "loop"
    /\ unsaved' = Saved
    /\ UNCHANGED <<today, pc, cycle, historyVars, stop, failures, closedDay, left, disk>>

\* SIGTERM or SIGINT: the event is set, the current iteration goes on.
Signal ==
    /\ Up /\ ~stop
    /\ stop' = TRUE
    /\ UNCHANGED <<vars, phase, failures, closedDay, left, disk, unsaved>>

Crash ==
    /\ Up
    /\ phase' = "down"
    /\ ForgetMemory
    /\ UNCHANGED <<left, disk, unsaved>>

\* _shutdown
Shutdown ==
    /\ phase = "stopping"
    /\ Save(kill)
    /\ phase' = "down"
    /\ ForgetMemory
    /\ UNCHANGED left

----------------------------------------------------------------------------
(* The loop *)

\* Time to flatten: positions are open, it was not done today, the bell is near.
FlattenDue == open > 0 /\ closedDay # today /\ left <= FlattenAt

\* A loop head that does not look at the stop event.
LoopHeadDeaf ==
    /\ phase = "loop"
    /\ phase' = IF left = 0 THEN "sleep" ELSE IF FlattenDue THEN "flatten" ELSE "run"
    /\ pc' = IF left > 0 /\ FlattenDue THEN "manage" ELSE "idle"
    /\ UNCHANGED <<sessionVars, today, cycle, historyVars, stop, failures, closedDay, left,
                   disk, unsaved>>

\* while not self._stopping
LoopHead ==
    /\ phase = "loop"
    /\ phase' = IF stop THEN "stopping"
                ELSE IF left = 0 THEN "sleep"
                ELSE IF FlattenDue THEN "flatten" ELSE "run"
    /\ pc' = IF ~stop /\ left > 0 /\ FlattenDue THEN "manage" ELSE "idle"
    /\ UNCHANGED <<sessionVars, today, cycle, historyVars, stop, failures, closedDay, left,
                   disk, unsaved>>

Touch == unsaved' = [unsaved EXCEPT !.touched = TRUE]

\* force_close_all closes a position.
FlattenClose(pnl) ==
    /\ phase = "flatten"
    /\ ClosePosition(pnl)
    /\ Touch
    /\ UNCHANGED <<processVars, left, disk>>

\* Positions the flatten could not close trip BROKER_STATE.
Stranded == kill \cup (IF open > 0 THEN {"BROKER_STATE"} ELSE {})

FlattenDone ==
    /\ phase = "flatten"
    /\ closedDay' = today
    /\ kill' = Stranded
    /\ Save(Stranded)
    /\ phase' = "run" /\ pc' = "idle"
    /\ UNCHANGED <<session, equity, open, today, cycle, historyVars, stop, failures, left>>

\* The snapshot or a closing order raises: reported, not escalated, not saved.
FlattenRaises ==
    /\ phase = "flatten"
    /\ phase' = "run" /\ pc' = "idle"
    /\ UNCHANGED <<sessionVars, today, cycle, historyVars, stop, failures, closedDay, left,
                   disk, unsaved>>

----------------------------------------------------------------------------
(* run_cycle *)

\* provider.snapshot answers, or raises.
SnapshotArrives(score) ==
    /\ phase = "run"
    /\ BeginCycle(score)
    /\ phase' = "cycle"
    /\ UNCHANGED <<stop, failures, closedDay, left, disk, unsaved>>

SnapshotRaises ==
    /\ phase = "run"
    /\ phase' = "failed"
    /\ UNCHANGED <<vars, stop, failures, closedDay, left, disk, unsaved>>

CycleCloses(pnl) ==
    /\ phase = "cycle"
    /\ ClosePosition(pnl)
    /\ Touch
    /\ UNCHANGED <<processVars, left, disk>>

CycleRaises ==
    /\ phase = "cycle"
    /\ Raise
    /\ phase' = "failed"
    /\ UNCHANGED <<stop, failures, closedDay, left, disk, unsaved>>

CycleLockout ==
    /\ phase = "cycle"
    /\ Lockout
    /\ phase' = "save"
    /\ UNCHANGED <<stop, failures, closedDay, left, disk, unsaved>>

\* Entries at any time of the session.
EntryAllowedAlways(env) == TRUE

\* _session_reasons: no entry once minutes_to_close is under the minimum.
EntryAllowed(env) == left < EntryCutoff => env.veto

CycleDecides(env, fill, outcome) ==
    /\ phase = "cycle"
    /\ EntryAllowed(env)
    /\ Decide(env, fill, outcome)
    /\ phase' = IF outcome = "ok" THEN "save" ELSE "failed"
    /\ unsaved' = [unsaved EXCEPT !.touched = @ \/ open' > open]
    /\ UNCHANGED <<stop, failures, closedDay, left, disk>>

\* The cycle returned: the counter is reset and the state saved.
CycleSaved ==
    /\ phase = "save"
    /\ failures' = 0
    /\ Save(kill)
    /\ phase' = "sleep"
    /\ UNCHANGED <<vars, stop, closedDay, left>>

Halts(n) == n >= MaxFailures

\* _on_failure: back off and go on, or trip MANUAL and stop.  Nothing is saved.
OnFailure ==
    /\ phase = "failed"
    /\ failures' = failures + 1
    /\ kill' = IF Halts(failures + 1) THEN kill \cup {"MANUAL"} ELSE kill
    /\ stop' = (stop \/ Halts(failures + 1))
    /\ phase' = "sleep"
    /\ unsaved' = CountedUnsaved(unsaved.lost)
    /\ UNCHANGED <<session, equity, open, today, pc, cycle, historyVars, closedDay, left, disk>>

----------------------------------------------------------------------------
(* Time *)

\* Minutes pass inside a session; the bell ends it.
Minutes(d) ==
    /\ left > 0
    /\ left' = Max2(0, left - d)
    /\ UNCHANGED vars

\* The next session opens.
NextSession ==
    /\ left = 0
    /\ NewDay
    /\ left' = SessionMinutes

NoTime == UNCHANGED <<vars, left>>

\* The waits of the loop: skipped when stopping, to the next decision inside a
\* session, to the next open (in bounded increments) outside.
Sleep ==
    /\ phase = "sleep"
    /\ IF stop THEN NoTime
       ELSE IF left > 0 THEN \E d \in Gap : Minutes(d)
       ELSE NextSession \/ NoTime
    /\ phase' = "loop"
    /\ UNCHANGED <<stop, failures, closedDay, disk, unsaved>>

\* Time goes by while no process runs.
DownTime ==
    /\ phase = "down"
    /\ (\E d \in Gap : Minutes(d)) \/ NextSession
    /\ UNCHANGED <<processVars, disk, unsaved>>

----------------------------------------------------------------------------

RunInit ==
    /\ CycleInit
    /\ phase = "down" /\ stop = FALSE /\ failures = 0 /\ closedDay = 0
    /\ left = SessionMinutes
    /\ disk = Capture({})
    /\ unsaved = Saved

\* A step of the running process.
ProcessStep ==
    \/ LoopHead
    \/ \E pnl \in Pnl : FlattenClose(pnl) \/ CycleCloses(pnl)
    \/ FlattenDone
    \/ FlattenRaises
    \/ \E score \in Score : SnapshotArrives(score)
    \/ SnapshotRaises
    \/ CycleRaises
    \/ CycleLockout
    \/ \E env \in Env, fill \in BOOLEAN, outcome \in {"ok", "raised"} :
          CycleDecides(env, fill, outcome)
    \/ CycleSaved
    \/ OnFailure
    \/ Sleep
    \/ Shutdown

RunNext ==
    \/ ProcessStep
    \/ \E rebuilt \in 0..disk.open : Startup(rebuilt)
    \/ Signal
    \/ Crash
    \/ DownTime

\* The process is scheduled: every wait of the loop is bounded and interruptible.
RunSpec == RunInit /\ [][RunNext]_allVars

FairRunSpec == RunSpec /\ WF_allVars(ProcessStep)

----------------------------------------------------------------------------
(* Properties *)

Stored  == [kill: SUBSET Reason, session: Session, equity: Int, open: Nat]
Unsaved == [cycles: Nat, touched: BOOLEAN, lost: BOOLEAN]

\* Types of the process state, the clock and the stored row.
RunTypeOK ==
    /\ TypeOK
    /\ phase \in Phase
    /\ stop \in BOOLEAN
    /\ failures \in 0..MaxFailures
    /\ closedDay \in 0..MaxDay
    /\ left \in 0..SessionMinutes
    /\ disk \in Stored
    /\ unsaved \in Unsaved

\* A restart never clears a lockout ("without it a restart clears a latched kill
\* switch", README.md:187): a running process has every switch that was ever
\* saved, whatever crashes, failed saves and restarts came before.
SavedLatchHolds == Up => disk.kill \subseteq kill

\* The same over time: the stored switches only grow, and no position is opened
\* by a run whose stored state has a switch up.
StoredLatchIsFinal ==
    [][disk.kill \subseteq disk'.kill
       /\ (phase = "cycle" /\ open' > open => disk.kill = {})]_allVars

\* Once the session-end flatten has run, the book is flat or BROKER_STATE is up
\* for the rest of the day: no later cycle re-opens what the once-per-session
\* flag would no longer close ("an unattended run must not carry that quietly
\* into the close", supervisor.py:379).
FlatOrEscalated ==
    Up /\ closedDay = today => open = 0 \/ "BROKER_STATE" \in kill

\* What a crash can cost while saves succeed: the cycles that failed since the
\* last save, and the failure count that bounds them ends the run under MANUAL.
CrashCostBounded ==
    Up => /\ unsaved.lost \/ unsaved.cycles <= failures
          /\ failures < MaxFailures \/ (stop /\ "MANUAL" \in kill)

\* Unless a save failed, a loop head with no failure pending has the state in
\* memory on disk, restarts included; a stored position may be missing only
\* under BROKER_STATE ("If a stored position cannot be rebuilt, the BROKER_STATE
\* switch trips", README.md:189).
StoredIsCurrent ==
    phase = "loop" /\ failures = 0 /\ ~unsaved.lost =>
        /\ disk.session = session /\ disk.equity = equity
        /\ \/ disk.open = open /\ disk.kill = kill
           \/ open < disk.open /\ kill = disk.kill \cup {"BROKER_STATE"}

\* A stop request ends the process, from any point of the loop.
StopLeadsToExit == stop ~> ~Up

\* Seen from outside the runtime is a gate on the exposure (module TradingGate):
\* whatever crashes, failing cycles, failed saves and restarts do, positions are
\* taken on only with every switch clear, the switches of a process only grow,
\* and a restart brings back all that was stored or comes up locked.
Gate == INSTANCE TradingGate WITH
            Reason <- Reason, Capacity <- MaxOpen, running <- Up, active <- kill,
            exposure <- open, saved <- [active |-> disk.kill, exposure |-> disk.open]

ImplementsGate == Gate!Spec
=============================================================================
