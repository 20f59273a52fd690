------------------------------ MODULE VpsDesk -------------------------------
(***************************************************************************)
(* What an operator sees of the unattended run: the service that wraps the *)
(* supervisor and publishes live_state.json and a heartbeat                *)
(* (vps/service.py, live_state.py, heartbeat.py), the status view that     *)
(* reads them (system_status.py, dashboard_api.py, cli.py).                *)
(*                                                                         *)
(* Time runs in ticks.  A file carries the age of the stamp in it, which   *)
(* for a cycle is the clock read at the head of the loop.  A tick passes   *)
(* only while the process waits, works on a cycle or is gone; every write  *)
(* may fail, and the process may be killed between any two steps.          *)
(***************************************************************************)
EXTENDS Integers

CONSTANTS
    Interval,     \* decision_interval
    Floor,        \* the floor of _refresh_interval, 60 s
    IdlePoll,     \* SupervisorConfig.idle_poll
    Backoff,      \* failure_backoff
    MaxBackoff,   \* max_failure_backoff
    MaxFailures,  \* max_consecutive_failures
    MaxWork       \* bound: ticks a cycle works

ASSUME DeskAssumption ==
    /\ Interval \in Nat \ {0} /\ Floor \in Nat \ {0} /\ IdlePoll \in Nat \ {0}
    /\ Backoff \in Nat \ {0} /\ MaxBackoff \in Nat \ {0} /\ MaxFailures \in Nat \ {0}
    /\ MaxWork \in Nat

VARIABLES
    pc,       \* where the process stands
    wait,     \* ticks of the current wait, or left for the current work
    head,     \* age of the clock read at the head of the loop
    open,     \* the market is open
    stop,     \* the stop event
    failures, \* consecutive failures
    tripped,  \* a kill switch is up
    stored,   \* ... in runtime.db
    live,     \* live_state.json
    beat,     \* health/supervisor.json: its age
    api,      \* state of the dashboard API's own heartbeat
    hist      \* history: the last write of live_state failed, the process ended in order,
              \* and how long it has been gone

service == <<pc, wait, head, stop, failures>>
store   == <<tripped, stored>>
file    == <<live, beat>>
deskVars == <<service, open, store, file, api, hist>>

Max(a, b) == IF a > b THEN a ELSE b
Min(a, b) == IF a < b THEN a ELSE b

\* _refresh_interval
Refresh == Max(Interval, Floor)

\* STALE_INTERVAL_MULTIPLE: beyond three intervals all ages are alike.
Oldest == 3 * Refresh + 1
Age    == 0..Oldest
Never  == -1

\* A reader that waits for four intervals.
ClassifyLeniently(age) ==
    IF age = Never THEN "unknown" ELSE IF age <= Refresh THEN "ok"
    ELSE IF age <= 4 * Refresh THEN "late" ELSE "stale"

\* classify_age
Classify(age) ==
    IF age = Never THEN "unknown" ELSE IF age <= Refresh THEN "ok"
    ELSE IF age <= 3 * Refresh THEN "late" ELSE "stale"

----------------------------------------------------------------------------
(* The status view *)

\* _services: a heartbeat that was never written is never_seen.
SupervisorState == IF beat = Never THEN "never_seen" ELSE Classify(beat)

\* _pipeline: the declared status first, then the age.
Pipeline ==
    IF live.age = Never THEN "unavailable"
    ELSE IF live.status = "stopped" THEN "stopped" ELSE Classify(live.age)

\* _overall: the worst of the services, the pipeline and the switches.
Overall ==
    LET services == {SupervisorState, api}
    IN  IF services \cap {"stale", "never_seen"} # {} \/ Pipeline \in {"stopped", "stale"}
        THEN "degraded"
        ELSE IF \/ Pipeline \in {"unavailable", "late", "unknown"}
                \/ services \cap {"late", "unknown"} # {}
                \/ live.tripped
             THEN "warn" ELSE "ok"

\* Every request of the dashboard API refreshes its heartbeat, or fails to.
ApiRequest ==
    /\ api' \in {"ok", api}
    /\ UNCHANGED <<service, open, store, file, hist>>

----------------------------------------------------------------------------
(* The service *)

Up == pc # "off"

\* build_live_state with the stamp, and the status the caller states.
Payload(age, status) ==
    [age |-> age, status |-> status, tripped |-> tripped]

\* _publish: each of the two writes may fail and is then logged or suppressed.
Publish(age, status) ==
    /\ live' \in {Payload(age, status), live}
    /\ beat' \in {age, beat}
    /\ hist' = [hist EXCEPT !.lost = live' # Payload(age, status), !.orderly = (pc = "exit"),
                            !.dead = 0]

\* select_provider: no token is synthetic, a token that fails refuses to start.
Feed == [token: BOOLEAN, works: BOOLEAN, synthetic: BOOLEAN]
SelectProvider(feed) ==
    IF feed.synthetic \/ ~feed.token THEN "synthetic"
    ELSE IF feed.works THEN "tradier" ELSE "refused"

\* ensure_state_tree: a tree that cannot be written refuses to start.
EnsureStateTree(writable) == writable

\* main and run: the tree is probed, the provider chosen, and the fresh pipeline
\* published before its state is restored.
Start(feed, writable) ==
    /\ pc = "off"
    /\ EnsureStateTree(writable) /\ SelectProvider(feed) # "refused"
    /\ Publish(0, "starting")
    /\ pc' = "restore" /\ wait' = 0 /\ head' = 0
    /\ UNCHANGED <<open, stop, failures, store, api>>

\* startup: the stored switches, and one more if a position cannot be rebuilt.
Restore ==
    /\ pc = "restore"
    /\ tripped' \in {stored, TRUE}
    /\ pc' = "head"
    /\ UNCHANGED <<wait, head, stop, failures, open, stored, file, api, hist>>

\* restore raises: the finally block still publishes.
RestoreRaises ==
    /\ pc = "restore"
    /\ pc' = "exit"
    /\ UNCHANGED <<wait, head, stop, failures, open, store, file, api, hist>>

\* A closed market that is waited out in silence.
HeadClosedSilent ==
    /\ pc = "head" /\ ~stop /\ ~open
    /\ head' = 0
    /\ wait' \in 1..IdlePoll
    /\ pc' = "wait"
    /\ UNCHANGED <<stop, failures, open, store, file, api, hist>>

\* A closed market: published before the wait (instrumented_closed).
HeadClosed ==
    /\ pc = "head" /\ ~stop /\ ~open
    /\ head' = 0
    /\ Publish(0, "running")
    /\ wait' \in 1..IdlePoll
    /\ pc' = "wait"
    /\ UNCHANGED <<stop, failures, open, store, api>>

\* An open one: the flatten and the cycle, on the clock read here.
HeadOpen ==
    /\ pc = "head" /\ ~stop /\ open
    /\ head' = 0 /\ wait' = MaxWork
    /\ pc' = "cycle"
    /\ UNCHANGED <<stop, failures, open, store, file, api, hist>>

HeadStop ==
    /\ pc = "head" /\ stop
    /\ pc' = "shutdown"
    /\ UNCHANGED <<wait, head, stop, failures, open, store, file, api, hist>>

Goto(next) == pc' = next /\ UNCHANGED <<head, stop>>

\* A kill switch latches during the cycle.
Trip ==
    /\ pc = "cycle" /\ ~tripped
    /\ tripped' = TRUE
    /\ UNCHANGED <<service, open, stored, file, api, hist>>

\* state_store.save, or its exception swallowed.
Save == stored' \in {tripped, stored}

CycleReturns ==
    /\ pc = "cycle"
    /\ Save
    /\ failures' = 0 /\ wait' = 0
    /\ Goto("publish")
    /\ UNCHANGED <<open, tripped, file, api, hist>>

CycleRaises ==
    /\ pc = "cycle"
    /\ Goto("failed")
    /\ UNCHANGED <<wait, failures, open, store, file, api, hist>>

\* failure_backoff doubles with every failure, up to its maximum.
Delay(n) == Min(Backoff * 2^(n - 1), MaxBackoff)

\* _on_failure: the back-off is slept before the publication of the cycle.
OnFailure ==
    /\ pc = "failed"
    /\ failures' = failures + 1
    /\ LET halts == failures + 1 >= MaxFailures
       IN  /\ tripped' = (tripped \/ halts)
           /\ stop' = (stop \/ halts)
           /\ wait' = IF stop' THEN 0 ELSE Delay(failures + 1)
    /\ pc' = "publish" /\ UNCHANGED head
    /\ UNCHANGED <<open, stored, file, api, hist>>

\* instrumented_heartbeat, then the wait for the next decision.
Heartbeat ==
    /\ pc = "publish" /\ (wait = 0 \/ stop)
    /\ Publish(head, "running")
    /\ wait' = IF stop THEN 0 ELSE Max(0, Interval - head)
    /\ Goto("wait")
    /\ UNCHANGED <<failures, open, store, api>>

WaitOver ==
    /\ pc = "wait" /\ (wait = 0 \/ stop)
    /\ wait' = 0
    /\ Goto("head")
    /\ UNCHANGED <<failures, open, store, file, api, hist>>

\* _shutdown saves; the finally block of run publishes "stopped".
Shutdown ==
    /\ pc = "shutdown"
    /\ Save
    /\ Goto("exit")
    /\ UNCHANGED <<wait, failures, open, tripped, file, api, hist>>

\* What a process leaves in memory when it is gone.
Gone ==
    /\ pc' = "off" /\ wait' = 0 /\ head' = 0 /\ stop' = FALSE /\ failures' = 0
    /\ tripped' = FALSE

Exit ==
    /\ pc = "exit"
    /\ Publish(0, "stopped")
    /\ Gone
    /\ UNCHANGED <<open, stored, api>>

Signal ==
    /\ Up /\ ~stop
    /\ stop' = TRUE
    /\ UNCHANGED <<pc, wait, head, failures, open, store, file, api, hist>>

Crash ==
    /\ Up
    /\ Gone
    /\ UNCHANGED <<open, stored, file, api, hist>>

----------------------------------------------------------------------------
(* Time *)

Older(age) == IF age = Never THEN Never ELSE Min(age + 1, Oldest)

Aged(state) == CASE state = "ok" -> {"ok", "late"} [] state = "late" -> {"late", "stale"}
                 [] OTHER -> {state}

\* The market may open or close.
Tick ==
    /\ ~Up \/ (wait > 0 /\ ~stop) \/ (wait > 0 /\ pc = "cycle")
    /\ wait' = Max(0, wait - 1)
    /\ head' = Older(head)
    /\ live' = [live EXCEPT !.age = Older(@)]
    /\ beat' = Older(beat)
    /\ api' \in Aged(api)
    /\ open' \in BOOLEAN
    /\ hist' = [hist EXCEPT !.dead = IF Up THEN 0 ELSE Older(@)]
    /\ UNCHANGED <<pc, stop, failures, store>>

----------------------------------------------------------------------------

DeskInit ==
    /\ pc = "off" /\ wait = 0 /\ head = 0 /\ stop = FALSE /\ failures = 0
    /\ open \in BOOLEAN
    /\ tripped = FALSE /\ stored = FALSE
    /\ live = [age |-> Never, status |-> "stopped", tripped |-> FALSE]
    /\ beat = Never /\ api = "never_seen"
    /\ hist = [lost |-> FALSE, orderly |-> FALSE, dead |-> 0]

DeskNext ==
    \/ \E feed \in Feed, writable \in BOOLEAN : Start(feed, writable)
    \/ Restore \/ RestoreRaises
    \/ HeadClosed \/ HeadOpen \/ HeadStop
    \/ Trip \/ CycleReturns \/ CycleRaises \/ OnFailure \/ Heartbeat \/ WaitOver
    \/ Shutdown \/ Exit \/ Signal \/ Crash
    \/ Tick \/ ApiRequest

DeskSpec == DeskInit /\ [][DeskNext]_deskVars

----------------------------------------------------------------------------
(* Properties *)

\* No back-off before the run gives up is longer than d, and a wait, or the lateness of
\* the last publication, followed by a cycle and its back-off ends before three intervals.
Timely(d) ==
    /\ d \in Nat /\ \A n \in 1..(MaxFailures - 1) : Delay(n) \in 0..d
    /\ Max(Max(Interval, IdlePoll), MaxWork + d) + MaxWork + d <= 3 * Refresh

\* Types.
DeskTypeOK ==
    /\ pc \in {"off", "restore", "head", "cycle", "failed", "publish", "wait", "shutdown", "exit"}
    /\ wait \in Nat /\ head \in Age
    /\ open \in BOOLEAN /\ stop \in BOOLEAN /\ tripped \in BOOLEAN
    /\ failures \in 0..MaxFailures
    /\ stored \in BOOLEAN
    /\ live \in [age: Age \cup {Never}, status: {"starting", "running", "stopped"}, tripped: BOOLEAN]
    /\ beat \in Age \cup {Never}
    /\ api \in {"never_seen", "ok", "late", "stale"}

\* "Refresh liveness before sleeping so a weekend wait is not 'stale'"
\* (service.py:120): as long as its writes succeed, a process that is alive, in
\* whatever wait, back-off or cycle, is never reported stale or stopped.
AliveIsNotStale == Up /\ ~hist.lost => Pipeline \notin {"stale", "stopped", "unavailable"}

\* A service that is gone is noticed, even if it was killed and wrote nothing, or its
\* last writes failed: not "ok" after one interval, "degraded" after three ("a
\* week-old snapshot reports ok", system_status.py:106).
DeadIsNoticed ==
    /\ hist.dead > Refresh => Overall # "ok"
    /\ hist.dead > 3 * Refresh => Overall = "degraded"

\* An orderly stop is seen at once and until the next start ("reporting 'running' here
\* is how a dead daemon goes unnoticed", service.py:91), if its last write succeeded.
StopIsPublished == ~Up /\ hist.orderly /\ ~hist.lost => Overall = "degraded"

\* Between two publications, restarts and crashes included, the dashboard shows the
\* kill switch the process has, and never "ok" over a latched one.
ShownIsCurrent ==
    pc = "wait" /\ ~hist.lost => live.tripped = tripped /\ (Overall = "ok" => ~tripped)

\* What the dashboard says of a process that runs: it is alive, and its switches are
\* the ones it has.
AliveIsShown == DeskTypeOK /\ AliveIsNotStale /\ ShownIsCurrent

\* What it says of a process that is gone, orderly or not.
GoneIsShown == DeadIsNoticed /\ StopIsPublished

=============================================================================
