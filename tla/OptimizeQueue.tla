---------------------------- MODULE OptimizeQueue ----------------------------
(***************************************************************************)
(* The backtest-optimize queue (spy_der/vps/optimize.py,                   *)
(* scripts/optimize_worker.py): job files, run reports, a schedule file    *)
(* and the active configuration, shared by the desk API and by a worker    *)
(* that a timer starts, one at a time, again and again.                    *)
(*                                                                         *)
(* Every file is replaced atomically (vps/files.py), so a reader sees the  *)
(* old or the new contents; nothing locks the worker's reads against the   *)
(* API's writes between them. The worker may be killed between any two     *)
(* steps, and any write may raise. Time runs in ticks. A job's identifier  *)
(* is its creation stamp in whole seconds and a random suffix, and a       *)
(* request may write its job long after it read the clock: a new job takes *)
(* any free name, before or after the others. A backtest enters as the     *)
(* score it gives each configuration.                                      *)
(***************************************************************************)
EXTENDS Integers, FiniteSets

CONSTANTS
    MaxJob,        \* bound: jobs
    MaxNow,        \* bound: ticks
    MaxCrash,      \* bound: times the worker is killed
    TicksPerHour,
    HoursPerDay,
    DaysPerWeek,
    DefaultHour,   \* what hour_utc = 0 is read as
    Config,        \* optimizer configurations
    Default,       \* the configuration without an active_config file
    Grid,          \* the configurations of GRID
    Score          \* scores of a backtest

ASSUME QueueAssumption ==
    /\ MaxJob \in Nat /\ MaxNow \in Nat /\ MaxCrash \in Nat
    /\ TicksPerHour \in Nat \ {0} /\ HoursPerDay \in Nat \ {0} /\ DaysPerWeek \in Nat \ {0}
    /\ DefaultHour \in 0..(HoursPerDay - 1)
    /\ Default \in Config /\ Grid \subseteq Config
    /\ Score \subseteq Int

VARIABLES
    now,       \* the clock
    job,       \* the job files
    report,    \* the run reports, and whether they tell of an improvement
    active,    \* the active configuration
    schedule,  \* schedule.json
    wk,        \* the worker
    crashes,   \* how often it was killed
    promoted,  \* history: jobs that wrote the active configuration
    savedAt    \* history: when next_run_at was computed

files == <<job, report, active, schedule>>
history == <<promoted, savedAt>>
vars  == <<now, files, wk, crashes, history>>

Day == TicksPerHour * HoursPerDay

JobId    == 1..MaxJob     \* identifiers, in the order of the file names
AnyJob   == JobId \cup {0}
Job      == [status: {"absent", "queued", "running", "completed", "failed"},
             reason: {"manual", "schedule"}]
NoJob    == [status |-> "absent", reason |-> "manual"]
Report   == {"absent", "improved", "no lift"}
Settings == [enabled: BOOLEAN, hour: 0..(HoursPerDay - 1), weekly: BOOLEAN]

\* DEFAULT_SCHEDULE.  next = -1 is a next_run_at of None, last = 0 no last_job_id.
DefaultSettings == [enabled |-> FALSE, hour |-> DefaultHour, weekly |-> FALSE]
DefaultSchedule == [set |-> DefaultSettings, next |-> -1, last |-> 0]

\* The control points of the worker, in the order of main.
WorkerPC == {"off", "schedule", "check", "enqueue", "advance", "claim", "begin", "load",
             "promote", "report", "complete", "record", "fail"}

NoWorker == [pc |-> "off", at |-> 0, seen |-> DefaultSettings, id |-> 0,
             score |-> [c \in Config |-> 0], winner |-> Default, better |-> FALSE]

TypeOK ==
    /\ now \in 0..MaxNow
    /\ job \in [JobId -> Job]
    /\ report \in [JobId -> Report]
    /\ active \in Config
    /\ schedule \in [set: Settings, next: Int, last: AnyJob]
    /\ wk.pc \in WorkerPC /\ wk.at \in 0..MaxNow /\ wk.id \in AnyJob
    /\ crashes \in 0..MaxCrash
    /\ promoted \subseteq JobId /\ savedAt \in 0..MaxNow

Init ==
    /\ now = 0
    /\ job = [j \in JobId |-> NoJob]
    /\ report = [j \in JobId |-> "absent"]
    /\ active = Default
    /\ schedule = DefaultSchedule
    /\ wk = NoWorker
    /\ crashes = 0
    /\ promoted = {} /\ savedAt = 0

Tick ==
    /\ now < MaxNow
    /\ now' = now + 1
    /\ UNCHANGED <<files, wk, history, crashes>>

----------------------------------------------------------------------------
(* The schedule *)

\* int(hour_utc or 6): midnight is falsy.
Hour(set) == IF set.hour = 0 THEN DefaultHour ELSE set.hour

\* The comparison without equality: a run at the very tick it is computed at.
NextRunAtOrNow(set, after) ==
    LET today == (after \div Day) * Day + Hour(set) * TicksPerHour
        first == IF today < after THEN today + Day ELSE today
        day   == (first \div Day) % DaysPerWeek
    IN  IF set.weekly THEN first + ((DaysPerWeek - day) % DaysPerWeek) * Day ELSE first

\* _next_run_at: the hour of today or of tomorrow; for a weekly schedule, then day
\* by day to the first day of the week.
NextRunAt(set, after) ==
    LET today == (after \div Day) * Day + Hour(set) * TicksPerHour
        first == IF today <= after THEN today + Day ELSE today
        day   == (first \div Day) % DaysPerWeek
    IN  IF set.weekly THEN first + ((DaysPerWeek - day) % DaysPerWeek) * Day ELSE first

\* save_schedule with the settings set: it keeps last_run_at and last_job_id of the
\* file, whatever its caller put into the dictionary.
SaveSchedule(set, at) ==
    /\ schedule' = [schedule EXCEPT !.set  = set,
                                    !.next = IF set.enabled THEN NextRunAt(set, at) ELSE -1]
    /\ savedAt' = IF set.enabled THEN at ELSE 0

\* POST /optimize/schedule: save_schedule with the fields the request names, the
\* switch alone or all of them.
ApiSchedule ==
    /\ \E set \in Settings :
          /\ set.enabled \/ [set EXCEPT !.enabled = schedule.set.enabled] = schedule.set
          /\ SaveSchedule(set, now)
    /\ UNCHANGED <<now, job, report, active, wk, promoted, crashes>>

----------------------------------------------------------------------------
(* Jobs *)

Live(j)     == job[j].status \in {"queued", "running"}
Queued      == {j \in JobId : job[j].status = "queued"}
NewJob(why) == [status |-> "queued", reason |-> why]

At(pc) == wk.pc = pc

\* The bound leaves room for a job, besides the one the worker is about to write.
Room ==
    LET free == {j \in JobId : job[j].status = "absent"}
    IN  \E j \in free : At("enqueue") => free # {j}

\* enqueue_run: a new file, under a name nobody uses.
Enqueue(why) ==
    \E j \in JobId :
        /\ job[j].status = "absent"
        /\ job' = [job EXCEPT ![j] = NewJob(why)]

\* POST /optimize/run.
ApiEnqueue ==
    /\ Room
    /\ Enqueue("manual")
    /\ UNCHANGED <<now, report, active, schedule, wk, history, crashes>>

\* The worker goes on, or exits.
Goto(pc) == wk' = [wk EXCEPT !.pc = pc]
Exit     == wk' = NoWorker

\* main: the clock is read.
WorkerStart ==
    /\ At("off")
    /\ wk' = [NoWorker EXCEPT !.pc = "schedule", !.at = now]
    /\ UNCHANGED <<now, files, history, crashes>>

\* maybe_enqueue_scheduled loads the schedule; one that is enabled but has no next
\* run is saved again first.
LoadSchedule ==
    /\ At("schedule")
    /\ IF schedule.set.enabled /\ schedule.next = -1
       THEN SaveSchedule(schedule.set, wk.at)
       ELSE UNCHANGED <<schedule, savedAt>>
    /\ LET due == schedule'.set.enabled /\ schedule'.next <= wk.at
       IN  wk' = [wk EXCEPT !.seen = schedule'.set, !.pc = IF due THEN "check" ELSE "claim"]
    /\ UNCHANGED <<now, job, report, active, promoted, crashes>>

\* A check that forgets the job that is running.
NothingQueued == Queued = {}

\* "Don't stack if something is already queued/running."
NothingLive == \A j \in JobId : ~Live(j)

\* The return taken as a return from main: the queue waits for the schedule.
CheckQueueOrLeave ==
    /\ At("check")
    /\ IF NothingLive /\ Room THEN Goto("enqueue") ELSE Exit
    /\ UNCHANGED <<now, files, history, crashes>>

CheckQueue ==
    /\ At("check")
    /\ Goto(IF NothingLive /\ Room THEN "enqueue" ELSE "claim")
    /\ UNCHANGED <<now, files, history, crashes>>

EnqueueScheduled ==
    /\ At("enqueue")
    /\ Enqueue("schedule")
    /\ Goto("advance")
    /\ UNCHANGED <<now, report, active, schedule, history, crashes>>

\* save_schedule with the settings loaded before the check.
AdvanceSchedule ==
    /\ At("advance")
    /\ SaveSchedule(wk.seen, wk.at)
    /\ Goto("claim")
    /\ UNCHANGED <<now, job, report, active, promoted, crashes>>

\* claim_next_job: the first queued file by name.
ClaimNext == CHOOSE j \in Queued : \A k \in Queued : j <= k

Claim ==
    /\ At("claim")
    /\ IF Queued = {} THEN Exit
       ELSE wk' = [NoWorker EXCEPT !.pc = "begin", !.id = ClaimNext]
    /\ UNCHANGED <<now, files, history, crashes>>

----------------------------------------------------------------------------
(* process_job *)

Mark(j, status) == job' = [job EXCEPT ![j].status = status]

MarkRunning ==
    /\ At("begin")
    /\ Mark(wk.id, "running")
    /\ Goto("load")
    /\ UNCHANGED <<now, report, active, schedule, history, crashes>>

\* The configurations evaluated: the active one first, then the grid.
Candidates == {active} \cup Grid

\* max over the candidates returns the first one, and the baseline is the first.
Best(score, c) ==
    /\ \A d \in Candidates : score[d] <= score[c]
    /\ score[c] = score[active] => c = active

\* One backtest per configuration, over the same tapes: its score (_run_one, _score).
Backtest == [Config -> Score]

\* The tapes are found and read, every candidate is evaluated.
EvaluateAll ==
    /\ At("load")
    /\ \E score \in Backtest : \E c \in Candidates :
          /\ Best(score, c)
          /\ wk' = [wk EXCEPT !.pc = "promote", !.score = score, !.winner = c,
                              !.better = score[c] > score[active]]
    /\ UNCHANGED <<now, files, history, crashes>>

\* wk.winner is the winner; the configuration file is written if it won.
Promote ==
    /\ At("promote")
    /\ active'   = IF wk.better THEN wk.winner ELSE active
    /\ promoted' = IF wk.better THEN promoted \cup {wk.id} ELSE promoted
    /\ wk' = [NoWorker EXCEPT !.pc = "report", !.id = wk.id, !.better = wk.better]
    /\ UNCHANGED <<now, job, report, schedule, savedAt, crashes>>

\* A job that is completed without its report.
ReportNothing ==
    /\ At("report")
    /\ Goto("complete")
    /\ UNCHANGED <<now, files, history, crashes>>

WriteReport ==
    /\ At("report")
    /\ report' = [report EXCEPT ![wk.id] = IF wk.better THEN "improved" ELSE "no lift"]
    /\ Goto("complete")
    /\ UNCHANGED <<now, job, active, schedule, history, crashes>>

Complete ==
    /\ At("complete")
    /\ Mark(wk.id, "completed")
    /\ Goto("record")
    /\ UNCHANGED <<now, report, active, schedule, history, crashes>>

\* The schedule remembers the job only when it is disabled; an enabled one is saved
\* by save_schedule, which drops last_run_at and last_job_id and computes the next run.
RecordRun ==
    /\ At("record")
    /\ IF schedule.set.enabled
       THEN SaveSchedule(schedule.set, now)
       ELSE schedule' = [schedule EXCEPT !.last = wk.id] /\ UNCHANGED savedAt
    /\ Exit
    /\ UNCHANGED <<now, job, report, active, promoted, crashes>>

\* No tapes, no snapshots, a backtest that raises, a write that fails: anything
\* inside the try block.
ProcessRaises ==
    /\ wk.pc \in {"load", "promote", "report", "complete", "record"}
    /\ Goto("fail")
    /\ UNCHANGED <<now, files, history, crashes>>

MarkFailed ==
    /\ At("fail")
    /\ Mark(wk.id, "failed")
    /\ Exit
    /\ UNCHANGED <<now, report, active, schedule, history, crashes>>

\* The process is killed, or a write outside the try block raises.
Crash ==
    /\ ~At("off") /\ crashes < MaxCrash
    /\ crashes' = crashes + 1
    /\ Exit
    /\ UNCHANGED <<now, files, history>>

----------------------------------------------------------------------------

WorkerStep ==
    \/ WorkerStart \/ LoadSchedule \/ CheckQueue \/ EnqueueScheduled \/ AdvanceSchedule
    \/ Claim \/ MarkRunning \/ EvaluateAll \/ Promote \/ WriteReport \/ Complete
    \/ RecordRun \/ ProcessRaises \/ MarkFailed

Next == Tick \/ ApiSchedule \/ ApiEnqueue \/ WorkerStep \/ Crash

\* The timer starts a worker every minute and a worker that is not killed runs on.
Fairness == WF_vars(WorkerStep)

Spec == Init /\ [][Next]_vars /\ Fairness

----------------------------------------------------------------------------
(* Properties *)

\* An enabled schedule names the earliest tick after it was saved that is at its hour
\* and, if weekly, on the first day of the week (_next_run_at).  Midnight means the
\* default hour, as in the code.
NextRunIsEarliest ==
    schedule.next # -1 =>
        LET Fits(t) == /\ t > savedAt /\ t % Day = Hour(schedule.set) * TicksPerHour
                       /\ schedule.set.weekly => (t \div Day) % DaysPerWeek = 0
        IN  /\ Fits(schedule.next)
            /\ \A t \in savedAt..(schedule.next - 1) : ~Fits(t)

\* However often the worker crashes between enqueueing and saving the schedule, at
\* most one scheduled job is queued or running (maybe_enqueue_scheduled).
SchedulesDoNotStack ==
    Cardinality({j \in JobId : Live(j) /\ job[j].reason = "schedule"}) <= 1

\* A job shown as completed has its report, and the report says whether the active
\* configuration was changed, wherever the worker died before.
CompletedIsReported ==
    \A j \in JobId : job[j].status = "completed" =>
        report[j] = IF j \in promoted THEN "improved" ELSE "no lift"

\* Every queued job is taken up, whatever crashed before it.
QueuedIsTaken ==
    \A j \in JobId : (job[j].status = "queued") ~> (job[j].status # "queued")

\* What list_runs and the job files tell an operator is what the worker did.
ReportsAreTrue == TypeOK /\ CompletedIsReported

=============================================================================
