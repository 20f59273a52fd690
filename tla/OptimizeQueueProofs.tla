------------------------- MODULE OptimizeQueueProofs -------------------------
(***************************************************************************)
(* Proofs about OptimizeQueue, for any number of jobs and crashes, any     *)
(* length of the hour, the day and the week, and any scores a backtest may *)
(* give.                                                                   *)
(***************************************************************************)
EXTENDS OptimizeQueue, FiniteLemmas

----------------------------------------------------------------------------
(* The calendar of the schedule *)

\* Division of the clock into days and of the days into weeks.
LEMMA Division ==
    ASSUME NEW x \in Int, NEW n \in Nat \ {0}
    PROVE  /\ x \div n \in Int /\ x % n \in 0..(n - 1)
           /\ x = n * (x \div n) + (x % n)
<1>1. x = n * (x \div n) + (x % n)
  OBVIOUS
<1>2. x \div n \in Int
  OBVIOUS
<1>3. x % n \in 0..(n - 1)
  OBVIOUS
<1> QED
  BY <1>1, <1>2, <1>3

\* ... and back: quotient and remainder are unique.
LEMMA DivisionUnique ==
    ASSUME NEW n \in Nat \ {0}, NEW q \in Int, NEW r \in 0..(n - 1)
    PROVE  (n * q + r) \div n = q /\ (n * q + r) % n = r
  OBVIOUS

\* The length of a day, and where in it the hour of a schedule lies.
LEMMA DayHour ==
    ASSUME NEW set \in Settings
    PROVE  /\ Day \in Nat \ {0}
           /\ Hour(set) * TicksPerHour \in 0..(Day - 1)
<1> DEFINE H == Hour(set)
<1>1. H \in 0..(HoursPerDay - 1)
  BY QueueAssumption DEF Hour, Settings
<1> HIDE DEF H
<1>2. /\ TicksPerHour \in Nat /\ TicksPerHour >= 1 /\ HoursPerDay \in Nat /\ HoursPerDay >= 1
  BY QueueAssumption
<1>3. Day = TicksPerHour * HoursPerDay /\ Day \in Nat /\ Day >= 1
  BY <1>2 DEF Day
<1>4. /\ H * TicksPerHour \in Nat
      /\ H * TicksPerHour <= (HoursPerDay - 1) * TicksPerHour
  BY <1>1, <1>2
<1>5. (HoursPerDay - 1) * TicksPerHour = Day - TicksPerHour
  BY <1>2, <1>3
<1>6. H * TicksPerHour \in 0..(Day - 1)
  BY <1>2, <1>3, <1>4, <1>5
<1> QED
  BY <1>3, <1>6 DEF H

\* Multiples keep their order.
LEMMA Multiples ==
    ASSUME NEW n \in Nat \ {0}, NEW a \in Int, NEW b \in Int
    PROVE  /\ n * a \in Int /\ n * b \in Int
           /\ a <= b <=> n * a <= n * b
           /\ a < b <=> n * a < n * b
           /\ n * (a + b) = n * a + n * b
           /\ n * (b + 1) = n * b + n /\ n * (b - 1) = n * b - n
<1>1. n * (a + b) = n * a + n * b /\ n * (b + 1) = n * b + n /\ n * (b - 1) = n * b - n
  OBVIOUS
<1>2. n * a \in Int /\ n * b \in Int
  OBVIOUS
<1>3. (a <= b => n * a <= n * b) /\ (b <= a => n * b <= n * a)
  OBVIOUS
<1>4. (a < b => n * a < n * b) /\ (b < a => n * b < n * a)
  OBVIOUS
<1> QED
  BY <1>1, <1>2, <1>3, <1>4

\* The days until the first day of a week, from day f on: that day is one, and none
\* lies between.
LEMMA WeekStart ==
    ASSUME NEW W \in Nat \ {0}, NEW f \in Int, NEW k, k = (W - (f % W)) % W
    PROVE  /\ k \in 0..(W - 1)
           /\ (f + k) % W = 0
           /\ \A a \in Int : f <= a /\ a < f + k => a % W # 0
<1> DEFINE m == f \div W
           d == f % W
<1>1. m \in Int /\ d \in 0..(W - 1) /\ f = W * m + d
  BY Division
<1>2. k = (W - d) % W /\ W - d \in Int
  BY <1>1
<1> HIDE DEF m, d
<1>3. CASE d = 0
  <2>1. W * 1 + 0 = W /\ (W * 1 + 0) % W = 0
    BY DivisionUnique
  <2>2. k = 0
    BY <1>2, <1>3, <2>1
  <2>3. f % W = 0
    BY <1>1, <1>3, DivisionUnique
  <2> QED
    BY <1>1, <2>2, <2>3
<1>4. CASE d # 0
  <2>1. W - d \in 0..(W - 1) /\ W * 0 + (W - d) = W - d
    BY <1>1, <1>4
  <2>2. k = W - d
    BY <1>2, <2>1, DivisionUnique
  <2>3. f + k = W * (m + 1) + 0 /\ f + k = W * m + W
    BY <1>1, <2>2, Multiples
  <2>4. (f + k) % W = 0
    <3>1. (W * (m + 1) + 0) % W = 0
      BY <1>1, DivisionUnique
    <3> QED
      BY <2>3, <3>1
  <2>5. ASSUME NEW a \in Int, f <= a, a < f + k, a % W = 0 PROVE FALSE
    <3>1. PICK b \in Int : a = W * b
      <4>1. a \div W \in Int /\ a = W * (a \div W) + (a % W)
        BY Division
      <4>2. W * (a \div W) \in Int
        BY <4>1, Multiples
      <4> QED
        BY <2>5, <4>1, <4>2
    <3>2. W * m < W * b /\ W * b < W * (m + 1)
      BY <1>1, <1>4, <2>3, <2>5, <3>1, Multiples
    <3>3. m < b /\ b < m + 1
      BY <1>1, <3>2, Multiples
    <3> QED
      BY <1>1, <3>3
  <2> QED
    BY <2>1, <2>2, <2>4, <2>5
<1> QED
  BY <1>3, <1>4

\* A tick at which a schedule saved at after may run.
MayRun(set, after, t) ==
    /\ t > after /\ t % Day = Hour(set) * TicksPerHour
    /\ set.weekly => (t \div Day) % DaysPerWeek = 0

\* _next_run_at finds the earliest such tick, whatever the time it is called at.
LEMMA NextRunIsFirst ==
    ASSUME NEW set \in Settings, NEW after \in Nat
    PROVE  /\ NextRunAt(set, after) \in Int
           /\ MayRun(set, after, NextRunAt(set, after))
           /\ \A t \in after..(NextRunAt(set, after) - 1) : ~MayRun(set, after, t)
<1> DEFINE D == Day
           W == DaysPerWeek
           h == Hour(set) * TicksPerHour
           q == after \div D
           r == after % D
           f == IF h <= r THEN q + 1 ELSE q
           k == IF set.weekly THEN (W - (f % W)) % W ELSE 0
           next == NextRunAt(set, after)
<1>1. D \in Nat \ {0} /\ h \in 0..(D - 1) /\ W \in Nat \ {0}
  BY DayHour, QueueAssumption
<1> HIDE DEF D, W, h
<1>2. q \in Int /\ r \in 0..(D - 1) /\ after = D * q + r
  BY <1>1, Division
<1> HIDE DEF q, r
<1>3. f \in Int /\ D * f \in Int
  BY <1>1, <1>2, Multiples
<1>4. /\ after < D * f + h
      /\ \A a \in Int : after < D * a + h => f <= a
  <2>1. CASE h <= r
    <3>1. f = q + 1 /\ D * f = D * q + D
      BY <1>1, <1>2, <2>1, Multiples
    <3>2. ASSUME NEW a \in Int, after < D * a + h PROVE f <= a
      <4>1. D * q < D * a
        BY <1>1, <1>2, <2>1, <3>2, Multiples
      <4>2. q < a
        BY <1>1, <1>2, <4>1, Multiples
      <4> QED
        BY <1>2, <3>1, <4>2
    <3> QED
      BY <1>1, <1>2, <3>1, <3>2, Multiples
  <2>2. CASE r < h
    <3>1. f = q
      BY <1>1, <1>2, <2>2
    <3>2. ASSUME NEW a \in Int, after < D * a + h PROVE f <= a
      <4>1. D * (q - 1) < D * a
        BY <1>1, <1>2, <3>2, Multiples
      <4>2. q - 1 < a
        BY <1>1, <1>2, <4>1, Multiples
      <4> QED
        BY <1>2, <3>1, <4>2
    <3> QED
      BY <1>1, <1>2, <2>2, <3>1, <3>2, Multiples
  <2> QED
    BY <1>1, <1>2, <2>1, <2>2
<1> HIDE DEF f
<1>5. /\ k \in Nat
      /\ set.weekly => (f + k) % W = 0
      /\ ~set.weekly => k = 0
      /\ set.weekly => \A a \in Int : f <= a /\ a < f + k => a % W # 0
  <2> DEFINE w == (W - (f % W)) % W
  <2>1. /\ w \in 0..(W - 1) /\ (f + w) % W = 0
        /\ \A a \in Int : f <= a /\ a < f + w => a % W # 0
    BY <1>1, <1>3, WeekStart
  <2>2. w \in Nat
    BY <1>1, <2>1
  <2>3. k = IF set.weekly THEN w ELSE 0
    OBVIOUS
  <2> HIDE DEF w, k
  <2>4. CASE set.weekly
    BY <2>1, <2>2, <2>3, <2>4
  <2>5. CASE ~set.weekly
    BY <2>3, <2>5
  <2> QED
    BY <2>4, <2>5
<1>6. next = D * (f + k) + h
  <2>1. next = LET today == q * D + h
                   first == IF today <= after THEN today + D ELSE today
                   day   == (first \div D) % W
               IN  IF set.weekly THEN first + ((W - day) % W) * D ELSE first
    BY DEF NextRunAt, D, W, h, q
  <2>2. q * D = D * q /\ D * q \in Int
    BY <1>1, <1>2
  <2>3. (IF q * D + h <= after THEN q * D + h + D ELSE q * D + h) = D * f + h
    <3>1. D * (q + 1) = D * q + D
      BY <1>1, <1>2, Multiples
    <3> QED
      BY <1>1, <1>2, <2>2, <3>1 DEF f
  <2>4. (D * f + h) \div D = f
    BY <1>1, <1>3, DivisionUnique
  <2>5. next = IF set.weekly THEN D * f + h + ((W - (f % W)) % W) * D ELSE D * f + h
    BY <2>1, <2>3, <2>4
  <2>6. next = D * f + h + k * D
    BY <1>1, <1>3, <1>5, <2>5
  <2>7. D * (f + k) = D * f + D * k /\ D * k = k * D /\ D * k \in Int
    BY <1>1, <1>3, <1>5, Multiples
  <2> QED
    BY <1>1, <1>3, <2>6, <2>7
<1> HIDE DEF k, next
<1>7. next \div D = f + k /\ next % D = h /\ next \in Int
  BY <1>1, <1>3, <1>5, <1>6, DivisionUnique, Multiples
<1>8. after < next
  <2>1. D * f <= D * (f + k) /\ D * (f + k) \in Int
    BY <1>1, <1>3, <1>5, Multiples
  <2> QED
    BY <1>1, <1>3, <1>4, <1>6, <2>1
<1>9. MayRun(set, after, next)
  BY <1>5, <1>7, <1>8 DEF MayRun, D, W, h
<1>10. ASSUME NEW t \in after..(next - 1), MayRun(set, after, t) PROVE FALSE
  <2> DEFINE a == t \div D
  <2>1. t \in Int /\ t > after /\ t < next /\ t % D = h /\ (set.weekly => a % W = 0)
    BY <1>7, <1>10 DEF MayRun, D, W, h
  <2>2. a \in Int /\ t = D * a + h
    BY <1>1, <2>1, Division
  <2> HIDE DEF a
  <2>3. f <= a
    BY <1>4, <2>1, <2>2
  <2>4. D * a < D * (f + k)
    BY <1>1, <1>3, <1>5, <1>6, <2>1, <2>2, Multiples
  <2>5. a < f + k
    BY <1>1, <1>3, <1>5, <2>2, <2>4, Multiples
  <2> QED
    BY <1>3, <1>5, <2>1, <2>2, <2>3, <2>5
<1> QED
  BY <1>7, <1>9, <1>10 DEF next

----------------------------------------------------------------------------
(* The inductive invariant *)

Worker == [pc: WorkerPC, at: 0..MaxNow, seen: Settings, id: AnyJob,
           score: [Config -> Int], winner: Config, better: BOOLEAN]

QueueTypes == TypeOK /\ wk \in Worker

\* The worker's steps from the claim of a job on.
Claimed == {"begin", "load", "promote", "report", "complete", "record", "fail"}

\* The next run was computed from the settings in the file.
NextInv == schedule.next # -1 => schedule.next = NextRunAt(schedule.set, savedAt)

\* What the worker knows of the job it holds is still so: no request touches it.
WorkerInv ==
    /\ wk.pc \in Claimed => wk.id \in JobId
    /\ wk.pc = "begin" => job[wk.id].status = "queued"
    /\ wk.pc \in {"load", "promote", "report", "complete"} => job[wk.id].status = "running"

\* There is a report of the job, and it tells whether it changed the configuration.
Told(j) == report[j] = IF j \in promoted THEN "improved" ELSE "no lift"

\* What the worker is about to report of the configuration is what it did.
PromotedInv ==
    /\ \A j \in promoted : job[j].status \notin {"absent", "queued"}
    /\ wk.pc \in {"begin", "load", "promote"} => wk.id \notin promoted
    /\ wk.pc = "report" => wk.better = (wk.id \in promoted)
    /\ \A j \in JobId : wk.pc = "complete" /\ wk.id = j => Told(j)

Scheduled(j) == Live(j) /\ job[j].reason = "schedule"

\* Between its check and its write nobody else schedules a job.
StackInv ==
    /\ wk.pc = "enqueue" => \A j \in JobId : ~Scheduled(j)
    /\ \A j, k \in JobId : Scheduled(j) /\ Scheduled(k) => j = k

QueueInv ==
    /\ QueueTypes /\ NextInv /\ WorkerInv /\ PromotedInv /\ StackInv
    /\ CompletedIsReported

\* The job claimed is queued, and the first by name of those that are.
LEMMA ClaimIsFirst ==
    ASSUME Queued # {}
    PROVE  ClaimNext \in Queued /\ \A k \in Queued : ClaimNext <= k
<1>1. Queued \in SUBSET Nat
  BY QueueAssumption DEF Queued, JobId
<1>2. \E j \in Queued : \A k \in Queued : j <= k
  BY <1>1, LeastNumber
<1> QED
  BY <1>2 DEF ClaimNext

\* A schedule that is saved names the next run of its own settings.
LEMMA SavedNext ==
    ASSUME schedule \in [set: Settings, next: Int, last: AnyJob],
           NEW set \in Settings, NEW at \in 0..MaxNow, SaveSchedule(set, at)
    PROVE  /\ schedule' \in [set: Settings, next: Int, last: AnyJob]
           /\ savedAt' \in 0..MaxNow /\ NextInv'
<1>1. NextRunAt(set, at) \in Int /\ at \in Nat
  <2>1. at \in Nat
    BY QueueAssumption
  <2> QED
    BY <2>1, NextRunIsFirst
<1>2. 0 \in 0..MaxNow
  BY QueueAssumption
<1> DEFINE next == IF set.enabled THEN NextRunAt(set, at) ELSE -1
<1>3. next \in Int
  BY <1>1
<1>4. /\ schedule' = [schedule EXCEPT !.set = set, !.next = next]
      /\ savedAt' = IF set.enabled THEN at ELSE 0
  BY DEF SaveSchedule
<1> HIDE DEF next
<1>5. /\ schedule' \in [set: Settings, next: Int, last: AnyJob]
      /\ schedule'.set = set /\ schedule'.next = next
  BY <1>3, <1>4
<1>6. savedAt' \in 0..MaxNow
  BY <1>2, <1>4
<1>7. schedule'.next # -1 => schedule'.next = NextRunAt(schedule'.set, savedAt')
  BY <1>4, <1>5 DEF next
<1> QED
  BY <1>5, <1>6, <1>7 DEF NextInv

\* A worker that starts or exits.
LEMMA NoWorkerTypes ==
    NoWorker \in Worker
<1>1. DefaultSettings \in Settings
  BY QueueAssumption DEF DefaultSettings, Settings
<1>2. "off" \in WorkerPC
  BY DEF WorkerPC
<1>3. 0 \in 0..MaxNow /\ Default \in Config
  BY QueueAssumption
<1> QED
  BY <1>1, <1>2, <1>3 DEF NoWorker, Worker, AnyJob

----------------------------------------------------------------------------
(* Types *)

\* A job file that is written or marked is a job file.
LEMMA JobTypes ==
    ASSUME job \in [JobId -> Job], NEW j \in JobId
    PROVE  /\ \A why \in {"manual", "schedule"} :
                 [job EXCEPT ![j] = NewJob(why)] \in [JobId -> Job]
           /\ \A status \in {"running", "completed", "failed"} :
                 [job EXCEPT ![j].status = status] \in [JobId -> Job]
<1>1. \A why \in {"manual", "schedule"} : NewJob(why) \in Job
  BY DEF NewJob, Job
<1>2. \A status \in {"running", "completed", "failed"} : [job[j] EXCEPT !.status = status] \in Job
  BY DEF Job
<1> HIDE DEF Job
<1> QED
  BY <1>1, <1>2

\* A worker that goes on.
LEMMA GotoTypes ==
    ASSUME wk \in Worker, NEW pc \in WorkerPC, Goto(pc)
    PROVE  wk' \in Worker /\ wk' = [wk EXCEPT !.pc = pc]
<1>1. wk' = [wk EXCEPT !.pc = pc]
  BY DEF Goto
<1>2. [wk EXCEPT !.pc = pc] \in Worker
  BY DEF Worker
<1> QED
  BY <1>1, <1>2

\* Every step keeps the types and the next run.
LEMMA TypeStep ==
    ASSUME QueueTypes, NextInv, WorkerInv, [Next]_vars
    PROVE  QueueTypes' /\ NextInv'
<1> USE DEF QueueTypes, files, history
<1>1. /\ MaxJob \in Nat /\ MaxNow \in Nat /\ MaxCrash \in Nat /\ Default \in Config
      /\ Grid \subseteq Config /\ Score \subseteq Int
  BY QueueAssumption
<1>2. /\ now \in 0..MaxNow /\ job \in [JobId -> Job]
      /\ report \in [JobId -> Report] /\ active \in Config
      /\ schedule \in [set: Settings, next: Int, last: AnyJob] /\ crashes \in 0..MaxCrash
      /\ promoted \subseteq JobId /\ savedAt \in 0..MaxNow /\ wk \in Worker
  BY DEF TypeOK
<1>3. /\ "schedule" \in WorkerPC /\ "check" \in WorkerPC /\ "enqueue" \in WorkerPC
      /\ "advance" \in WorkerPC /\ "claim" \in WorkerPC /\ "begin" \in WorkerPC
      /\ "load" \in WorkerPC /\ "promote" \in WorkerPC /\ "report" \in WorkerPC
      /\ "complete" \in WorkerPC /\ "record" \in WorkerPC /\ "fail" \in WorkerPC
  BY DEF WorkerPC
<1>4. wk.at \in 0..MaxNow /\ wk.seen \in Settings /\ wk.id \in AnyJob
  BY <1>2 DEF Worker
<1>5. NoWorker \in Worker
  BY NoWorkerTypes
<1>6. SUFFICES /\ now' \in 0..MaxNow /\ job' \in [JobId -> Job]
               /\ report' \in [JobId -> Report] /\ active' \in Config
               /\ schedule' \in [set: Settings, next: Int, last: AnyJob]
               /\ crashes' \in 0..MaxCrash /\ promoted' \subseteq JobId
               /\ savedAt' \in 0..MaxNow /\ wk' \in Worker /\ NextInv'
  <2>1. ASSUME wk' \in Worker
        PROVE  wk'.pc \in WorkerPC /\ wk'.at \in 0..MaxNow /\ wk'.id \in AnyJob
    BY <2>1 DEF Worker
  <2> QED
    BY <1>6, <2>1 DEF TypeOK
<1>7. /\ schedule' = schedule /\ savedAt' = savedAt => NextInv'
      /\ wk.pc \in Claimed => wk.id \in JobId
  <2>1. schedule' = schedule /\ savedAt' = savedAt => NextInv'
    BY DEF NextInv
  <2>2. wk.pc \in Claimed => wk.id \in JobId
    BY DEF WorkerInv
  <2> QED
    BY <2>1, <2>2
<1> HIDE DEF QueueTypes
<1>8. CASE Tick \/ ApiEnqueue
  <2>1. CASE Tick
    BY <1>1, <1>2, <1>7, <2>1 DEF Tick
  <2>2. CASE ApiEnqueue
    <3>1. PICK j \in JobId : job' = [job EXCEPT ![j] = NewJob("manual")]
      BY <2>2 DEF ApiEnqueue, Enqueue
    <3>2. job' \in [JobId -> Job]
      BY <1>2, <3>1, JobTypes
    <3> QED
      BY <1>2, <1>7, <2>2, <3>2 DEF ApiEnqueue
  <2> QED
    BY <1>8, <2>1, <2>2
<1>9. CASE ApiSchedule
  BY <1>2, <1>9, SavedNext DEF ApiSchedule
<1>10. CASE WorkerStart \/ Crash
  <2>1. CASE WorkerStart
    <3>1. [NoWorker EXCEPT !.pc = "schedule", !.at = now] \in Worker
      BY <1>2, <1>3, <1>5 DEF Worker
    <3> QED
      BY <1>2, <1>7, <2>1, <3>1 DEF WorkerStart
  <2>2. CASE Crash
    BY <1>1, <1>2, <1>5, <1>7, <2>2 DEF Crash, Exit
  <2> QED
    BY <1>10, <2>1, <2>2
<1>11. CASE LoadSchedule
  <2>1. /\ schedule' \in [set: Settings, next: Int, last: AnyJob]
        /\ savedAt' \in 0..MaxNow /\ NextInv'
    <3>1. schedule.set \in Settings
      BY <1>2
    <3>2. CASE schedule.set.enabled /\ schedule.next = -1
      BY <1>2, <1>4, <1>11, <3>1, <3>2, SavedNext DEF LoadSchedule
    <3>3. CASE ~(schedule.set.enabled /\ schedule.next = -1)
      BY <1>2, <1>7, <1>11, <3>3 DEF LoadSchedule
    <3> QED
      BY <3>2, <3>3
  <2>3. PICK pc \in WorkerPC : wk' = [wk EXCEPT !.seen = schedule'.set, !.pc = pc]
    BY <1>3, <1>11 DEF LoadSchedule
  <2>4. schedule'.set \in Settings
    BY <2>1
  <2>5. wk' \in Worker
    BY <1>2, <2>3, <2>4 DEF Worker
  <2> QED
    BY <1>2, <1>11, <2>1, <2>5 DEF LoadSchedule
<1>12. CASE CheckQueue \/ EnqueueScheduled \/ AdvanceSchedule
  <2>1. CASE CheckQueue
    BY <1>2, <1>3, <1>7, <2>1, GotoTypes DEF CheckQueue
  <2>2. CASE EnqueueScheduled
    <3>1. PICK j \in JobId : job' = [job EXCEPT ![j] = NewJob("schedule")]
      BY <2>2 DEF EnqueueScheduled, Enqueue
    <3>2. job' \in [JobId -> Job]
      BY <1>2, <3>1, JobTypes
    <3> QED
      BY <1>2, <1>3, <1>7, <2>2, <3>2, GotoTypes DEF EnqueueScheduled
  <2>3. CASE AdvanceSchedule
    BY <1>2, <1>3, <1>4, <2>3, GotoTypes, SavedNext DEF AdvanceSchedule
  <2> QED
    BY <1>12, <2>1, <2>2, <2>3
<1>13. CASE Claim
  <2>1. CASE Queued = {}
    BY <1>2, <1>5, <1>7, <1>13, <2>1 DEF Claim, Exit
  <2>2. CASE Queued # {}
    <3>1. ClaimNext \in JobId
      BY <2>2, ClaimIsFirst DEF Queued
    <3>2. [NoWorker EXCEPT !.pc = "begin", !.id = ClaimNext] \in Worker
      BY <1>3, <1>5, <3>1 DEF Worker, AnyJob
    <3> QED
      BY <1>2, <1>7, <1>13, <2>2, <3>2 DEF Claim
  <2> QED
    BY <2>1, <2>2
<1>14. CASE MarkRunning \/ Complete \/ MarkFailed \/ ProcessRaises
  <2>1. CASE MarkRunning
    BY <1>2, <1>3, <1>7, <2>1, GotoTypes, JobTypes DEF MarkRunning, At, Mark, Claimed
  <2>2. CASE Complete
    BY <1>2, <1>3, <1>7, <2>2, GotoTypes, JobTypes DEF Complete, At, Mark, Claimed
  <2>3. CASE MarkFailed
    BY <1>2, <1>5, <1>7, <2>3, JobTypes DEF MarkFailed, At, Mark, Exit, Claimed
  <2>4. CASE ProcessRaises
    BY <1>2, <1>3, <1>7, <2>4, GotoTypes DEF ProcessRaises
  <2> QED
    BY <1>14, <2>1, <2>2, <2>3, <2>4
<1>15. CASE EvaluateAll
  <2>1. PICK score \in Backtest, c \in Candidates :
             wk' = [wk EXCEPT !.pc = "promote", !.score = score, !.winner = c,
                              !.better = score[c] > score[active]]
    BY <1>15 DEF EvaluateAll
  <2>2. score \in [Config -> Int] /\ c \in Config /\ (score[c] > score[active]) \in BOOLEAN
    BY <1>1, <1>2, <2>1 DEF Backtest, Candidates
  <2>3. wk' \in Worker
    BY <1>2, <1>3, <2>1, <2>2 DEF Worker
  <2> QED
    BY <1>2, <1>7, <1>15, <2>3 DEF EvaluateAll
<1>16. CASE Promote
  <2>1. wk.id \in JobId /\ wk.better \in BOOLEAN /\ wk.winner \in Config
    BY <1>2, <1>7, <1>16 DEF Promote, At, Claimed, Worker
  <2>2. [NoWorker EXCEPT !.pc = "report", !.id = wk.id, !.better = wk.better] \in Worker
    BY <1>3, <1>5, <2>1 DEF Worker, AnyJob
  <2> QED
    BY <1>2, <1>7, <1>16, <2>1, <2>2 DEF Promote
<1>17. CASE WriteReport
  <2>2. report' \in [JobId -> Report]
    BY <1>2, <1>17 DEF WriteReport, Report
  <2> QED
    BY <1>2, <1>3, <1>7, <1>17, <2>2, GotoTypes DEF WriteReport
<1>18. CASE RecordRun
  <2>1. schedule.set \in Settings
    BY <1>2
  <2>2. CASE schedule.set.enabled
    BY <1>2, <1>5, <1>18, <2>1, <2>2, SavedNext DEF RecordRun, Exit
  <2>3. CASE ~schedule.set.enabled
    <3>1. schedule' = [schedule EXCEPT !.last = wk.id] /\ savedAt' = savedAt
      BY <1>18, <2>3 DEF RecordRun
    <3>2. /\ schedule' \in [set: Settings, next: Int, last: AnyJob]
          /\ schedule'.next = schedule.next /\ schedule'.set = schedule.set
      BY <1>2, <1>4, <3>1
    <3>3. NextInv'
      BY <3>1, <3>2 DEF NextInv
    <3> QED
      BY <1>2, <1>5, <1>18, <3>1, <3>2, <3>3 DEF RecordRun, Exit
  <2> QED
    BY <2>2, <2>3
<1>19. CASE UNCHANGED vars
  BY <1>2, <1>7, <1>19 DEF vars
<1> QED
  BY <1>8, <1>9, <1>10, <1>11, <1>12, <1>13, <1>14, <1>15, <1>16, <1>17, <1>18, <1>19
  DEF Next, WorkerStep

----------------------------------------------------------------------------
(* The worker and its job *)

\* The job files a step may change: the one it names, or none.
LEMMA Named ==
    ASSUME QueueTypes
    PROVE  /\ MaxJob \in Nat /\ wk.id \in AnyJob
           /\ job \in [JobId -> Job] /\ wk \in Worker
           /\ report \in [JobId -> Report]
           /\ promoted \subseteq JobId
           /\ \A j \in JobId : j \in Nat /\ j >= 1
<1>1. \A j \in JobId : j \in Nat /\ j >= 1
  BY QueueAssumption DEF JobId
<1> QED
  BY <1>1, QueueAssumption DEF QueueTypes, TypeOK

\* The worker's view of its job survives every step of the API and its own.
LEMMA WorkerViewStep ==
    ASSUME QueueTypes, WorkerInv, [Next]_vars
    PROVE  WorkerInv'
<1> USE DEF WorkerInv, files, history, At, Goto, Exit, NoWorker, Claimed
<1>1. /\ job \in [JobId -> [status: {"absent", "queued", "running", "completed", "failed"},
                            reason: {"manual", "schedule"}]]
      /\ wk.id # 0 => wk.id \in JobId
  BY Named DEF Job, AnyJob
<1>2. wk \in [pc: WorkerPC, at: 0..MaxNow, seen: Settings, id: AnyJob,
              score: [Config -> Int], winner: Config, better: BOOLEAN]
  BY Named DEF Worker
<1>3. CASE Tick \/ ApiSchedule \/ WorkerStart \/ Crash \/ AdvanceSchedule \/ RecordRun \/ UNCHANGED vars
  <2>1. CASE Tick \/ ApiSchedule \/ UNCHANGED vars
    BY <2>1 DEF Tick, ApiSchedule, vars
  <2>2. CASE WorkerStart \/ Crash \/ RecordRun
    <3>1. WorkerStart => wk'.pc = "schedule"
      BY DEF WorkerStart
    <3>2. Crash \/ RecordRun => wk'.pc = "off"
      BY DEF Crash, RecordRun
    <3> QED
      BY <2>2, <3>1, <3>2
  <2>3. CASE AdvanceSchedule
    BY <1>2, <2>3 DEF AdvanceSchedule
  <2> QED
    BY <1>3, <2>1, <2>2, <2>3
<1>4. CASE ApiEnqueue
  <2>1. PICK j \in JobId : job[j].status = "absent" /\ job' = [job EXCEPT ![j] = NewJob("manual")]
    BY <1>4 DEF ApiEnqueue, Enqueue
  <2>2. \A k \in JobId : k # j => job'[k] = job[k]
    BY <1>1, <2>1
  <2>3. wk' = wk
    BY <1>4 DEF ApiEnqueue
  <2> QED
    BY <2>1, <2>2, <2>3
<1>5. CASE LoadSchedule
  BY <1>2, <1>5 DEF LoadSchedule
<1>6. CASE CheckQueue
  BY <1>2, <1>6 DEF CheckQueue
<1>7. CASE EnqueueScheduled
  BY <1>2, <1>7 DEF EnqueueScheduled
<1>8. CASE Claim
  <2>1. ASSUME Queued # {}
        PROVE  ClaimNext \in JobId /\ job[ClaimNext].status = "queued"
    BY <2>1, ClaimIsFirst DEF Queued
  <2>2. CASE Queued = {}
    BY <1>8, <2>2 DEF Claim
  <2>3. CASE Queued # {}
    <3>1. wk'.pc = "begin" /\ wk'.id = ClaimNext /\ job' = job
      BY <1>8, <2>3 DEF Claim
    <3> QED
      BY <2>1, <2>3, <3>1
  <2> QED
    BY <2>2, <2>3
<1>9. CASE MarkRunning \/ Complete \/ MarkFailed
  BY <1>1, <1>2, <1>9 DEF MarkRunning, Complete, MarkFailed, Mark
<1>10. CASE EvaluateAll \/ ProcessRaises
  BY <1>1, <1>2, <1>10 DEF EvaluateAll, ProcessRaises
<1>11. CASE Promote \/ WriteReport
  BY <1>1, <1>2, <1>11 DEF Promote, WriteReport
<1> QED
  BY <1>3, <1>4, <1>5, <1>6, <1>7, <1>8, <1>9, <1>10, <1>11 DEF Next, WorkerStep

----------------------------------------------------------------------------
(* Reports *)

\* What the worker did to the active configuration, what it reports of it and what the
\* job file shows stay in step.
LEMMA PromotedStep ==
    ASSUME QueueTypes, WorkerInv, PromotedInv, CompletedIsReported, [Next]_vars
    PROVE  PromotedInv' /\ CompletedIsReported'
<1> USE DEF files, history, At, Goto, Exit
<1>1. /\ job \in [JobId -> [status: {"absent", "queued", "running", "completed", "failed"},
                            reason: {"manual", "schedule"}]]
      /\ promoted \subseteq JobId
  BY Named DEF Job
<1>2. wk \in [pc: WorkerPC, at: 0..MaxNow, seen: Settings, id: AnyJob,
              score: [Config -> Int], winner: Config, better: BOOLEAN]
  BY Named DEF Worker
<1>3. NoWorker.pc = "off"
  BY DEF NoWorker
<1>4. ASSUME NEW j \in JobId, j \in promoted' <=> j \in promoted, report' = report, Told(j)
      PROVE  Told(j)'
  BY <1>4 DEF Told
<1>5. CompletedIsReported <=> \A j \in JobId : job[j].status = "completed" => Told(j)
  BY DEF CompletedIsReported, Told
<1>6. CompletedIsReported' <=> \A j \in JobId : job'[j].status = "completed" => Told(j)'
  BY DEF CompletedIsReported, Told
<1>7. ASSUME promoted' = promoted, report' = report,
             \A j \in JobId : \/ job'[j] = job[j]
                              \/ job'[j].status \in {"running", "failed"}
                              \/ job[j].status = "absent" /\ job'[j].status = "queued"
      PROVE  /\ \A j \in promoted' : job'[j].status \notin {"absent", "queued"}
             /\ CompletedIsReported'
  BY <1>1, <1>4, <1>5, <1>6, <1>7 DEF PromotedInv
<1>8. CASE Tick \/ ApiSchedule \/ UNCHANGED vars
  <2>1. wk' = wk /\ job' = job /\ promoted' = promoted /\ report' = report
    BY <1>8 DEF Tick, ApiSchedule, vars
  <2>2. wk.pc = "complete" => wk.id \in JobId
    BY <1>1 DEF WorkerInv, Claimed
  <2>3. /\ \A j \in promoted' : job'[j].status \notin {"absent", "queued"}
        /\ CompletedIsReported'
    BY <1>7, <2>1
  <2> QED
    BY <2>1, <2>2, <2>3 DEF PromotedInv, Told
<1>9. CASE ApiEnqueue \/ EnqueueScheduled
  <2>1. PICK j \in JobId, why \in {"manual", "schedule"} :
             job[j].status = "absent" /\ job' = [job EXCEPT ![j] = NewJob(why)]
    BY <1>9 DEF ApiEnqueue, EnqueueScheduled, Enqueue
  <2>2. \A k \in JobId :
           \/ job'[k] = job[k]
           \/ job[k].status = "absent" /\ job'[k].status = "queued"
    BY <1>1, <2>1 DEF NewJob
  <2>3. promoted' = promoted /\ report' = report
    BY <1>9 DEF ApiEnqueue, EnqueueScheduled
  <2>4. /\ \A k \in promoted' : job'[k].status \notin {"absent", "queued"}
        /\ CompletedIsReported'
    BY <1>7, <2>2, <2>3
  <2>5. CASE ApiEnqueue
    <3>1. wk' = wk
      BY <2>5 DEF ApiEnqueue
    <3>2. wk.pc = "complete" => wk.id \in JobId
      BY DEF WorkerInv, Claimed
    <3> QED
      BY <2>3, <2>4, <3>1, <3>2 DEF PromotedInv, Told
  <2>6. CASE EnqueueScheduled
    <3>1. wk'.pc = "advance"
      BY <1>2, <2>6 DEF EnqueueScheduled
    <3> QED
      BY <2>4, <3>1 DEF PromotedInv
  <2> QED
    BY <1>9, <2>5, <2>6
<1>10. CASE WorkerStart \/ LoadSchedule \/ CheckQueue \/ AdvanceSchedule \/ RecordRun
            \/ Crash \/ ProcessRaises
  <2>1. job' = job /\ promoted' = promoted /\ report' = report
    BY <1>10 DEF WorkerStart, LoadSchedule, CheckQueue, AdvanceSchedule, RecordRun, Crash, ProcessRaises
  <2>2. wk'.pc \in {"off", "schedule", "check", "enqueue", "claim", "fail"}
    <3>1. WorkerStart => wk'.pc = "schedule"
      BY DEF WorkerStart, NoWorker
    <3>2. Crash \/ RecordRun => wk'.pc = "off"
      BY <1>3 DEF Crash, RecordRun
    <3>3. LoadSchedule => wk'.pc \in {"check", "claim"}
      BY <1>2 DEF LoadSchedule
    <3>4. CheckQueue \/ AdvanceSchedule \/ ProcessRaises => wk'.pc \in {"enqueue", "claim", "fail"}
      BY <1>2 DEF CheckQueue, AdvanceSchedule, ProcessRaises
    <3> QED
      BY <1>10, <3>1, <3>2, <3>3, <3>4
  <2>3. /\ \A j \in promoted' : job'[j].status \notin {"absent", "queued"}
        /\ CompletedIsReported'
    BY <1>7, <2>1
  <2> QED
    BY <2>2, <2>3 DEF PromotedInv
<1>11. CASE Claim
  <2>1. job' = job /\ promoted' = promoted /\ report' = report
    BY <1>11 DEF Claim
  <2>2. /\ \A j \in promoted' : job'[j].status \notin {"absent", "queued"}
        /\ CompletedIsReported'
    BY <1>7, <2>1
  <2>3. CASE Queued = {}
    BY <1>3, <1>11, <2>3, <2>2 DEF Claim, PromotedInv
  <2>4. CASE Queued # {}
    <3>1. wk'.pc = "begin" /\ wk'.id = ClaimNext
      BY <1>11, <2>4 DEF Claim, NoWorker
    <3>2. job[ClaimNext].status = "queued"
      BY <2>4, ClaimIsFirst DEF Queued
    <3> QED
      BY <2>1, <2>2, <3>1, <3>2 DEF PromotedInv
  <2> QED
    BY <2>3, <2>4
<1>12. CASE MarkRunning \/ MarkFailed
  <2>1. /\ wk.id \in JobId /\ promoted' = promoted /\ report' = report
        /\ \E status \in {"running", "failed"} : job' = [job EXCEPT ![wk.id].status = status]
    BY <1>1, <1>12 DEF MarkRunning, MarkFailed, Mark, WorkerInv, Claimed
  <2>2. \A j \in JobId : job'[j] = job[j] \/ job'[j].status \in {"running", "failed"}
    BY <1>1, <2>1
  <2>3. \/ wk'.pc = "load" /\ wk'.id = wk.id /\ wk.pc = "begin"
        \/ wk'.pc = "off"
    BY <1>2, <1>3, <1>12 DEF MarkRunning, MarkFailed
  <2>4. /\ \A j \in promoted' : job'[j].status \notin {"absent", "queued"}
        /\ CompletedIsReported'
    BY <1>7, <2>1, <2>2
  <2> QED
    BY <2>1, <2>3, <2>4 DEF PromotedInv
<1>13. CASE EvaluateAll
  <2>1. job' = job /\ promoted' = promoted /\ report' = report /\ wk.pc = "load"
    BY <1>13 DEF EvaluateAll
  <2>2. wk'.pc = "promote" /\ wk'.id = wk.id
    BY <1>2, <1>13 DEF EvaluateAll
  <2>3. /\ \A j \in promoted' : job'[j].status \notin {"absent", "queued"}
        /\ CompletedIsReported'
    BY <1>7, <2>1
  <2> QED
    BY <2>1, <2>2, <2>3 DEF PromotedInv
<1>14. CASE Promote
  <2>1. /\ wk.pc = "promote" /\ wk.id \in JobId /\ wk.better \in BOOLEAN
        /\ job[wk.id].status = "running" /\ wk.id \notin promoted
    BY <1>1, <1>2, <1>14 DEF Promote, WorkerInv, PromotedInv, Claimed
  <2>2. /\ wk'.pc = "report" /\ wk'.id = wk.id /\ wk'.better = wk.better /\ job' = job
        /\ report' = report
        /\ promoted' = IF wk.better THEN promoted \cup {wk.id} ELSE promoted
    BY <1>14 DEF Promote, NoWorker
  <2>3. wk.better = (wk.id \in promoted')
    BY <2>1, <2>2
  <2>4. \A j \in JobId : j # wk.id => (j \in promoted' <=> j \in promoted)
    BY <2>2
  <2>5. CompletedIsReported'
    BY <1>4, <1>5, <1>6, <2>1, <2>2, <2>4
  <2>6. \A j \in promoted' : job'[j].status \notin {"absent", "queued"}
    BY <2>1, <2>2 DEF PromotedInv
  <2> QED
    BY <2>2, <2>3, <2>5, <2>6 DEF PromotedInv
<1>15. CASE WriteReport
  <2>1. /\ wk.pc = "report" /\ wk'.pc = "complete" /\ wk'.id = wk.id
        /\ job' = job /\ promoted' = promoted
        /\ wk.id \in JobId /\ wk.better = (wk.id \in promoted)
        /\ job[wk.id].status = "running"
        /\ report' = [report EXCEPT ![wk.id] = IF wk.better THEN "improved" ELSE "no lift"]
    BY <1>2, <1>15 DEF WriteReport, WorkerInv, PromotedInv, Claimed
  <2>2. report \in [JobId -> Report]
    BY Named, Zenon
  <2>3. Told(wk.id)'
    BY <2>1, <2>2 DEF Told
  <2>4. \A j \in JobId : j # wk.id /\ Told(j) => Told(j)'
    BY <2>1, <2>2 DEF Told
  <2>5. CompletedIsReported'
    BY <1>5, <1>6, <2>1, <2>4
  <2>6. \A j \in promoted' : job'[j].status \notin {"absent", "queued"}
    BY <2>1 DEF PromotedInv
  <2> QED
    BY <2>1, <2>3, <2>5, <2>6 DEF PromotedInv
<1>16. CASE Complete
  <2>1. /\ wk.id \in JobId /\ promoted' = promoted /\ report' = report /\ Told(wk.id)
        /\ job' = [job EXCEPT ![wk.id].status = "completed"]
        /\ wk'.pc = "record"
    BY <1>1, <1>2, <1>16 DEF Complete, Mark, WorkerInv, PromotedInv, Claimed
  <2>2. /\ \A j \in JobId : j # wk.id => job'[j] = job[j]
        /\ job'[wk.id].status = "completed"
    BY <1>1, <2>1
  <2>3. CompletedIsReported'
    BY <1>4, <1>5, <1>6, <2>1, <2>2
  <2>4. \A j \in promoted' : job'[j].status \notin {"absent", "queued"}
    BY <1>1, <2>1, <2>2 DEF PromotedInv
  <2> QED
    BY <2>1, <2>3, <2>4 DEF PromotedInv
<1> QED
  BY <1>8, <1>9, <1>10, <1>11, <1>12, <1>13, <1>14, <1>15, <1>16 DEF Next, WorkerStep

----------------------------------------------------------------------------
(* Scheduled jobs *)

\* A job file that a step leaves alone, marks as ended or writes for a request makes no
\* scheduled job; only the worker's own write does, and it has seen that there is none.
LEMMA StackStep ==
    ASSUME QueueTypes, WorkerInv, StackInv, [Next]_vars
    PROVE  StackInv'
<1> USE DEF files, history, At, Goto, Exit
<1>1. /\ job \in [JobId -> [status: {"absent", "queued", "running", "completed", "failed"},
                            reason: {"manual", "schedule"}]]
  BY Named DEF Job
<1>2. wk \in [pc: WorkerPC, at: 0..MaxNow, seen: Settings, id: AnyJob,
              score: [Config -> Int], winner: Config, better: BOOLEAN]
  BY Named DEF Worker
<1>3. ASSUME \A j \in JobId : Scheduled(j)' => Scheduled(j),
             wk'.pc = "enqueue" => wk.pc = "enqueue"
      PROVE  StackInv'
  BY <1>3 DEF StackInv
<1>4. ASSUME job' = job
      PROVE  \A j \in JobId : Scheduled(j)' <=> Scheduled(j)
  BY <1>4 DEF Scheduled, Live
<1>5. NoWorker.pc = "off"
  BY DEF NoWorker
<1>6. CASE Tick \/ ApiSchedule \/ UNCHANGED vars
  BY <1>3, <1>4, <1>6 DEF Tick, ApiSchedule, vars
<1>7. CASE ApiEnqueue
  <2>1. \A j \in JobId : Scheduled(j)' => Scheduled(j)
    BY <1>1, <1>7 DEF ApiEnqueue, Enqueue, NewJob, Scheduled, Live
  <2> QED
    BY <1>3, <1>7, <2>1 DEF ApiEnqueue
<1>8. CASE WorkerStart \/ LoadSchedule \/ AdvanceSchedule \/ Claim \/ EvaluateAll \/ Promote
           \/ WriteReport \/ RecordRun \/ ProcessRaises \/ Crash
  <2>1. job' = job
    BY <1>8 DEF WorkerStart, LoadSchedule, AdvanceSchedule, Claim, EvaluateAll, Promote,
                WriteReport, RecordRun, ProcessRaises, Crash
  <2>2. wk'.pc # "enqueue"
    <3>1. WorkerStart \/ Promote => wk'.pc # "enqueue"
      BY DEF WorkerStart, Promote, NoWorker
    <3>2. Crash \/ RecordRun => wk'.pc # "enqueue"
      BY <1>5 DEF Crash, RecordRun
    <3>3. LoadSchedule \/ EvaluateAll => wk'.pc # "enqueue"
      BY <1>2 DEF LoadSchedule, EvaluateAll
    <3>4. AdvanceSchedule \/ WriteReport \/ ProcessRaises => wk'.pc # "enqueue"
      BY <1>2 DEF AdvanceSchedule, WriteReport, ProcessRaises
    <3>5. Claim => wk'.pc # "enqueue"
      <4>1. Claim /\ Queued = {} => wk' = NoWorker
        BY DEF Claim
      <4>2. Claim /\ Queued # {} => wk'.pc = "begin"
        BY DEF Claim, NoWorker
      <4> QED
        BY <1>5, <4>1, <4>2
    <3> QED
      BY <1>8, <3>1, <3>2, <3>3, <3>4, <3>5
  <2> QED
    BY <1>3, <1>4, <2>1, <2>2
<1>9. CASE CheckQueue
  <2>1. job' = job /\ (wk'.pc = "enqueue" => NothingLive)
    BY <1>2, <1>9 DEF CheckQueue
  <2>2. NothingLive => \A j \in JobId : ~Scheduled(j)
    BY DEF NothingLive, Scheduled
  <2> QED
    BY <1>4, <2>1, <2>2 DEF StackInv
<1>10. CASE EnqueueScheduled
  <2>1. PICK j \in JobId : job' = [job EXCEPT ![j] = NewJob("schedule")]
    BY <1>10 DEF EnqueueScheduled, Enqueue
  <2>2. wk.pc = "enqueue" /\ wk'.pc = "advance"
    BY <1>2, <1>10 DEF EnqueueScheduled
  <2>3. \A k \in JobId : k # j => job'[k] = job[k]
    BY <1>1, <2>1
  <2>4. \A k \in JobId : Scheduled(k)' => k = j
    BY <2>2, <2>3 DEF StackInv, Scheduled, Live
  <2> QED
    BY <2>2, <2>4 DEF StackInv
<1>11. CASE MarkRunning \/ Complete \/ MarkFailed
  <2>1. /\ wk.id \in JobId /\ wk'.pc # "enqueue"
        /\ wk.pc = "begin" => job[wk.id].status = "queued"
    BY <1>1, <1>2, <1>5, <1>11 DEF MarkRunning, Complete, MarkFailed, WorkerInv, Claimed
  <2>2. \/ wk.pc = "begin" /\ job' = [job EXCEPT ![wk.id].status = "running"]
        \/ job' = [job EXCEPT ![wk.id].status = "completed"]
        \/ job' = [job EXCEPT ![wk.id].status = "failed"]
    BY <1>11 DEF MarkRunning, Complete, MarkFailed, Mark
  <2>3. \A j \in JobId : Scheduled(j)' => Scheduled(j)
    BY <1>1, <2>1, <2>2 DEF Scheduled, Live
  <2> QED
    BY <1>3, <2>1, <2>3
<1> QED
  BY <1>6, <1>7, <1>8, <1>9, <1>10, <1>11 DEF Next, WorkerStep

----------------------------------------------------------------------------
(* Theorems *)

\* Nothing is queued, reported, scheduled or promoted before the first step.
LEMMA QueueInitInv ==
    ASSUME Init
    PROVE  QueueInv
<1>1. /\ MaxJob \in Nat /\ MaxNow \in Nat /\ MaxCrash \in Nat /\ Default \in Config
      /\ 0 \in 0..MaxNow /\ 0 \in 0..MaxCrash
  BY QueueAssumption
<1>2. /\ now = 0 /\ job = [j \in JobId |-> NoJob] /\ report = [j \in JobId |-> "absent"]
      /\ active = Default /\ schedule = DefaultSchedule /\ wk = NoWorker /\ crashes = 0
      /\ promoted = {} /\ savedAt = 0
  BY DEF Init
<1>3. wk \in Worker /\ wk.pc = "off" /\ "off" \in WorkerPC /\ wk.at = 0 /\ wk.id = 0
  BY <1>2, NoWorkerTypes DEF NoWorker, WorkerPC
<1>4. /\ DefaultSettings \in Settings /\ schedule \in [set: Settings, next: Int, last: AnyJob]
      /\ schedule.next = -1
  <2>1. DefaultSettings \in Settings
    BY QueueAssumption DEF DefaultSettings, Settings
  <2> QED
    BY <1>1, <1>2, <2>1 DEF DefaultSchedule, AnyJob
<1>5. /\ job \in [JobId -> Job]
      /\ \A j \in JobId : job[j].status = "absent"
  BY <1>2 DEF NoJob, Job
<1>6. report \in [JobId -> Report]
  BY <1>2 DEF Report
<1>7. QueueTypes
  BY <1>1, <1>2, <1>3, <1>4, <1>5, <1>6 DEF QueueTypes, TypeOK, AnyJob
<1>8. NextInv /\ WorkerInv
  BY <1>3, <1>4 DEF NextInv, WorkerInv, Claimed
<1>10. PromotedInv /\ CompletedIsReported
  BY <1>2, <1>3, <1>5 DEF PromotedInv, CompletedIsReported
<1>11. StackInv
  BY <1>3, <1>5 DEF StackInv, Scheduled, Live
<1> QED
  BY <1>7, <1>8, <1>10, <1>11 DEF QueueInv

\* The invariant is inductive.
LEMMA QueueStepInv ==
    ASSUME QueueInv, [Next]_vars
    PROVE  QueueInv'
  BY TypeStep, WorkerViewStep, PromotedStep, StackStep DEF QueueInv

\* The invariant holds in every state the queue can reach.
THEOREM QueueInvariant == Spec => []QueueInv
<1>1. Init => QueueInv
  BY QueueInitInv
<1>2. QueueInv /\ [Next]_vars => QueueInv'
  BY QueueStepInv
<1> QED
  BY <1>1, <1>2, PTL DEF Spec

\* For any length of the hour, the day and the week, an enabled schedule names the
\* earliest tick after it was saved that fits its hour and its day (_next_run_at).
THEOREM NextRunAlwaysEarliest == Spec => []NextRunIsEarliest
<1>1. ASSUME QueueInv PROVE NextRunIsEarliest
  <2>1. schedule.set \in Settings /\ savedAt \in Nat
    BY <1>1, QueueAssumption DEF QueueInv, QueueTypes, TypeOK
  <2>2. schedule.next # -1 => schedule.next = NextRunAt(schedule.set, savedAt)
    BY <1>1 DEF QueueInv, NextInv
  <2>3. CASE schedule.next # -1
    <3>1. /\ MayRun(schedule.set, savedAt, schedule.next)
          /\ \A t \in savedAt..(schedule.next - 1) : ~MayRun(schedule.set, savedAt, t)
      BY <2>1, <2>2, <2>3, NextRunIsFirst
    <3> QED
      BY <3>1 DEF NextRunIsEarliest, MayRun
  <2>4. CASE schedule.next = -1
    BY <2>4 DEF NextRunIsEarliest
  <2> QED
    BY <2>3, <2>4
<1> QED
  BY <1>1, QueueInvariant, PTL

\* At most one scheduled job is live, however often the worker is killed between its
\* check, its write of the job and its write of the schedule.
THEOREM SchedulesNeverStack == Spec => []SchedulesDoNotStack
<1>1. ASSUME QueueInv PROVE SchedulesDoNotStack
  <2> DEFINE S == {j \in JobId : Live(j) /\ job[j].reason = "schedule"}
  <2>1. \A j, k \in S : j = k
    BY <1>1 DEF QueueInv, StackInv, Scheduled
  <2> HIDE DEF S
  <2>2. Cardinality(S) <= 1
    <3>1. CASE S = {}
      BY <3>1, FS_EmptySet
    <3>2. CASE S # {}
      <4>1. PICK j \in S : TRUE
        BY <3>2
      <4>2. S = {j}
        BY <2>1, <4>1
      <4> QED
        BY <4>2, FS_Singleton
    <3> QED
      BY <3>1, <3>2
  <2> QED
    BY <2>2 DEF S, SchedulesDoNotStack
<1> QED
  BY <1>1, QueueInvariant, PTL

\* A completed job has a report, and the report says whether the active configuration
\* was changed, whatever names the jobs have and wherever the worker died.
THEOREM ReportsStayTrue == Spec => []ReportsAreTrue
<1>1. QueueInv => ReportsAreTrue
  BY DEF QueueInv, QueueTypes, ReportsAreTrue
<1> QED
  BY <1>1, QueueInvariant, PTL

=============================================================================
