----------------------------- MODULE DeskProofs -----------------------------
(***************************************************************************)
(* Proofs about VpsDesk and Journal: what the desk shows of a service that *)
(* runs and of one that is gone, for any intervals, waits and back-offs;   *)
(* and what its journal shows, for any set of trades.                      *)
(***************************************************************************)
EXTENDS VpsDesk, Journal, TLAPS, FiniteSetTheorems

----------------------------------------------------------------------------
(* Ages and files *)

LiveFile == [age: Age \cup {Never}, status: {"starting", "running", "stopped"},
             tripped: BOOLEAN]

\* What the files and the history hold, and the two switches that go into them.
FileTypes ==
    /\ head \in Age /\ live \in LiveFile /\ beat \in Age \cup {Never}
    /\ hist \in [lost: BOOLEAN, orderly: BOOLEAN, dead: Age]
    /\ tripped \in BOOLEAN /\ stored \in BOOLEAN

\* Ages grow together, and no further than the oldest one a reader tells apart.
LEMMA Ages ==
    /\ Refresh \in Nat /\ Refresh >= 1 /\ Refresh >= Interval
    /\ Oldest = 3 * Refresh + 1 /\ Never = -1 /\ 0 \in Age /\ Never \notin Age
    /\ \A a \in Age : a \in Nat /\ a <= Oldest
    /\ \A a \in Age : Older(a) \in Age /\ Older(a) <= a + 1
    /\ \A a, b \in Age : a <= b => Older(a) <= Older(b)
    /\ Older(Never) = Never
<1>1. Refresh \in Nat /\ Refresh >= 1 /\ Refresh >= Interval
  BY DeskAssumption DEF Refresh, Max
<1>2. /\ Oldest = 3 * Refresh + 1 /\ Never = -1 /\ 0 \in Age /\ Never \notin Age
      /\ \A a \in Age : a \in Nat /\ a <= Oldest
  BY <1>1 DEF Oldest, Never, Age
<1>3. /\ \A a \in Age : Older(a) \in Age /\ Older(a) <= a + 1
      /\ \A a, b \in Age : a <= b => Older(a) <= Older(b)
      /\ Older(Never) = Never
  BY <1>1, <1>2 DEF Older, Min, Age
<1> QED
  BY <1>1, <1>2, <1>3

\* A publication writes both files or leaves either as it was, and the history knows
\* whether live_state.json holds what was to be written.
LEMMA Published ==
    ASSUME FileTypes, NEW age \in Age, NEW status \in {"starting", "running", "stopped"},
           Publish(age, status)
    PROVE  /\ live' \in LiveFile /\ beat' \in Age \cup {Never}
           /\ hist' \in [lost: BOOLEAN, orderly: BOOLEAN, dead: Age]
           /\ hist'.dead = 0 /\ (hist'.orderly <=> pc = "exit")
           /\ ~hist'.lost => /\ live'.age = age /\ live'.status = status
                             /\ live'.tripped = tripped
<1> DEFINE written == Payload(age, status)
           lost == live' # written
           orderly == pc = "exit"
<1>1. written \in LiveFile /\ written.age = age /\ written.status = status
      /\ written.tripped = tripped
  BY DEF Payload, LiveFile, FileTypes
<1>2. live' \in {written, live} /\ beat' \in {age, beat}
      /\ hist' = [hist EXCEPT !.lost = lost, !.orderly = orderly, !.dead = 0]
  BY DEF Publish
<1>3. lost \in BOOLEAN /\ orderly \in BOOLEAN /\ (~lost => live' = written)
      /\ (orderly <=> pc = "exit")
  OBVIOUS
<1> HIDE DEF written, lost, orderly
<1>4. live' \in LiveFile /\ beat' \in Age \cup {Never}
  BY <1>1, <1>2 DEF FileTypes
<1>5. /\ hist' \in [lost: BOOLEAN, orderly: BOOLEAN, dead: Age]
      /\ hist'.dead = 0 /\ hist'.lost = lost /\ hist'.orderly = orderly
  BY <1>2, <1>3, Ages DEF FileTypes
<1> QED
  BY <1>1, <1>3, <1>4, <1>5

----------------------------------------------------------------------------
(* A service that is gone *)

\* A file is at least as old as the service is gone, and the stamp of an orderly end
\* stays until the next start.
GoneInv ==
    /\ FileTypes
    /\ Up => hist.dead = 0 /\ ~hist.orderly
    /\ live.age # Never => hist.dead <= live.age
    /\ beat # Never => hist.dead <= beat
    /\ ~Up /\ hist.orderly /\ ~hist.lost => live.age # Never /\ live.status = "stopped"

\* Before the first start there is no file.
LEMMA GoneInit ==
    ASSUME DeskInit
    PROVE  GoneInv
<1>1. head \in Age /\ live \in LiveFile /\ beat = Never /\ live.age = Never
  BY Ages DEF DeskInit, LiveFile
<1>2. /\ hist \in [lost: BOOLEAN, orderly: BOOLEAN, dead: Age]
      /\ ~hist.orderly /\ pc = "off"
  BY Ages DEF DeskInit
<1> QED
  BY <1>1, <1>2 DEF DeskInit, GoneInv, FileTypes, Up

\* Files age together, and a publication is younger than anything that ended before it.
LEMMA GoneStep ==
    ASSUME GoneInv, [DeskNext]_deskVars
    PROVE  GoneInv'
<1> USE DEF service, store, file, Up
<1>1. /\ head \in Age /\ live \in LiveFile /\ beat \in Age \cup {Never}
      /\ hist \in [lost: BOOLEAN, orderly: BOOLEAN, dead: Age]
      /\ tripped \in BOOLEAN /\ stored \in BOOLEAN /\ 0 \in Age /\ Never \notin Age
      /\ live.age \in Age \cup {Never}
  BY Ages DEF GoneInv, FileTypes, LiveFile
<1>2. ASSUME NEW age \in Age, NEW status \in {"starting", "running", "stopped"},
             Publish(age, status), pc' # "off" => pc # "exit",
             pc' = "off" /\ pc = "exit" => status = "stopped",
             head' \in Age, tripped' \in BOOLEAN, stored' \in BOOLEAN
      PROVE  GoneInv'
  <2>1. /\ live' \in LiveFile /\ beat' \in Age \cup {Never}
        /\ hist' \in [lost: BOOLEAN, orderly: BOOLEAN, dead: Age]
        /\ hist'.dead = 0 /\ (hist'.orderly <=> pc = "exit")
        /\ ~hist'.lost => live'.age = age /\ live'.status = status
    BY <1>2, Published DEF GoneInv
  <2>2. FileTypes'
    BY <1>2, <2>1 DEF FileTypes
  <2>3. /\ live'.age # Never => hist'.dead <= live'.age
        /\ beat' # Never => hist'.dead <= beat'
    <3>1. live'.age \in Age \cup {Never}
      BY <2>1 DEF LiveFile
    <3> QED
      BY <2>1, <3>1, Ages
  <2>4. pc' # "off" => hist'.dead = 0 /\ ~hist'.orderly
    BY <1>2, <2>1
  <2>5. pc' = "off" /\ hist'.orderly /\ ~hist'.lost => live'.age # Never /\ live'.status = "stopped"
    BY <1>1, <1>2, <2>1
  <2> QED
    BY <2>2, <2>3, <2>4, <2>5 DEF GoneInv
<1>3. ASSUME UNCHANGED <<file, hist>>, pc' = "off" => pc = "off" \/ ~hist.orderly,
             pc' # "off" => pc # "off",
             head' \in Age, tripped' \in BOOLEAN, stored' \in BOOLEAN
      PROVE  GoneInv'
  <2>1. FileTypes'
    BY <1>1, <1>3 DEF FileTypes
  <2> QED
    BY <1>3, <2>1 DEF GoneInv
<1>4. CASE \E feed \in Feed, writable \in BOOLEAN : Start(feed, writable)
  BY <1>1, <1>2, <1>4 DEF Start
<1>5. CASE Restore \/ RestoreRaises \/ HeadOpen \/ HeadStop \/ Trip \/ CycleReturns \/ CycleRaises
  BY <1>1, <1>3, <1>5
  DEF Restore, RestoreRaises, HeadOpen, HeadStop, Trip, CycleReturns, CycleRaises, Goto, Save
<1>6. CASE HeadClosed
  BY <1>1, <1>2, <1>6 DEF HeadClosed
<1>7. CASE OnFailure
  <2>1. tripped' \in BOOLEAN
    BY <1>7 DEF OnFailure
  <2> QED
    BY <1>1, <1>3, <1>7, <2>1 DEF OnFailure
<1>8. CASE Heartbeat
  BY <1>1, <1>2, <1>8 DEF Heartbeat, Goto
<1>9. CASE WaitOver \/ Shutdown \/ Signal \/ ApiRequest \/ UNCHANGED deskVars
  BY <1>1, <1>3, <1>9 DEF WaitOver, Shutdown, Signal, ApiRequest, deskVars, Goto, Save
<1>10. CASE Exit
  BY <1>1, <1>2, <1>10 DEF Exit, Gone
<1>11. CASE Crash
  BY <1>1, <1>3, <1>11 DEF Crash, Gone, GoneInv
<1>12. CASE Tick
  <2>1. /\ pc' = pc /\ tripped' = tripped /\ stored' = stored
        /\ head' = Older(head) /\ beat' = Older(beat)
        /\ live' = [live EXCEPT !.age = Older(live.age)]
        /\ hist' = [hist EXCEPT !.dead = IF Up THEN 0 ELSE Older(hist.dead)]
    BY <1>12 DEF Tick
  <2>2. /\ head' \in Age /\ beat' \in Age \cup {Never} /\ Older(live.age) \in Age \cup {Never}
        /\ (IF Up THEN 0 ELSE Older(hist.dead)) \in Age
    BY <1>1, <2>1, Ages
  <2>3. /\ live' \in LiveFile /\ live'.age = Older(live.age) /\ live'.status = live.status
        /\ hist' \in [lost: BOOLEAN, orderly: BOOLEAN, dead: Age]
        /\ hist'.dead = IF Up THEN 0 ELSE Older(hist.dead)
        /\ hist'.lost = hist.lost /\ hist'.orderly = hist.orderly
    BY <1>1, <2>1, <2>2 DEF LiveFile
  <2>4. FileTypes'
    BY <1>1, <2>1, <2>2, <2>3 DEF FileTypes
  <2>5. /\ live'.age # Never => hist'.dead <= live'.age
        /\ beat' # Never => hist'.dead <= beat'
        /\ live.age # Never => live'.age # Never
    BY <1>1, <2>1, <2>2, <2>3, Ages DEF GoneInv
  <2> QED
    BY <2>1, <2>3, <2>4, <2>5 DEF GoneInv
<1> QED
  BY <1>4, <1>5, <1>6, <1>7, <1>8, <1>9, <1>10, <1>11, <1>12 DEF DeskNext

\* A service that is gone is not shown as ok after one interval and is shown as degraded
\* after three, and one that stopped in order at once, whatever the intervals are and
\* whichever writes failed before.
THEOREM GoneAlwaysShown == DeskSpec => []GoneIsShown
<1>1. DeskInit => GoneInv
  BY GoneInit
<1>2. GoneInv /\ [DeskNext]_deskVars => GoneInv'
  BY GoneStep
<1>3. ASSUME GoneInv PROVE GoneIsShown
  <2>1. /\ live.age \in Age \cup {Never} /\ beat \in Age \cup {Never} /\ hist.dead \in Age
    BY <1>3 DEF GoneInv, FileTypes, LiveFile
  <2>2. ASSUME hist.dead > Refresh PROVE Overall # "ok"
    <3>1. Pipeline # "ok"
      BY <1>3, <2>1, <2>2, Ages DEF GoneInv, Pipeline, Classify
    <3>2. Pipeline \in {"unavailable", "stopped", "late", "stale", "unknown"}
      BY <3>1 DEF Pipeline, Classify
    <3> QED
      BY <3>2 DEF Overall
  <2>3. ASSUME hist.dead > 3 * Refresh PROVE Overall = "degraded"
    <3>1. SupervisorState \in {"stale", "never_seen"}
      BY <1>3, <2>1, <2>3, Ages DEF GoneInv, SupervisorState, Classify
    <3> QED
      BY <3>1 DEF Overall
  <2>4. StopIsPublished
    <3>1. live.age # Never /\ live.status = "stopped" => Pipeline = "stopped"
      BY DEF Pipeline
    <3> QED
      BY <1>3, <3>1 DEF GoneInv, StopIsPublished, Overall
  <2> QED
    BY <2>2, <2>3, <2>4 DEF GoneIsShown, DeadIsNoticed
<1> QED
  BY <1>1, <1>2, <1>3, PTL DEF DeskSpec

----------------------------------------------------------------------------
(* A service that runs *)

ServiceTypes ==
    /\ pc \in {"off", "restore", "head", "cycle", "failed", "publish", "wait", "shutdown", "exit"}
    /\ wait \in Nat /\ open \in BOOLEAN /\ stop \in BOOLEAN /\ failures \in 0..MaxFailures
    /\ api \in {"never_seen", "ok", "late", "stale"}

\* The last failure that is allowed stops the run: no cycle follows it.
FailureInv == failures = MaxFailures => stop /\ pc \in {"publish", "wait", "head", "shutdown", "exit"}

\* How old the clock of the cycle can be when it is published.
HeadInv(d) ==
    /\ pc \in {"restore", "head", "shutdown", "exit"} => wait = 0
    /\ pc \in {"cycle", "failed"} => head + wait <= MaxWork
    /\ pc = "publish" => head + wait <= MaxWork + d

\* The age of a publication when the next cycle begins.
Late(d) == Max(Max(Interval, IdlePoll), MaxWork + d)

\* How old the file can get before it is published again, what it says, and that the
\* switches in it are the ones in memory once the wait has begun.
ShownInv(d) ==
    Up /\ ~hist.lost =>
        /\ live.age # Never /\ live.status # "stopped"
        /\ pc \in {"restore", "head", "wait", "shutdown", "exit"} => live.age + wait <= Late(d)
        /\ pc \in {"cycle", "failed"} => live.age + wait <= Late(d) + MaxWork
        /\ pc = "publish" => live.age + wait <= Late(d) + MaxWork + d
        /\ pc = "wait" => live.tripped = tripped

AliveInv(d) == GoneInv /\ ServiceTypes /\ FailureInv /\ HeadInv(d) /\ ShownInv(d)

\* The numbers of the proof.
LEMMA Bounds ==
    ASSUME NEW d, Timely(d)
    PROVE  /\ d \in Nat /\ MaxWork \in Nat /\ Interval \in Nat /\ IdlePoll \in Nat
           /\ MaxFailures \in Nat /\ MaxFailures >= 1
           /\ Late(d) \in Nat /\ Late(d) >= Interval /\ Late(d) >= IdlePoll /\ Late(d) >= MaxWork + d
           /\ Late(d) + MaxWork + d <= 3 * Refresh
           /\ \A n \in 1..(MaxFailures - 1) : Delay(n) \in Nat /\ Delay(n) <= d
<1>1. /\ d \in Nat /\ MaxWork \in Nat /\ Interval \in Nat /\ IdlePoll \in Nat
      /\ MaxFailures \in Nat /\ MaxFailures >= 1
  BY DeskAssumption DEF Timely
<1>2. Late(d) \in Nat /\ Late(d) >= Interval /\ Late(d) >= IdlePoll /\ Late(d) >= MaxWork + d
  BY <1>1 DEF Late, Max
<1>3. Late(d) + MaxWork + d <= 3 * Refresh
  BY DEF Timely, Late
<1>4. \A n \in 1..(MaxFailures - 1) : Delay(n) \in Nat /\ Delay(n) <= d
  BY <1>1 DEF Timely
<1> QED
  BY <1>1, <1>2, <1>3, <1>4

\* What a step does to the process: its place, its wait, its clock and its failures.
LEMMA ServiceStep ==
    ASSUME NEW d, Timely(d), AliveInv(d), [DeskNext]_deskVars
    PROVE  ServiceTypes' /\ FailureInv' /\ HeadInv(d)'
<1> USE DEF service, store, file, Up
<1>1. /\ d \in Nat /\ MaxWork \in Nat /\ Interval \in Nat /\ IdlePoll \in Nat
      /\ MaxFailures \in Nat /\ MaxFailures >= 1
      /\ \A n \in 1..(MaxFailures - 1) : Delay(n) \in Nat /\ Delay(n) <= d
  BY Bounds
<1>2. ServiceTypes /\ FailureInv /\ HeadInv(d) /\ head \in Age /\ head \in Nat
  BY Ages DEF AliveInv, GoneInv, FileTypes
<1>3. 0 \in Age /\ Older(head) \in Age /\ Older(head) <= head + 1 /\ Older(head) \in Nat
  BY <1>2, Ages
<1> USE DEF ServiceTypes, FailureInv, HeadInv
<1>4. CASE \E feed \in Feed, writable \in BOOLEAN : Start(feed, writable)
  BY <1>1, <1>2, <1>4 DEF Start
<1>5. CASE Restore \/ RestoreRaises \/ HeadStop \/ Trip
  BY <1>1, <1>2, <1>5 DEF Restore, RestoreRaises, HeadStop, Trip
<1>6. CASE HeadClosed \/ HeadOpen
  BY <1>1, <1>2, <1>6 DEF HeadClosed, HeadOpen
<1>7. CASE CycleReturns \/ CycleRaises
  BY <1>1, <1>2, <1>7 DEF CycleReturns, CycleRaises, Goto
<1>8. CASE OnFailure
  <2>1. failures < MaxFailures /\ failures + 1 \in 1..MaxFailures /\ failures \in Nat
    BY <1>1, <1>2, <1>8 DEF OnFailure
  <2>2. /\ pc = "failed" /\ pc' = "publish" /\ head' = head /\ failures' = failures + 1
        /\ (stop' <=> (stop \/ failures + 1 >= MaxFailures)) /\ stop' \in BOOLEAN
        /\ wait' = IF stop' THEN 0 ELSE Delay(failures + 1)
        /\ open' = open /\ api' = api
    BY <1>8 DEF OnFailure
  <2>3. wait' \in Nat /\ wait' <= d
    <3>1. CASE stop'
      BY <1>1, <2>2, <3>1
    <3>2. CASE ~stop'
      BY <1>1, <2>1, <2>2, <3>2
    <3> QED
      BY <3>1, <3>2
  <2> QED
    BY <1>1, <1>2, <2>1, <2>2, <2>3
<1>9. CASE Heartbeat \/ WaitOver
  BY <1>1, <1>2, <1>9 DEF Heartbeat, WaitOver, Goto, Max
<1>10. CASE Shutdown \/ Signal \/ ApiRequest \/ UNCHANGED deskVars
  BY <1>1, <1>2, <1>10 DEF Shutdown, Signal, ApiRequest, deskVars, Goto
<1>11. CASE Exit \/ Crash
  <2>1. /\ pc' = "off" /\ wait' = 0 /\ stop' = FALSE /\ failures' = 0
        /\ open' = open /\ api' = api
    BY <1>11 DEF Exit, Crash, Gone
  <2>2. 0 \in 0..MaxFailures /\ failures' # MaxFailures /\ 0 \in Nat /\ FALSE \in BOOLEAN
    BY <1>1, <2>1
  <2>3. ServiceTypes'
    BY <1>2, <2>1, <2>2
  <2> QED
    BY <2>1, <2>2, <2>3
<1>12. CASE Tick
  <2>1. /\ pc' = pc /\ stop' = stop /\ failures' = failures /\ head' = Older(head)
        /\ open' \in BOOLEAN /\ wait' = Max(0, wait - 1)
        /\ pc # "off" => wait > 0
    BY <1>2, <1>12 DEF Tick
  <2>2. api' \in {"never_seen", "ok", "late", "stale"}
    BY <1>2, <1>12 DEF Tick, Aged
  <2>3. wait' \in Nat /\ (wait > 0 => wait' = wait - 1)
    BY <1>2, <2>1 DEF Max
  <2> QED
    BY <1>1, <1>2, <1>3, <2>1, <2>2, <2>3
<1> QED
  BY <1>4, <1>5, <1>6, <1>7, <1>8, <1>9, <1>10, <1>11, <1>12 DEF DeskNext

\* What a step does to what is shown.
LEMMA ShownStep ==
    ASSUME NEW d, Timely(d), AliveInv(d), [DeskNext]_deskVars
    PROVE  ShownInv(d)'
<1> USE DEF service, store, file, Up
<1> DEFINE B == Late(d)
<1>1. /\ d \in Nat /\ MaxWork \in Nat /\ Interval \in Nat /\ IdlePoll \in Nat
      /\ MaxFailures \in Nat /\ MaxFailures >= 1
      /\ B \in Nat /\ B >= Interval /\ B >= IdlePoll /\ B >= MaxWork + d
      /\ \A n \in 1..(MaxFailures - 1) : Delay(n) \in Nat /\ Delay(n) <= d
  BY Bounds
<1> HIDE DEF B
<1>2. /\ FileTypes /\ FailureInv /\ head \in Age /\ head \in Nat /\ wait \in Nat /\ HeadInv(d)
      /\ failures \in 0..MaxFailures /\ tripped \in BOOLEAN /\ stop \in BOOLEAN
      /\ live.age \in Age \cup {Never} /\ 0 \in Age /\ Never \notin Age
  BY Ages DEF AliveInv, GoneInv, FileTypes, ServiceTypes, LiveFile
<1>3. live.age # Never => live.age \in Nat
  BY <1>2, Ages
<1> DEFINE Shown ==
             /\ live.age # Never /\ live.status # "stopped"
             /\ pc \in {"restore", "head", "wait", "shutdown", "exit"} => live.age + wait <= B
             /\ pc \in {"cycle", "failed"} => live.age + wait <= B + MaxWork
             /\ pc = "publish" => live.age + wait <= B + MaxWork + d
             /\ pc = "wait" => live.tripped = tripped
<1>4. /\ ShownInv(d) <=> (pc # "off" /\ ~hist.lost => Shown)
      /\ ShownInv(d)' <=> (pc' # "off" /\ ~hist'.lost => Shown')
  BY DEF ShownInv, B
<1>5. pc # "off" /\ ~hist.lost => Shown
  BY <1>4 DEF AliveInv
<1>6. ASSUME NEW age \in Age, NEW status \in {"starting", "running"},
             Publish(age, status), pc' \in {"restore", "wait"}, age + wait' <= B,
             tripped' = tripped
      PROVE  ShownInv(d)'
  <2>1. ~hist'.lost => /\ live'.age = age /\ live'.status = status
                       /\ live'.tripped = tripped
    BY <1>2, <1>6, Published
  <2>2. age # Never /\ status # "stopped"
    BY <1>2
  <2> QED
    BY <1>4, <1>6, <2>1, <2>2
<1>7. CASE \E feed \in Feed, writable \in BOOLEAN : Start(feed, writable)
  BY <1>1, <1>2, <1>6, <1>7 DEF Start
<1>8. CASE HeadClosed
  <2>1. /\ Publish(0, "running") /\ pc' = "wait" /\ tripped' = tripped
        /\ wait' \in Nat /\ wait' <= IdlePoll
    BY <1>8 DEF HeadClosed
  <2>2. \A n \in Nat : n <= IdlePoll => 0 + n <= B
    BY <1>1
  <2>3. 0 + wait' <= B
    BY <2>1, <2>2, Zenon
  <2> QED
    BY <1>2, <1>6, <2>1, <2>3
<1>9. CASE Heartbeat
  <2>1. /\ head + wait <= MaxWork + d /\ Publish(head, "running") /\ pc' = "wait"
        /\ wait' = (IF stop THEN 0 ELSE Max(0, Interval - head)) /\ tripped' = tripped
    BY <1>2, <1>9 DEF Heartbeat, HeadInv, Goto
  <2>2. head + wait' <= B
    BY <1>1, <1>2, <2>1 DEF Max
  <2> QED
    BY <1>2, <1>6, <2>1, <2>2
<1>10. CASE Exit \/ Crash
  BY <1>4, <1>10 DEF Exit, Crash, Gone
<1>11. CASE Restore \/ RestoreRaises \/ HeadStop \/ HeadOpen
  <2>1. CASE Restore \/ RestoreRaises \/ HeadStop
    BY <1>4, <1>5, <2>1 DEF Restore, RestoreRaises, HeadStop
  <2>2. CASE HeadOpen
    <3>1. /\ pc = "head" /\ wait = 0 /\ pc' = "cycle" /\ wait' = MaxWork
          /\ live' = live /\ hist' = hist
      BY <1>2, <2>2 DEF HeadOpen, HeadInv
    <3> QED
      BY <1>1, <1>3, <1>4, <1>5, <3>1
  <2> QED
    BY <1>11, <2>1, <2>2
<1>12. CASE Trip \/ CycleReturns \/ CycleRaises
  BY <1>1, <1>2, <1>3, <1>4, <1>5, <1>12 DEF Trip, CycleReturns, CycleRaises, Goto
<1>13. CASE OnFailure
  <2>1. /\ pc = "failed" /\ pc' = "publish" /\ live' = live /\ hist' = hist
        /\ (stop' <=> (stop \/ failures + 1 >= MaxFailures))
        /\ wait' = IF stop' THEN 0 ELSE Delay(failures + 1)
    BY <1>13 DEF OnFailure
  <2>2. wait' \in Nat /\ wait' <= d
    <3>1. CASE stop'
      BY <1>1, <2>1, <3>1
    <3>2. CASE ~stop'
      <4>1. failures + 1 \in 1..(MaxFailures - 1)
        BY <1>1, <1>2, <2>1, <3>2
      <4> QED
        BY <1>1, <2>1, <3>2, <4>1
    <3> QED
      BY <3>1, <3>2
  <2> QED
    BY <1>1, <1>2, <1>3, <1>4, <1>5, <2>1, <2>2
<1>14. CASE WaitOver \/ Shutdown \/ Signal \/ ApiRequest \/ UNCHANGED deskVars
  BY <1>1, <1>2, <1>3, <1>4, <1>5, <1>14
  DEF WaitOver, Shutdown, Signal, ApiRequest, deskVars, Goto, HeadInv
<1>15. CASE Tick
  <2>1. /\ pc' = pc /\ tripped' = tripped /\ live' = [live EXCEPT !.age = Older(live.age)]
        /\ wait' = Max(0, wait - 1) /\ (pc # "off" => wait > 0)
        /\ hist' = [hist EXCEPT !.dead = IF Up THEN 0 ELSE Older(hist.dead)]
    BY <1>2, <1>15 DEF Tick
  <2>2. /\ live'.age = Older(live.age) /\ live'.status = live.status
        /\ live'.tripped = live.tripped /\ hist'.lost = hist.lost
    BY <1>2, <2>1 DEF FileTypes, LiveFile
  <2>3. wait > 0 => wait' = wait - 1
    BY <1>2, <2>1 DEF Max
  <2>4. live.age # Never => live'.age # Never /\ live'.age \in Nat /\ live'.age <= live.age + 1
    BY <1>2, <2>2, Ages
  <2> QED
    BY <1>1, <1>2, <1>3, <1>4, <1>5, <2>1, <2>2, <2>3, <2>4
<1> QED
  BY <1>7, <1>8, <1>9, <1>10, <1>11, <1>12, <1>13, <1>14, <1>15 DEF DeskNext

\* For any intervals, waits and back-offs with which a cycle and its back-off end in time
\* (Timely), a service that runs and whose writes succeed is never shown as stale,
\* stopped or unavailable, and its switches are shown as they are.
THEOREM AliveAlwaysShown ==
    ASSUME NEW CONSTANT d, Timely(d)
    PROVE  DeskSpec => []AliveIsShown
<1>1. ASSUME DeskInit PROVE AliveInv(d)
  <2>1. GoneInv
    BY <1>1, GoneInit
  <2>2. ServiceTypes /\ FailureInv /\ HeadInv(d) /\ ShownInv(d)
    <3>1. /\ pc = "off" /\ wait = 0 /\ open \in BOOLEAN /\ stop = FALSE /\ failures = 0
          /\ api = "never_seen"
      BY <1>1 DEF DeskInit
    <3>2. 0 \in 0..MaxFailures /\ failures # MaxFailures /\ 0 \in Nat /\ FALSE \in BOOLEAN
      BY <3>1, DeskAssumption
    <3>3. ServiceTypes
      BY <3>1, <3>2 DEF ServiceTypes
    <3> QED
      BY <3>1, <3>2, <3>3 DEF FailureInv, HeadInv, ShownInv, Up
  <2> QED
    BY <2>1, <2>2 DEF AliveInv
<1>2. AliveInv(d) /\ [DeskNext]_deskVars => AliveInv(d)'
  <2>1. ASSUME AliveInv(d), [DeskNext]_deskVars
        PROVE  GoneInv' /\ ServiceTypes' /\ FailureInv' /\ HeadInv(d)' /\ ShownInv(d)'
    BY <2>1, GoneStep, ServiceStep, ShownStep DEF AliveInv
  <2> QED
    BY <2>1 DEF AliveInv
<1>3. ASSUME AliveInv(d) PROVE AliveIsShown
  <2>1. DeskTypeOK
    BY <1>3 DEF AliveInv, GoneInv, FileTypes, ServiceTypes, LiveFile, DeskTypeOK
  <2>2. AliveIsNotStale
    <3>1. SUFFICES ASSUME Up, ~hist.lost
                   PROVE  Pipeline \notin {"stale", "stopped", "unavailable"}
      BY DEF AliveIsNotStale
    <3>2. live.age \in Nat /\ live.age # Never /\ live.status # "stopped" /\ wait \in Nat
      BY <1>3, <3>1, Ages DEF AliveInv, GoneInv, FileTypes, LiveFile, ShownInv, ServiceTypes
    <3>3. live.age + wait <= Late(d) + MaxWork + d
      BY <1>3, <3>1, <3>2, Bounds DEF AliveInv, ShownInv, ServiceTypes, Up
    <3>4. live.age <= 3 * Refresh /\ Refresh \in Nat
      BY <3>2, <3>3, Bounds, Ages
    <3> QED
      BY <3>2, <3>4 DEF Pipeline, Classify
  <2>3. ShownIsCurrent
    <3>1. SUFFICES ASSUME pc = "wait", ~hist.lost
                   PROVE  live.tripped = tripped /\ (Overall = "ok" => ~tripped)
      BY DEF ShownIsCurrent
    <3>2. live.tripped = tripped
      BY <1>3, <3>1 DEF AliveInv, ShownInv, Up
    <3> QED
      BY <3>2 DEF Overall
  <2> QED
    BY <2>1, <2>2, <2>3 DEF AliveIsShown
<1> QED
  BY <1>1, <1>2, <1>3, PTL DEF DeskSpec

----------------------------------------------------------------------------
(* The rows of the audit *)

\* Each element of a sequence is there once.
Distinct(s) == \A i, k \in DOMAIN s : s[i] = s[k] => i = k

\* What is at which place once the k-th row is deleted.
LEMMA Cut ==
    ASSUME NEW T, NEW s \in Seq(T), NEW n \in Nat, n = Len(s), NEW k \in 1..n
    PROVE  /\ Without(s, k) \in Seq(T) /\ Len(Without(s, k)) = n - 1
           /\ \A i \in 1..(n - 1) : Without(s, k)[i] = IF i < k THEN s[i] ELSE s[i + 1]
<1> DEFINE a == SubSeq(s, 1, k - 1)
           b == SubSeq(s, k + 1, n)
<1>1. a \in Seq(T) /\ Len(a) = k - 1 /\ \A i \in 1..(k - 1) : a[i] = s[i]
  OBVIOUS
<1>2. b \in Seq(T) /\ Len(b) = n - k /\ \A i \in 1..(n - k) : b[i] = s[k + i]
  <2>1. b \in Seq(T)
    OBVIOUS
  <2>2. Len(b) = n - k
    OBVIOUS
  <2>3. \A i \in 1..(n - k) : b[i] = s[k + i]
    OBVIOUS
  <2> QED BY <2>1, <2>2, <2>3
<1> HIDE DEF a, b
<1>3. (a \o b) \in Seq(T) /\ Len(a \o b) = n - 1
  BY <1>1, <1>2
<1>4. \A i \in 1..(n - 1) : (a \o b)[i] = IF i < k THEN s[i] ELSE s[i + 1]
  <2>1. TAKE i \in 1..(n - 1)
  <2>2. CASE i < k
    BY <1>1, <1>2, <2>2
  <2>3. CASE ~(i < k)
    <3>1. (a \o b)[i] = b[i - (k - 1)]
      BY <1>1, <1>2, <2>3
    <3>2. i - (k - 1) \in 1..(n - k) /\ k + (i - (k - 1)) = i + 1
      BY <2>3
    <3>3. b[i - (k - 1)] = s[k + (i - (k - 1))]
      BY <1>2, <3>2
    <3> QED
      BY <2>3, <3>1, <3>2, <3>3
  <2> QED
    BY <2>2, <2>3
<1>5. Without(s, k) = a \o b
  BY DEF Without, a, b
<1> QED
  BY <1>3, <1>4, <1>5

\* Deleting a row keeps the others and deletes only that one.
LEMMA Deleted ==
    ASSUME NEW T, NEW s \in Seq(T), NEW n \in Nat, n = Len(s), NEW k \in 1..n, Distinct(s)
    PROVE  /\ Without(s, k) \in Seq(T) /\ Distinct(Without(s, k))
           /\ \A i \in DOMAIN Without(s, k) :
                 Without(s, k)[i] # s[k] /\ \E j \in DOMAIN s : s[j] = Without(s, k)[i]
           /\ \A j \in DOMAIN s : s[j] # s[k] =>
                 \E i \in DOMAIN Without(s, k) : Without(s, k)[i] = s[j]
<1> DEFINE r == Without(s, k)
<1>1. /\ r \in Seq(T) /\ Len(r) = n - 1
      /\ \A i \in 1..(n - 1) : r[i] = IF i < k THEN s[i] ELSE s[i + 1]
  <2>1. r \in Seq(T)
    BY Cut
  <2>2. Len(r) = n - 1
    BY Cut
  <2>3. \A i \in 1..(n - 1) : r[i] = IF i < k THEN s[i] ELSE s[i + 1]
    BY Cut
  <2> QED
    BY <2>1, <2>2, <2>3
<1> HIDE DEF r
<1>2. DOMAIN s = 1..n /\ DOMAIN r = 1..(n - 1)
  BY <1>1
<1> DEFINE at(i) == IF i < k THEN i ELSE i + 1
<1>3. \A i \in 1..(n - 1) : /\ at(i) \in 1..n /\ at(i) # k /\ r[i] = s[at(i)]
                            /\ \A j \in 1..(n - 1) : at(i) = at(j) => i = j
  BY <1>1
<1>4. \A j \in 1..n : j # k => \E i \in 1..(n - 1) : at(i) = j
  <2>1. TAKE j \in 1..n
  <2>2. CASE j < k
    <3>1. j \in 1..(n - 1) /\ at(j) = j
      BY <2>2
    <3> QED
      BY <3>1
  <2>3. CASE j > k
    <3>1. j - 1 \in 1..(n - 1) /\ at(j - 1) = j
      BY <2>3
    <3> QED
      BY <3>1
  <2> QED
    BY <2>2, <2>3
<1> HIDE DEF at
<1>5. Distinct(r)
  BY <1>2, <1>3 DEF Distinct
<1>6. \A i \in DOMAIN r : r[i] # s[k] /\ \E j \in DOMAIN s : s[j] = r[i]
  BY <1>2, <1>3 DEF Distinct
<1>7. \A j \in DOMAIN s : s[j] # s[k] => \E i \in DOMAIN r : r[i] = s[j]
  BY <1>2, <1>3, <1>4
<1> QED
  BY <1>1, <1>5, <1>6, <1>7 DEF r

\* record_trade: the trade has a row afterwards, exactly one, and no other row is lost.
LEMMA Recorded ==
    ASSUME audit \in Seq(Trade), Distinct(audit), NEW t \in Trade, audit' = RecordTrade(t)
    PROVE  audit' \in Seq(Trade) /\ Distinct(audit') /\ Rows' = Rows \cup {t}
<1> DEFINE k == CHOOSE i \in DOMAIN audit : audit[i] = t
           others == IF t \in Rows THEN Without(audit, k) ELSE audit
<1>1. audit' = Append(others, t)
  BY DEF RecordTrade
<1>2. others \in Seq(Trade) /\ Distinct(others)
      /\ \A u : (\E i \in DOMAIN others : others[i] = u) <=> (u # t /\ u \in Rows)
  <2>1. CASE t \in Rows
    <3>1. k \in DOMAIN audit /\ audit[k] = t
      BY <2>1 DEF Rows
    <3>2. others = Without(audit, k) /\ k \in 1..Len(audit) /\ Len(audit) \in Nat
      BY <2>1, <3>1
    <3> HIDE DEF k, others
    <3>3. /\ others \in Seq(Trade) /\ Distinct(others)
          /\ \A i \in DOMAIN others : others[i] # audit[k] /\ \E j \in DOMAIN audit : audit[j] = others[i]
          /\ \A j \in DOMAIN audit : audit[j] # audit[k] => \E i \in DOMAIN others : others[i] = audit[j]
      BY <3>2, Deleted
    <3> QED
      BY <3>1, <3>3 DEF Rows
  <2>2. CASE t \notin Rows
    BY <2>2 DEF Rows
  <2> QED
    BY <2>1, <2>2
<1> HIDE DEF k, others
<1>3. /\ audit' \in Seq(Trade) /\ Len(others) \in Nat /\ DOMAIN others = 1..Len(others)
      /\ DOMAIN audit' = 1..(Len(others) + 1) /\ audit'[Len(others) + 1] = t
      /\ \A i \in 1..Len(others) : audit'[i] = others[i]
  BY <1>1, <1>2
<1>4. \A i \in 1..Len(others) : others[i] # t
  BY <1>2, <1>3
<1>5. Distinct(audit')
  BY <1>2, <1>3, <1>4 DEF Distinct
<1>6. ASSUME NEW u \in Rows' PROVE u \in Rows \cup {t}
  <2>1. PICK i \in 1..(Len(others) + 1) : audit'[i] = u
    BY <1>3, <1>6 DEF Rows
  <2>2. CASE i = Len(others) + 1
    BY <1>3, <2>1, <2>2
  <2>3. CASE i \in 1..Len(others)
    BY <1>2, <1>3, <2>1, <2>3
  <2> QED
    BY <1>3, <2>2, <2>3
<1>7. ASSUME NEW u \in Rows \cup {t} PROVE u \in Rows'
  <2>1. \E i \in 1..(Len(others) + 1) : audit'[i] = u
    <3>1. CASE u = t
      BY <1>3, <3>1
    <3>2. CASE u # t
      <4>1. PICK i \in 1..Len(others) : others[i] = u
        BY <1>2, <1>3, <1>7, <3>2
      <4> QED
        BY <1>3, <4>1
    <3> QED
      BY <3>1, <3>2
  <2> QED
    BY <1>3, <2>1 DEF Rows
<1> QED
  BY <1>3, <1>5, <1>6, <1>7

\* A table of distinct rows has as many rows as there are different ones.
LEMMA RowsCounted ==
    ASSUME audit \in Seq(Trade), Distinct(audit)
    PROVE  Cardinality(Rows) = Len(audit)
<1>1. Len(audit) \in Nat /\ DOMAIN audit = 1..Len(audit)
  OBVIOUS
<1>2. audit \in [1..Len(audit) -> Rows]
  BY <1>1 DEF Rows
<1>3. audit \in Bijection(1..Len(audit), Rows)
  BY <1>1, <1>2 DEF Rows, Distinct, Bijection, Injection, Surjection, IsInjective
<1>4. ExistsBijection(1..Len(audit), Rows)
  BY <1>3 DEF ExistsBijection
<1> QED
  BY <1>1, <1>4, FS_CountingElements

\* A row is in the newest Limit of the table, or that many rows are newer.
LEMMA Paged ==
    ASSUME audit \in Seq(Trade)
    PROVE  /\ Rows \subseteq Newest \cup OverLimit
           /\ Newest \subseteq Trade /\ OverLimit \subseteq Trade
<1>1. Len(audit) \in Nat /\ DOMAIN audit = 1..Len(audit) /\ Limit \in Nat
      /\ Rows \subseteq Trade
  BY JournalAssumption DEF Rows
<1>2. ASSUME NEW i \in DOMAIN audit, i <= Len(audit) - Limit PROVE audit[i] \in OverLimit
  <2>1. {j \in DOMAIN audit : j > i} = (i + 1)..Len(audit)
    BY <1>1
  <2>2. i \in Nat /\ i + 1 \in Int /\ Len(audit) \in Int /\ i < Len(audit) + 1
    BY <1>1
  <2>3. Cardinality((i + 1)..Len(audit)) = IF i + 1 > Len(audit) THEN 0
                                           ELSE Len(audit) - (i + 1) + 1
    BY <2>2, FS_Interval
  <2>4. (IF i + 1 > Len(audit) THEN 0 ELSE Len(audit) - (i + 1) + 1) >= Limit
    BY <1>1, <1>2, <2>2, JournalAssumption
  <2>5. Cardinality((i + 1)..Len(audit)) >= Limit
    BY <2>3, <2>4, Zenon
  <2>6. Cardinality({j \in DOMAIN audit : j > i}) >= Limit
    BY <2>1, <2>5, Zenon
  <2> QED
    BY <2>6 DEF OverLimit, Rows
<1>3. \A i \in DOMAIN audit : audit[i] \in Newest \cup OverLimit
  <2>1. TAKE i \in DOMAIN audit
  <2>2. CASE i <= Len(audit) - Limit
    BY <1>2, <2>2
  <2>3. CASE i > Len(audit) - Limit
    BY <2>3 DEF Newest
  <2> QED
    BY <1>1, <2>2, <2>3
<1>4. Rows \subseteq Newest \cup OverLimit
  BY <1>3 DEF Rows
<1>5. Newest \subseteq Trade /\ OverLimit \subseteq Trade
  BY <1>1 DEF Newest, OverLimit, Rows
<1> QED
  BY <1>4, <1>5

----------------------------------------------------------------------------
(* The journal *)

Readers == [pc: {"idle", "second", "done"}, shown: SUBSET Trade, due: SUBSET Trade,
            older: SUBSET Trade, failed: BOOLEAN]

BookTypes ==
    /\ run \in {"off", "cycle"} /\ book \in [Trade -> {"new", "open", "closed"}]
    /\ row \subseteq Trade /\ audit \in Seq(Trade) /\ Distinct(audit)
    /\ reader \in Readers
    /\ past \in [opened: SUBSET Trade, seen: SUBSET Trade, gone: SUBSET Trade]

\* Where each trade of the past can be found: the two databases and the memory hold only
\* trades that were opened, an audited trade in memory is one the row brought back, and
\* a trade leaves the row only for the audit or for the lost ones.
PlaceInv ==
    /\ row \subseteq past.opened /\ Rows \subseteq past.opened /\ OpenTrades \subseteq past.opened
    /\ run = "off" => OpenTrades = {}
    /\ \A t \in Rows : book[t] = "open" => t \in row
    /\ run = "cycle" => \A t \in row : book[t] = "open" \/ t \in Rows \/ t \in past.gone
    /\ Owed \subseteq row \cup Rows

\* What a request still has to read is in the database it reads next, and what it will
\* not find there is too old.
ReaderInv ==
    /\ reader.pc = "second" /\ ~reader.failed => reader.due \subseteq reader.shown \cup Rows
    /\ JournalLosesNothing

BookInv == BookTypes /\ PlaceInv /\ ReaderInv

\* Every write of the service and every read of a request keep the records complete.
LEMMA BookStep ==
    ASSUME BookInv, [BookNext]_bookVars
    PROVE  BookInv'
<1>1. /\ run \in {"off", "cycle"} /\ book \in [Trade -> {"new", "open", "closed"}]
      /\ row \subseteq Trade /\ audit \in Seq(Trade) /\ Distinct(audit)
      /\ reader \in Readers
      /\ past \in [opened: SUBSET Trade, seen: SUBSET Trade, gone: SUBSET Trade]
      /\ Rows \subseteq Trade
  <2>1. audit \in Seq(Trade) => Rows \subseteq Trade
    BY DEF Rows
  <2> QED
    BY <2>1 DEF BookInv, BookTypes
<1>2. ASSUME audit' = audit PROVE Rows' = Rows /\ Distinct(audit') /\ audit' \in Seq(Trade)
  BY <1>1, <1>2 DEF Rows
<1>3. ASSUME reader' = reader, Rows \subseteq Rows' PROVE ReaderInv'
  BY <1>3 DEF BookInv, ReaderInv, JournalLosesNothing
<1> USE DEF OpenTrades, Owed
<1>4. ASSUME NEW kept \in SUBSET row, RestoreBook(kept) PROVE BookInv'
  <2>1. /\ run = "off" /\ run' = "cycle" /\ row' = row /\ audit' = audit /\ reader' = reader
        /\ book' = [t \in Trade |-> IF t \in kept THEN "open" ELSE "new"]
        /\ past' = [past EXCEPT !.gone = past.gone \cup (row \ kept)]
    BY <1>4 DEF RestoreBook
  <2>2. /\ past' \in [opened: SUBSET Trade, seen: SUBSET Trade, gone: SUBSET Trade]
        /\ past'.opened = past.opened /\ past'.seen = past.seen
        /\ past'.gone = past.gone \cup (row \ kept)
    BY <1>1, <2>1
  <2>3. BookTypes'
    BY <1>1, <1>2, <2>1, <2>2 DEF BookTypes
  <2>4. PlaceInv'
    BY <1>1, <1>2, <2>1, <2>2 DEF BookInv, PlaceInv
  <2> QED
    BY <1>2, <1>3, <2>1, <2>3, <2>4 DEF BookInv
<1>5. ASSUME NEW t \in Trade, OpenTrade(t) PROVE BookInv'
  <2>1. /\ run = "cycle" /\ t \notin past.opened
        /\ run' = run /\ row' = row /\ audit' = audit /\ reader' = reader
        /\ book' = [book EXCEPT ![t] = "open"]
        /\ past' = [past EXCEPT !.opened = past.opened \cup {t}]
    BY <1>5 DEF OpenTrade
  <2>2. /\ past' \in [opened: SUBSET Trade, seen: SUBSET Trade, gone: SUBSET Trade]
        /\ past'.opened = past.opened \cup {t} /\ past'.seen = past.seen /\ past'.gone = past.gone
    BY <1>1, <2>1
  <2>3. BookTypes'
    BY <1>1, <1>2, <2>1, <2>2 DEF BookTypes
  <2>4. PlaceInv'
    BY <1>1, <1>2, <2>1, <2>2 DEF BookInv, PlaceInv
  <2> QED
    BY <1>2, <1>3, <2>1, <2>3, <2>4 DEF BookInv
<1>6. ASSUME NEW t \in Trade, CloseTrade(t) PROVE BookInv'
  <2>1. /\ run = "cycle" /\ book[t] = "open"
        /\ run' = run /\ row' = row /\ audit' = RecordTrade(t) /\ reader' = reader
        /\ book' = [book EXCEPT ![t] = "closed"]
        /\ past' = [past EXCEPT !.seen = past.seen \cup {t}]
    BY <1>6 DEF CloseTrade
  <2>2. /\ past' \in [opened: SUBSET Trade, seen: SUBSET Trade, gone: SUBSET Trade]
        /\ past'.opened = past.opened /\ past'.seen = past.seen \cup {t} /\ past'.gone = past.gone
    BY <1>1, <2>1
  <2>3. audit' \in Seq(Trade) /\ Distinct(audit') /\ Rows' = Rows \cup {t}
    BY <1>1, <2>1, Recorded
  <2>4. BookTypes'
    BY <1>1, <2>1, <2>2, <2>3 DEF BookTypes
  <2>5. PlaceInv'
    BY <1>1, <2>1, <2>2, <2>3 DEF BookInv, PlaceInv
  <2> QED
    BY <1>3, <2>1, <2>3, <2>4, <2>5 DEF BookInv
<1>7. ASSUME NEW t \in Trade, RecordRaises(t) PROVE BookInv'
  <2>1. /\ run = "cycle" /\ book[t] = "open"
        /\ run' = run /\ row' = row /\ audit' = audit /\ reader' = reader
        /\ book' = [book EXCEPT ![t] = "closed"]
        /\ past' = [past EXCEPT !.gone = past.gone \cup {t}]
    BY <1>7 DEF RecordRaises
  <2>2. /\ past' \in [opened: SUBSET Trade, seen: SUBSET Trade, gone: SUBSET Trade]
        /\ past'.opened = past.opened /\ past'.seen = past.seen /\ past'.gone = past.gone \cup {t}
    <3>1. past.gone \cup {t} \in SUBSET Trade
      BY <1>1
    <3> QED
      BY <1>1, <2>1, <3>1
  <2>3. BookTypes'
    BY <1>1, <1>2, <2>1, <2>2 DEF BookTypes
  <2>4. PlaceInv'
    BY <1>1, <1>2, <2>1, <2>2 DEF BookInv, PlaceInv
  <2> QED
    BY <1>2, <1>3, <2>1, <2>3, <2>4 DEF BookInv
<1>8. CASE SaveBook
  <2>1. /\ run = "cycle" /\ run' = run /\ book' = book /\ audit' = audit /\ reader' = reader
        /\ row' \in {OpenTrades, row}
        /\ past' = [past EXCEPT !.seen = past.seen \cup row']
    BY <1>8 DEF SaveBook
  <2>2. row' \subseteq Trade
    BY <1>1, <2>1
  <2>3. /\ past' \in [opened: SUBSET Trade, seen: SUBSET Trade, gone: SUBSET Trade]
        /\ past'.opened = past.opened /\ past'.seen = past.seen \cup row' /\ past'.gone = past.gone
    BY <1>1, <2>1, <2>2
  <2>4. BookTypes'
    BY <1>1, <1>2, <2>1, <2>2, <2>3 DEF BookTypes
  <2>5. PlaceInv'
    BY <1>1, <1>2, <2>1, <2>2, <2>3 DEF BookInv, PlaceInv
  <2> QED
    BY <1>2, <1>3, <2>1, <2>4, <2>5 DEF BookInv
<1>9. CASE EndOfRun
  <2>1. /\ run' = "off" /\ book' = Fresh /\ row' = row /\ audit' = audit /\ reader' = reader
        /\ past' = past
    BY <1>9 DEF EndOfRun
  <2>2. book' \in [Trade -> {"new", "open", "closed"}] /\ \A t \in Trade : book'[t] # "open"
    BY <2>1 DEF Fresh
  <2>3. BookTypes'
    BY <1>1, <1>2, <2>1, <2>2 DEF BookTypes
  <2>4. PlaceInv'
    BY <1>1, <1>2, <2>1, <2>2 DEF BookInv, PlaceInv
  <2> QED
    BY <1>2, <1>3, <2>1, <2>3, <2>4 DEF BookInv
<1>10. CASE (\E ok \in BOOLEAN : JournalOpen(ok) \/ JournalClosed(ok)) \/ JournalReply
  <2>1. run' = run /\ book' = book /\ row' = row /\ audit' = audit /\ past' = past
    BY <1>10 DEF JournalOpen, JournalClosed, JournalReply
  <2>2. PlaceInv'
    BY <1>1, <1>2, <2>1 DEF BookInv, PlaceInv
  <2>3. reader' \in Readers /\ ReaderInv'
    <3>1. ASSUME NEW ok \in BOOLEAN, JournalOpen(ok) PROVE reader' \in Readers /\ ReaderInv'
      <4>1. reader' = [pc |-> "second", shown |-> IF ok THEN row ELSE {}, due |-> Owed,
                       older |-> {}, failed |-> ~ok]
        BY <3>1 DEF JournalOpen, Databases
      <4>2. Owed \subseteq Trade /\ Owed \subseteq row \cup Rows
        BY <1>1 DEF BookInv, PlaceInv
      <4>3. reader'.pc = "second" /\ (~reader'.failed => ok)
        BY <4>1
      <4>4. ok => reader'.due \subseteq reader'.shown \cup Rows'
        BY <1>2, <2>1, <4>1, <4>2
      <4>5. reader' \in Readers
        BY <1>1, <4>1, <4>2 DEF Readers
      <4> QED
        BY <4>3, <4>4, <4>5 DEF ReaderInv, JournalLosesNothing
    <3>2. ASSUME NEW ok \in BOOLEAN, JournalClosed(ok) PROVE reader' \in Readers /\ ReaderInv'
      <4>1. /\ reader' = [reader EXCEPT !.pc = "done",
                                        !.shown = reader.shown \cup IF ok THEN Newest ELSE {},
                                        !.older = OverLimit, !.failed = reader.failed \/ ~ok]
            /\ reader.pc = "second"
        BY <3>2 DEF JournalClosed, Databases
      <4>2. Newest \subseteq Trade /\ OverLimit \subseteq Trade /\ Rows \subseteq Newest \cup OverLimit
        BY <1>1, Paged
      <4>3. /\ reader'.pc = "done" /\ reader'.due = reader.due
            /\ reader'.shown = reader.shown \cup IF ok THEN Newest ELSE {}
            /\ reader'.older = OverLimit /\ (~reader'.failed => ok /\ ~reader.failed)
        BY <1>1, <4>1 DEF Readers
      <4>4. reader' \in Readers
        BY <1>1, <4>1, <4>2 DEF Readers
      <4>5. ~reader.failed => reader.due \subseteq reader.shown \cup Rows
        BY <4>1 DEF BookInv, ReaderInv
      <4> QED
        BY <4>2, <4>3, <4>4, <4>5 DEF ReaderInv, JournalLosesNothing
    <3>3. CASE JournalReply
      <4>1. reader' = NoReader
        BY <3>3 DEF JournalReply
      <4>2. reader' \in Readers /\ reader'.pc = "idle"
        BY <4>1 DEF NoReader, Readers
      <4> QED
        BY <4>2 DEF ReaderInv, JournalLosesNothing
    <3> QED
      BY <1>10, <3>1, <3>2, <3>3
  <2>4. BookTypes'
    BY <1>1, <1>2, <2>1, <2>3 DEF BookTypes
  <2> QED
    BY <2>2, <2>3, <2>4 DEF BookInv
<1>11. CASE UNCHANGED bookVars
  <2>1. /\ run' = run /\ book' = book /\ row' = row /\ audit' = audit /\ past' = past
        /\ reader' = reader
    BY <1>11 DEF bookVars
  <2>2. BookTypes' /\ PlaceInv'
    BY <1>1, <1>2, <2>1 DEF BookInv, BookTypes, PlaceInv
  <2> QED
    BY <1>2, <1>3, <2>1, <2>2 DEF BookInv
<1> QED
  BY <1>4, <1>5, <1>6, <1>7, <1>8, <1>9, <1>10, <1>11 DEF BookNext

\* The records are complete in every state.
THEOREM BookInvariant == BookSpec => []BookInv
<1>1. ASSUME BookInit PROVE BookInv
  <2>1. /\ run = "off" /\ book = Fresh /\ row = {} /\ audit = << >> /\ reader = NoReader
        /\ past = [opened |-> {}, seen |-> {}, gone |-> {}]
    BY <1>1 DEF BookInit
  <2>2. audit \in Seq(Trade) /\ Distinct(audit) /\ Rows = {}
    BY <2>1 DEF Distinct, Rows
  <2>3. BookTypes
    BY <2>1, <2>2 DEF BookTypes, Readers, Fresh, NoReader
  <2>4. PlaceInv
    BY <2>1, <2>2 DEF PlaceInv, OpenTrades, Owed, Fresh
  <2>5. ReaderInv
    BY <2>1 DEF ReaderInv, JournalLosesNothing, NoReader
  <2> QED
    BY <2>3, <2>4, <2>5 DEF BookInv
<1>2. BookInv /\ [BookNext]_bookVars => BookInv'
  BY BookStep
<1> QED
  BY <1>1, <1>2, PTL DEF BookSpec

\* For any set of trades and any limit, a trade that was recorded and not lost by a failed
\* write is in every journal built afterwards from two databases that could be read, or
\* has as many newer rows in the audit as the limit: although the request reads the two
\* databases one after the other while the service moves trades between them, dies and
\* restores.
THEOREM JournalNeverLoses == BookSpec => []JournalLosesNothing
<1>1. BookInv => JournalLosesNothing
  BY DEF BookInv, ReaderInv
<1> QED
  BY <1>1, BookInvariant, PTL

\* For any set of trades, an audited trade has one row however often it is closed again,
\* and one that is open in memory is one the row brought back.
THEOREM TradesAuditedOnce == BookSpec => []AuditedOnce
<1>1. ASSUME BookInv PROVE AuditedOnce
  <2>1. Cardinality(Rows) = Len(audit)
    BY <1>1, RowsCounted DEF BookInv, BookTypes
  <2> QED
    BY <1>1, <2>1 DEF BookInv, PlaceInv, AuditedOnce
<1> QED
  BY <1>1, BookInvariant, PTL

=============================================================================
