--------------------------- MODULE AppStateProofs ---------------------------
(***************************************************************************)
(* Proofs about AppState, for any number of request threads, positions,    *)
(* rebuilt pipelines and replaced providers.                               *)
(***************************************************************************)
EXTENDS AppState, TLAPS, FiniteSetTheorems

----------------------------------------------------------------------------
(* The discipline of the lock *)

Request == [op: Op, pc: PC, gen: 1..MaxGen, since: 1..MaxSource, src: 1..MaxSource,
            todo: SUBSET Pos, p: Pos \cup {None}, copy: Book \cup {None},
            agrees: BOOLEAN, outdated: BOOLEAN]

Swapping == {"reload", "scenario"}

\* The control points inside the with statement of run_once, set_scenario and
\* reset, and those that /paper/close also passes outside it.
Locked  == {"swap", "snapshot", "write", "evaluate", "execute", "register", "finish"}
Closing == {"cycle", "work", "replace", "settle"}

\* What a thread at a control point is doing, and what it has read so far.
ShapeInv == \A t \in Thread :
    /\ th[t].op \in Swapping => th[t].pc \in {"lock", "swap", "finish"}
    /\ th[t].pc \in {"switch", "flip"} => th[t].op \in {"trip", "reset"}
    /\ th[t].pc \in {"write", "work", "replace", "settle", "register"} => th[t].p \in Pos
    /\ th[t].pc \in {"write", "replace"} => th[t].copy \in Book
    /\ th[t].pc \notin {"write", "replace"} => th[t].copy = None

\* One thread at a time is inside, and it is the one the lock names.
LockInv == \A t \in Thread :
    /\ th[t].pc \in Locked => lock = t
    /\ th[t].pc \in Closing /\ th[t].op # "close" => lock = t
    /\ lock = t => th[t].pc \in Locked \cup Closing

\* Each request that will replace the provider, or rebuild the pipeline, has its
\* place under the bound.
Swappers   == {u \in Thread : th[u].op \in Swapping /\ th[u].pc # "idle"}
Rebuilders == {u \in Thread : th[u].op = "reload" /\ th[u].pc \notin {"idle", "finish"}}

BoundInv ==
    /\ 1 <= Installed /\ Installed + Cardinality(Swappers) <= MaxSource
    /\ gen + Cardinality(Rebuilders) <= MaxGen

AppInv == TypeOK /\ ShapeInv /\ LockInv /\ BoundInv

\* How a request begins.
LEMMA RequestBegins ==
    ASSUME NEW t \in Thread, Requests(t)
    PROVE  \E op \in Op, pc \in {"current", "lock", "switch"} :
              /\ Begin(t, op, pc)
              /\ op \in Swapping => pc = "lock" /\ Installed + Pending(Swapping) < MaxSource
              /\ op = "reload" => gen + Pending({"reload"}) < MaxGen
              /\ pc = "switch" => op \in {"trip", "reset"}
<1>1. CASE DeskRequest(t) \/ StrategyRequest(t)
  BY <1>1 DEF DeskRequest, StrategyRequest, Op, Swapping
<1>2. CASE RunRequest(t) \/ CloseRequest(t)
  BY <1>2 DEF RunRequest, CloseRequest, Op, Swapping
<1>3. CASE ReloadRequest(t) \/ ScenarioRequest(t)
  BY <1>3 DEF ReloadRequest, ScenarioRequest, MayReplace, Op, Swapping
<1>4. CASE SwitchRequest(t)
  BY <1>4 DEF SwitchRequest, Op, Swapping
<1> QED
  BY <1>1, <1>2, <1>3, <1>4 DEF Requests

\* The record of one thread is replaced by a well-typed one.
LEMMA Retyped ==
    ASSUME th \in [Thread -> Request], NEW t \in Thread, NEW r \in Request,
           th' = [th EXCEPT ![t] = r]
    PROVE  th' \in [Thread -> Request]
  OBVIOUS

\* A thread at rest, or with a request just begun.
LEMMA NoWorkTypes ==
    /\ \A b \in BOOLEAN : [NoWork EXCEPT !.outdated = b] \in Request
    /\ \A op \in Op, pc \in PC, s \in 1..MaxSource :
          [NoWork EXCEPT !.op = op, !.pc = pc, !.since = s, !.src = s] \in Request
<1>1. NoWork \in Request
  BY AppAssumption DEF NoWork, Request, Op, PC
<1> QED
  BY <1>1 DEF Request

\* The providers completed are among the providers installed.
LEMMA InstalledTypes ==
    ASSUME AppInv
    PROVE  Installed \in {source - 1, source} /\ source \in 1..MaxSource
  BY DEF AppInv, TypeOK, Installed

\* Going on to the next position changes one request and nothing else.
LEMMA NextPositionIs ==
    ASSUME th \in [Thread -> Request], NEW t \in Thread, NextPosition(t)
    PROVE  /\ th[t].pc = "cycle" /\ UNCHANGED <<lock, pipeVars, feedVars, histVars>>
           /\ \A u \in Thread : u # t => th'[u] = th[u]
           /\ th'[t].op = th[t].op /\ th'[t].since = th[t].since /\ th'[t].src = th[t].src
           /\ th'[t].outdated = th[t].outdated
           /\ th'[t].p \in Pos /\ th'[t].p \in th[t].todo
           /\ th'[t].todo = th[t].todo \ {th'[t].p}
           /\ th'[t].pc = IF InCycle(t) THEN "write" ELSE "work"
           /\ th'[t].copy = IF InCycle(t) THEN book ELSE None
<1>1. PICK p \in th[t].todo :
         th' = [th EXCEPT ![t].todo = @ \ {p}, ![t].p = p,
                          ![t].copy = IF InCycle(t) THEN book ELSE None,
                          ![t].pc   = IF InCycle(t) THEN "write" ELSE "work"]
  BY DEF NextPosition
<1>2. th[t] \in Request /\ p \in Pos
  BY DEF Request
<1>3. th[t].pc = "cycle" /\ UNCHANGED <<lock, pipeVars, feedVars, histVars>>
  BY DEF NextPosition
<1>4. \A u \in Thread : u # t => th'[u] = th[u]
  BY <1>1
<1>5. th'[t] = [th[t] EXCEPT !.todo = @ \ {p}, !.p = p,
                            !.copy = IF InCycle(t) THEN book ELSE None,
                            !.pc   = IF InCycle(t) THEN "write" ELSE "work"]
  BY <1>1
<1>6. /\ th'[t].op = th[t].op /\ th'[t].since = th[t].since /\ th'[t].src = th[t].src
      /\ th'[t].outdated = th[t].outdated /\ th'[t].p = p
      /\ th'[t].todo = th[t].todo \ {p}
      /\ th'[t].pc = IF InCycle(t) THEN "write" ELSE "work"
      /\ th'[t].copy = IF InCycle(t) THEN book ELSE None
  BY <1>2, <1>5 DEF Request
<1> QED
  BY <1>2, <1>3, <1>4, <1>6

\* The lock and the shape of a request, through every step.
LEMMA LockStep ==
    ASSUME AppInv, [Next]_vars
    PROVE  LockInv' /\ ShapeInv'
<1> USE AppAssumption
<1> USE DEF LockInv, ShapeInv, Locked, Closing, Swapping, pipeVars, feedVars, histVars
<1>0. th \in [Thread -> Request] /\ LockInv /\ ShapeInv /\ book \in Book
  BY DEF AppInv, TypeOK, Request
<1>1. CASE Age \/ UNCHANGED vars
  BY <1>0, <1>1 DEF Age, vars
<1>2. ASSUME NEW t \in Thread, Requests(t) PROVE LockInv' /\ ShapeInv'
  <2>1. PICK op \in Op, pc \in {"current", "lock", "switch"} :
           /\ Begin(t, op, pc)
           /\ op \in Swapping => pc = "lock"
           /\ pc = "switch" => op \in {"trip", "reset"}
    BY <1>2, RequestBegins
  <2> QED
    BY <1>0, <2>1 DEF Begin, NoWork, Request
<1>3. ASSUME NEW t \in Thread, Work(t) PROVE LockInv' /\ ShapeInv'
  <2> USE <1>0 DEF Request, Release, Done, Idle, NoWork, Go
  <2>1. CASE Current(t) \/ Acquire(t) \/ Finish(t)
    BY <2>1 DEF Current, Acquire, Enter, Finish, Served
  <2>2. CASE SwitchProvider(t) \/ ClearResult(t) \/ Rebuild(t) \/ Resolve(t)
    BY <2>2 DEF SwitchProvider, ClearResult, Rebuild, Resolve
  <2>3. CASE SnapshotRaises(t) \/ Snapshot(t) \/ CloseDone(t)
    <3>1. CASE SnapshotRaises(t)
      BY <3>1 DEF SnapshotRaises
    <3>2. CASE Snapshot(t)
      BY <3>2 DEF Snapshot
    <3>3. CASE CloseDone(t)
      BY <3>3 DEF CloseDone, InCycle
    <3> QED
      BY <2>3, <3>1, <3>2, <3>3
  <2>4. CASE Reconcile(t) \/ Lockout(t)
    BY <2>4 DEF Reconcile, Lockout, InCycle
  <2>5. CASE NextPosition(t)
    <3>1. /\ th[t].pc = "cycle" /\ lock' = lock
          /\ \A u \in Thread : u # t => th'[u] = th[u]
          /\ th'[t].op = th[t].op /\ th'[t].p \in Pos
          /\ th'[t].pc = IF InCycle(t) THEN "write" ELSE "work"
          /\ th'[t].copy = IF InCycle(t) THEN book ELSE None
      BY <2>5, NextPositionIs, Zenon
    <3>2. InCycle(t) <=> lock = t
      BY <3>1 DEF InCycle
    <3>3. LockInv'
      <4>1. \A u \in Thread \ {t} : th'[u] = th[u] /\ lock' = lock
        BY <3>1
      <4>2. /\ th'[t].pc \in Locked => lock' = t
            /\ th'[t].pc \in Closing /\ th'[t].op # "close" => lock' = t
            /\ lock' = t => th'[t].pc \in Locked \cup Closing
        BY <3>1, <3>2 DEF InCycle
      <4> QED
        BY <4>1, <4>2
    <3>4. ShapeInv'
      <4>1. /\ th'[t].op \in Swapping => th'[t].pc \in {"lock", "swap", "finish"}
            /\ th'[t].pc \notin {"switch", "flip"} /\ th'[t].p \in Pos
            /\ th'[t].pc \in {"write", "replace"} => th'[t].copy \in Book
            /\ th'[t].pc \notin {"write", "replace"} => th'[t].copy = None
        BY <3>1
      <4> QED
        BY <3>1, <4>1
    <3> QED
      BY <3>3, <3>4
  <2>6. CASE WriteMark(t) \/ LeaveOpen(t) \/ CloseFills(t)
    BY <2>6 DEF WriteMark, LeaveOpen, CloseFills
  <2>7. CASE WriteClosed(t) \/ Settle(t)
    BY <2>7 DEF WriteClosed, Settle
  <2>8. CASE Evaluate(t) \/ Execute(t) \/ NotFilled(t) \/ Register(t)
    BY <2>8 DEF Evaluate, Execute, NotFilled, Register
  <2>9. CASE ReadSwitch(t) \/ Flip(t)
    BY <2>9 DEF ReadSwitch, Flip
  <2>10. CASE StepRaises(t)
    <3>1. /\ th'[t].pc = "idle" /\ th'[t].op = "read" /\ th'[t].copy = None
          /\ \A u \in Thread : u # t => th'[u] = th[u]
      BY <2>10 DEF StepRaises
    <3>2. lock' = IF InCycle(t) THEN None ELSE lock
      BY <2>10 DEF StepRaises
    <3>3. InCycle(t) => lock = t
      BY <2>10 DEF StepRaises, InCycle
    <3> QED
      BY <3>1, <3>2, <3>3 DEF InCycle
  <2> QED
    BY <1>3, <2>1, <2>2, <2>3, <2>4, <2>5, <2>6, <2>7, <2>8, <2>9, <2>10 DEF Work
<1> QED
  BY <1>1, <1>2, <1>3 DEF Next

\* A provider counts as installed when set_scenario or reset has returned, and only
\* then: every other step leaves the number of completed installations alone.
LEMMA InstalledStep ==
    ASSUME AppInv, [Next]_vars
    PROVE  \/ Installed' = Installed /\ UNCHANGED last
           \/ Installed' = Installed /\ \E t \in Thread : Finish(t)
           \/ Installed' = Installed /\ Age
           \/ /\ Installed' = Installed + 1 /\ last' = None
              /\ \E t \in Thread : ClearResult(t) \/ Resolve(t)
<1> USE AppAssumption
<1> DEFINE Late(u) == th[u].op = "scenario" /\ th[u].pc = "finish"
<1>0. th \in [Thread -> Request] /\ LockInv /\ ShapeInv /\ source \in Int
  BY DEF AppInv, TypeOK, Request
<1>1. ASSUME UNCHANGED source, \A u \in Thread : Late(u)' = Late(u)
      PROVE  Installed' = Installed
  BY <1>1 DEF Installed
<1>2. CASE Age \/ UNCHANGED vars
  BY <1>1, <1>2 DEF Age, vars, feedVars
<1>3. ASSUME NEW t \in Thread, Requests(t) PROVE Installed' = Installed /\ UNCHANGED last
  <2>1. PICK op \in Op, pc \in {"current", "lock", "switch"} : Begin(t, op, pc)
    BY <1>3, RequestBegins
  <2> QED
    BY <1>0, <1>1, <2>1 DEF Begin, NoWork, Request, feedVars
<1>4. ASSUME NEW t \in Thread, SwitchProvider(t) PROVE Installed' = Installed /\ UNCHANGED last
  <2>1. \A u \in Thread : ~Late(u)
    BY <1>0, <1>4 DEF SwitchProvider, LockInv, Locked
  <2>2. Late(t)' /\ source' = source + 1 /\ last' = last
    BY <1>0, <1>4 DEF SwitchProvider, Go, Request
  <2> QED
    BY <1>0, <2>1, <2>2 DEF Installed
<1>5. ASSUME NEW t \in Thread, ClearResult(t) PROVE Installed' = Installed + 1 /\ last' = None
  <2>1. Late(t) /\ \A u \in Thread : ~Late(u)'
    BY <1>0, <1>5 DEF ClearResult, Done, NoWork, LockInv, Locked, Request
  <2>2. source' = source /\ last' = None
    BY <1>5 DEF ClearResult
  <2> QED
    BY <1>0, <2>1, <2>2 DEF Installed
<1>6. ASSUME NEW t \in Thread, Resolve(t) PROVE Installed' = Installed + 1 /\ last' = None
  <2>1. \A u \in Thread : ~Late(u) /\ ~Late(u)'
    BY <1>0, <1>6 DEF Resolve, Done, NoWork, LockInv, Locked, Request
  <2>2. source' = source + 1 /\ last' = None
    BY <1>6 DEF Resolve
  <2> QED
    BY <1>0, <2>1, <2>2 DEF Installed
<1>7. ASSUME NEW t \in Thread, Work(t), ~SwitchProvider(t), ~ClearResult(t), ~Resolve(t)
      PROVE  Installed' = Installed /\ (UNCHANGED last \/ Finish(t))
  <2> USE <1>0, <1>1 DEF Request, ShapeInv, Swapping, Release, Done, Idle, NoWork, Go, feedVars
  <2>1. CASE Current(t) \/ Acquire(t)
    BY <2>1 DEF Current, Acquire, Enter, Served
  <2>2. CASE Finish(t)
    <3>1. Installed' = Installed
      BY <2>2 DEF Finish, Served
    <3> QED
      BY <2>2, <3>1
  <2>3. CASE Rebuild(t) \/ SnapshotRaises(t) \/ Snapshot(t)
    BY <2>3 DEF Rebuild, SnapshotRaises, Snapshot
  <2>4. CASE Reconcile(t) \/ Lockout(t) \/ CloseDone(t) \/ StepRaises(t)
    BY <2>4 DEF Reconcile, Lockout, CloseDone, StepRaises
  <2>5. CASE NextPosition(t)
    BY <2>5 DEF NextPosition
  <2>6. CASE WriteMark(t) \/ LeaveOpen(t) \/ CloseFills(t) \/ WriteClosed(t) \/ Settle(t)
    <3>1. UNCHANGED <<source, last>>
      BY <2>6 DEF WriteMark, LeaveOpen, CloseFills, WriteClosed, Settle
    <3>2. \A u \in Thread : Late(u)' = Late(u)
      BY <2>6 DEF WriteMark, LeaveOpen, CloseFills, WriteClosed, Settle
    <3> QED
      BY <3>1, <3>2
  <2>7. CASE Evaluate(t) \/ Execute(t) \/ NotFilled(t) \/ Register(t)
    BY <2>7 DEF Evaluate, Execute, NotFilled, Register
  <2>8. CASE ReadSwitch(t) \/ Flip(t)
    BY <2>8 DEF ReadSwitch, Flip
  <2> QED
    BY <1>7, <2>1, <2>2, <2>3, <2>4, <2>5, <2>6, <2>7, <2>8 DEF Work
<1> QED
  BY <1>2, <1>3, <1>4, <1>5, <1>6, <1>7 DEF Next, vars, feedVars

\* A request takes its place under the bounds when it begins and gives it up when
\* it ends; nothing else takes one.
LEMMA PlacesStep ==
    ASSUME AppInv, [Next]_vars
    PROVE  \/ Swappers' \subseteq Swappers /\ Rebuilders' \subseteq Rebuilders
           \/ \E t \in Thread : /\ Requests(t) /\ Swappers' = Swappers \cup {t}
                                /\ Rebuilders' \subseteq Rebuilders \cup {t}
                                /\ Installed + Pending(Swapping) < MaxSource
                                /\ Rebuilders' = Rebuilders \/ gen + Pending({"reload"}) < MaxGen
<1> USE AppAssumption
<1> USE DEF Swappers, Rebuilders, Swapping
<1>0. th \in [Thread -> Request] /\ ShapeInv
  BY DEF AppInv, TypeOK, Request
<1>1. CASE Age \/ UNCHANGED vars
  BY <1>1 DEF Age, vars
<1>2. ASSUME NEW t \in Thread, Requests(t)
      PROVE  \/ Swappers' \subseteq Swappers /\ Rebuilders' \subseteq Rebuilders
             \/ /\ Swappers' = Swappers \cup {t}
                /\ Rebuilders' \subseteq Rebuilders \cup {t}
                /\ Installed + Pending(Swapping) < MaxSource
                /\ Rebuilders' = Rebuilders \/ gen + Pending({"reload"}) < MaxGen
  <2>1. PICK op \in Op, pc \in {"current", "lock", "switch"} :
           /\ Begin(t, op, pc)
           /\ op \in Swapping => Installed + Pending(Swapping) < MaxSource
           /\ op = "reload" => gen + Pending({"reload"}) < MaxGen
    BY <1>2, RequestBegins
  <2>2. /\ th[t].pc = "idle" /\ th'[t].op = op /\ th'[t].pc = pc
        /\ \A u \in Thread : u # t => th'[u] = th[u]
    BY <1>0, <2>1 DEF Begin, NoWork, Request
  <2>3. CASE op \notin Swapping
    BY <2>2, <2>3
  <2>4. CASE op \in Swapping
    <3>1. Swappers' = Swappers \cup {t}
      BY <2>2, <2>4
    <3>2. Rebuilders' = IF op = "reload" THEN Rebuilders \cup {t} ELSE Rebuilders
      BY <2>2, <2>4
    <3> QED
      BY <2>1, <2>4, <3>1, <3>2
  <2> QED
    BY <2>3, <2>4
<1>3. ASSUME NEW t \in Thread, Work(t)
      PROVE  Swappers' \subseteq Swappers /\ Rebuilders' \subseteq Rebuilders
  <2> SUFFICES /\ \A u \in Thread : u # t => th'[u] = th[u]
               /\ \/ th'[t].pc = "idle"
                  \/ th'[t].op = th[t].op /\ th'[t].pc # "idle" /\ th[t].pc # "idle"
                     /\ (th[t].op = "reload" => th[t].pc # "finish" \/ th'[t].pc = "finish")
    OBVIOUS
  <2> USE <1>0 DEF Request, ShapeInv, Done, Idle, NoWork, Go
  <2>1. CASE Current(t) \/ Acquire(t) \/ Finish(t)
    BY <2>1 DEF Current, Acquire, Enter, Finish, Served
  <2>2. CASE SwitchProvider(t) \/ ClearResult(t) \/ Rebuild(t) \/ Resolve(t)
    BY <2>2 DEF SwitchProvider, ClearResult, Rebuild, Resolve
  <2>3. CASE SnapshotRaises(t) \/ Snapshot(t) \/ Reconcile(t) \/ Lockout(t) \/ CloseDone(t)
    BY <2>3 DEF SnapshotRaises, Snapshot, Reconcile, Lockout, CloseDone
  <2>8. CASE StepRaises(t)
    BY <2>8 DEF StepRaises
  <2>4. CASE NextPosition(t)
    BY <2>4 DEF NextPosition
  <2>5. CASE WriteMark(t) \/ LeaveOpen(t) \/ CloseFills(t) \/ WriteClosed(t) \/ Settle(t)
    BY <2>5 DEF WriteMark, LeaveOpen, CloseFills, WriteClosed, Settle
  <2>6. CASE Evaluate(t) \/ Execute(t) \/ NotFilled(t) \/ Register(t)
    BY <2>6 DEF Evaluate, Execute, NotFilled, Register
  <2>7. CASE ReadSwitch(t) \/ Flip(t)
    BY <2>7 DEF ReadSwitch, Flip
  <2> QED
    BY <1>3, <2>1, <2>2, <2>3, <2>4, <2>5, <2>6, <2>7, <2>8 DEF Work
<1> QED
  BY <1>1, <1>2, <1>3 DEF Next

\* Only Rebuild counts pipelines.
LEMMA GenStep ==
    ASSUME [Next]_vars, ~\E t \in Thread : Rebuild(t)
    PROVE  gen' = gen
<1>1. ASSUME NEW t \in Thread, Requests(t) PROVE gen' = gen
  BY <1>1, RequestBegins, Zenon DEF Begin, pipeVars
<1>2. ASSUME NEW t \in Thread, Work(t), ~Rebuild(t) PROVE gen' = gen
  BY <1>2, Zenon DEF Work, Current, Acquire, Enter, SwitchProvider, ClearResult, Resolve,
     SnapshotRaises, Snapshot, NextPosition, WriteMark, LeaveOpen, CloseFills, WriteClosed,
     Settle, CloseDone, StepRaises, Reconcile, Lockout, Evaluate, Execute, NotFilled, Register,
     Finish, ReadSwitch, Flip, pipeVars
<1> QED
  BY <1>1, <1>2 DEF Next, Age, vars, pipeVars

\* The places are finitely many and can be counted.
LEMMA PlacesCount ==
    /\ \A S \in SUBSET Thread : IsFiniteSet(S) /\ Cardinality(S) \in Nat
    /\ \A S \in SUBSET Thread, T \in SUBSET Thread :
          S \subseteq T => Cardinality(S) <= Cardinality(T)
    /\ \A S \in SUBSET Thread, T \in SUBSET Thread, t \in Thread :
          t \in T /\ S \subseteq T \ {t} => Cardinality(S) <= Cardinality(T) - 1
    /\ \A S \in SUBSET Thread, T \in SUBSET Thread, t \in Thread :
          S \subseteq T \cup {t} => Cardinality(S) <= Cardinality(T) + 1
<1>1. ASSUME NEW S \in SUBSET Thread PROVE IsFiniteSet(S) /\ Cardinality(S) \in Nat
  BY AppAssumption, FS_Subset, FS_CardinalityType
<1>2. ASSUME NEW S \in SUBSET Thread, NEW T \in SUBSET Thread, S \subseteq T
      PROVE  Cardinality(S) <= Cardinality(T)
  BY <1>1, <1>2, FS_Subset
<1>3. ASSUME NEW S \in SUBSET Thread, NEW T \in SUBSET Thread, NEW t \in T, S \subseteq T \ {t}
      PROVE  Cardinality(S) <= Cardinality(T) - 1
  <2>1. Cardinality(T \ {t}) = Cardinality(T) - 1
    BY <1>1, FS_RemoveElement
  <2> QED
    BY <1>2, <1>3, <2>1
<1>4. ASSUME NEW S \in SUBSET Thread, NEW T \in SUBSET Thread, NEW t \in Thread,
             S \subseteq T \cup {t}
      PROVE  Cardinality(S) <= Cardinality(T) + 1
  <2>1. Cardinality(T \cup {t}) \in {Cardinality(T), Cardinality(T) + 1}
    BY <1>1, FS_AddElement
  <2>2. Cardinality(S) <= Cardinality(T \cup {t})
    BY <1>2, <1>4
  <2> QED
    BY <1>1, <2>1, <2>2
<1> QED
  BY <1>1, <1>2, <1>3, <1>4

\* No request begins more rebuilds or installations than the bounds leave room for.
LEMMA BoundStep ==
    ASSUME AppInv, [Next]_vars
    PROVE  BoundInv'
<1> DEFINE S == Cardinality(Swappers)  R == Cardinality(Rebuilders)
<1>0. /\ Swappers \subseteq Thread /\ Swappers' \subseteq Thread
      /\ Rebuilders \subseteq Thread /\ Rebuilders' \subseteq Thread
  BY DEF Swappers, Rebuilders
<1>1. S \in Nat /\ S' \in Nat /\ R \in Nat /\ R' \in Nat
  BY <1>0, PlacesCount
<1>2. /\ MaxSource \in Nat /\ MaxGen \in Nat /\ Installed \in Int /\ gen \in Int
      /\ 1 <= Installed /\ Installed + S <= MaxSource /\ gen + R <= MaxGen
  BY AppAssumption, InstalledTypes DEF AppInv, TypeOK, BoundInv
<1>3. Pending(Swapping) = S
  BY DEF Pending, Swappers
<1>4. R <= Pending({"reload"}) /\ Pending({"reload"}) \in Nat
  <2> DEFINE P == {u \in Thread : th[u].op \in {"reload"} /\ th[u].pc # "idle"}
  <2>1. Rebuilders \subseteq P /\ P \subseteq Thread
    BY DEF Rebuilders
  <2>2. Cardinality(P) = Pending({"reload"})
    BY DEF Pending
  <2> HIDE DEF P
  <2> QED
    BY <1>0, <2>1, <2>2, PlacesCount
<1>5. SUFFICES 1 <= Installed' /\ Installed' + S' <= MaxSource /\ gen' + R' <= MaxGen
  BY DEF BoundInv
<1>6. th \in [Thread -> Request]
  BY DEF AppInv, TypeOK, Request
<1>7. ASSUME NEW t \in Thread, Rebuild(t) PROVE R' <= R - 1 /\ gen' = gen + 1
  <2>1. t \in Rebuilders /\ t \notin Rebuilders'
    BY <1>6, <1>7 DEF Rebuild, Rebuilders, Go, Request
  <2>2. Rebuilders' \subseteq Rebuilders
    BY <1>6, <1>7 DEF Rebuild, Rebuilders, Go, Request
  <2> QED
    BY <1>0, <1>7, <2>1, <2>2, PlacesCount DEF Rebuild
<1>8. ASSUME NEW t \in Thread, ClearResult(t) \/ Resolve(t) PROVE S' <= S - 1
  <2>1. t \in Swappers /\ t \notin Swappers' /\ Swappers' \subseteq Swappers
    BY <1>6, <1>8 DEF ClearResult, Resolve, Swappers, Swapping, Done, NoWork, Request
  <2> QED
    BY <1>0, <2>1, PlacesCount
<1>9. CASE Swappers' \subseteq Swappers /\ Rebuilders' \subseteq Rebuilders
  <2>1. S' <= S /\ R' <= R
    BY <1>0, <1>9, PlacesCount
  <2>2. gen' + R' <= MaxGen
    BY <1>1, <1>2, <1>7, <2>1, GenStep
  <2>3. \/ Installed' = Installed
        \/ Installed' = Installed + 1 /\ S' <= S - 1
    BY <1>8, InstalledStep
  <2> QED
    BY <1>1, <1>2, <2>1, <2>2, <2>3
<1>10. ASSUME NEW t \in Thread, Requests(t), Swappers' = Swappers \cup {t},
              Rebuilders' \subseteq Rebuilders \cup {t},
              Installed + Pending(Swapping) < MaxSource,
              Rebuilders' = Rebuilders \/ gen + Pending({"reload"}) < MaxGen
       PROVE  1 <= Installed' /\ Installed' + S' <= MaxSource /\ gen' + R' <= MaxGen
  <2>1. S' <= S + 1 /\ R' <= R + 1
    BY <1>0, <1>10, PlacesCount
  <2>2. PICK op \in Op, pc \in {"current", "lock", "switch"} : Begin(t, op, pc)
    BY <1>10, RequestBegins
  <2>3. gen' = gen /\ Installed' = Installed
    <3>1. gen' = gen /\ source' = source
      BY <2>2 DEF Begin, pipeVars, feedVars
    <3>2. \A u \in Thread : (th'[u].op = "scenario" /\ th'[u].pc = "finish")
                            = (th[u].op = "scenario" /\ th[u].pc = "finish")
      BY <1>6, <2>2 DEF Begin, NoWork, Request
    <3> QED
      BY <3>1, <3>2 DEF Installed
  <2>4. Rebuilders' = Rebuilders => R' = R
    OBVIOUS
  <2> QED
    BY <1>1, <1>2, <1>3, <1>4, <1>10, <2>1, <2>3, <2>4
<1> QED
  BY <1>9, <1>10, PlacesStep

\* The counters stay within their bounds, and only Rebuild, SwitchProvider and
\* Resolve move them.
LEMMA CounterTypes ==
    ASSUME AppInv, [Next]_vars
    PROVE  gen' \in 1..MaxGen /\ source' \in 1..MaxSource
<1>0. /\ th \in [Thread -> Request] /\ source \in Int /\ gen \in Int /\ gen >= 1 /\ LockInv
      /\ source >= 1 /\ MaxSource \in Int /\ MaxGen \in Int
  BY AppAssumption DEF AppInv, TypeOK, Request
<1>1. BoundInv'
  BY BoundStep
<1>2. Cardinality(Swappers') \in Nat /\ Cardinality(Rebuilders') \in Nat
  BY PlacesCount DEF Swappers, Rebuilders
<1>3. (\E t \in Thread : Rebuild(t)) => gen' = gen + 1
  BY DEF Rebuild
<1>4. gen' \in 1..MaxGen
  BY <1>0, <1>1, <1>2, <1>3, GenStep DEF BoundInv
<1>5. source' \in {source, source + 1}
  <2>1. ASSUME NEW t \in Thread, Requests(t) PROVE source' = source
    BY <2>1, RequestBegins, Zenon DEF Begin, feedVars
  <2>2. ASSUME NEW t \in Thread, Work(t) PROVE source' \in {source, source + 1}
    BY <2>2, Zenon DEF Work, Current, Acquire, Enter, SwitchProvider, ClearResult, Rebuild, Resolve,
       SnapshotRaises, Snapshot, NextPosition, WriteMark, LeaveOpen, CloseFills, WriteClosed,
       Settle, CloseDone, StepRaises, Reconcile, Lockout, Evaluate, Execute, NotFilled,
       Register, Finish, ReadSwitch, Flip, feedVars
  <2> QED
    BY <2>1, <2>2 DEF Next, Age, vars, feedVars
<1>6. CASE \E t \in Thread : th'[t].op = "scenario" /\ th'[t].pc = "finish"
  <2>1. PICK t \in Thread : t \in Swappers'
    BY <1>6 DEF Swappers, Swapping
  <2>2. Cardinality(Swappers') >= 1
    <3>1. Swappers' \subseteq Thread /\ {} \subseteq Swappers' \ {t} /\ {} \subseteq Thread
      BY DEF Swappers
    <3>2. Cardinality({}) <= Cardinality(Swappers') - 1
      BY <2>1, <3>1, PlacesCount
    <3> QED
      BY <1>2, <3>2, FS_EmptySet
  <2>3. Installed' = source' - 1
    BY <1>6 DEF Installed
  <2> QED
    BY <1>0, <1>1, <1>2, <1>4, <1>5, <2>2, <2>3 DEF BoundInv
<1>7. CASE ~\E t \in Thread : th'[t].op = "scenario" /\ th'[t].pc = "finish"
  <2>1. Installed' = source'
    BY <1>7 DEF Installed
  <2> QED
    BY <1>0, <1>1, <1>2, <1>4, <1>5, <2>1 DEF BoundInv
<1> QED
  BY <1>6, <1>7

\* What a thread keeps of its request stays well typed.
LEMMA ThreadTypes ==
    ASSUME AppInv, [Next]_vars
    PROVE  th' \in [Thread -> Request]
<1> USE AppAssumption
<1>0. /\ th \in [Thread -> Request] /\ \A t \in Thread : th[t] \in Request
      /\ gen \in 1..MaxGen /\ source \in 1..MaxSource /\ book \in Book
      /\ OpenIn(book) \in SUBSET Pos
  BY DEF AppInv, TypeOK, Request, OpenIn
<1>pc. {"lock", "swap", "snapshot", "cycle", "write", "work", "replace", "settle", "evaluate",
        "register", "finish", "flip"} \subseteq PC
  BY DEF PC
<1>1. ASSUME NEW t \in Thread, Requests(t) PROVE th' \in [Thread -> Request]
  <2>1. PICK op \in Op, pc \in {"current", "lock", "switch"} : Begin(t, op, pc)
    BY <1>1, RequestBegins
  <2>2. Installed \in 1..MaxSource
    BY InstalledTypes DEF AppInv, BoundInv
  <2>3. [NoWork EXCEPT !.op = op, !.pc = pc, !.since = Installed, !.src = Installed] \in Request
    BY <2>2, NoWorkTypes DEF PC
  <2> QED
    BY <1>0, <2>1, <2>3, Retyped DEF Begin
<1>2. ASSUME NEW t \in Thread, NEW s \in Int, th' = Done(t, s) PROVE th' \in [Thread -> Request]
  <2>1. (s < th[t].since) \in BOOLEAN
    BY <1>0 DEF Request
  <2>2. [NoWork EXCEPT !.outdated = s < th[t].since] \in Request
    BY <2>1, NoWorkTypes
  <2> QED
    BY <1>0, <1>2, <2>2, Retyped DEF Done
<1>3. ASSUME NEW t \in Thread, NEW pc \in PC, th' = Go(t, pc) PROVE th' \in [Thread -> Request]
  <2>1. [th[t] EXCEPT !.pc = pc] \in Request
    BY <1>0 DEF Request
  <2> QED
    BY <1>0, <1>3, <2>1 DEF Go
<1>4. ASSUME NEW t \in Thread, NEW s \in 1..MaxSource, Served(t, s)
      PROVE  th' \in [Thread -> Request]
  <2>0. th[t] \in Request /\ gen \in 1..MaxGen /\ OpenIn(book) \in SUBSET Pos /\ "cycle" \in PC
    BY <1>0, <1>pc
  <2>1. [th[t] EXCEPT !.pc = "cycle", !.src = s, !.gen = gen, !.todo = OpenIn(book)] \in Request
    BY <2>0 DEF Request
  <2>2. CASE th[t].op = "close"
    BY <1>0, <1>4, <2>1, <2>2 DEF Served
  <2>3. CASE th[t].op # "close"
    BY <1>2, <1>4, <2>3 DEF Served
  <2> QED
    BY <2>2, <2>3
<1>5. ASSUME NEW t \in Thread, Work(t) PROVE th' \in [Thread -> Request]
  <2>0. /\ th[t] \in Request /\ th[t].src \in 1..MaxSource /\ th[t].todo \subseteq Pos
        /\ gen \in 1..MaxGen /\ source \in 1..MaxSource /\ OpenIn(book) \in SUBSET Pos
        /\ book \in Book \cup {None}
    BY <1>0 DEF Request
  <2>1. CASE Current(t) \/ Finish(t)
    <3>1. last # None => last.src \in 1..MaxSource
      BY DEF AppInv, TypeOK, Result
    <3> QED
      BY <1>3, <1>4, <2>0, <2>1, <3>1 DEF Current, Finish, PC
  <2>2. CASE Acquire(t)
    <3>1. [th[t] EXCEPT !.gen = gen, !.pc = IF th[t].op \in {"reload", "scenario"}
                                            THEN "swap" ELSE "snapshot"] \in Request
      BY <2>0, <1>pc DEF Request
    <3> QED
      BY <1>0, <2>2, <3>1 DEF Acquire, Enter
  <2>3. CASE SwitchProvider(t) \/ Rebuild(t) \/ Lockout(t) \/ Evaluate(t) \/ NotFilled(t)
    BY <1>3, <2>3 DEF SwitchProvider, Rebuild, Lockout, Evaluate, NotFilled, PC
  <2>4. CASE \/ ClearResult(t) \/ Resolve(t) \/ SnapshotRaises(t) \/ CloseDone(t) \/ Flip(t)
             \/ StepRaises(t)
    <3>1. source \in Int /\ source + 1 \in Int /\ th[t].src \in Int
      BY <1>0, <2>0
    <3> QED
      BY <1>2, <2>4, <3>1 DEF ClearResult, Resolve, SnapshotRaises, CloseDone, Flip,
         StepRaises, Idle
  <2>5. CASE Snapshot(t)
    <3>1. [th[t] EXCEPT !.pc = "cycle", !.src = source, !.todo = OpenIn(book)] \in Request
      BY <2>0, <1>pc DEF Request
    <3> QED
      BY <1>0, <2>5, <3>1 DEF Snapshot
  <2>6. CASE NextPosition(t)
    <3>1. PICK p \in th[t].todo :
             th' = [th EXCEPT ![t].todo = @ \ {p}, ![t].p = p,
                              ![t].copy = IF InCycle(t) THEN book ELSE None,
                              ![t].pc   = IF InCycle(t) THEN "write" ELSE "work"]
      BY <2>6 DEF NextPosition
    <3>2. [th[t] EXCEPT !.todo = @ \ {p}, !.p = p, !.copy = IF InCycle(t) THEN book ELSE None,
                        !.pc = IF InCycle(t) THEN "write" ELSE "work"] \in Request
      BY <2>0, <1>pc DEF Request
    <3> QED
      BY <1>0, <3>1, <3>2
  <2>7. CASE WriteMark(t) \/ WriteClosed(t)
    <3>1. /\ [th[t] EXCEPT !.pc = "work", !.copy = None] \in Request
          /\ [th[t] EXCEPT !.pc = "settle", !.copy = None] \in Request
      BY <2>0, <1>pc DEF Request
    <3> QED
      BY <1>0, <2>7, <3>1 DEF WriteMark, WriteClosed
  <2>8. CASE LeaveOpen(t) \/ Settle(t) \/ Register(t)
    <3>1. /\ [th[t] EXCEPT !.pc = "cycle", !.p = None] \in Request
          /\ [th[t] EXCEPT !.pc = "finish", !.p = None] \in Request
      BY <2>0, <1>pc DEF Request
    <3> QED
      BY <1>0, <2>8, <3>1 DEF LeaveOpen, Settle, Register
  <2>9. CASE CloseFills(t)
    <3>1. [th[t] EXCEPT !.pc = "replace", !.copy = book] \in Request
      BY <2>0, <1>pc DEF Request
    <3> QED
      BY <1>0, <2>9, <3>1 DEF CloseFills
  <2>10. CASE Reconcile(t)
    <3>1. [th[t] EXCEPT !.pc = "evaluate", !.agrees = Agrees] \in Request
      BY <2>0, <1>pc DEF Request, Agrees
    <3> QED
      BY <1>0, <2>10, <3>1 DEF Reconcile
  <2>11. CASE Execute(t)
    <3>1. PICK p \in Pos : th' = [th EXCEPT ![t].pc = "register", ![t].p = p]
      BY <2>11 DEF Execute
    <3>2. [th[t] EXCEPT !.pc = "register", !.p = p] \in Request
      BY <2>0, <1>pc DEF Request
    <3> QED
      BY <1>0, <3>1, <3>2
  <2>12. CASE ReadSwitch(t)
    <3>1. [th[t] EXCEPT !.pc = "flip", !.gen = gen] \in Request
      BY <2>0, <1>pc DEF Request
    <3> QED
      BY <1>0, <2>12, <3>1 DEF ReadSwitch
  <2> QED
    BY <1>5, <2>1, <2>2, <2>3, <2>4, <2>5, <2>6, <2>7, <2>8, <2>9, <2>10, <2>11, <2>12 DEF Work
<1> QED
  BY <1>0, <1>1, <1>5 DEF Next, Age, vars

\* The shared state is well typed after every step.
LEMMA TypeStep ==
    ASSUME AppInv, [Next]_vars
    PROVE  TypeOK'
<1> USE AppAssumption
<1>0. /\ TypeOK /\ ShapeInv /\ LockInv /\ th \in [Thread -> Request]
      /\ \A t \in Thread : th[t].src \in 1..MaxSource
  BY DEF AppInv, TypeOK, Request
<1>1. gen' \in 1..MaxGen /\ source' \in 1..MaxSource /\ th' \in [Thread -> Request]
  BY CounterTypes, ThreadTypes
<1> DEFINE Rest == /\ lock \in Thread \cup {None}
                   /\ last \in Result \cup {None}
                   /\ book \in Book /\ broker \in Book
                   /\ kill \subseteq Reason
                   /\ barred \subseteq Thread /\ misled \in [Thread -> SUBSET Pos]
                   /\ settled \in [Pos -> 0..2]
<1>2. Rest
  BY <1>0 DEF TypeOK
<1>3. SUFFICES Rest'
  BY <1>1 DEF TypeOK, Request
<1>4. CASE Age
  <2>1. last' \in Result
    BY <1>2, <1>4 DEF Age, Result
  <2> QED
    BY <1>2, <1>4, <2>1 DEF Age, pipeVars, histVars
<1>5. CASE UNCHANGED vars
  BY <1>2, <1>5 DEF vars, pipeVars, feedVars, histVars
<1>6. ASSUME NEW t \in Thread, Requests(t) PROVE Rest'
  <2>1. UNCHANGED <<lock, pipeVars, feedVars, histVars>>
    BY <1>6, RequestBegins DEF Begin
  <2> QED
    BY <1>2, <2>1 DEF pipeVars, feedVars, histVars
<1>7. ASSUME NEW t \in Thread, Work(t) PROVE Rest'
  <2> USE DEF pipeVars, feedVars, histVars
  <2>1. CASE \/ Current(t) \/ Snapshot(t) \/ NextPosition(t) \/ LeaveOpen(t) \/ CloseFills(t)
             \/ CloseDone(t) \/ Reconcile(t) \/ Lockout(t) \/ NotFilled(t) \/ ReadSwitch(t)
    <3>1. UNCHANGED <<lock, pipeVars, feedVars, histVars>>
      BY <2>1, Zenon DEF Current, Snapshot, NextPosition, LeaveOpen, CloseFills, CloseDone, Reconcile,
         Lockout, NotFilled, ReadSwitch
    <3> QED
      BY <1>2, <3>1
  <2>2. CASE Acquire(t) \/ SnapshotRaises(t) \/ SwitchProvider(t) \/ ClearResult(t) \/ Resolve(t)
    BY <1>2, <2>2 DEF Acquire, Enter, SnapshotRaises, SwitchProvider, ClearResult, Resolve, Release
  <2>10. CASE StepRaises(t)
    BY <1>2, <2>10 DEF StepRaises, Release
  <2>3. CASE Rebuild(t)
    BY <1>2, <2>3 DEF Rebuild, Book, Status
  <2>4. CASE WriteMark(t) \/ WriteClosed(t)
    <3>1. th[t].copy \in Book
      BY <1>0, <2>4 DEF WriteMark, WriteClosed, ShapeInv
    <3>2. book' \in Book
      BY <1>2, <2>4, <3>1 DEF WriteMark, WriteClosed, Replaced, Book, Status
    <3> QED
      BY <1>2, <2>4, <3>2 DEF WriteMark, WriteClosed
  <2>5. CASE Settle(t)
    <3>1. broker' \in Book /\ settled' \in [Pos -> 0..2]
      BY <1>2, <2>5 DEF Settle, Book, Status
    <3>2. misled' \in [Thread -> SUBSET Pos]
      BY <1>2, <2>5 DEF Settle
    <3> QED
      BY <1>2, <2>5, <3>1, <3>2 DEF Settle
  <2>6. CASE Evaluate(t)
    BY <1>2, <2>6 DEF Evaluate, SwitchesAfter, Reason
  <2>7. CASE Execute(t) \/ Register(t)
    <3>1. book' \in Book /\ broker' \in Book
      BY <1>2, <2>7 DEF Execute, Register, Book, Status
    <3> QED
      BY <1>2, <2>7, <3>1 DEF Execute, Register
  <2>8. CASE Finish(t)
    <3>1. last' \in Result
      BY <1>0, <2>8 DEF Finish, Result
    <3> QED
      BY <1>2, <2>8, <3>1 DEF Finish, Release
  <2>9. CASE Flip(t)
    <3>1. kill' \in {kill, kill \cup {"MANUAL"}, {}}
      BY <1>0, <2>9 DEF Flip, ShapeInv
    <3> QED
      BY <1>2, <2>9, <3>1 DEF Flip, Reason
  <2> QED
    BY <1>7, <2>1, <2>2, <2>3, <2>4, <2>5, <2>6, <2>7, <2>8, <2>9, <2>10 DEF Work
<1> QED
  BY <1>4, <1>5, <1>6, <1>7 DEF Next

\* The application starts with no request under way.
LEMMA AppInitInv == Init => AppInv
<1> SUFFICES ASSUME Init PROVE AppInv
  OBVIOUS
<1> USE AppAssumption
<1>1. NoWork \in Request
  BY DEF NoWork, Request, Op, PC
<1>2. th \in [Thread -> Request] /\ \A t \in Thread : th[t] = NoWork
  BY <1>1 DEF Init
<1>3. TypeOK
  BY <1>2 DEF Init, TypeOK, Request, Book, Status
<1>4. \A t \in Thread : th[t].op = "read" /\ th[t].pc = "idle" /\ th[t].copy = None
  BY <1>2 DEF NoWork
<1>5. ShapeInv /\ LockInv
  BY <1>4 DEF Init, ShapeInv, LockInv, Locked, Closing, Swapping
<1>6. Swappers = {} /\ Rebuilders = {} /\ Installed = 1
  BY <1>4 DEF Init, Swappers, Rebuilders, Installed
<1>7. BoundInv
  BY <1>6, FS_EmptySet DEF Init, BoundInv
<1> QED
  BY <1>3, <1>5, <1>7 DEF AppInv

\* The invariant is inductive.
LEMMA AppStepInv == AppInv /\ [Next]_vars => AppInv'
  BY TypeStep, LockStep, BoundStep DEF AppInv

----------------------------------------------------------------------------
(* Answers come from the current provider *)

\* Nothing that can still be served is older than the completed installations: not
\* the stored result, not what a request has read, and a cycle under the lock works
\* on the provider in place, which nobody can replace meanwhile.
SourceInv ==
    /\ last # None => last.src >= Installed
    /\ \A t \in Thread :
          /\ th[t].since <= Installed /\ th[t].since <= th[t].src
          /\ lock = t /\ th[t].pc \notin {"swap", "snapshot"} /\ th[t].op \notin Swapping
                => th[t].src = source
          /\ ~th[t].outdated

\* An installation, a cycle and an answer each keep the providers in order.
LEMMA SourceStep ==
    ASSUME AppInv, SourceInv, [Next]_vars
    PROVE  SourceInv'
<1> USE AppAssumption
<1>0. /\ th \in [Thread -> Request] /\ LockInv /\ ShapeInv /\ source \in Int /\ Installed \in Int
      /\ 1 <= Installed /\ Installed <= source
      /\ last # None => last.src \in Int
      /\ \A t \in Thread : th[t].src \in Int /\ th[t].since \in Int
  BY InstalledTypes DEF AppInv, BoundInv, TypeOK, Request, Result
<1>1. Installed' \in {Installed, Installed + 1} /\ Installed' >= Installed /\ Installed' \in Int
  BY <1>0, InstalledStep
<1>2. CASE Age
  <2>1. last' # None => last'.src = last.src
    BY <1>2 DEF Age, AppInv, TypeOK, Result
  <2>2. Installed' = Installed
    BY <1>2 DEF Age, Installed
  <2> QED
    BY <1>2, <2>1, <2>2 DEF Age, SourceInv
<1>3. CASE UNCHANGED vars
  <2>1. Installed' = Installed
    BY <1>3 DEF vars, feedVars, Installed
  <2> QED
    BY <1>3, <2>1 DEF vars, feedVars, SourceInv
<1>4. ASSUME NEW t \in Thread, Requests(t) PROVE SourceInv'
  <2>1. PICK op \in Op, pc \in {"current", "lock", "switch"} : Begin(t, op, pc)
    BY <1>4, RequestBegins
  <2>2. /\ th'[t].since = Installed /\ th'[t].src = Installed /\ th'[t].outdated = FALSE
        /\ th[t].pc = "idle" /\ \A u \in Thread : u # t => th'[u] = th[u]
    BY <1>0, <2>1 DEF Begin, NoWork, Request
  <2>3. lock' = lock /\ lock # t /\ last' = last /\ source' = source
    BY <1>0, <2>1, <2>2 DEF Begin, feedVars, LockInv, Locked, Closing
  <2>4. Installed' = Installed
    BY <1>0, <2>1 DEF Begin, NoWork, Request, Installed, feedVars
  <2> QED
    BY <1>0, <2>2, <2>3, <2>4 DEF SourceInv
<1>5. ASSUME NEW t \in Thread, Work(t) PROVE SourceInv'
  <2> USE <1>0 DEF SourceInv, Request, LockInv, Locked, Closing, Swapping, feedVars, Release, Done,
           Idle, NoWork, Go
  <2>0. \/ Installed' = Installed
        \/ Installed' = Installed + 1 /\ last' = None
    BY InstalledStep
  <2>1. CASE Current(t) \/ Acquire(t)
    BY <2>0, <2>1 DEF Current, Served, Acquire, Enter
  <2>2. CASE Finish(t)
    BY <2>0, <2>2 DEF Finish, Served
  <2>3. CASE SwitchProvider(t) \/ ClearResult(t) \/ Rebuild(t) \/ Resolve(t)
    BY <2>0, <2>3 DEF SwitchProvider, ClearResult, Rebuild, Resolve
  <2>4. CASE SnapshotRaises(t) \/ Snapshot(t) \/ CloseDone(t)
    BY <2>0, <2>4 DEF SnapshotRaises, Snapshot, CloseDone, InCycle
  <2>10. CASE StepRaises(t)
    BY <2>0, <2>10 DEF StepRaises, InCycle
  <2>5. CASE NextPosition(t)
    <3>1. /\ th[t].pc = "cycle" /\ lock' = lock /\ last' = last /\ source' = source
          /\ \A u \in Thread : u # t => th'[u] = th[u]
          /\ th'[t].op = th[t].op /\ th'[t].since = th[t].since /\ th'[t].src = th[t].src
          /\ th'[t].outdated = th[t].outdated
      BY <2>5, NextPositionIs, Zenon
    <3> QED
      BY <2>0, <3>1
  <2>9. CASE Reconcile(t) \/ Lockout(t)
    BY <2>0, <2>9 DEF Reconcile, Lockout
  <2>6. CASE WriteMark(t) \/ LeaveOpen(t) \/ CloseFills(t) \/ WriteClosed(t) \/ Settle(t)
    BY <2>0, <2>6 DEF WriteMark, LeaveOpen, CloseFills, WriteClosed, Settle
  <2>7. CASE Evaluate(t) \/ Execute(t) \/ NotFilled(t) \/ Register(t)
    BY <2>0, <2>7 DEF Evaluate, Execute, NotFilled, Register
  <2>8. CASE ReadSwitch(t) \/ Flip(t)
    BY <2>0, <2>8 DEF ReadSwitch, Flip
  <2> QED
    BY <1>5, <2>1, <2>2, <2>3, <2>4, <2>5, <2>6, <2>7, <2>8, <2>9, <2>10 DEF Work
<1> QED
  BY <1>2, <1>3, <1>4, <1>5 DEF Next

\* A request that began after a change of provider had returned is never answered
\* from the provider that was replaced, whatever cycles and unlocked reads of
\* last_result overlap with it.
THEOREM AnswersAreCurrent == Spec => []ServedFromCurrentSource
<1>1. Init => AppInv /\ SourceInv
  <2> SUFFICES ASSUME Init PROVE SourceInv
    BY AppInitInv
  <2>1. \A t \in Thread : th[t] = NoWork
    BY DEF Init
  <2>2. Installed = 1
    BY <2>1 DEF Init, Installed, NoWork
  <2> QED
    BY <2>1, <2>2, AppAssumption DEF Init, SourceInv, NoWork
<1>2. AppInv /\ SourceInv /\ [Next]_vars => (AppInv /\ SourceInv)'
  BY AppStepInv, SourceStep
<1>3. SourceInv => ServedFromCurrentSource
  BY DEF SourceInv, ServedFromCurrentSource
<1> QED
  BY <1>1, <1>2, <1>3, PTL DEF Spec

----------------------------------------------------------------------------
(* A trip stops the cycles after it *)

\* A barred cycle is the one that holds the lock, the trip still stands, and the
\* verdict that would let it trade cannot be reached under it.
BarredInv == \A t \in barred :
    lock = t /\ "MANUAL" \in kill /\ th[t].pc \notin {"execute", "register"}

\* Under the lock no request lifts the trip of a barred cycle without ending the bar.
LEMMA BarredStep ==
    ASSUME AppInv, BarredInv, [Next]_vars
    PROVE  BarredInv'
<1> USE AppAssumption
<1>0. /\ th \in [Thread -> Request] /\ barred \subseteq Thread /\ LockInv /\ ShapeInv
      /\ BarredInv
  BY DEF AppInv, TypeOK, Request
<1>1. CASE Age \/ UNCHANGED vars
  BY <1>0, <1>1 DEF Age, vars, pipeVars, histVars, BarredInv
<1>2. ASSUME NEW t \in Thread, Requests(t) PROVE BarredInv'
  <2>1. PICK op \in Op, pc \in {"current", "lock", "switch"} : Begin(t, op, pc)
    BY <1>2, RequestBegins
  <2> QED
    BY <1>0, <2>1 DEF Begin, NoWork, Request, pipeVars, histVars, BarredInv
<1>3. ASSUME NEW t \in Thread, Work(t) PROVE BarredInv'
  <2> USE <1>0 DEF BarredInv, Request, LockInv, Locked, Closing, pipeVars, histVars, Release, Done,
           Idle, NoWork, Go
  <2>1. CASE Current(t) \/ Acquire(t) \/ Finish(t)
    BY <2>1 DEF Current, Served, Acquire, Enter, Finish
  <2>2. CASE SwitchProvider(t) \/ ClearResult(t) \/ Rebuild(t) \/ Resolve(t)
    BY <2>2 DEF SwitchProvider, ClearResult, Rebuild, Resolve
  <2>3. CASE SnapshotRaises(t) \/ Snapshot(t) \/ CloseDone(t)
    BY <2>3 DEF SnapshotRaises, Snapshot, CloseDone
  <2>11. CASE StepRaises(t)
    <3>1. /\ th'[t].pc = "idle" /\ kill' = kill /\ \A u \in Thread : u # t => th'[u] = th[u]
      BY <2>11 DEF StepRaises
    <3>2. \/ barred' = barred \ {t} /\ lock = t
          \/ barred' = barred /\ lock' = lock /\ lock # t
      BY <2>11 DEF StepRaises, InCycle
    <3> QED
      BY <3>1, <3>2
  <2>4. CASE NextPosition(t)
    BY <2>4 DEF NextPosition
  <2>10. CASE Reconcile(t) \/ Lockout(t)
    BY <2>10 DEF Reconcile, Lockout
  <2>5. CASE WriteMark(t) \/ LeaveOpen(t) \/ CloseFills(t) \/ WriteClosed(t) \/ Settle(t)
    BY <2>5 DEF WriteMark, LeaveOpen, CloseFills, WriteClosed, Settle
  <2>6. CASE Evaluate(t)
    BY <2>6 DEF Evaluate, Approved, SwitchesAfter
  <2>7. CASE Execute(t) \/ NotFilled(t) \/ Register(t)
    BY <2>7 DEF Execute, NotFilled, Register
  <2>8. CASE ReadSwitch(t)
    BY <2>8 DEF ReadSwitch
  <2>9. CASE Flip(t)
    <3>1. kill' \in {kill, kill \cup {"MANUAL"}} \/ barred' = {}
      BY <2>9 DEF Flip, ShapeInv
    <3>2. barred' \in {barred, {}} /\ lock' = lock
      BY <2>9 DEF Flip
    <3>3. \A u \in Thread : u # t => th'[u] = th[u]
      BY <2>9 DEF Flip
    <3>4. th'[t].pc = "idle"
      BY <2>9 DEF Flip
    <3> QED
      BY <3>1, <3>2, <3>3, <3>4
  <2> QED
    BY <1>3, <2>1, <2>2, <2>3, <2>4, <2>5, <2>6, <2>7, <2>8, <2>9, <2>10,
       <2>11 DEF Work
<1> QED
  BY <1>1, <1>2, <1>3 DEF Next

\* The kill-switch endpoint does not wait for the cycle in flight; a cycle that
\* takes the lock after it opens nothing while the trip stands.
THEOREM TripAlwaysStops == Spec => []TripStopsLaterCycles
<1>1. Init => AppInv /\ BarredInv
  BY AppInitInv DEF Init, BarredInv
<1>2. AppInv /\ BarredInv /\ [Next]_vars => (AppInv /\ BarredInv)'
  BY AppStepInv, BarredStep
<1>3. BarredInv => TripStopsLaterCycles
  BY DEF BarredInv, TripStopsLaterCycles
<1> QED
  BY <1>1, <1>2, <1>3, PTL DEF Spec

----------------------------------------------------------------------------
(* An orphan at the broker stops trading *)

\* An orphan that the broker goes on holding stays one until the pipeline is
\* rebuilt: no list that may become the book has it, and none brings it back.
LEMMA OrphanStep ==
    ASSUME AppInv, [Next]_vars, ~\E t \in Thread : Rebuild(t), NEW p \in Pos, Orphan(p),
           broker'[p] = "open"
    PROVE  Orphan(p)'
<1> USE AppAssumption
<1>0. /\ th \in [Thread -> Request] /\ ShapeInv /\ book \in Book /\ broker \in Book
      /\ gen' = gen /\ broker[p] = "open" /\ book[p] = "none" /\ broker'[p] = "open"
      /\ \A u \in Thread : th[u].gen = gen /\ th[u].copy # None => th[u].copy[p] = "none"
  BY GenStep DEF AppInv, TypeOK, Request, Orphan, Mine
<1>1. CASE Age \/ UNCHANGED vars
  BY <1>0, <1>1 DEF Age, vars, pipeVars, Orphan, Mine
<1>2. ASSUME NEW t \in Thread, book'[p] = "none", \A u \in Thread : u # t => th'[u] = th[u],
             \/ th'[t].copy \in {book, None}
             \/ th'[t].copy = th[t].copy /\ th'[t].gen = th[t].gen
      PROVE  Orphan(p)'
  BY <1>0, <1>2 DEF Orphan, Mine
<1>3. ASSUME NEW t \in Thread, Requests(t) PROVE Orphan(p)'
  <2>1. PICK op \in Op, pc \in {"current", "lock", "switch"} : Begin(t, op, pc)
    BY <1>3, RequestBegins
  <2> QED
    BY <1>0, <1>2, <2>1 DEF Begin, NoWork, Request, pipeVars
<1>4. ASSUME NEW t \in Thread, Work(t), ~Rebuild(t) PROVE Orphan(p)'
  <2> USE <1>0 DEF Request, pipeVars, Done, Idle, NoWork, Go
  <2>1. CASE Current(t) \/ Finish(t)
    <3>1. /\ book' = book /\ \A u \in Thread : u # t => th'[u] = th[u]
          /\ th'[t].copy \in {th[t].copy, None}
      BY <2>1 DEF Current, Finish, Served
    <3>2. th[t].copy = None
      BY <2>1 DEF Current, Finish, ShapeInv
    <3> QED
      BY <1>2, <3>1, <3>2
  <2>2. CASE Acquire(t) \/ ReadSwitch(t)
    <3>1. /\ book' = book /\ \A u \in Thread : u # t => th'[u] = th[u]
          /\ th'[t].copy = th[t].copy
      BY <2>2 DEF Acquire, Enter, ReadSwitch
    <3>2. th[t].copy = None
      BY <2>2 DEF Acquire, ReadSwitch, ShapeInv
    <3> QED
      BY <1>2, <3>1, <3>2
  <2>3. CASE Snapshot(t)
    BY <1>2, <2>3 DEF Snapshot
  <2>10. CASE SnapshotRaises(t) \/ CloseDone(t) \/ StepRaises(t)
    <3>1. /\ book' = book /\ th'[t].copy = None
          /\ \A u \in Thread : u # t => th'[u] = th[u]
      BY <2>10 DEF SnapshotRaises, CloseDone, StepRaises
    <3> QED
      BY <1>2, <3>1
  <2>4. CASE SwitchProvider(t) \/ ClearResult(t) \/ Resolve(t)
    BY <1>2, <2>4 DEF SwitchProvider, ClearResult, Resolve
  <2>5. CASE LeaveOpen(t) \/ CloseFills(t) \/ Reconcile(t) \/ Lockout(t) \/ Evaluate(t)
    BY <1>2, <2>5 DEF LeaveOpen, CloseFills, Reconcile, Lockout, Evaluate
  <2>6. CASE NotFilled(t) \/ Flip(t) \/ Settle(t) \/ Register(t)
    BY <1>2, <2>6 DEF NotFilled, Flip, Settle, Register
  <2>7. CASE NextPosition(t)
    <3>1. /\ book' = book /\ \A u \in Thread : u # t => th'[u] = th[u]
          /\ th'[t].copy \in {book, None}
      BY <2>7, NextPositionIs
    <3> QED
      BY <1>2, <3>1
  <2>8. CASE WriteMark(t) \/ WriteClosed(t)
    <3>1. th[t].copy \in Book /\ th[t].copy # None /\ th[t].p \in Pos
      BY <2>8 DEF WriteMark, WriteClosed, ShapeInv
    <3>2. book'[p] = "none"
      <4>1. CASE ~Mine(t)
        BY <2>8, <4>1 DEF WriteMark, WriteClosed
      <4>2. CASE Mine(t)
        <5>1. th[t].copy[p] = "none"
          BY <3>1, <4>2 DEF Mine
        <5> QED
          BY <2>8, <3>1, <4>2, <5>1 DEF WriteMark, WriteClosed, Replaced, Book
      <4> QED
        BY <4>1, <4>2
    <3>3. th'[t].copy = None /\ \A u \in Thread : u # t => th'[u] = th[u]
      BY <2>8 DEF WriteMark, WriteClosed
    <3> QED
      BY <1>2, <3>2, <3>3
  <2>9. CASE Execute(t)
    <3>1. /\ book'[p] = "none" /\ \A u \in Thread : u # t => th'[u] = th[u]
          /\ th'[t].copy = th[t].copy /\ th'[t].gen = th[t].gen
      BY <2>9 DEF Execute, Book
    <3> QED
      BY <1>2, <3>1
  <2> QED
    BY <1>4, <2>1, <2>2, <2>3, <2>4, <2>5, <2>6, <2>7, <2>8, <2>9, <2>10 DEF Work
<1> QED
  BY <1>1, <1>3, <1>4 DEF Next

\* A cycle that began with an orphan nobody has settled since is the one that holds
\* the lock; the orphan is still there, so reconciliation cannot have agreed and the
\* verdict cannot approve.
MisledInv == \A t \in Thread :
    /\ misled[t] # {} => /\ lock = t /\ th[t].pc \notin {"execute", "register"}
                         /\ th[t].pc = "evaluate" => ~th[t].agrees
    /\ \A p \in misled[t] : Orphan(p)

\* A cycle that saw the broker disagree stays disapproved to its end.
LEMMA MisledStep ==
    ASSUME AppInv, MisledInv, [Next]_vars
    PROVE  MisledInv'
<1> USE AppAssumption
<1> DEFINE Stopped(t) == /\ lock = t /\ th[t].pc \notin {"execute", "register"}
                         /\ th[t].pc = "evaluate" => ~th[t].agrees
<1>0. /\ th \in [Thread -> Request] /\ misled \in [Thread -> SUBSET Pos] /\ LockInv
      /\ broker \in Book
      /\ \A t \in Thread : misled[t] # {} => Stopped(t)
      /\ \A t \in Thread : \A p \in misled[t] : p \in Pos /\ broker[p] = "open" /\ Orphan(p)
  BY DEF AppInv, TypeOK, Request, MisledInv, Orphan
<1>1. ASSUME NEW t \in Thread, Rebuild(t) PROVE MisledInv'
  <2>1. \A u \in Thread : misled'[u] = {}
    BY <1>1 DEF Rebuild
  <2> QED
    BY <2>1 DEF MisledInv
<1>2. SUFFICES ASSUME ~\E t \in Thread : Rebuild(t) PROVE MisledInv'
  BY <1>1
<1>3. ASSUME NEW t \in Thread, Acquire(t) PROVE MisledInv'
  <2>1. /\ misled'[t] = {p \in Pos : Orphan(p)} /\ broker' = broker
        /\ \A u \in Thread : u # t => misled'[u] = misled[u]
    BY <1>0, <1>3 DEF Acquire, Enter, pipeVars
  <2>2. \A u \in Thread : misled[u] = {}
    BY <1>0, <1>3 DEF Acquire
  <2>3. lock' = t /\ th'[t].pc \in {"swap", "snapshot"}
    BY <1>0, <1>3 DEF Acquire, Enter, Request
  <2>4. \A p \in Pos : Orphan(p) => Orphan(p)'
    BY <1>2, <2>1, OrphanStep DEF Orphan
  <2> QED
    BY <2>1, <2>2, <2>3, <2>4 DEF MisledInv
<1>4. ASSUME \A u \in Thread : misled'[u] \subseteq misled[u],
             \A u \in Thread : misled'[u] # {} => Stopped(u)',
             \A u \in Thread : \A p \in misled'[u] : broker'[p] = "open"
      PROVE  MisledInv'
  <2>1. ASSUME NEW u \in Thread, NEW p \in misled'[u] PROVE Orphan(p)'
    <3>1. p \in Pos /\ Orphan(p) /\ broker'[p] = "open"
      BY <1>0, <1>4
    <3> QED
      BY <1>2, <3>1, OrphanStep
  <2> QED
    BY <1>4, <2>1 DEF MisledInv
<1>5. ASSUME UNCHANGED <<misled, broker, lock>>, \A u \in Thread : misled[u] # {} => Stopped(u)'
      PROVE  MisledInv'
  BY <1>0, <1>4, <1>5
<1>6. CASE Age \/ UNCHANGED vars
  <2>1. UNCHANGED <<misled, broker, lock, th>>
    BY <1>6 DEF Age, vars, pipeVars, histVars
  <2> QED
    BY <1>0, <1>5, <2>1
<1>7. ASSUME NEW t \in Thread, Requests(t) PROVE MisledInv'
  <2>1. PICK op \in Op, pc \in {"current", "lock", "switch"} : Begin(t, op, pc)
    BY <1>7, RequestBegins
  <2>2. UNCHANGED <<misled, broker, lock>> /\ \A u \in Thread : misled[u] # {} => Stopped(u)'
    BY <1>0, <2>1 DEF Begin, NoWork, Request, histVars, pipeVars
  <2> QED
    BY <1>5, <2>2
<1>8. ASSUME NEW t \in Thread, Work(t), ~Rebuild(t), ~Acquire(t) PROVE MisledInv'
  <2> USE <1>0 DEF Request, LockInv, Locked, Closing, pipeVars, histVars, Done, Idle, NoWork, Go
  <2>1. ASSUME misled' = [misled EXCEPT ![t] = {}], broker' = broker, lock' = None, lock = t
        PROVE  MisledInv'
    <3>1. \A u \in Thread : misled'[u] = {}
      BY <2>1
    <3> QED
      BY <1>4, <3>1
  <2>2. CASE Current(t)
    BY <1>5, <2>2 DEF Current, Served
  <2>3. CASE Finish(t) \/ ClearResult(t) \/ Resolve(t) \/ SnapshotRaises(t)
    BY <2>1, <2>3 DEF Finish, ClearResult, Resolve, SnapshotRaises, Release
  <2>4. CASE StepRaises(t)
    <3>1. CASE InCycle(t)
      <4>1. lock = t
        BY <2>4, <3>1 DEF StepRaises, InCycle
      <4> QED
        BY <2>1, <2>4, <3>1, <4>1 DEF StepRaises, Release
    <3>2. CASE ~InCycle(t)
      <4>1. UNCHANGED <<misled, broker, lock>> /\ lock # t
            /\ \A u \in Thread : u # t => th'[u] = th[u]
        BY <2>4, <3>2 DEF StepRaises, InCycle
      <4> QED
        BY <1>5, <4>1
    <3> QED
      BY <3>1, <3>2
  <2>5. CASE SwitchProvider(t) \/ Snapshot(t) \/ CloseDone(t) \/ Lockout(t)
    BY <1>5, <2>5 DEF SwitchProvider, Snapshot, CloseDone, Lockout
  <2>6. CASE NextPosition(t)
    BY <1>5, <2>6, NextPositionIs
  <2>7. CASE WriteMark(t) \/ LeaveOpen(t) \/ CloseFills(t) \/ WriteClosed(t)
    BY <1>5, <2>7 DEF WriteMark, LeaveOpen, CloseFills, WriteClosed
  <2>8. CASE Settle(t)
    <3>1. /\ \A u \in Thread : misled'[u] \subseteq misled[u]
          /\ \A u \in Thread : \A p \in misled'[u] : broker'[p] = "open"
      <4>1. CASE Mine(t)
        <5>1. \A u \in Thread : misled'[u] = misled[u] \ {th[t].p}
          BY <2>8, <4>1 DEF Settle
        <5>2. \A p \in Pos : p # th[t].p => broker'[p] = broker[p]
          BY <2>8, <4>1 DEF Settle, Book
        <5> QED
          BY <5>1, <5>2
      <4>2. CASE ~Mine(t)
        BY <2>8, <4>2 DEF Settle
      <4> QED
        BY <4>1, <4>2
    <3>2. lock' = lock /\ th'[t].pc = "cycle" /\ \A u \in Thread : u # t => th'[u] = th[u]
      BY <2>8 DEF Settle
    <3>3. \A u \in Thread : misled'[u] # {} => Stopped(u)'
      BY <3>1, <3>2
    <3> QED
      BY <1>4, <3>1, <3>3
  <2>9. CASE Reconcile(t)
    <3>1. misled[t] # {} => ~Agrees
      BY DEF Orphan, Agrees, OpenIn
    <3>2. th'[t].agrees = Agrees /\ th'[t].pc = "evaluate" /\ UNCHANGED <<misled, broker, lock>>
          /\ \A u \in Thread : u # t => th'[u] = th[u]
      BY <2>9 DEF Reconcile
    <3> QED
      BY <1>5, <3>1, <3>2
  <2>10. CASE Evaluate(t)
    <3>1. /\ th'[t].pc = "finish" \/ (th'[t].pc = "execute" /\ Approved(t))
          /\ \A u \in Thread : u # t => th'[u] = th[u]
      BY <2>10 DEF Evaluate
    <3>2. Approved(t) => th[t].agrees
      BY DEF Approved, SwitchesAfter
    <3>3. UNCHANGED <<misled, broker, lock>> /\ th[t].pc = "evaluate"
      BY <2>10 DEF Evaluate
    <3> QED
      BY <1>5, <3>1, <3>2, <3>3
  <2>11. CASE Execute(t) \/ NotFilled(t)
    BY <1>5, <2>11 DEF Execute, NotFilled
  <2>12. CASE Register(t)
    <3>1. /\ misled' = misled /\ lock' = lock /\ th'[t].pc = "finish"
          /\ \A u \in Thread : u # t => th'[u] = th[u]
          /\ \A p \in Pos : broker[p] = "open" => broker'[p] = "open"
      BY <2>12 DEF Register, Book
    <3> QED
      BY <1>4, <3>1
  <2>13. CASE ReadSwitch(t) \/ Flip(t)
    BY <1>5, <2>13 DEF ReadSwitch, Flip
  <2> QED
    BY <1>8, <2>2, <2>3, <2>4, <2>5, <2>6, <2>7, <2>8, <2>9, <2>10, <2>11, <2>12, <2>13 DEF Work
<1> QED
  BY <1>2, <1>3, <1>6, <1>7, <1>8 DEF Next

\* When racing closes have made the book lose a position the broker still holds, no
\* later cycle opens anything until the pipeline is rebuilt or a request that had
\* listed the position before settles it, resets of the switch included.
THEOREM OrphanAlwaysStops == Spec => []OrphanStopsTrading
<1>1. Init => AppInv /\ MisledInv
  <2>1. Init => \A t \in Thread : misled[t] = {}
    BY DEF Init
  <2> QED
    BY <2>1, AppInitInv DEF MisledInv
<1>2. AppInv /\ MisledInv /\ [Next]_vars => (AppInv /\ MisledInv)'
  BY AppStepInv, MisledStep
<1>3. MisledInv => OrphanStopsTrading
  BY DEF MisledInv, OrphanStopsTrading
<1> QED
  BY <1>1, <1>2, <1>3, PTL DEF Spec

----------------------------------------------------------------------------
(* A closed position was settled *)

\* The result of p has reached the equity, or a thread that works on the current
\* pipeline is about to settle it.
Accounted(p) ==
    settled[p] > 0 \/ \E t \in Thread : th[t].pc = "settle" /\ th[t].p = p /\ Mine(t)

\* ClosedWasSettled for the book and for every copy of it that may still replace
\* it; a copy of an older pipeline's book goes nowhere.
ClosedInv ==
    /\ \A t \in Thread : th[t].gen <= gen
    /\ \A p \in Pos : book[p] = "closed" => Accounted(p)
    /\ \A t \in Thread, p \in Pos :
          th[t].pc \in {"write", "replace"} /\ Mine(t) /\ th[t].copy[p] = "closed" => Accounted(p)

\* A result accounted for stays so until the pipeline is rebuilt.
LEMMA AccountedStep ==
    ASSUME AppInv, [Next]_vars, ~\E t \in Thread : Rebuild(t), NEW p \in Pos, Accounted(p)
    PROVE  Accounted(p)'
<1> USE AppAssumption
<1>0. /\ th \in [Thread -> Request] /\ settled \in [Pos -> 0..2] /\ gen' = gen /\ ShapeInv
  BY GenStep DEF AppInv, TypeOK, Request
<1>1. CASE Age \/ UNCHANGED vars
  BY <1>0, <1>1 DEF Age, vars, pipeVars, Accounted, Mine
<1>2. ASSUME NEW t \in Thread, settled' = settled, \A u \in Thread : u # t => th'[u] = th[u],
             th[t].pc # "settle"
      PROVE  Accounted(p)'
  BY <1>0, <1>2 DEF Accounted, Mine
<1>3. ASSUME NEW t \in Thread, Requests(t) PROVE Accounted(p)'
  <2>1. PICK op \in Op, pc \in {"current", "lock", "switch"} : Begin(t, op, pc)
    BY <1>3, RequestBegins
  <2> QED
    BY <1>0, <1>2, <2>1 DEF Begin, pipeVars
<1>4. ASSUME NEW t \in Thread, Settle(t) PROVE Accounted(p)'
  <2>1. \A u \in Thread : u # t => th'[u] = th[u]
    BY <1>0, <1>4 DEF Settle
  <2>2. settled'[p] >= settled[p] /\ (th[t].p = p /\ Mine(t) => settled'[p] > 0)
        /\ settled'[p] \in Int /\ settled[p] \in Int
    BY <1>0, <1>4 DEF Settle
  <2> QED
    BY <1>0, <2>1, <2>2 DEF Accounted, Mine
<1>5. ASSUME NEW t \in Thread, Work(t), ~Rebuild(t), ~Settle(t) PROVE Accounted(p)'
  <2> SUFFICES settled' = settled /\ th[t].pc # "settle" /\ \A u \in Thread : u # t => th'[u] = th[u]
    BY <1>2
  <2> USE <1>0 DEF pipeVars, Done, Idle, Go
  <2>1. CASE Current(t) \/ Acquire(t) \/ Finish(t)
    BY <2>1 DEF Current, Acquire, Enter, Served, Finish
  <2>2. CASE SwitchProvider(t) \/ ClearResult(t) \/ Resolve(t)
    BY <2>2 DEF SwitchProvider, ClearResult, Resolve
  <2>6. CASE SnapshotRaises(t) \/ Snapshot(t) \/ StepRaises(t)
    BY <2>6 DEF SnapshotRaises, Snapshot, StepRaises
  <2>3. CASE WriteMark(t) \/ LeaveOpen(t)
    BY <2>3 DEF WriteMark, LeaveOpen
  <2>8. CASE CloseFills(t) \/ WriteClosed(t)
    BY <2>8, SMTT(30) DEF CloseFills, WriteClosed
  <2>7. CASE NextPosition(t) \/ CloseDone(t)
    BY <2>7 DEF NextPosition, CloseDone
  <2>4. CASE Reconcile(t) \/ Lockout(t) \/ Evaluate(t) \/ Execute(t) \/ NotFilled(t) \/ Register(t)
    BY <2>4 DEF Reconcile, Lockout, Evaluate, Execute, NotFilled, Register
  <2>5. CASE ReadSwitch(t) \/ Flip(t)
    BY <2>5 DEF ReadSwitch, Flip
  <2> QED
    BY <1>5, <2>1, <2>2, <2>3, <2>4, <2>5, <2>6, <2>7, <2>8 DEF Work
<1> QED
  BY <1>1, <1>3, <1>4, <1>5 DEF Next

\* A close that is booked is one the request holding it has to settle.
LEMMA ClosedStep ==
    ASSUME AppInv, ClosedInv, [Next]_vars
    PROVE  ClosedInv'
<1> USE AppAssumption
<1>0. /\ th \in [Thread -> Request] /\ ShapeInv /\ book \in Book /\ gen \in Int /\ gen >= 1
      /\ \A t \in Thread : th[t].gen \in Int /\ th[t].gen <= gen
  BY DEF AppInv, TypeOK, Request, ClosedInv
<1>1. ASSUME NEW t \in Thread, Rebuild(t) PROVE ClosedInv'
  <2>1. gen' = gen + 1 /\ \A p \in Pos : book'[p] = "none"
    BY <1>1 DEF Rebuild
  <2>2. \A u \in Thread : th'[u].gen = th[u].gen
    BY <1>0, <1>1 DEF Rebuild, Go, Request
  <2> QED
    BY <1>0, <2>1, <2>2 DEF ClosedInv, Mine
<1>2. SUFFICES ASSUME ~\E t \in Thread : Rebuild(t) PROVE ClosedInv'
  BY <1>1
<1>3. /\ gen' = gen
      /\ \A p \in Pos : Accounted(p) => Accounted(p)'
  <2>1. gen' = gen
    BY <1>2, GenStep
  <2>2. ASSUME NEW p \in Pos, Accounted(p) PROVE Accounted(p)'
    BY <1>2, <2>2, AccountedStep
  <2> QED
    BY <2>1, <2>2
<1>4. CASE Age \/ UNCHANGED vars
  <2>1. th' = th /\ book' = book
    BY <1>4 DEF Age, vars, pipeVars
  <2> QED
    BY <1>3, <2>1 DEF ClosedInv, Mine
<1>5. ASSUME NEW t \in Thread, book' = book, \A u \in Thread : u # t => th'[u] = th[u],
             th'[t].gen <= gen,
             \/ th'[t].pc \notin {"write", "replace"}
             \/ th'[t].copy = book
      PROVE  ClosedInv'
  <2>1. \A p \in Pos : book'[p] = "closed" => Accounted(p)'
    BY <1>3, <1>5 DEF ClosedInv
  <2>2. \A u \in Thread : th'[u].gen <= gen'
    BY <1>0, <1>3, <1>5
  <2>3. ASSUME NEW u \in Thread, NEW p \in Pos, th'[u].pc \in {"write", "replace"}, Mine(u)',
               th'[u].copy[p] = "closed"
        PROVE  Accounted(p)'
    <3>1. CASE u = t
      BY <1>5, <2>1, <2>3, <3>1
    <3>2. CASE u # t
      BY <1>3, <1>5, <2>3, <3>2 DEF ClosedInv, Mine
    <3> QED
      BY <3>1, <3>2
  <2> QED
    BY <2>1, <2>2, <2>3 DEF ClosedInv
<1>6. ASSUME NEW t \in Thread, Requests(t) PROVE ClosedInv'
  <2>1. PICK op \in Op, pc \in {"current", "lock", "switch"} : Begin(t, op, pc)
    BY <1>6, RequestBegins
  <2> QED
    BY <1>0, <1>5, <2>1 DEF Begin, NoWork, Request, pipeVars
<1>7. ASSUME NEW t \in Thread, Work(t), ~Rebuild(t) PROVE ClosedInv'
  <2> USE <1>0 DEF Request, pipeVars, Done, Idle, NoWork, Go
  <2>1. CASE Current(t) \/ Finish(t)
    <3>1. book' = book /\ \A u \in Thread : u # t => th'[u] = th[u]
      BY <2>1 DEF Current, Finish, Served
    <3>2. th'[t].gen <= gen /\ th'[t].pc \notin {"write", "replace"}
      BY <2>1 DEF Current, Finish, Served
    <3> QED
      BY <1>5, <3>1, <3>2
  <2>2. CASE Acquire(t) \/ Snapshot(t) \/ SnapshotRaises(t) \/ CloseDone(t)
    BY <1>5, <2>2 DEF Acquire, Enter, Snapshot, SnapshotRaises, CloseDone
  <2>10. CASE StepRaises(t)
    BY <1>5, <2>10 DEF StepRaises
  <2>3. CASE SwitchProvider(t) \/ ClearResult(t) \/ Resolve(t)
    BY <1>5, <2>3 DEF SwitchProvider, ClearResult, Resolve
  <2>4. CASE LeaveOpen(t) \/ CloseFills(t) \/ Settle(t) \/ Lockout(t) \/ Evaluate(t)
    BY <1>5, <2>4 DEF LeaveOpen, CloseFills, Settle, Lockout, Evaluate
  <2>5. CASE NotFilled(t) \/ Register(t) \/ ReadSwitch(t) \/ Flip(t)
    BY <1>5, <2>5 DEF NotFilled, Register, ReadSwitch, Flip
  <2>6. CASE Reconcile(t)
    BY <1>5, <2>6 DEF Reconcile
  <2>7. CASE NextPosition(t)
    BY <1>5, <2>7 DEF NextPosition
  <2>8. ASSUME WriteMark(t) \/ WriteClosed(t) PROVE ClosedInv'
    <3>1. th[t].copy \in Book /\ th[t].p \in Pos
      BY <2>8 DEF WriteMark, WriteClosed, ShapeInv
    <3>2. /\ \A u \in Thread : u # t => th'[u] = th[u]
          /\ th'[t].gen = th[t].gen /\ th'[t].p = th[t].p /\ th'[t].pc \in {"work", "settle"}
          /\ WriteClosed(t) => th'[t].pc = "settle"
      BY <2>8 DEF WriteMark, WriteClosed
    <3>3. ASSUME NEW p \in Pos, book'[p] = "closed" PROVE Accounted(p)'
      <4>1. CASE ~Mine(t)
        BY <1>3, <2>8, <3>3, <4>1 DEF WriteMark, WriteClosed, ClosedInv
      <4>2. CASE Mine(t) /\ p # th[t].p
        <5>1. book'[p] = th[t].copy[p] /\ th[t].pc \in {"write", "replace"}
          BY <2>8, <3>1, <4>2 DEF WriteMark, WriteClosed, Replaced, Book
        <5> QED
          BY <1>3, <3>3, <4>2, <5>1 DEF ClosedInv
      <4>3. CASE Mine(t) /\ p = th[t].p
        <5>1. WriteMark(t) => book'[p] \in {"open", "none"}
          BY <3>1, <4>3 DEF WriteMark, Replaced, Book
        <5> QED
          BY <1>3, <2>8, <3>2, <3>3, <4>3, <5>1 DEF Accounted, Mine
      <4> QED
        BY <4>1, <4>2, <4>3
    <3> QED
      BY <1>3, <3>2, <3>3 DEF ClosedInv, Mine
  <2>9. CASE Execute(t)
    <3>1. /\ \A u \in Thread : u # t => th'[u] = th[u]
          /\ th'[t].gen = th[t].gen /\ th'[t].pc = "register"
      BY <2>9 DEF Execute
    <3>2. \A p \in Pos : book'[p] = "closed" => book[p] = "closed"
      BY <2>9 DEF Execute, Book
    <3> QED
      BY <1>3, <3>1, <3>2 DEF ClosedInv, Mine
  <2> QED
    BY <1>7, <2>1, <2>2, <2>3, <2>4, <2>5, <2>6, <2>7, <2>8, <2>9, <2>10 DEF Work
<1> QED
  BY <1>2, <1>4, <1>6, <1>7 DEF Next

\* What the request threads share stays consistent, for any number of them: types
\* and bounds hold, the lock belongs to a request that works, and a position the
\* book shows as closed was settled or is about to be, whatever closes overlapped
\* and whatever copies of the book they replaced it with.
THEOREM SharedStateStaysConsistent == Spec => []SharedStateHolds
<1>1. Init => AppInv /\ ClosedInv
  <2> SUFFICES ASSUME Init PROVE ClosedInv
    BY AppInitInv
  <2>1. \A t \in Thread : th[t] = NoWork
    BY DEF Init
  <2>2. \A t \in Thread : th[t].gen = 1 /\ th[t].pc = "idle"
    BY <2>1 DEF NoWork
  <2>3. gen = 1 /\ \A p \in Pos : book[p] = "none"
    BY DEF Init
  <2> QED
    BY <2>2, <2>3 DEF ClosedInv
<1>2. AppInv /\ ClosedInv /\ [Next]_vars => (AppInv /\ ClosedInv)'
  BY AppStepInv, ClosedStep
<1>3. AppInv /\ ClosedInv => SharedStateHolds
  <2> SUFFICES ASSUME AppInv, ClosedInv PROVE SharedStateHolds
    OBVIOUS
  <2>1. HolderIsWorking
    BY DEF AppInv, TypeOK, LockInv, Locked, Closing, HolderIsWorking
  <2>2. ClosedWasSettled
    BY DEF ClosedInv, Accounted, ClosedWasSettled
  <2> QED
    BY <2>1, <2>2 DEF AppInv, SharedStateHolds
<1> QED
  BY <1>1, <1>2, <1>3, PTL DEF Spec
=============================================================================
