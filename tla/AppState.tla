------------------------------ MODULE AppState ------------------------------
(***************************************************************************)
(* The HTTP application (spy_der/app/state.py, spy_der/app/api.py): one    *)
(* pipeline, one provider and the last result, shared by the threads that  *)
(* FastAPI runs its synchronous endpoints on.                              *)
(*                                                                         *)
(* run_once works under a lock; /paper/close and the kill-switch endpoint  *)
(* touch the same pipeline without it.  A statement that reads or writes   *)
(* shared state is a step of its own.  PortfolioState.close rebuilds the   *)
(* list of positions, so it reads the book in one step and replaces it in  *)
(* the next: what is not in the list it read stays out of the book.  A     *)
(* rebuilt pipeline has a new number; a thread that still holds an older   *)
(* one works on an object nobody else sees.  Of a position only its status *)
(* in the book ("none": not in the list) and at the broker matters here.    *)
(***************************************************************************)
EXTENDS Integers, FiniteSets

CONSTANTS
    Thread,      \* request threads
    Pos,         \* positions
    MaxOpen,     \* PortfolioLimits.max_open_strategies
    MaxGen,      \* bound: pipelines built
    MaxSource,   \* bound: providers installed
    None         \* no thread, no result, no position, no list

Status == {"none", "open", "closed"}
Book   == [Pos -> Status]

ASSUME AppAssumption ==
    /\ MaxOpen \in Nat \ {0} /\ MaxGen \in Nat \ {0} /\ MaxSource \in Nat \ {0}
    /\ None \notin Thread /\ None \notin Pos /\ None \notin Book
    /\ IsFiniteSet(Thread)          \* the worker threads of the server's pool

VARIABLES
    lock,      \* AppState._lock: its holder, or None
    gen,       \* number of the pipeline in AppState.pipeline
    source,    \* number of the provider in AppState.provider
    last,      \* AppState.last_result: the provider it came from and whether it is fresh
    book,      \* status of each position in pipeline.portfolio
    broker,    \* status of each position in pipeline.broker
    kill,      \* reasons active in the pipeline's kill switch
    th,        \* what each thread is doing
    settled,   \* history: how often a position's result reached the equity (2: more than once)
    barred,    \* history: threads whose cycle began under an acknowledged trip
    misled     \* history: the orphans a thread's cycle began with, not settled since

pipeVars == <<gen, book, broker, kill, settled>>
feedVars == <<source, last>>
histVars == <<barred, misled>>
vars     == <<lock, pipeVars, feedVars, th, histVars>>

Reason == {"MANUAL", "BROKER_STATE"}
Result == [src: 1..MaxSource, fresh: BOOLEAN]

\* The control points of a thread, in the order of the code.
PC == {"idle", "current", "lock", "swap", "snapshot", "cycle", "write", "work", "replace",
       "settle", "evaluate", "execute", "register", "finish", "switch", "flip"}

Op == {"read", "run", "close", "reload", "scenario", "trip", "reset"}

NoWork == [op |-> "read", pc |-> "idle", gen |-> 1, since |-> 1, src |-> 1, todo |-> {},
           p |-> None, copy |-> None, agrees |-> TRUE, outdated |-> FALSE]

OpenIn(b) == {p \in Pos : b[p] = "open"}
Mine(t)   == th[t].gen = gen          \* the thread holds the current pipeline
Go(t, pc) == [th EXCEPT ![t].pc = pc]

\* A thread that has answered from the provider src; outdated is a history: was
\* that provider replaced before the request began?
Done(t, src) == [th EXCEPT ![t] = [NoWork EXCEPT !.outdated = src < th[t].since]]
Idle(t)      == Done(t, th[t].src)

\* Providers whose installation has been completed.
Installed ==
    IF \E t \in Thread : th[t].op = "scenario" /\ th[t].pc = "finish" THEN source - 1 ELSE source

TypeOK ==
    /\ lock \in Thread \cup {None}
    /\ gen \in 1..MaxGen /\ source \in 1..MaxSource
    /\ last \in Result \cup {None}
    /\ book \in Book /\ broker \in Book
    /\ kill \subseteq Reason
    /\ barred \subseteq Thread /\ misled \in [Thread -> SUBSET Pos]
    /\ settled \in [Pos -> 0..2]
    /\ th \in [Thread -> [op: Op, pc: PC, gen: 1..MaxGen, since: 1..MaxSource,
                          src: 1..MaxSource, todo: SUBSET Pos, p: Pos \cup {None},
                          copy: Book \cup {None}, agrees: BOOLEAN,
                          outdated: BOOLEAN]]

Init ==
    /\ lock = None /\ gen = 1 /\ source = 1 /\ last = None
    /\ book = [p \in Pos |-> "none"] /\ broker = book
    /\ kill = {} /\ barred = {} /\ misled = [t \in Thread |-> {}]
    /\ settled = [p \in Pos |-> 0]
    /\ th = [t \in Thread |-> NoWork]

----------------------------------------------------------------------------
(* Requests *)

Begin(t, op, pc) ==
    /\ th[t].pc = "idle"
    /\ th' = [th EXCEPT ![t] = [NoWork EXCEPT !.op = op, !.pc = pc, !.since = Installed,
                                              !.src = Installed]]
    /\ UNCHANGED <<lock, pipeVars, feedVars, histVars>>

\* The market, analytics and forecast endpoints answer from current() ...
DeskRequest(t) == Begin(t, "read", "current")

\* ... and so do the strategy endpoints.
StrategyRequest(t) == Begin(t, "read", "current")

\* /analysis/run and /paper/orders.
RunRequest(t) == Begin(t, "run", "lock")

\* /paper/close begins with current() for its snapshot.
CloseRequest(t) == Begin(t, "close", "current")

\* Requests that will still replace the provider, for the bounds on both counters.
Pending(ops) == Cardinality({u \in Thread : th[u].op \in ops /\ th[u].pc # "idle"})
MayReplace   == Installed + Pending({"reload", "scenario"}) < MaxSource

ReloadRequest(t) ==
    /\ MayReplace /\ gen + Pending({"reload"}) < MaxGen
    /\ Begin(t, "reload", "lock")

ScenarioRequest(t) == MayReplace /\ Begin(t, "scenario", "lock")

\* /risk/kill-switch.
SwitchRequest(t) == \E op \in {"trip", "reset"} : Begin(t, op, "switch")

\* What a request that has its result does next: answer, or list what to close.
Served(t, src) ==
    IF th[t].op = "close"
    THEN th' = [th EXCEPT ![t].pc = "cycle", ![t].src = src, ![t].gen = gen,
                          ![t].todo = OpenIn(book)]
    ELSE th' = Done(t, src)

\* current: last_result is read, and used, without the lock.
Current(t) ==
    /\ th[t].pc = "current"
    /\ IF last # None /\ last.fresh
       THEN Served(t, last.src)
       ELSE th' = Go(t, "lock")
    /\ UNCHANGED <<lock, pipeVars, feedVars, histVars>>

\* _is_stale: time passes.
Age ==
    /\ last # None /\ last.fresh
    /\ last' = [last EXCEPT !.fresh = FALSE]
    /\ UNCHANGED <<lock, pipeVars, source, th, histVars>>

----------------------------------------------------------------------------
(* Under the lock *)

\* Only the broker still knows the position: it is neither in the book nor in a
\* list that is about to become the book.
Orphan(p) ==
    /\ broker[p] = "open" /\ book[p] = "none"
    /\ \A u \in Thread : Mine(u) /\ th[u].copy # None => th[u].copy[p] = "none"

\* The holder of the lock starts on its part of the critical section.
Enter(t) ==
    /\ lock' = t
    /\ th' = [th EXCEPT ![t].gen = gen,
                        ![t].pc = IF th[t].op \in {"reload", "scenario"}
                                  THEN "swap" ELSE "snapshot"]
    /\ barred' = IF "MANUAL" \in kill THEN barred \cup {t} ELSE barred
    /\ misled' = [misled EXCEPT ![t] = {p \in Pos : Orphan(p)}]
    /\ UNCHANGED <<pipeVars, feedVars>>

Acquire(t) == th[t].pc = "lock" /\ lock = None /\ Enter(t)

Release(t) ==
    lock' = None /\ barred' = barred \ {t} /\ misled' = [misled EXCEPT ![t] = {}]

\* set_scenario installs the provider and then forgets the result of the old one.
SwitchProvider(t) ==
    /\ th[t].pc = "swap" /\ th[t].op = "scenario"
    /\ source' = source + 1
    /\ th' = Go(t, "finish")
    /\ UNCHANGED <<lock, last, pipeVars, histVars>>

\* A change of scenario that keeps serving what it has.
KeepResult(t) ==
    /\ th[t].pc = "finish" /\ th[t].op = "scenario"
    /\ Release(t)
    /\ th' = Done(t, source)
    /\ UNCHANGED <<pipeVars, feedVars>>

ClearResult(t) ==
    /\ th[t].pc = "finish" /\ th[t].op = "scenario"
    /\ last' = None
    /\ Release(t)
    /\ th' = Done(t, source)
    /\ UNCHANGED <<pipeVars, source>>

\* reset rebuilds the pipeline: an empty book, a new broker, no switch ...
Rebuild(t) ==
    /\ th[t].pc = "swap" /\ th[t].op = "reload"
    /\ gen' = gen + 1
    /\ book' = [p \in Pos |-> "none"] /\ broker' = book'
    /\ kill' = {} /\ barred' = {} /\ misled' = [u \in Thread |-> {}]
    /\ settled' = [p \in Pos |-> 0]
    /\ th' = Go(t, "finish")
    /\ UNCHANGED <<lock, feedVars>>

\* ... forgets the result and resolves the provider again.
Resolve(t) ==
    /\ th[t].pc = "finish" /\ th[t].op = "reload"
    /\ last' = None
    /\ source' = source + 1
    /\ Release(t)
    /\ th' = Done(t, source')
    /\ UNCHANGED pipeVars

\* An acquire and release without the guarantee of a with statement.
RaiseHoldingLock(t) ==
    /\ th[t].pc = "snapshot"
    /\ th' = Idle(t)
    /\ UNCHANGED <<lock, pipeVars, feedVars, histVars>>

\* provider.snapshot raises: the with statement releases the lock.
SnapshotRaises(t) ==
    /\ th[t].pc = "snapshot"
    /\ Release(t)
    /\ th' = Idle(t)
    /\ UNCHANGED <<pipeVars, feedVars>>

\* pipeline.step begins: the open positions are listed.
Snapshot(t) ==
    /\ th[t].pc = "snapshot"
    /\ th' = [th EXCEPT ![t].pc = "cycle", ![t].src = source,
                        ![t].todo = OpenIn(book)]
    /\ UNCHANGED <<lock, pipeVars, feedVars, histVars>>

----------------------------------------------------------------------------
(* Closing positions: _manage_open_positions, force_close_all, _close_position *)

InCycle(t) == th[t].op # "close" \/ lock = t

\* The next position.  A cycle first puts the marked position back into the
\* book (portfolio.close with an open position); force_close_all does not.
NextPosition(t) ==
    /\ th[t].pc = "cycle"
    /\ \E p \in th[t].todo :
          th' = [th EXCEPT ![t].todo = @ \ {p}, ![t].p = p,
                           ![t].copy = IF InCycle(t) THEN book ELSE None,
                           ![t].pc   = IF InCycle(t) THEN "write" ELSE "work"]
    /\ UNCHANGED <<lock, pipeVars, feedVars, histVars>>

\* The list comprehension of PortfolioState.close keeps the positions it read: it
\* replaces one that is in the list and brings none back that is not.
Replaced(t, status) == [th[t].copy EXCEPT ![th[t].p] = IF @ = "none" THEN "none" ELSE status]

WriteMark(t) ==
    /\ th[t].pc = "write"
    /\ book' = IF Mine(t) THEN Replaced(t, "open") ELSE book
    /\ th' = [th EXCEPT ![t].pc = "work", ![t].copy = None]
    /\ UNCHANGED <<lock, gen, broker, kill, settled, feedVars, histVars>>

\* No exit is signalled, the legs are not quoted, or the closing order does not
\* fill.
LeaveOpen(t) ==
    /\ th[t].pc = "work"
    /\ th' = [th EXCEPT ![t].pc = "cycle", ![t].p = None]
    /\ UNCHANGED <<lock, pipeVars, feedVars, histVars>>

\* The closing order filled: portfolio.close reads the book ...
CloseFills(t) ==
    /\ th[t].pc = "work"
    /\ th' = [th EXCEPT ![t].pc = "replace", ![t].copy = book]
    /\ UNCHANGED <<lock, pipeVars, feedVars, histVars>>

\* ... and replaces it, ...
WriteClosed(t) ==
    /\ th[t].pc = "replace"
    /\ book' = IF Mine(t) THEN Replaced(t, "closed") ELSE book
    /\ th' = [th EXCEPT ![t].pc = "settle", ![t].copy = None]
    /\ UNCHANGED <<lock, gen, broker, kill, settled, feedVars, histVars>>

\* ... then the broker settles: the result enters the equity.  A position lost from
\* the book meanwhile is an orphan no longer.
Settle(t) ==
    /\ th[t].pc = "settle"
    /\ IF Mine(t)
       THEN /\ broker'  = [broker EXCEPT ![th[t].p] = "closed"]
            /\ settled' = [settled EXCEPT ![th[t].p] = IF @ = 0 THEN 1 ELSE 2]
            /\ misled'  = [u \in Thread |-> misled[u] \ {th[t].p}]
       ELSE UNCHANGED <<broker, settled, misled>>
    /\ th' = [th EXCEPT ![t].pc = "cycle", ![t].p = None]
    /\ UNCHANGED <<lock, gen, book, kill, feedVars, barred>>

\* force_close_all has visited everything it listed.
CloseDone(t) ==
    /\ th[t].pc = "cycle" /\ th[t].todo = {} /\ ~InCycle(t)
    /\ th' = Idle(t)
    /\ UNCHANGED <<lock, pipeVars, feedVars, histVars>>

\* step or force_close_all raises half way: a mark, a quote, the broker, a model or
\* an audit write that follows a settlement or ends the cycle.  What was closed or
\* opened stays so, later positions are not visited, last_result is not stored, and
\* the with statement, if the request is inside it, releases the lock.
StepRaises(t) ==
    /\ th[t].pc \in {"cycle", "work", "evaluate", "execute", "finish"}
    /\ th[t].op \notin {"reload", "scenario"}
    /\ IF InCycle(t) THEN Release(t) ELSE UNCHANGED <<lock, histVars>>
    /\ th' = Idle(t)
    /\ UNCHANGED <<pipeVars, feedVars>>

----------------------------------------------------------------------------
(* The decision of a cycle *)

\* A comparison that overlooks what only the broker holds.
AgreesOnOurs == OpenIn(book) \subseteq OpenIn(broker)

\* reconcile: the open legs of the book and of the broker.
Agrees == OpenIn(book) = OpenIn(broker)

\* _broker_state, long before the verdict is taken.
Reconcile(t) ==
    /\ th[t].pc = "cycle" /\ th[t].todo = {} /\ InCycle(t)
    /\ th' = [th EXCEPT ![t].pc = "evaluate", ![t].agrees = Agrees]
    /\ UNCHANGED <<lock, pipeVars, feedVars, histVars>>

\* The data-quality lockout returns before the verdict.
Lockout(t) ==
    /\ th[t].pc = "cycle" /\ th[t].todo = {} /\ InCycle(t)
    /\ th' = Go(t, "finish")
    /\ UNCHANGED <<lock, pipeVars, feedVars, histVars>>

SwitchesAfter(t) == kill \cup (IF th[t].agrees THEN {} ELSE {"BROKER_STATE"})

\* A verdict that goes by the switch as it was when the cycle listed its positions
\* and by the discrepancies, but not by the switch as it is.
ApprovedOnDiscrepancies(t) == th[t].agrees /\ Cardinality(OpenIn(book)) < MaxOpen

Approved(t) == SwitchesAfter(t) = {} /\ Cardinality(OpenIn(book)) < MaxOpen

\* evaluate: the switches are updated; the trade is approved, or not.
Evaluate(t) ==
    /\ th[t].pc = "evaluate"
    /\ kill' = IF Mine(t) THEN SwitchesAfter(t) ELSE kill
    /\ \/ th' = Go(t, "finish")
       \/ Approved(t) /\ th' = Go(t, "execute")
    /\ UNCHANGED <<lock, gen, book, broker, settled, feedVars, histVars>>

\* _execute: the order fills and the position enters the book ...
Execute(t) ==
    /\ th[t].pc = "execute"
    /\ \E p \in Pos :
          /\ broker[p] = "none" /\ book[p] = "none"
          /\ book' = [book EXCEPT ![p] = "open"]
          /\ th' = [th EXCEPT ![t].pc = "register", ![t].p = p]
    /\ UNCHANGED <<lock, gen, broker, kill, settled, feedVars, histVars>>

\* ... or it does not fill.
NotFilled(t) ==
    /\ th[t].pc = "execute"
    /\ th' = Go(t, "finish")
    /\ UNCHANGED <<lock, pipeVars, feedVars, histVars>>

\* ... and the broker's list.
Register(t) ==
    /\ th[t].pc = "register"
    /\ broker' = [broker EXCEPT ![th[t].p] = "open"]
    /\ th' = [th EXCEPT ![t].pc = "finish", ![t].p = None]
    /\ UNCHANGED <<lock, gen, book, kill, settled, feedVars, histVars>>

\* run_once stores its result and releases the lock; current returns it.
Finish(t) ==
    /\ th[t].pc = "finish" /\ th[t].op \notin {"reload", "scenario"}
    /\ last' = [src |-> th[t].src, fresh |-> TRUE]
    /\ Served(t, th[t].src)
    /\ Release(t)
    /\ UNCHANGED <<pipeVars, source>>

----------------------------------------------------------------------------
(* /risk/kill-switch, without the lock *)

\* The property kill_switch reads the pipeline of the moment.
ReadSwitch(t) ==
    /\ th[t].pc = "switch"
    /\ th' = [th EXCEPT ![t].pc = "flip", ![t].gen = gen]
    /\ UNCHANGED <<lock, pipeVars, feedVars, histVars>>

\* trip or reset acts on that pipeline's switch, whether or not it is still in use.
Flip(t) ==
    /\ th[t].pc = "flip"
    /\ kill' = IF ~Mine(t) THEN kill
               ELSE IF th[t].op = "trip" THEN kill \cup {"MANUAL"} ELSE {}
    /\ barred' = IF th[t].op = "reset" /\ Mine(t) THEN {} ELSE barred
    /\ th' = Idle(t)
    /\ UNCHANGED <<lock, gen, book, broker, settled, feedVars, misled>>

----------------------------------------------------------------------------

Requests(t) ==
    \/ DeskRequest(t) \/ StrategyRequest(t) \/ RunRequest(t) \/ CloseRequest(t) \/ ReloadRequest(t)
    \/ ScenarioRequest(t) \/ SwitchRequest(t)

\* What a thread does once it has a request.
Work(t) ==
    \/ Current(t) \/ Acquire(t) \/ SwitchProvider(t) \/ ClearResult(t) \/ Rebuild(t) \/ Resolve(t)
    \/ SnapshotRaises(t) \/ Snapshot(t)
    \/ NextPosition(t) \/ WriteMark(t) \/ LeaveOpen(t) \/ CloseFills(t) \/ WriteClosed(t)
    \/ Settle(t) \/ CloseDone(t) \/ StepRaises(t)
    \/ Reconcile(t) \/ Lockout(t) \/ Evaluate(t) \/ Execute(t) \/ NotFilled(t) \/ Register(t)
    \/ Finish(t)
    \/ ReadSwitch(t) \/ Flip(t)

Next == Age \/ \E t \in Thread : Requests(t) \/ Work(t)

Spec == Init /\ [][Next]_vars

----------------------------------------------------------------------------
(* Properties *)

\* A request that began after /scenario or /models/reload had returned is never
\* answered from the provider that was replaced, although current reads
\* last_result without the lock and a cycle on the old provider may have been in
\* flight (state.py current, set_scenario, reset).
ServedFromCurrentSource == \A t \in Thread : ~th[t].outdated

\* The kill-switch endpoint does not wait for the cycle in flight, but a cycle that
\* takes the lock after a trip that stands opens nothing (api.py kill_switch,
\* engine.py evaluate).
TripStopsLaterCycles ==
    \A t \in Thread : th[t].pc \in {"execute", "register"} => t \notin barred

\* When racing closes have made the book lose a position the broker still holds,
\* no later cycle opens anything until the pipeline is rebuilt or a request that had
\* listed the position before it was lost has settled it: nothing brings it back into
\* the book, and reconciliation sees it every time, even after an operator resets
\* the switch.
OrphanStopsTrading ==
    \A t \in Thread : th[t].pc \in {"execute", "register"} => misled[t] = {}

\* A position the book shows as closed has reached the equity, unless the thread
\* that closed it is about to settle it, whatever closes overlapped.
ClosedWasSettled ==
    \A p \in Pos : book[p] = "closed" =>
        settled[p] > 0 \/ \E t \in Thread : th[t].pc = "settle" /\ th[t].p = p

\* Whoever holds the lock is still working on its request, so the lock is free again
\* when the request ends, also when the provider raises, or any step of the cycle.
HolderIsWorking == lock # None => th[lock].pc \notin {"idle", "current", "lock", "switch", "flip"}

\* "Serialized: the pipeline is not reentrant" (state.py run_once): the result of a
\* position enters the equity once.
SettledOnce == \A p \in Pos : settled[p] <= 1

\* What the threads share stays consistent, whatever overlaps: the lock belongs to a
\* request that works, and a closed position was settled or is about to be.
SharedStateHolds == TypeOK /\ HolderIsWorking /\ ClosedWasSettled

=============================================================================
