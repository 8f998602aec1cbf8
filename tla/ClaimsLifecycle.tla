-------------------------- MODULE ClaimsLifecycle --------------------------
(***************************************************************************)
(* Starting, stopping, suspending and failing of the claims engine         *)
(* (ClaimsEngine of src/core/claims-engine.mjs): the coordinator that      *)
(* wakes up, opens the helper pool and starts work, and halt(), which      *)
(* cancels everything, closes the pool and drains.                         *)
(*                                                                         *)
(* The engine's fields are one record, and each method that others call    *)
(* is an operator from a record to the next one, so that an action is the  *)
(* whole handler.  The coordinator is a promise chain: "queued" before the *)
(* pump runs, "pool" and "gate" while the pump awaits the pool's start and *)
(* its admission control, "done" before its finally.  A task is a piece of *)
(* work of any stage (preparation, lookup, capture, submission).           *)
(***************************************************************************)
EXTENDS Naturals, FiniteSets

CONSTANTS
    MaxTasks,      \* bound: tasks at a time
    MaxGen,        \* bound: halts
    MaxFaults      \* bound: failures

ASSUME LifecycleConstants == MaxTasks \in Nat /\ MaxGen \in Nat /\ MaxFaults \in Nat

VARIABLES
    e,             \* the engine
    pools,         \* each helper pool, named by the generation that made it
    unlocked,      \* isUnlocked()
    fresh,         \* the pump has not looked at the queue since it changed
    faults

vars == <<e, pools, unlocked, fresh, faults>>

Gens  == 0..MaxGen
Slots == 1..MaxTasks
None  == MaxGen + 1      \* no pool
Idle  == [on |-> FALSE, gen |-> 0, aborted |-> FALSE, gated |-> FALSE]
Quiet == [phase |-> "none", gen |-> 0]

Init ==
    /\ e = [enabled |-> FALSE, paused |-> FALSE, blocked |-> "no", gen |-> 0, coordinator |-> Quiet,
            wakeRequested |-> FALSE, timer |-> FALSE, refreshTimer |-> FALSE, pool |-> None, closing |-> None,
            stopping |-> "no", haltReason |-> "none", lastError |-> "none", tasks |-> [i \in Slots |-> Idle]]
    /\ pools = [g \in Gens |-> "none"]
    /\ unlocked = TRUE /\ fresh = FALSE /\ faults = 0

----------------------------------------------------------------------------
(* Methods *)

CapturesBlocked(s) == s.blocked = "all"
Shut(s) == ~s.enabled \/ s.paused \/ CapturesBlocked(s)
Busy(s) == s.coordinator.phase # "none" \/ \E i \in Slots : s.tasks[i].on

\* Faulty variant: a later reason replaces a failure.
Reason_Last(old, new) == new

Reason(old, new) == IF old = "fatal" THEN old ELSE new

\* Faulty variant: every halt ends the interval.
Refreshing_Off(s) == FALSE

\* The interval survives a suspension.
Refreshing(s) == s.refreshTimer /\ s.enabled

\* Faulty variant: the work is not cancelled.
Halt_NoAbort(s, reason) ==
    LET r == [s EXCEPT !.timer = FALSE, !.refreshTimer = Refreshing(s), !.haltReason = Reason(@, reason)]
    IN  IF s.stopping # "no" THEN r
        ELSE [r EXCEPT !.gen = @ + 1, !.closing = s.pool, !.pool = None, !.stopping = "close"]

\* Work that runs is told to end.
Cancelled(task) == [task EXCEPT !.aborted = @ \/ task.on]

\* halt(): once; a second caller joins the first.
Halt(s, reason) ==
    LET r == [s EXCEPT !.timer = FALSE, !.refreshTimer = Refreshing(s), !.haltReason = Reason(@, reason)]
    IN  IF s.stopping # "no" THEN r
        ELSE [r EXCEPT !.gen = @ + 1, !.closing = s.pool, !.pool = None, !.stopping = "close",
                       !.tasks = [i \in Slots |-> Cancelled(@[i])]]

Stop(s, reason) == Halt([s EXCEPT !.enabled = FALSE, !.paused = FALSE], reason)

\* Faulty variant: a kick while the coordinator runs is dropped.
Woken_Dropped(s) == s

Woken(s) == [s EXCEPT !.wakeRequested = TRUE]

\* kick().
Kick(s) ==
    IF Shut(s) \/ s.stopping # "no" THEN s
    ELSE IF s.coordinator.phase # "none" THEN Woken(s)
    ELSE IF ~unlocked THEN Stop(s, "locked")
    ELSE [s EXCEPT !.timer = FALSE, !.coordinator = [phase |-> "queued", gen |-> s.gen]]

\* fatal(): an unknown outcome of a broadcast is reported also over another failure.
Fatal(s, error) ==
    IF ~s.enabled /\ s.haltReason = "fatal" /\ error # "unknown" THEN s
    ELSE Halt([s EXCEPT !.enabled = FALSE, !.lastError = error], "fatal")

\* jobError(): a retry warning.
JobError(s) == IF s.haltReason = "fatal" THEN s ELSE [s EXCEPT !.lastError = "retry"]

----------------------------------------------------------------------------
(* Calls *)

\* The bound on halts, with one left for the lock.
Halts(s) == s.gen + (IF unlocked THEN 0 ELSE 1) < MaxGen

Start ==
    /\ unlocked /\ e.stopping = "no"
    /\ e' = Kick([e EXCEPT !.enabled = TRUE, !.refreshTimer = TRUE, !.lastError = "none"])
    /\ UNCHANGED <<pools, unlocked, fresh, faults>>

StopCall == Halts(e) /\ e' = Stop(e, "stop") /\ UNCHANGED <<pools, unlocked, fresh, faults>>

Suspend ==
    /\ Halts(e) /\ ~(e.paused /\ ~Busy(e) /\ e.pool = None)
    /\ e' = Halt([e EXCEPT !.paused = TRUE], "suspend")
    /\ UNCHANGED <<pools, unlocked, fresh, faults>>

Resume == e.paused /\ e' = Kick([e EXCEPT !.paused = FALSE]) /\ fresh' = TRUE /\ UNCHANGED <<pools, unlocked, faults>>

\* enqueue(), remove(), retire() and the other changes of the queue.
QueueChanges == e' = Kick(e) /\ fresh' = TRUE /\ UNCHANGED <<pools, unlocked, faults>>

\* setCatalogBlocked(); its pool control is a write that may be refused.
SetCatalogBlocked(blocked) ==
    /\ e.blocked # blocked
    /\ LET s == [e EXCEPT !.blocked = blocked]
       IN  e' = IF CapturesBlocked(s) THEN [s EXCEPT !.timer = FALSE] ELSE Kick(s)
    /\ fresh' = TRUE /\ UNCHANGED <<pools, unlocked, faults>>

\* The wallet is locked or unlocked.
SetUnlocked(u) == u # unlocked /\ unlocked' = u /\ (u \/ Halts(e)) /\ UNCHANGED <<e, pools, fresh, faults>>

TimerFires == e.timer /\ e' = Kick([e EXCEPT !.timer = FALSE]) /\ UNCHANGED <<pools, unlocked, fresh, faults>>

RefreshFires ==
    /\ e.refreshTimer /\ e.enabled /\ ~e.paused
    /\ e' = Kick(e) /\ UNCHANGED <<pools, unlocked, fresh, faults>>

----------------------------------------------------------------------------
(* The coordinator *)

At(phase) == e.coordinator.phase = phase
Current == ~Shut(e) /\ e.coordinator.gen = e.gen
Goto(s, phase) == [s EXCEPT !.coordinator.phase = phase]

\* The pump begins: it opens the pool, or waits for the one that is there.
PumpBegins ==
    /\ At("queued")
    /\ IF ~Current THEN e' = Goto(e, "done") /\ UNCHANGED pools
       ELSE IF e.pool = None
            THEN e' = Goto([e EXCEPT !.pool = e.gen], "pool") /\ pools' = [pools EXCEPT ![e.gen] = "starting"]
            ELSE e' = Goto(e, "pool") /\ UNCHANGED pools
    /\ UNCHANGED <<unlocked, fresh, faults>>

\* The pool of the pump has started: it sends the admission control, if there still is a pool.
PoolAwaited ==
    /\ At("pool") /\ pools[e.coordinator.gen] = "ready"
    /\ e' = Goto(e, "gate") /\ UNCHANGED <<pools, unlocked, fresh, faults>>

\* The pool was closed or failed before it started or answered: the pump throws.
PumpThrows ==
    /\ e.coordinator.phase \in {"pool", "gate"} /\ pools[e.coordinator.gen] \in {"failed", "closed"}
    /\ LET s == Goto(e, "done")
       IN  e' = IF e.coordinator.gen = e.gen THEN Fatal(s, "helper") ELSE s
    /\ UNCHANGED <<pools, unlocked, fresh, faults>>

\* The pump's loop: it looks at the queue, starts work and arms the timer or not.
PumpLoops(started) ==
    /\ At("gate")
    /\ IF Current
       THEN /\ \A i \in started : ~e.tasks[i].on
            /\ \E timer \in BOOLEAN :
                 e' = [Goto(e, "done") EXCEPT !.timer = timer,
                         !.tasks = [i \in Slots |-> IF i \in started THEN [Idle EXCEPT !.on = TRUE, !.gen = e.gen] ELSE @[i]]]
            /\ fresh' = FALSE
       ELSE e' = Goto(e, "done") /\ started = {} /\ UNCHANGED fresh
    /\ UNCHANGED <<pools, unlocked, faults>>

\* The finally of kick().
CoordinatorEnds ==
    /\ At("done")
    /\ LET s == [e EXCEPT !.coordinator = Quiet, !.wakeRequested = FALSE]
       IN  e' = IF e.wakeRequested THEN Kick(s) ELSE s
    /\ UNCHANGED <<pools, unlocked, fresh, faults>>

----------------------------------------------------------------------------
(* Tasks and pools *)

\* A submission waits for the catalog to be complete.
TaskWaits(i) ==
    /\ e.tasks[i].on /\ ~e.tasks[i].gated /\ e.blocked # "no"
    /\ e' = [e EXCEPT !.tasks[i].gated = TRUE] /\ UNCHANGED <<pools, unlocked, fresh, faults>>

\* track(): a task ends, with a result, a retry warning, or a failure of the engine.
TaskEnds(i, outcome) ==
    /\ e.tasks[i].on /\ (e.tasks[i].gated => e.tasks[i].aborted \/ e.blocked = "no")
    /\ outcome \in {"helper", "unknown"} => faults < MaxFaults /\ (e.stopping # "no" \/ Halts(e))
    /\ faults' = IF outcome \in {"helper", "unknown"} THEN faults + 1 ELSE faults
    /\ LET s == CASE outcome = "ok" -> e
                  [] outcome = "retry" -> JobError(e)
                  [] OTHER -> Fatal(e, outcome)
       IN  e' = Kick([s EXCEPT !.tasks[i] = Idle])
    /\ fresh' = TRUE /\ UNCHANGED <<pools, unlocked>>

PoolStarts(g) == pools[g] = "starting" /\ pools' = [pools EXCEPT ![g] = "ready"] /\ UNCHANGED <<e, unlocked, fresh, faults>>

\* onFailure, also of a helper that dies while nothing is asked of it.
PoolFails(g) ==
    /\ pools[g] \in {"starting", "ready"} /\ faults < MaxFaults /\ (e.stopping # "no" \/ Halts(e))
    /\ pools' = [pools EXCEPT ![g] = "failed"] /\ faults' = faults + 1
    /\ e' = IF e.pool = g /\ e.enabled /\ ~e.paused THEN Fatal(e, "helper") ELSE e
    /\ UNCHANGED <<unlocked, fresh>>

\* Faulty variant: the pool is closed without waiting for it.
PoolGone_Any == TRUE

PoolGone == e.closing # None => pools[e.closing] = "closed"

\* close() of the pool ends, with every request of it settled.
PoolCloses ==
    /\ e.stopping = "close" /\ e.closing # None /\ pools[e.closing] # "closed"
    /\ pools' = [pools EXCEPT ![e.closing] = "closed"] /\ UNCHANGED <<e, unlocked, fresh, faults>>

Drains == e.stopping = "close" /\ PoolGone /\ e' = [e EXCEPT !.stopping = "drain"] /\ UNCHANGED <<pools, unlocked, fresh, faults>>

\* Faulty variant: the drain forgets the coordinator.
Drained_Tasks(s) == \A i \in Slots : ~s.tasks[i].on

Drained(s) == ~Busy(s)

\* The finally of halt().
HaltEnds ==
    /\ e.stopping = "drain" /\ Drained(e)
    /\ e' = [e EXCEPT !.stopping = "no", !.haltReason = "none", !.closing = None]
    /\ UNCHANGED <<pools, unlocked, fresh, faults>>

Coordinate == PumpBegins \/ PoolAwaited \/ PumpThrows \/ CoordinatorEnds \/ \E started \in SUBSET Slots : PumpLoops(started)

Next ==
    \/ Start \/ StopCall \/ Suspend \/ Resume \/ QueueChanges \/ TimerFires \/ RefreshFires
    \/ \E b \in {"no", "prepared", "all"} : SetCatalogBlocked(b)
    \/ \E u \in BOOLEAN : SetUnlocked(u)
    \/ Coordinate
    \/ \E i \in Slots : TaskWaits(i) \/ \E outcome \in {"ok", "retry", "helper", "unknown"} : TaskEnds(i, outcome)
    \/ \E g \in Gens : PoolStarts(g) \/ PoolFails(g)
    \/ PoolCloses \/ Drains \/ HaltEnds

Spec == Init /\ [][Next]_vars

\* Microtasks run, the interval fires, the pool starts or fails, close() ends, and a
\* cancelled task ends.  Nothing is assumed of tasks that were not cancelled.
FairSpec ==
    /\ Spec /\ WF_vars(Coordinate) /\ WF_vars(RefreshFires) /\ WF_vars(PoolCloses) /\ WF_vars(Drains) /\ WF_vars(HaltEnds)
    /\ \A g \in Gens : WF_vars(PoolStarts(g))
    /\ \A i \in Slots : WF_vars(e.tasks[i].aborted /\ TaskEnds(i, "ok"))

----------------------------------------------------------------------------
(* Properties *)

\* An engine that is off or suspended, and has finished stopping, does nothing: no task, no
\* coordinator and no helper of its own are left, whatever was in flight when it was told to.
StoppedIsQuiet ==
    e.stopping = "no" /\ (~e.enabled \/ e.paused) => ~Busy(e) /\ e.pool = None

\* There is one helper at a time: a new one starts only after the old one is closed.
OnePool == Cardinality({g \in Gens : pools[g] \in {"starting", "ready"}}) <= 1

\* The warning that a broadcast has an unknown outcome stays until the user starts again:
\* no retry, failure or late answer of the work that is drained replaces it.
UnknownStays == [][e.lastError = "unknown" => e'.lastError = "unknown" \/ Start]_vars

\* Until the first halt a change of the queue is looked at without waiting for the interval:
\* the pump is still to come, or is asked to run again.
PromptWake ==
    e.gen = 0 /\ fresh /\ ~Shut(e) /\ unlocked => e.coordinator.phase \in {"queued", "pool", "gate"} \/ e.wakeRequested

\* An engine that has stopped or is suspended does nothing and owns nothing, there is one helper at a
\* time, and until the first halt a change of the queue is looked at without waiting for the interval.
StopsClean == StoppedIsQuiet /\ OnePool /\ PromptWake

\* Every stop completes, also while work waits for a catalog that never comes.
HaltCompletes == [](e.stopping # "no" => <>(e.stopping = "no"))

\* A change of the queue is seen by a pump while the engine stays on: no wake-up is lost
\* between the coordinator, its timers, pauses and suspensions.
ChangesAreSeen == [](fresh => <>(~fresh \/ Shut(e) \/ ~unlocked))
=============================================================================
