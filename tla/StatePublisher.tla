--------------------------- MODULE StatePublisher ---------------------------
(***************************************************************************)
(* What the desktop wallet tells its window (src/core/state-publisher.mjs  *)
(* and emitState of wallet-service.mjs).  A change that matters at once is *)
(* published at once; the others wait until the interval since the last    *)
(* publication is over.  No snapshot is kept meanwhile: the one published  *)
(* is made when it is due.                                                 *)
(***************************************************************************)
EXTENDS Integers

CONSTANTS
    Interval,     \* intervalMs
    MaxTime,      \* bound: the clock
    MaxChanges,   \* bound: changes of the wallet's state
    None

VARIABLES
    version,      \* changes so far
    priority,     \* the part of the state whose change is urgent
    statePriority,\* its value at the last emitState
    shown,        \* the version published last, and its urgent part
    lastPublished, timer, closed,
    now

Shown == [version : Int, priority : {0, 1}]

vars == <<version, priority, statePriority, shown, lastPublished, timer, closed, now>>

Init ==
    /\ version = 0 /\ priority = 0 /\ statePriority = None /\ shown = None
    /\ lastPublished = None /\ timer = None /\ closed = FALSE /\ now = 0

\* What is left of the interval.
Remaining == IF lastPublished = None THEN 0 ELSE Interval - (now - lastPublished)

\* publishNow, with what the state is then.
Publish(v, p) == lastPublished' = now /\ shown' = [version |-> v, priority |-> p]

\* Faulty variant: a change that is not urgent cancels the publication that waits.
Deferred_Cancels == IF timer = None THEN now + Remaining ELSE None

Deferred == IF timer = None THEN now + Remaining ELSE timer

\* request
Request(immediate, v, p) ==
    \/ closed /\ UNCHANGED <<shown, lastPublished, timer>>
    \/ ~closed /\ (immediate \/ Remaining <= 0) /\ timer' = None /\ Publish(v, p)
    \/ /\ ~closed /\ ~immediate /\ Remaining > 0
       /\ timer' = Deferred /\ UNCHANGED <<shown, lastPublished>>

\* A change of the state and the emitState that follows it.
Change ==
    /\ version < MaxChanges /\ version' = version + 1
    /\ priority' \in {0, 1}
    /\ Request(statePriority = None \/ priority' # statePriority, version', priority')
    /\ statePriority' = priority'
    /\ UNCHANGED <<closed, now>>

TimerFires ==
    /\ timer # None /\ now >= timer /\ timer' = None
    /\ Publish(version, priority)
    /\ UNCHANGED <<version, priority, statePriority, closed, now>>

\* close, when the application quits.
Close ==
    /\ closed' = TRUE /\ timer' = None
    /\ UNCHANGED <<version, priority, statePriority, shown, lastPublished, now>>

\* Timers may be late.
Tick ==
    /\ now < MaxTime /\ now' = now + 1
    /\ UNCHANGED <<version, priority, statePriority, shown, lastPublished, timer, closed>>

Next == Change \/ TimerFires \/ Close \/ Tick

Spec == Init /\ [][Next]_vars

----------------------------------------------------------------------------
\* What the window does not show yet is due within an interval of what it shows, and the urgent
\* part is never behind, until the application quits.
NothingWithheld ==
    ~closed /\ version > 0 =>
        /\ shown.priority = priority
        /\ shown.version = version \/ (timer # None /\ timer <= lastPublished + Interval)
=============================================================================
