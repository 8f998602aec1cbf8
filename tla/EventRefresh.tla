---------------------------- MODULE EventRefresh ----------------------------
(***************************************************************************)
(* EventRefresh (src/core/event-refresh.mjs): coalesces invalidations and  *)
(* reruns an asynchronous read for the ones that arrive during it.         *)
(*                                                                         *)
(* The read itself (`run') is abstract here: it takes any time and ends in *)
(* success, in an AbortError or in a failure.  The length of a delay       *)
(* (delayMs, or the exponential retry) is abstract too: a timer fires some *)
(* time after it is armed.                                                 *)
(***************************************************************************)
VARIABLES
    active,    \* isActive(): unlocked, and this connection is the service's
    closed,    \* close() was called
    dirty,     \* an invalidation no read has started for
    running,   \* a read is in progress
    timer      \* the timer is armed

vars == <<active, closed, dirty, running, timer>>

Init ==
    /\ active \in BOOLEAN
    /\ closed = FALSE /\ dirty = FALSE /\ running = FALSE /\ timer = FALSE

\* The owner unlocks.
Activate ==
    /\ ~closed
    /\ active' = TRUE
    /\ UNCHANGED <<closed, dirty, running, timer>>

\* request(): an invalidation.
Request ==
    /\ active /\ ~closed
    /\ dirty' = TRUE
    /\ timer' = (timer \/ ~running)
    /\ UNCHANGED <<active, closed, running>>

\* The timer's callback: drain() up to the start of the read.
Drain ==
    /\ timer
    /\ timer' = FALSE
    /\ running' = (running \/ (active /\ dirty))
    /\ dirty' = (dirty /\ (running \/ ~active))
    /\ UNCHANGED <<active, closed>>

\* The read succeeds or is cancelled: only invalidations that came meanwhile count.
Finish ==
    /\ running
    /\ running' = FALSE
    /\ timer' = (timer \/ (dirty /\ active))
    /\ UNCHANGED <<active, closed, dirty>>

\* The read fails: it is owed again.
Fail ==
    /\ running
    /\ running' = FALSE
    /\ dirty' = (dirty \/ active)
    /\ timer' = (timer \/ active)
    /\ UNCHANGED <<active, closed>>

\* close(), when the wallet locks or its connection is replaced.
Close ==
    /\ closed' = TRUE
    /\ active' = FALSE
    /\ dirty' = FALSE
    /\ timer' = FALSE
    /\ UNCHANGED running

Next == Activate \/ Request \/ Drain \/ Finish \/ Fail \/ Close

Spec == Init /\ [][Next]_vars
----------------------------------------------------------------------------
TypeOK == /\ active \in BOOLEAN /\ closed \in BOOLEAN
          /\ dirty \in BOOLEAN /\ running \in BOOLEAN /\ timer \in BOOLEAN

\* No invalidation is stranded: while the owner is active, one that no read has
\* started for always has a read or a timer that will look at it again.
NoStrandedEvent == active /\ dirty => running \/ timer

\* "Success never schedules a poll": a timer is armed only for an invalidation or
\* a failure, and never beside a read.
NoPolling == timer => dirty /\ ~running
=============================================================================
