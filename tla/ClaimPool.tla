----------------------------- MODULE ClaimPool -----------------------------
(***************************************************************************)
(* The connection to the claims helper process (ConnectionPool of          *)
(* src/core/claim-pool.mjs): one child process, a table of requests, one   *)
(* deadline per request, the admission gate and shutdown.                  *)
(*                                                                         *)
(* The helper is external: it reads its input in order, answers in an      *)
(* order of its own, starts attempts only while its gate is open, may send *)
(* a frame that has no place, stall or die.  A frame is handled when the   *)
(* helper acts: the time it spends in the output pipe cannot be told from  *)
(* a slower helper.  A deadline may fire at any time once it is armed.  A  *)
(* message is its type, its request and the field the handlers compare.    *)
(***************************************************************************)
EXTENDS Naturals, Sequences, FiniteSets

CONSTANTS
    MaxRequests,       \* bound: requests of one run
    Capacity,          \* max(512, concurrency + 2)
    ControlCapacity,   \* 32
    MaxFaults          \* bound: bad frames, failed writes

VARIABLES
    child,          \* "none", "alive", "exited", "closed" (its streams too)
    started, closing, failure, drainFailed,
    killed,         \* SIGKILL was sent
    req,            \* the requests by identity
    sequence, pendingStarts, admissionControls,
    admissionTarget, admissionPaused,
    stdin,          \* what the helper has not read yet
    helper,         \* its gate and the requests it has read and not answered
    faults

flags    == <<child, started, closing, failure, drainFailed, killed>>
table    == <<req, sequence, pendingStarts, admissionControls>>
gate     == <<admissionTarget, admissionPaused>>
vars     == <<flags, table, gate, stdin, helper, faults>>

Ids     == 1..MaxRequests
Kinds   == {"attempt", "resolve", "admission"}
Unused  == [status |-> "unused", kind |-> "resolve", allowed |-> FALSE, started |-> FALSE,
            capture |-> "none", timer |-> FALSE, aborted |-> FALSE]
Request == [status : {"unused", "open", "done", "proof", "aborted", "failed"}, kind : Kinds, allowed : BOOLEAN,
            started : BOOLEAN, capture : {"none", "yes", "no"}, timer : BOOLEAN, aborted : BOOLEAN]
Open    == {i \in Ids : req[i].status = "open"}
Waiting == {i \in Open : req[i].kind = "attempt" /\ ~req[i].started}
Controls == {i \in Open : req[i].kind = "admission"}
Idle     == [gate |-> TRUE, asked |-> {}]
Message(type, id, flag) == [type |-> type, id |-> id, flag |-> flag]

Init ==
    /\ child = "none" /\ started = FALSE /\ closing = FALSE /\ failure = FALSE
    /\ drainFailed = FALSE /\ killed = FALSE
    /\ req = [i \in Ids |-> Unused] /\ sequence = 0 /\ pendingStarts = 0 /\ admissionControls = 0
    /\ admissionTarget = TRUE /\ admissionPaused = FALSE
    /\ stdin = <<>> /\ helper = Idle
    /\ faults = 0

----------------------------------------------------------------------------
(* Settling *)

\* Faulty variant: a result that arrives during shutdown is delivered.
Settled_Delivers(outcome) == outcome

\* Closing cancels every request, whatever its result was.
Settled(outcome) == IF closing THEN "aborted" ELSE outcome

\* Faulty variant: a request that never started keeps its place in the pacing count.
NeverStarted_Kept(ids) == {}

\* The requests that leave pendingStarts when they are finished.
NeverStarted(ids) == ids \cap Waiting

\* finish(): out of the table, timer off, settled.
Finish(ids, outcome) ==
    /\ req' = [i \in Ids |-> IF i \in ids \cap Open
                 THEN [req[i] EXCEPT !.status = Settled(outcome), !.timer = FALSE] ELSE req[i]]
    /\ admissionControls' = admissionControls - Cardinality(ids \cap Controls)
    /\ pendingStarts' = pendingStarts - Cardinality(NeverStarted(ids))

Kill == killed' = (killed \/ child \in {"alive", "exited"})

\* fail(): everything is settled and the process killed, once; a failure during
\* shutdown only ends the draining.  What the helper still has is lost.
Fail ==
    IF failure \/ drainFailed
    THEN UNCHANGED <<failure, drainFailed, killed, req, admissionControls, pendingStarts, stdin, helper>>
    ELSE /\ failure' = ~closing /\ drainFailed' = closing
         /\ Finish(Ids, "failed")
         /\ Kill
         /\ stdin' = <<>> /\ helper' = Idle

----------------------------------------------------------------------------
(* Start and requests *)

\* start(): the process is spawned and told the options.
Start ==
    /\ child = "none" /\ ~closing
    /\ child' = "alive" /\ stdin' = <<Message("start", 0, TRUE)>>
    /\ UNCHANGED <<started, closing, failure, drainFailed, killed, table, gate, helper, faults>>

\* The process cannot be started: 'error', or an exception of spawn.
SpawnFails ==
    /\ child = "none" /\ ~closing /\ faults < MaxFaults
    /\ child' = "closed" /\ failure' = TRUE /\ faults' = faults + 1
    /\ UNCHANGED <<started, closing, drainFailed, killed, table, gate, stdin, helper>>

\* startTimer.
StartTimesOut ==
    /\ child = "alive" /\ ~started /\ ~closing /\ ~failure
    /\ Fail
    /\ UNCHANGED <<child, started, closing, sequence, gate, faults>>

\* Faulty variant: only the gate's acknowledgements are watched.
Deadline_Controls(kind) == kind = "admission"

\* A new attempt is watched unless admission is paused; the other kinds always.
Deadline(kind) == kind # "attempt" \/ ~admissionPaused

\* request(): entered in the table, its deadline armed, written.
Enter(kind, allowed, suspended) ==
    LET id == sequence + 1
    IN  /\ sequence' = id
        /\ req' = [i \in Ids |->
              IF i = id THEN [Unused EXCEPT !.status = "open", !.kind = kind, !.allowed = allowed, !.timer = Deadline(kind)]
              ELSE IF i \in suspended THEN [req[i] EXCEPT !.timer = FALSE] ELSE req[i]]
        /\ pendingStarts' = IF kind = "attempt" THEN pendingStarts + 1 ELSE pendingStarts
        /\ admissionControls' = IF kind = "admission" THEN admissionControls + 1 ELSE admissionControls
        /\ stdin' = IF child = "alive" THEN Append(stdin, Message(kind, id, allowed)) ELSE stdin

Usable == started /\ ~closing /\ ~failure

\* Faulty variant: one request too many.
Room_OffByOne == Cardinality(Open) - admissionControls <= Capacity

\* The request capacity leaves the gate's own requests out.
Room == Cardinality(Open) - admissionControls < Capacity

\* attempt() and resolve() within the capacity.
Ask(kind) ==
    /\ Usable /\ sequence < MaxRequests
    /\ Room
    /\ Enter(kind, FALSE, {})
    /\ UNCHANGED <<flags, gate, helper, faults>>

\* The caller's signal: the request stays until it is answered.  The cancel that is
\* written only makes the helper answer sooner, which it may anyway.
Abort(i) ==
    /\ i \in Open /\ req[i].kind # "admission" /\ ~req[i].aborted
    /\ req' = [req EXCEPT ![i].aborted = TRUE]
    /\ UNCHANGED <<flags, sequence, pendingStarts, admissionControls, gate, stdin, helper, faults>>

\* The input pipe is full or broken.
WriteFails ==
    /\ started /\ ~closing /\ ~failure /\ faults < MaxFaults
    /\ faults' = faults + 1 /\ Fail
    /\ UNCHANGED <<child, started, closing, sequence, gate>>

\* A deadline fires.
TimesOut(i) ==
    /\ i \in Open /\ req[i].timer
    /\ Fail
    /\ UNCHANGED <<child, started, closing, sequence, gate, faults>>

----------------------------------------------------------------------------
(* Admission *)

\* Faulty variant: no request while another one is unanswered.
Sends_Coalesced == Controls = {}

\* Every change of the target is sent.
Sends == TRUE

\* setAdmissionAllowed() with a new target; a pause suspends the start deadlines.
SetAdmissionAllowed(allowed) ==
    /\ Usable /\ admissionTarget # allowed /\ (Sends => sequence < MaxRequests)
    /\ admissionControls < ControlCapacity
    /\ admissionTarget' = allowed
    /\ admissionPaused' = (admissionPaused \/ ~allowed)
    /\ IF Sends THEN Enter("admission", allowed, IF allowed THEN {} ELSE Waiting)
                ELSE UNCHANGED <<table, stdin>>
    /\ UNCHANGED <<flags, helper, faults>>

\* Too many controls without an answer: the helper has failed.
ControlOverflow(allowed) ==
    /\ Usable /\ admissionTarget # allowed /\ admissionControls >= ControlCapacity
    /\ admissionTarget' = allowed
    /\ admissionPaused' = (admissionPaused \/ ~allowed)
    /\ Fail
    /\ UNCHANGED <<child, started, closing, sequence, faults>>

----------------------------------------------------------------------------
(* receive() *)

\* Faulty variant: every acknowledged resume ends the pause.
Resumes_Any(m) == m.flag

\* An acknowledgement ends the pause only if no later one was asked for.
Resumes(m) == m.flag /\ admissionTarget

\* Faulty variant: the deadlines a pause suspended stay off.
Arm_Nothing(ids) == req

\* armStartDeadline() for these requests.
Arm(ids) == [i \in Ids |-> IF i \in ids THEN [req[i] EXCEPT !.timer = TRUE] ELSE req[i]]

\* What a frame must look like to be the next answer to its request.
InPlace(m) ==
    LET r == req[m.id]
    IN  /\ m.id \in Open
        /\ CASE m.type = "admission" -> r.kind = "admission" /\ m.flag = r.allowed
             [] m.type = "resolved"  -> r.kind = "resolve"
             [] m.type = "started"   -> r.kind = "attempt" /\ ~r.started /\ r.capture = "none"
             [] m.type = "capture"   -> r.kind = "attempt" /\ r.started /\ r.capture = "none"
             [] m.type = "blocked"   -> r.kind = "attempt" /\ ~r.started
             [] m.type = "proof"     -> r.kind = "attempt" /\ r.capture = "yes"
             [] m.type = "noproof"   -> r.kind = "attempt" /\ r.capture # "none"
             [] OTHER                -> FALSE

\* How a final answer settles its request.
Outcome(m) == CASE req[m.id].aborted -> "aborted"
                [] ~req[m.id].aborted /\ m.type = "proof" -> "proof"
                [] OTHER -> "done"

\* receive(): the handler of one frame; stdin and helper are the sender's.
Receive(m) ==
    CASE m.type = "ready" /\ ~started ->
             started' = TRUE /\ UNCHANGED <<child, closing, failure, drainFailed, killed, table, gate>>
      [] m.type = "started" /\ InPlace(m) ->
             /\ pendingStarts' = pendingStarts - 1
             /\ req' = [req EXCEPT ![m.id].started = TRUE, ![m.id].timer = TRUE]
             /\ UNCHANGED <<flags, sequence, admissionControls, gate>>
      [] m.type = "capture" /\ InPlace(m) ->
             /\ req' = [req EXCEPT ![m.id].capture = IF m.flag THEN "yes" ELSE "no"]
             /\ UNCHANGED <<flags, sequence, pendingStarts, admissionControls, gate>>
      [] m.type = "admission" /\ InPlace(m) ->
             /\ admissionPaused' = (admissionPaused /\ ~Resumes(m))
             /\ req' = [Arm(IF Resumes(m) THEN Waiting ELSE {}) EXCEPT
                          ![m.id].status = Settled("done"), ![m.id].timer = FALSE]
             /\ admissionControls' = admissionControls - 1
             /\ UNCHANGED <<flags, sequence, pendingStarts, admissionTarget>>
      [] m.type \in {"resolved", "blocked", "noproof", "proof"} /\ InPlace(m) ->
             /\ Finish({m.id}, Outcome(m))
             /\ UNCHANGED <<flags, sequence, gate>>

----------------------------------------------------------------------------
(* Shutdown *)

\* close().
Close ==
    /\ ~closing
    /\ closing' = TRUE
    /\ stdin' = IF child = "alive" /\ ~failure THEN Append(stdin, Message("shutdown", 0, TRUE)) ELSE stdin
    /\ killed' = (killed \/ (failure /\ child \in {"alive", "exited"}))
    /\ UNCHANGED <<child, started, failure, drainFailed, table, gate, helper, faults>>

\* killTimer.
KillTimesOut ==
    /\ closing /\ child \in {"alive", "exited"} /\ ~killed
    /\ Kill
    /\ UNCHANGED <<child, started, closing, failure, drainFailed, table, gate, stdin, helper, faults>>

\* Faulty variant: the end of the process settles nothing once shutdown began.
Unanswered_None == {}

\* The requests the end of the process settles.
Unanswered == Open

\* 'close': the process has ended.
ProcessClosed ==
    /\ child = "exited"
    /\ child' = "closed"
    /\ IF closing THEN Finish(Unanswered, "aborted") /\ UNCHANGED <<failure, drainFailed, killed, stdin, helper>> ELSE Fail
    /\ UNCHANGED <<started, closing, sequence, gate, faults>>

----------------------------------------------------------------------------
(* The helper *)

Runs == child = "alive" /\ ~killed

\* It reads its input in order and acknowledges the start and the gate.
HelperReads ==
    /\ Runs /\ stdin # <<>>
    /\ LET m == Head(stdin)
       IN  /\ stdin' = Tail(stdin)
           /\ helper' = CASE m.type \in {"attempt", "resolve"} -> [helper EXCEPT !.asked = @ \cup {m.id}]
                          [] m.type = "admission" -> [helper EXCEPT !.gate = m.flag]
                          [] OTHER -> helper
           /\ CASE m.type = "start"     -> Receive(Message("ready", 0, TRUE))
                [] m.type = "admission" -> Receive(m)
                [] m.type = "shutdown"  -> child' = "exited" /\ UNCHANGED <<started, closing, failure, drainFailed, killed, table, gate>>
                [] OTHER -> UNCHANGED <<flags, table, gate>>
    /\ UNCHANGED faults

\* It starts an attempt, reports its capture, or answers.
HelperSends(i, type) ==
    /\ Runs /\ i \in helper.asked
    /\ CASE type = "started" -> helper.gate
         [] type = "blocked" -> TRUE
         [] OTHER -> req[i].kind = "attempt" => req[i].started
    /\ \E flag \in IF type = "capture" THEN BOOLEAN ELSE {TRUE} :
         InPlace(Message(type, i, flag)) /\ Receive(Message(type, i, flag))
    /\ helper' = IF type \in {"started", "capture"} THEN helper ELSE [helper EXCEPT !.asked = @ \ {i}]
    /\ UNCHANGED <<stdin, faults>>

\* A frame that has no place: an unknown or answered request, a repeated start, a
\* result without its capture, an error.
BadFrame ==
    /\ Runs /\ faults < MaxFaults /\ faults' = faults + 1
    /\ Fail
    /\ UNCHANGED <<child, started, closing, sequence, gate>>

\* It ends, by itself or killed.
HelperExits ==
    /\ child = "alive" /\ (killed \/ faults < MaxFaults)
    /\ faults' = IF killed THEN faults ELSE faults + 1
    /\ child' = "exited"
    /\ UNCHANGED <<started, closing, failure, drainFailed, killed, table, gate, stdin, helper>>

Next ==
    \/ Start \/ SpawnFails \/ StartTimesOut \/ WriteFails
    \/ \E kind \in {"attempt", "resolve"} : Ask(kind)
    \/ \E i \in Ids : Abort(i) \/ TimesOut(i)
    \/ \E i \in Ids, type \in {"started", "capture", "resolved", "blocked", "noproof", "proof"} : HelperSends(i, type)
    \/ \E allowed \in BOOLEAN : SetAdmissionAllowed(allowed) \/ ControlOverflow(allowed)
    \/ Close \/ KillTimesOut \/ ProcessClosed \/ HelperReads \/ BadFrame \/ HelperExits

Spec == Init /\ [][Next]_vars

\* Timers fire, and a killed process ends.
Fairness ==
    /\ \A i \in Ids : WF_vars(TimesOut(i))
    /\ WF_vars(KillTimesOut) /\ WF_vars(ProcessClosed)
    /\ WF_vars(HelperExits /\ killed)

FairSpec == Spec /\ Fairness
----------------------------------------------------------------------------
(* Properties *)

TypeOK ==
    /\ child \in {"none", "alive", "exited", "closed"}
    /\ {started, closing, failure, drainFailed, killed, admissionTarget, admissionPaused} \subseteq BOOLEAN
    /\ req \in [Ids -> Request] /\ sequence \in 0..MaxRequests
    /\ pendingStarts \in 0..MaxRequests /\ admissionControls \in 0..ControlCapacity
    /\ faults \in 0..MaxFaults
    /\ Cardinality(Open \ Controls) <= Capacity

\* The two counters that size the start deadlines and the request capacity are what
\* the table holds, however requests start, end, fail or are cancelled.
CountersMatch ==
    /\ pendingStarts = Cardinality(Waiting)
    /\ admissionControls = Cardinality(Controls)

\* No request can wait on a stalled helper unnoticed: its own deadline is armed, or it
\* waits to start during a pause that was asked for or whose end is itself watched.
Watched ==
    \A i \in Open :
        \/ req[i].timer
        \/ /\ i \in Waiting /\ admissionPaused
           /\ ~admissionTarget \/ \E c \in Controls : req[c].allowed /\ req[c].timer

\* A pause is no failure: an attempt that has not started is timed only while the
\* helper may start it.
PauseIsNotTimed == ~admissionTarget => \A i \in Waiting : ~req[i].timer

\* Once a pause is acknowledged nothing starts until a resume is asked for.
StartsInTurn == \A i \in Ids : ~req[i].started /\ req'[i].started => admissionTarget \/ Controls # {}
PauseHolds == [][StartsInTurn]_vars

\* After close() no request delivers a result, and a cancelled one never a proof.
AnsweredInTime ==
    \A i \in Ids : req[i].status = "open" /\ req'[i].status \in {"done", "proof"}
          => ~closing /\ (req[i].kind = "attempt" => ~req[i].aborted)
NoLateProof == [][AnsweredInTime]_vars

\* Shutdown ends: the process is gone and every caller has its answer.
ShutdownSettles == closing /\ child # "none" ~> child = "closed" /\ Open = {}

\* Every request is settled or waits for a pause to end.
RequestsSettle == \A i \in Ids : i \in Open ~> i \notin Open \/ (admissionPaused /\ i \in Waiting)
=============================================================================
