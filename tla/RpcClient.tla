----------------------------- MODULE RpcClient -----------------------------
(***************************************************************************)
(* The wallet's shared TCP JSON-RPC client (src/core/rpc.mjs).             *)
(*                                                                         *)
(* Every member of Requests is one call of RpcClient.request().  A call    *)
(* is an async function: `pc' is the await it is suspended at, and each    *)
(* action below is one synchronous turn of the event loop, so the actions  *)
(* interleave exactly where the code awaits.                               *)
(*                                                                         *)
(*   idle      not called yet          waiting   in capacityWaiters        *)
(*   pace      first quota wait        granted   slot promise resolved,    *)
(*   connect   awaiting `connecting'             continuation not run yet  *)
(*   connected connect() resolved,     repace    quota wait of the loop,   *)
(*             continuation not run              holding no slot           *)
(*   sent      written, awaiting the reply or the end of the stream        *)
(*   done      the promise returned to the caller is settled               *)
(*                                                                         *)
(* Time is relative: a quota charge and a cooldown are the ticks they have *)
(* left, so no clock value grows without bound.                            *)
(***************************************************************************)
EXTENDS Integers, FiniteSets

CONSTANTS
    Requests,     \* calls of request()
    MethodOf,     \* the method of each call
    Slots,        \* in-flight ceiling (12 in drainCapacity)
    MaxQueued,    \* outstanding calls accepted (32 in request)
    Limit,        \* per-method writes accepted in one quota window
    Window,       \* length of the quota window, in ticks
    MaxCooldown,  \* longest retry_after_ms the server asks for, in ticks
    MaxSockets    \* bound: connections one behaviour may open

Methods == {"read", "send", "stream"}   \* "send" is sendrawtransaction
Sockets == 1..MaxSockets
NoSocket == 0

ASSUME RequestsFinite == IsFiniteSet(Requests)
ASSUME MethodOfType == MethodOf \in [Requests -> Methods]
ASSUME BoundsType ==
    /\ Slots \in Nat \ {0}
    /\ MaxQueued \in Nat
    /\ Limit \in [Methods -> Nat \ {0}]
    /\ Window \in Nat \ {0}
    /\ MaxCooldown \in Nat
    /\ MaxSockets \in Nat

VARIABLES
    pc, outcome, aborted,                       \* per call
    sock,                                       \* the socket a call got from connect()
    pending, streams, abandoned, phase,         \* in-flight maps
    capacityWaiters, ahead,                     \* slot queue: who waits, and behind whom
    capacityReservations,
    history, cooldowns,                         \* local quota, server cooldowns
    socket, sstate, connecting, closed,         \* connection
    wire, age,                                  \* ghost: socket each call was written on, and ticks since
    announced                                   \* ghost: per socket, 'connected' and 'disconnected' events

callVars   == <<pc, outcome>>
slotVars   == <<pending, streams, capacityWaiters, ahead, capacityReservations>>
streamVars == <<abandoned, phase>>
quotaVars  == <<history, cooldowns>>
connVars   == <<socket, sstate, connecting, closed>>
ghostVars  == <<wire, age, announced>>
vars == <<callVars, aborted, sock, slotVars, streamVars, quotaVars, connVars, ghostVars>>

Phases   == {"idle", "pace", "connect", "connected", "waiting", "granted", "repace", "sent", "done"}
\* How request() settles: "cancelled" and "unsent" carry notSent (the first is an
\* AbortError), "lost" is a transport failure after the write, "unknown" carries
\* unknownOutcome, "stopped" is a stream its own consumer cancelled.
Outcomes == {"none", "ok", "refused", "notForwarded", "cancelled", "unsent", "lost", "unknown", "stopped"}

Init ==
    /\ pc = [r \in Requests |-> "idle"]
    /\ outcome = [r \in Requests |-> "none"]
    /\ aborted = {}
    /\ sock = [r \in Requests |-> NoSocket]
    /\ pending = {} /\ streams = {} /\ abandoned = {}
    /\ phase = [r \in Requests |-> "snapshot"]
    /\ capacityWaiters = {} /\ capacityReservations = 0
    /\ ahead = [r \in Requests |-> {}]
    /\ history = [r \in Requests |-> 0]
    /\ cooldowns = [k \in Methods \cup {"*"} |-> 0]
    /\ socket = NoSocket /\ connecting = NoSocket /\ closed = FALSE
    /\ sstate = [s \in Sockets |-> "unused"]
    /\ wire = [r \in Requests |-> NoSocket]
    /\ age = [r \in Requests |-> 0]
    /\ announced = [s \in Sockets |-> [connected |-> 0, disconnected |-> 0]]

----------------------------------------------------------------------------
(* Capacity *)

InFlight(pend, strm, resv) == Cardinality(pend) + Cardinality(strm) + resv

\* A waiter drainCapacity may grant: its signal is live and its socket current.
Alive(r) ==
    /\ r \notin aborted
    /\ ~closed
    /\ sock[r] = socket
    /\ sock[r] # NoSocket
    /\ sstate[sock[r]] = "open"

\* How a call that was never written settles when drainCapacity or its own
\* continuation finds it dead.
DeadOutcome(r) == IF r \in aborted \/ closed THEN "cancelled" ELSE "unsent"

\* Faulty variant: the newest waiter is served first.
Serve_Lifo(order, q, free, resv, pc0, out0) ==
    LET served == {r \in q : Alive(r) /\ free > 0 /\ \A w \in q \ {r} : w \in order[r]}
    IN  /\ capacityWaiters' = q \ served
        /\ ahead' = order
        /\ capacityReservations' = resv + Cardinality(served)
        /\ pc' = [r \in Requests |-> IF r \in served THEN "granted" ELSE pc0[r]]
        /\ outcome' = out0

\* The loop of drainCapacity() over the waiters q, queued in this order, with
\* `free' slots.  It pops from the front: dead heads fail, live heads take the free
\* slots, and it stops at the first live waiter that finds no slot.
Serve(order, q, free, resv, pc0, out0) ==
    \E popped \in SUBSET q :
        LET granted == {r \in popped : Alive(r)}
            failed  == popped \ granted
        IN  /\ \A r \in popped : order[r] \cap q \subseteq popped
            /\ Cardinality(granted) <= free
            /\ \A r \in q \ popped :
                  order[r] \cap q \subseteq popped => Alive(r) /\ Cardinality(granted) = free
            /\ capacityWaiters' = q \ popped
            /\ ahead' = [r \in Requests |-> IF r \in q \ popped THEN order[r] \cap (q \ popped) ELSE {}]
            /\ capacityReservations' = resv + Cardinality(granted)
            /\ pc' = [r \in Requests |->
                        IF r \in granted THEN "granted" ELSE
                        IF r \in failed  THEN "done"    ELSE pc0[r]]
            /\ outcome' = [r \in Requests |-> IF r \in failed THEN DeadOutcome(r) ELSE out0[r]]

\* Faulty variant: granted calls that have not written yet are not counted.
DrainQueue_IgnoresReservations(order, q, pend, strm, resv, pc0, out0) ==
    /\ Serve(order, q, Slots - InFlight(pend, strm, 0), resv, pc0, out0)
    /\ pending' = pend
    /\ streams' = strm

\* drainCapacity(), once the slot owners are pend, strm and resv reservations.
DrainQueue(order, q, pend, strm, resv, pc0, out0) ==
    /\ Serve(order, q, Slots - InFlight(pend, strm, resv), resv, pc0, out0)
    /\ pending' = pend
    /\ streams' = strm

\* drainCapacity() where nobody joins the queue.
Drain(q, pend, strm, resv, pc0, out0) == DrainQueue(ahead, q, pend, strm, resv, pc0, out0)

\* A call settles without touching the slots.
Settle(r, o) ==
    /\ pc' = [pc EXCEPT ![r] = "done"]
    /\ outcome' = [outcome EXCEPT ![r] = o]
    /\ UNCHANGED slotVars

\* Faulty variant: the release closure runs twice.
Release_Twice(r, next, o) ==
    Drain(capacityWaiters, pending, streams, capacityReservations - 2,
          [pc EXCEPT ![r] = next], [outcome EXCEPT ![r] = o])

\* releaseCapacity() of a granted call that continues at pc `next' with outcome o.
Release(r, next, o) ==
    Drain(capacityWaiters, pending, streams, capacityReservations - 1,
          [pc EXCEPT ![r] = next], [outcome EXCEPT ![r] = o])

----------------------------------------------------------------------------
(* Quota *)

\* The entries of a method's quota window.
Charged(m) == {r \in Requests : MethodOf[r] = m /\ history[r] > 0}

\* Faulty variant: the server-wide cooldown (-32001) is not consulted.
QuotaFree_MethodOnly(r) ==
    /\ cooldowns[MethodOf[r]] = 0
    /\ Cardinality(Charged(MethodOf[r])) < Limit[MethodOf[r]]

\* quotaWait() returns 0: no cooldown is running and the window has room.
QuotaFree(r) ==
    /\ cooldowns[MethodOf[r]] = 0
    /\ cooldowns["*"] = 0
    /\ Cardinality(Charged(MethodOf[r])) < Limit[MethodOf[r]]

\* quotaWait(..., {reserve: true}) of a write.
Charge(r) == history' = [history EXCEPT ![r] = Window]

\* Time passes: charges leave the window, cooldowns run out.
Tick ==
    /\ \/ \E r \in Requests : history[r] > 0
       \/ \E k \in DOMAIN cooldowns : cooldowns[k] > 0
    /\ history' = [r \in Requests |-> IF history[r] > 0 THEN history[r] - 1 ELSE 0]
    /\ cooldowns' = [k \in DOMAIN cooldowns |-> IF cooldowns[k] > 0 THEN cooldowns[k] - 1 ELSE 0]
    /\ age' = [r \in Requests |-> IF wire[r] # NoSocket /\ age[r] < Window THEN age[r] + 1 ELSE age[r]]
    /\ UNCHANGED <<callVars, aborted, sock, slotVars, streamVars, connVars, wire, announced>>

----------------------------------------------------------------------------
(* request(): the caller's side *)

Outstanding == {r \in Requests : pc[r] \notin {"idle", "done"}}

\* request() up to its first await.
Call(r) ==
    /\ pc[r] = "idle"
    /\ \/ /\ r \in aborted \/ closed
          /\ Settle(r, "cancelled")
       \/ /\ r \notin aborted /\ ~closed
          /\ Cardinality(Outstanding) >= MaxQueued
          /\ Settle(r, "unsent")
       \/ /\ r \notin aborted /\ ~closed
          /\ Cardinality(Outstanding) < MaxQueued
          /\ pc' = [pc EXCEPT ![r] = "pace"]
          /\ UNCHANGED <<outcome, slotVars>>
    /\ UNCHANGED <<aborted, sock, streamVars, quotaVars, connVars, ghostVars>>

\* this.socket after connect() published the loss of a destroyed socket.
SocketAfterPublish == IF socket # NoSocket /\ sstate[socket] = "destroyed" THEN NoSocket ELSE socket

\* connect() can hand out this.socket at once.
UsableSocket == socket # NoSocket /\ sstate[socket] = "open"

\* publishDisconnection(): the 'disconnected' event of socket s.
PublishDisconnection(s) ==
    IF socket = s
    THEN /\ socket' = NoSocket
         /\ announced' = [announced EXCEPT ![s].disconnected = @ + 1]
    ELSE UNCHANGED <<socket, announced>>

\* Faulty variant: connect() replaces a destroyed socket in silence.
AnnounceInConnect_Silent == UNCHANGED announced

\* connect() publishes the loss of a destroyed socket before it goes on.
AnnounceInConnect ==
    announced' = IF SocketAfterPublish = socket THEN announced
                 ELSE [announced EXCEPT ![socket].disconnected = @ + 1]

\* The end of pace() and the synchronous part of connect().
PaceThenConnect(r) ==
    /\ pc[r] = "pace"
    /\ QuotaFree(r)
    /\ AnnounceInConnect
    /\ \/ /\ UsableSocket
          /\ sock' = [sock EXCEPT ![r] = socket]
          /\ pc' = [pc EXCEPT ![r] = "connected"]
          /\ UNCHANGED connVars
       \/ /\ ~UsableSocket
          /\ connecting # NoSocket
          /\ sock' = [sock EXCEPT ![r] = connecting]
          /\ pc' = [pc EXCEPT ![r] = "connect"]
          /\ socket' = SocketAfterPublish
          /\ UNCHANGED <<sstate, connecting, closed>>
       \/ /\ ~UsableSocket
          /\ connecting = NoSocket
          /\ \E s \in Sockets :
               /\ \A t \in Sockets : sstate[t] = "unused" <=> t >= s
               /\ sstate' = [sstate EXCEPT ![s] = "connecting"]
               /\ socket' = s
               /\ connecting' = s
               /\ sock' = [sock EXCEPT ![r] = s]
          /\ pc' = [pc EXCEPT ![r] = "connect"]
          /\ UNCHANGED closed
    /\ UNCHANGED <<outcome, aborted, slotVars, streamVars, quotaVars, wire, age>>

\* waitForCapacity(), from the resolved connection or after the loop's quota wait.
WaitForCapacity(r) ==
    /\ \/ pc[r] = "connected"
       \/ pc[r] = "repace" /\ QuotaFree(r)
    /\ DrainQueue([ahead EXCEPT ![r] = capacityWaiters], capacityWaiters \cup {r},
                  pending, streams, capacityReservations, [pc EXCEPT ![r] = "waiting"], outcome)
    /\ UNCHANGED <<aborted, sock, streamVars, quotaVars, connVars, ghostVars>>

\* Faulty variant: the error path forgets its slot.
GrantRevoked_KeepsSlot(r) ==
    /\ pc[r] = "granted"
    /\ ~Alive(r)
    /\ Settle(r, DeadOutcome(r))
    /\ UNCHANGED <<aborted, sock, streamVars, quotaVars, connVars, ghostVars>>

\* The rechecks after the slot wait fail: the slot goes back, nothing was written.
GrantRevoked(r) ==
    /\ pc[r] = "granted"
    /\ ~Alive(r)
    /\ Release(r, "done", DeadOutcome(r))
    /\ UNCHANGED <<aborted, sock, streamVars, quotaVars, connVars, ghostVars>>

\* Faulty variant: the call goes back to pacing and keeps its slot.
GrantThrottled_KeepsSlot(r) ==
    /\ pc[r] = "granted"
    /\ Alive(r)
    /\ ~QuotaFree(r)
    /\ pc' = [pc EXCEPT ![r] = "repace"]
    /\ UNCHANGED <<outcome, slotVars, aborted, sock, streamVars, quotaVars, connVars, ghostVars>>

\* Quota ran out or a cooldown began during the slot wait.
GrantThrottled(r) ==
    /\ pc[r] = "granted"
    /\ Alive(r)
    /\ ~QuotaFree(r)
    /\ Release(r, "repace", "none")
    /\ UNCHANGED <<aborted, sock, streamVars, quotaVars, connVars, ghostVars>>

\* Faulty variant: quota is reserved before the fence is asked.
GrantRefused_Charged(r) ==
    /\ pc[r] = "granted"
    /\ Alive(r)
    /\ QuotaFree(r)
    /\ Charge(r)
    /\ \E o \in {"cancelled", "unsent"} : Release(r, "done", o)
    /\ UNCHANGED <<aborted, sock, streamVars, cooldowns, connVars, ghostVars>>

\* beforeSend throws, or a local limit (identifier, frame, quota map) refuses.
GrantRefused(r) ==
    /\ pc[r] = "granted"
    /\ Alive(r)
    /\ QuotaFree(r)
    /\ \E o \in {"cancelled", "unsent"} : Release(r, "done", o)
    /\ UNCHANGED <<aborted, sock, streamVars, quotaVars, connVars, ghostVars>>

\* Charge the quota, enter `pending', release the reservation and write: one
\* turn, no await and no callback in between.
Write(r) ==
    /\ Charge(r)
    /\ Drain(capacityWaiters, pending \cup {r}, streams, capacityReservations - 1,
             [pc EXCEPT ![r] = "sent"], outcome)
    /\ wire' = [wire EXCEPT ![r] = sock[r]]
    /\ age' = [age EXCEPT ![r] = 0]
    /\ UNCHANGED <<aborted, sock, streamVars, cooldowns, connVars, announced>>

\* Faulty variant: the write trusts what was checked before the slot wait.
Transmit_StaleSignal(r) == pc[r] = "granted" /\ QuotaFree(r) /\ Write(r)

\* All fences pass again after the slot wait.
Transmit(r) ==
    /\ pc[r] = "granted"
    /\ Alive(r)
    /\ QuotaFree(r)
    /\ Write(r)

\* The caller aborts its signal.  After the write an abort changes nothing.
Abort(r) ==
    /\ r \notin aborted
    /\ pc[r] # "done"
    /\ aborted' = aborted \cup {r}
    /\ CASE pc[r] \in {"pace", "connect", "repace"} -> Settle(r, "cancelled")
         [] pc[r] = "waiting" ->
              Drain(capacityWaiters \ {r}, pending, streams, capacityReservations,
                    [pc EXCEPT ![r] = "done"], [outcome EXCEPT ![r] = "cancelled"])
         [] OTHER -> UNCHANGED <<callVars, slotVars>>
    /\ UNCHANGED <<sock, streamVars, quotaVars, connVars, ghostVars>>

----------------------------------------------------------------------------
(* The connection *)

\* Faulty variant: the loss of the connection is reported as an ordinary failure.
LossError_Plain(r) == "lost"

\* lossError(): a written broadcast never reports a plain failure.
LossError(r) == IF MethodOf[r] = "send" THEN "unknown" ELSE "lost"

\* failAll(error, s): reject what socket s carries and what queued for it.
FailAll(s, pc0, out0) ==
    LET carried == {r \in pending \cup streams : sock[r] = s}
        lost    == carried \ abandoned
        queued  == {r \in capacityWaiters : sock[r] = s}
    IN  Drain({w \in capacityWaiters : sock[w] # s},
              pending \ carried, streams \ carried, capacityReservations,
              [r \in Requests |-> IF r \in lost \cup queued THEN "done" ELSE pc0[r]],
              [r \in Requests |-> IF r \in lost THEN LossError(r) ELSE
                                  IF r \in queued THEN "unsent" ELSE out0[r]])

\* failAll(error, s) followed by socket.destroy().
LoseSocket(s) ==
    /\ FailAll(s, pc, outcome)
    /\ sstate' = [sstate EXCEPT ![s] = IF @ = "open" THEN "destroyed" ELSE @]
    /\ UNCHANGED <<aborted, sock, streamVars, quotaVars, socket, connecting, closed, ghostVars>>

\* The data handler's catch: an invalid, oversized or unexpected frame.
ProtocolFailure(s) ==
    /\ sstate[s] = "open"
    /\ socket = s
    /\ LoseSocket(s)

\* The reply timer, the stream idle timer or the stream deadline fires.
RequestTimeout(r) ==
    /\ r \in pending \cup streams
    /\ LoseSocket(sock[r])

\* 'connect'
SocketConnected(s) ==
    /\ sstate[s] = "connecting"
    /\ sstate' = [sstate EXCEPT ![s] = "open"]
    /\ connecting' = NoSocket
    /\ pc' = [r \in Requests |-> IF pc[r] = "connect" /\ sock[r] = s THEN "connected" ELSE pc[r]]
    /\ announced' = [announced EXCEPT ![s].connected = @ + 1]
    /\ UNCHANGED <<outcome, aborted, sock, slotVars, streamVars, quotaVars, socket, closed, wire, age>>

\* The network or the connect timer kills the socket; 'close' comes in a later turn.
SocketDropped(s) ==
    /\ sstate[s] \in {"connecting", "open"}
    /\ sstate' = [sstate EXCEPT ![s] = "destroyed"]
    /\ UNCHANGED <<callVars, aborted, sock, slotVars, streamVars, quotaVars, socket, connecting, closed, ghostVars>>

\* 'close' (after 'error', which rejects the same `connecting' promise).
SocketClosed(s) ==
    LET refused == {r \in Requests : pc[r] = "connect" /\ sock[r] = s}
    IN  /\ sstate[s] = "destroyed"
        /\ sstate' = [sstate EXCEPT ![s] = "closed"]
        /\ connecting' = IF connecting = s THEN NoSocket ELSE connecting
        /\ FailAll(s, [r \in Requests |-> IF r \in refused THEN "done" ELSE pc[r]],
                      [r \in Requests |-> IF r \in refused THEN "unsent" ELSE outcome[r]])
        /\ PublishDisconnection(s)
        /\ UNCHANGED <<aborted, sock, streamVars, quotaVars, closed, wire, age>>

\* close(): the abort signal settles every wait, failAll(null) everything in flight.
Close ==
    LET inFlight == (pending \cup streams) \ abandoned
        waits    == {r \in Requests : pc[r] \in {"pace", "connect", "waiting", "repace"}}
    IN  /\ ~closed
        /\ closed' = TRUE
        /\ pc' = [r \in Requests |-> IF r \in inFlight \cup waits THEN "done" ELSE pc[r]]
        /\ outcome' = [r \in Requests |-> IF r \in inFlight THEN LossError(r) ELSE
                                          IF r \in waits THEN "cancelled" ELSE outcome[r]]
        /\ pending' = {} /\ streams' = {}
        /\ capacityWaiters' = {} /\ ahead' = [r \in Requests |-> {}]
        /\ socket' = NoSocket
        /\ sstate' = IF socket # NoSocket /\ sstate[socket] \in {"connecting", "open"}
                     THEN [sstate EXCEPT ![socket] = "destroyed"] ELSE sstate
        /\ UNCHANGED <<aborted, sock, capacityReservations, streamVars, quotaVars, connecting, ghostVars>>

----------------------------------------------------------------------------
(* receive(): what a well-formed frame does *)

\* r's socket still delivers data.
Delivers(r) == sock[r] = socket /\ sstate[sock[r]] = "open"

\* Faulty variant: the freed slot is offered to nobody.
SettleInFlight_NoDrain(r, o) ==
    /\ pending' = pending \ {r} /\ streams' = streams \ {r}
    /\ pc' = [pc EXCEPT ![r] = "done"] /\ outcome' = [outcome EXCEPT ![r] = o]
    /\ UNCHANGED <<capacityWaiters, ahead, capacityReservations>>

\* A reply or stream.end settles r, frees its slot and drains the queue.
SettleInFlight(r, o) ==
    Drain(capacityWaiters, pending \ {r}, streams \ {r}, capacityReservations,
          [pc EXCEPT ![r] = "done"], [outcome EXCEPT ![r] = o])

ReplyResult(r) ==
    /\ r \in pending
    /\ Delivers(r)
    /\ MethodOf[r] # "stream"
    /\ SettleInFlight(r, "ok")
    /\ UNCHANGED <<aborted, sock, streamVars, quotaVars, connVars, ghostVars>>

\* An error reply.  scope "method" is -32029/-32030, "*" is -32001: they start a
\* cooldown, and attest that a broadcast was not forwarded unless data contradicts
\* it with a node_code.  "none" is every other error code.
ReplyError(r, scope, nodeCode, wait) ==
    /\ r \in pending
    /\ Delivers(r)
    /\ SettleInFlight(r, IF MethodOf[r] = "send" /\ scope # "none" /\ ~nodeCode THEN "notForwarded" ELSE "refused")
    /\ LET key == IF scope = "*" THEN "*" ELSE MethodOf[r]
       IN  cooldowns' = IF scope = "none" \/ cooldowns[key] >= wait THEN cooldowns
                        ELSE [cooldowns EXCEPT ![key] = wait]
    /\ UNCHANGED <<aborted, sock, streamVars, history, connVars, ghostVars>>

\* The stream's first reply: the slot moves from `pending' to `streams'.
StreamStart(r) ==
    /\ r \in pending
    /\ Delivers(r)
    /\ MethodOf[r] = "stream"
    /\ Drain(capacityWaiters, pending \ {r}, streams \cup {r}, capacityReservations, pc, outcome)
    /\ UNCHANGED <<aborted, sock, streamVars, quotaVars, connVars, ghostVars>>

\* stream.chunk in its legal place (any other chunk is a ProtocolFailure); the
\* consumer's onChunk may cancel, and the stream then drains on without it.
StreamChunk(r, kind, cancels) ==
    /\ r \in streams
    /\ Delivers(r)
    /\ \/ phase[r] = "snapshot" /\ kind = "snapshot" /\ phase' = [phase EXCEPT ![r] = "bounties"]
       \/ phase[r] = "bounties" /\ kind = "bounties" /\ UNCHANGED phase
       \/ phase[r] = "bounties" /\ kind = "state" /\ phase' = [phase EXCEPT ![r] = "end"]
    /\ IF cancels /\ r \notin abandoned
       THEN /\ abandoned' = abandoned \cup {r}
            /\ Settle(r, "stopped")
       ELSE UNCHANGED <<abandoned, callVars, slotVars>>
    /\ UNCHANGED <<aborted, sock, quotaVars, connVars, ghostVars>>

\* stream.end after the final state chunk.
StreamEnd(r) ==
    /\ r \in streams
    /\ Delivers(r)
    /\ phase[r] = "end"
    /\ SettleInFlight(r, IF r \in abandoned THEN outcome[r] ELSE "ok")
    /\ UNCHANGED <<aborted, sock, streamVars, quotaVars, connVars, ghostVars>>

\* stream.end too early, or with complete = false: nothing of it may be applied.
StreamIncomplete(r) ==
    /\ r \in streams
    /\ Delivers(r)
    /\ LoseSocket(sock[r])

----------------------------------------------------------------------------
Continue(r) ==
    \/ PaceThenConnect(r) \/ WaitForCapacity(r)
    \/ GrantRevoked(r) \/ GrantThrottled(r) \/ GrantRefused(r) \/ Transmit(r)

Receive(r) ==
    \/ ReplyResult(r) \/ StreamStart(r) \/ StreamEnd(r) \/ StreamIncomplete(r)
    \/ \E scope \in {"none", "method", "*"}, nodeCode \in BOOLEAN, wait \in 0..MaxCooldown :
          ReplyError(r, scope, nodeCode, wait)
    \/ \E kind \in {"snapshot", "bounties", "state"}, cancels \in BOOLEAN : StreamChunk(r, kind, cancels)

Next ==
    \/ \E r \in Requests : Call(r) \/ Continue(r) \/ Abort(r) \/ RequestTimeout(r) \/ Receive(r)
    \/ \E s \in Sockets : ProtocolFailure(s) \/ SocketConnected(s) \/ SocketDropped(s) \/ SocketClosed(s)
    \/ Close
    \/ Tick

\* The event loop runs every continuation that is ready, every request in flight
\* has a reply timer, connecting sockets have a connect timer, a destroyed socket
\* emits 'close', and time passes.  The server owes no reply.
Fairness ==
    /\ \A r \in Requests : WF_vars(Continue(r)) /\ WF_vars(RequestTimeout(r))
    /\ \A s \in Sockets : WF_vars(SocketClosed(s)) /\ WF_vars(sstate[s] = "connecting" /\ (SocketConnected(s) \/ SocketDropped(s)))
    /\ WF_vars(Tick)

Spec == Init /\ [][Next]_vars
FairSpec == Spec /\ Fairness
----------------------------------------------------------------------------
(* Properties *)

TypeOK ==
    /\ pc \in [Requests -> Phases]
    /\ outcome \in [Requests -> Outcomes]
    /\ aborted \subseteq Requests
    /\ sock \in [Requests -> {NoSocket} \cup Sockets]
    /\ pending \subseteq Requests /\ streams \subseteq Requests /\ abandoned \subseteq Requests
    /\ phase \in [Requests -> {"snapshot", "bounties", "end"}]
    /\ capacityWaiters \subseteq Requests
    /\ ahead \in [Requests -> SUBSET Requests]
    /\ capacityReservations \in Nat
    /\ history \in [Requests -> 0..Window]
    /\ cooldowns \in [Methods \cup {"*"} -> 0..MaxCooldown]
    /\ socket \in {NoSocket} \cup Sockets /\ connecting \in {NoSocket} \cup Sockets
    /\ closed \in BOOLEAN
    /\ sstate \in [Sockets -> {"unused", "connecting", "open", "destroyed", "closed"}]
    /\ wire \in [Requests -> {NoSocket} \cup Sockets]
    /\ age \in [Requests -> 0..Window]
    /\ announced \in [Sockets -> [connected : Nat, disconnected : Nat]]

\* The client never has more than Slots requests, streams and granted
\* reservations, whatever order replies, losses, aborts and grants come in.
SlotBound == InFlight(pending, streams, capacityReservations) <= Slots

\* No slot leaks and none is owned twice: the reservation counter is the number
\* of granted calls that have not continued, the maps hold exactly the written
\* calls that are unsettled (or streams draining without their consumer), and the
\* queue holds exactly the waiting calls.
SlotsOwned ==
    /\ capacityReservations = Cardinality({r \in Requests : pc[r] = "granted"})
    /\ pending \cap streams = {}
    /\ (pending \cup streams) \ abandoned = {r \in Requests : pc[r] = "sent"}
    /\ capacityWaiters = {r \in Requests : pc[r] = "waiting"}

\* drainCapacity is called often enough: a live call heads the queue only while
\* every slot is taken.
NoIdleSlot ==
    \A r \in capacityWaiters :
        ahead[r] = {} /\ Alive(r)
            => InFlight(pending, streams, capacityReservations) = Slots

\* What the caller is told about transmission is the truth: notSent means no byte
\* was written, and a broadcast that was written settles only with the server's
\* answer or as unknown, never as a failure that invites a second payment.
HonestOutcome ==
    \A r \in Requests :
        /\ outcome[r] \in {"cancelled", "unsent"} => wire[r] = NoSocket
        /\ outcome[r] = "unknown" => wire[r] # NoSocket
        /\ pc[r] = "done" /\ wire[r] # NoSocket /\ MethodOf[r] = "send"
             => outcome[r] \in {"ok", "refused", "notForwarded", "unknown"}

\* Quota is charged for writes and only for writes, and no window ever sees more
\* of them than its limit, although every check is separated from the write by
\* slot waits during which other calls write.
QuotaMatchesWire ==
    /\ \A r \in Requests : history[r] > 0 <=> wire[r] # NoSocket /\ age[r] < Window
    /\ \A m \in Methods : Cardinality(Charged(m)) <= Limit[m]

\* The quota is kept, and kept on slots that are owned: a grant that is revoked, throttled or
\* refused costs neither a slot nor a write of the window.
QuotaKept == QuotaMatchesWire /\ SlotsOwned

\* Listeners see 'disconnected' at most once per connection, and before a later
\* connection is announced (publishDisconnection in connect() and on 'close').
LossAnnouncedBeforeReplacement ==
    \A s \in Sockets :
        /\ announced[s].connected <= 1 /\ announced[s].disconnected <= 1
        /\ (\E t \in Sockets : t > s /\ announced[t].connected = 1) => announced[s].disconnected = 1

\* A slot is idle only when nobody waits for it, and the loss of a connection is announced before
\* another takes its place.
NoneIdleNoneSilent == NoIdleSlot /\ LossAnnouncedBeforeReplacement

\* Bytes are written only for a call that is neither aborted nor closed, once, on
\* the connection it queued for and before that connection's loss is announced,
\* and never during a cooldown the server asked for.
WriteFenced ==
    [][\A r \in Requests : wire'[r] # wire[r] =>
          /\ wire[r] = NoSocket
          /\ r \notin aborted /\ ~closed
          /\ wire'[r] = socket /\ announced[socket].disconnected = 0
          /\ cooldowns[MethodOf[r]] = 0 /\ cooldowns["*"] = 0]_vars

\* Slots are granted in queue order: a call overtakes nobody that is still live.
GrantsAreFifo ==
    [][\A first, later \in capacityWaiters :
          first \in ahead[later] /\ pc'[later] = "granted" => pc'[first] # "waiting"]_vars

\* Every call settles, although the server owes no answer.
EveryCallSettles == \A r \in Requests : pc[r] = "pace" ~> pc[r] = "done"
=============================================================================
