-------------------------- MODULE RpcClientProofs --------------------------
(***************************************************************************)
(* TLAPS proofs about RpcClient, for every set of calls, every number of   *)
(* slots, quota, window and connection bound.                              *)
(*                                                                         *)
(* SlotBound and HonestOutcome are not inductive alone: whether a popped   *)
(* waiter may be told notSent depends on the queue holding only unwritten  *)
(* calls, and whether a release leaves the counter a natural number        *)
(* depends on the counter being the number of granted calls.  Inv carries  *)
(* both facts.                                                             *)
(***************************************************************************)
EXTENDS RpcClient, FiniteSetTheorems, TLAPS

Granted(p) == {r \in Requests : p[r] = "granted"}
Waiting(p) == {r \in Requests : p[r] = "waiting"}

\* What the awaits (p), outcomes (o), in-flight maps and the wire (w) say about
\* one another.
CallsOK(p, o, pend, strm, ab, w) ==
    /\ p \in [Requests -> Phases] /\ o \in [Requests -> Outcomes]
    /\ pend \subseteq Requests /\ strm \subseteq Requests
    /\ pend \cap strm = {} /\ pend \cap ab = {}
    /\ (pend \cup strm) \ ab = {r \in Requests : p[r] = "sent"}
    /\ \A r \in Requests :
        /\ p[r] \notin {"sent", "done"} => w[r] = NoSocket
        /\ p[r] = "sent" => w[r] # NoSocket
        /\ p[r] # "done" => o[r] = "none"
        /\ r \in strm \cup ab => MethodOf[r] = "stream"
        /\ r \in ab => p[r] = "done" /\ w[r] # NoSocket /\ o[r] = "stopped"
        /\ o[r] \in {"cancelled", "unsent"} => w[r] = NoSocket
        /\ o[r] = "unknown" => w[r] # NoSocket
        /\ p[r] = "done" /\ w[r] # NoSocket /\ MethodOf[r] = "send"
             => o[r] \in {"ok", "refused", "notForwarded", "unknown"}

\* The queue and the reservation counter are what the awaits say they are.
SlotsOK(p, q, resv) == q = Waiting(p) /\ resv = Cardinality(Granted(p))

\* The types of everything that neither predicate covers.
RestOK ==
    /\ aborted \subseteq Requests /\ abandoned \subseteq Requests
    /\ sock \in [Requests -> {NoSocket} \cup Sockets]
    /\ phase \in [Requests -> {"snapshot", "bounties", "end"}]
    /\ ahead \in [Requests -> SUBSET Requests]
    /\ history \in [Requests -> 0..Window]
    /\ cooldowns \in [Methods \cup {"*"} -> 0..MaxCooldown]
    /\ socket \in {NoSocket} \cup Sockets /\ connecting \in {NoSocket} \cup Sockets
    /\ closed \in BOOLEAN
    /\ sstate \in [Sockets -> {"unused", "connecting", "open", "destroyed", "closed"}]
    /\ wire \in [Requests -> {NoSocket} \cup Sockets]
    /\ age \in [Requests -> 0..Window]
    /\ announced \in [Sockets -> [connected : Nat, disconnected : Nat]]

Inv ==
    /\ RestOK
    /\ SlotBound
    /\ CallsOK(pc, outcome, pending, streams, abandoned, wire)
    /\ SlotsOK(pc, capacityWaiters, capacityReservations)

\* A step that grants slots grants them in queue order.
InOrder ==
    \A first, later \in capacityWaiters :
        first \in ahead[later] /\ pc'[later] = "granted" => pc'[first] # "waiting"

\* What one turn of the event loop does to the queue: it is left alone, or it is drained in order
\* until no live call heads it while a slot is free.
Turn == InOrder /\ (UNCHANGED slotVars \/ NoIdleSlot')

\* The awaits p0 and the queue order an action hands to drainCapacity grant nobody by themselves
\* and reorder nobody who keeps waiting.
KeepsOrder(order, p0) ==
    \A w \in capacityWaiters : p0[w] # "granted" /\ (p0[w] = "waiting" => order[w] = ahead[w])

----------------------------------------------------------------------------
\* Subsets of the finite set of calls have natural cardinalities.
LEMMA SubsetCardinality ==
    ASSUME NEW S \in SUBSET Requests
    PROVE  IsFiniteSet(S) /\ Cardinality(S) \in Nat
BY RequestsFinite, FS_Subset, FS_CardinalityType

\* The invariant contains the properties the runs check.
LEMMA InvImplies == Inv => TypeOK /\ SlotBound /\ SlotsOwned /\ HonestOutcome
<1> SUFFICES ASSUME Inv PROVE TypeOK /\ SlotBound /\ SlotsOwned /\ HonestOutcome
  OBVIOUS
<1>1. capacityReservations \in Nat /\ capacityWaiters \subseteq Requests
  <2>1. Granted(pc) \in SUBSET Requests
    BY DEF Granted
  <2> QED BY <2>1, SubsetCardinality DEF Inv, SlotsOK, Waiting
<1>2. TypeOK
  BY <1>1 DEF Inv, TypeOK, RestOK, CallsOK
<1>3. SlotsOwned
  BY DEF Inv, SlotsOwned, SlotsOK, CallsOK, Granted, Waiting
<1>4. HonestOutcome
  BY DEF Inv, HonestOutcome, CallsOK
<1> QED BY <1>2, <1>3, <1>4 DEF Inv

----------------------------------------------------------------------------
\* drainCapacity: what one pass of the loop does to each call, and that the
\* counter keeps counting the granted calls.
LEMMA ServeLemma ==
    ASSUME NEW order \in [Requests -> SUBSET Requests], NEW free \in Int,
           NEW p0 \in [Requests -> Phases], NEW o0 \in [Requests -> Outcomes],
           Serve(order, Waiting(p0), free, Cardinality(Granted(p0)), p0, o0)
    PROVE  /\ pc' \in [Requests -> Phases] /\ outcome' \in [Requests -> Outcomes]
           /\ ahead' \in [Requests -> SUBSET Requests]
           /\ SlotsOK(pc', capacityWaiters', capacityReservations')
           /\ capacityReservations' <= Cardinality(Granted(p0)) + free
           /\ \A r \in Requests :
                \/ pc'[r] = p0[r] /\ outcome'[r] = o0[r]
                \/ p0[r] = "waiting" /\ pc'[r] = "granted" /\ outcome'[r] = o0[r]
                \/ p0[r] = "waiting" /\ pc'[r] = "done" /\ outcome'[r] \in {"cancelled", "unsent"}
           /\ \A first, later \in Waiting(p0) :
                first \in order[later] /\ pc'[later] = "granted" => pc'[first] # "waiting"
           /\ \A r \in capacityWaiters' :
                ahead'[r] = {} => capacityReservations' = Cardinality(Granted(p0)) + free
<1>1. PICK popped \in SUBSET Waiting(p0) :
        /\ \A r \in popped : order[r] \cap Waiting(p0) \subseteq popped
        /\ \A r \in Waiting(p0) \ popped :
              order[r] \cap Waiting(p0) \subseteq popped => Cardinality({x \in popped : Alive(x)}) = free
        /\ Cardinality({r \in popped : Alive(r)}) <= free
        /\ capacityWaiters' = Waiting(p0) \ popped
        /\ ahead' = [r \in Requests |-> IF r \in Waiting(p0) \ popped THEN order[r] \cap (Waiting(p0) \ popped) ELSE {}]
        /\ capacityReservations' = Cardinality(Granted(p0)) + Cardinality({r \in popped : Alive(r)})
        /\ pc' = [r \in Requests |->
                    IF r \in {x \in popped : Alive(x)} THEN "granted" ELSE
                    IF r \in popped \ {x \in popped : Alive(x)} THEN "done" ELSE p0[r]]
        /\ outcome' = [r \in Requests |-> IF r \in popped \ {x \in popped : Alive(x)} THEN DeadOutcome(r) ELSE o0[r]]
  BY DEF Serve
<1> DEFINE new == {r \in popped : Alive(r)}
<1>2. popped \subseteq Requests /\ \A r \in popped : p0[r] = "waiting"
  BY <1>1 DEF Waiting
<1>3. \A r \in Requests : DeadOutcome(r) \in {"cancelled", "unsent"}
  BY DEF DeadOutcome
<1>4. pc' \in [Requests -> Phases] /\ outcome' \in [Requests -> Outcomes]
  BY <1>1, <1>2, <1>3 DEF Phases, Outcomes
<1>5. ahead' \in [Requests -> SUBSET Requests]
  BY <1>1
<1>6. capacityWaiters' = Waiting(pc')
  BY <1>1, <1>2 DEF Waiting
<1>7. capacityReservations' = Cardinality(Granted(pc')) /\ capacityReservations' <= Cardinality(Granted(p0)) + free
  <2>1. Granted(pc') = Granted(p0) \cup new /\ Granted(p0) \cap new = {}
    BY <1>1, <1>2 DEF Granted
  <2>2. Granted(p0) \in SUBSET Requests /\ new \in SUBSET Requests
    BY <1>2 DEF Granted
  <2>3. IsFiniteSet(Granted(p0)) /\ IsFiniteSet(new) /\ Cardinality(Granted(p0)) \in Nat /\ Cardinality(new) \in Nat
    BY <2>2, SubsetCardinality
  <2>4. Cardinality(Granted(p0) \cup new) = Cardinality(Granted(p0)) + Cardinality(new) - Cardinality(Granted(p0) \cap new)
    BY <2>3, FS_Union
  <2>5. Cardinality({}) = 0
    BY FS_EmptySet
  <2>6. capacityReservations' = Cardinality(Granted(p0)) + Cardinality(new) /\ Cardinality(new) <= free
    BY <1>1
  <2> HIDE DEF new
  <2>7. Cardinality(Granted(p0) \cap new) = 0 /\ Cardinality(Granted(pc')) = Cardinality(Granted(p0) \cup new)
    BY <2>1, <2>5
  <2> QED BY <2>3, <2>4, <2>6, <2>7
<1>8. \A r \in Requests :
        \/ pc'[r] = p0[r] /\ outcome'[r] = o0[r]
        \/ p0[r] = "waiting" /\ pc'[r] = "granted" /\ outcome'[r] = o0[r]
        \/ p0[r] = "waiting" /\ pc'[r] = "done" /\ outcome'[r] \in {"cancelled", "unsent"}
  BY <1>1, <1>2, <1>3
<1>9. ASSUME NEW first \in Waiting(p0), NEW later \in Waiting(p0), first \in order[later], pc'[later] = "granted"
      PROVE  pc'[first] # "waiting"
  <2>1. later \in popped
    BY <1>1, <1>9 DEF Waiting
  <2>2. first \in popped
    BY <1>1, <1>9, <2>1
  <2>3. pc'[first] \in {"granted", "done"}
    BY <1>1, <1>2, <2>2
  <2> QED BY <2>3
<1>10. ASSUME NEW r \in capacityWaiters', ahead'[r] = {}
       PROVE  capacityReservations' = Cardinality(Granted(p0)) + free
  <2>1. r \in Waiting(p0) \ popped /\ r \in Requests
    BY <1>1 DEF Waiting
  <2>2. order[r] \cap (Waiting(p0) \ popped) = {}
    BY <1>1, <1>10, <2>1
  <2>3. Cardinality(new) = free
    BY <1>1, <2>1, <2>2
  <2> QED BY <1>1, <2>3
<1> QED BY <1>4, <1>5, <1>6, <1>7, <1>8, <1>9, <1>10 DEF SlotsOK

\* drainCapacity after any change of the slot owners keeps the whole invariant.
LEMMA DrainLemma ==
    ASSUME NEW order \in [Requests -> SUBSET Requests],
           NEW p0, NEW o0, NEW pend, NEW strm, NEW ab, NEW w,
           CallsOK(p0, o0, pend, strm, ab, w),
           DrainQueue(order, Waiting(p0), pend, strm, Cardinality(Granted(p0)), p0, o0)
    PROVE  /\ CallsOK(pc', outcome', pending', streams', ab, w)
           /\ SlotsOK(pc', capacityWaiters', capacityReservations')
           /\ ahead' \in [Requests -> SUBSET Requests]
           /\ SlotBound' /\ NoIdleSlot'
           /\ \A first, later \in Waiting(p0) :
                first \in order[later] /\ pc'[later] = "granted" => pc'[first] # "waiting"
           /\ \A r \in Requests : p0[r] # "waiting" => pc'[r] = p0[r]
<1> DEFINE free == Slots - InFlight(pend, strm, Cardinality(Granted(p0)))
<1>1. Granted(p0) \in SUBSET Requests /\ pend \in SUBSET Requests /\ strm \in SUBSET Requests
  BY DEF Granted, CallsOK
<1>2. Cardinality(Granted(p0)) \in Nat /\ Cardinality(pend) \in Nat /\ Cardinality(strm) \in Nat
  BY <1>1, SubsetCardinality
<1>3. free \in Int
  BY <1>2, BoundsType DEF InFlight
<1>4. /\ Serve(order, Waiting(p0), free, Cardinality(Granted(p0)), p0, o0)
      /\ pending' = pend /\ streams' = strm
  BY DEF DrainQueue
<1>5. /\ pc' \in [Requests -> Phases] /\ outcome' \in [Requests -> Outcomes]
      /\ ahead' \in [Requests -> SUBSET Requests]
      /\ SlotsOK(pc', capacityWaiters', capacityReservations')
      /\ capacityReservations' <= Cardinality(Granted(p0)) + free
      /\ \A r \in Requests :
           \/ pc'[r] = p0[r] /\ outcome'[r] = o0[r]
           \/ p0[r] = "waiting" /\ pc'[r] = "granted" /\ outcome'[r] = o0[r]
           \/ p0[r] = "waiting" /\ pc'[r] = "done" /\ outcome'[r] \in {"cancelled", "unsent"}
      /\ \A first, later \in Waiting(p0) :
           first \in order[later] /\ pc'[later] = "granted" => pc'[first] # "waiting"
      /\ \A r \in capacityWaiters' :
           ahead'[r] = {} => capacityReservations' = Cardinality(Granted(p0)) + free
  <2> HIDE DEF free
  <2> QED BY <1>3, <1>4, ServeLemma DEF CallsOK
<1>6. CallsOK(pc', outcome', pend, strm, ab, w)
  BY <1>5 DEF CallsOK
<1>7. SlotBound'
  <2>1. Granted(pc') \in SUBSET Requests
    BY DEF Granted
  <2>2. capacityReservations' \in Nat
    BY <1>5, <2>1, SubsetCardinality DEF SlotsOK
  <2> QED BY <1>2, <1>4, <1>5, <2>2, BoundsType DEF SlotBound, InFlight
<1>8. NoIdleSlot'
  <2> SUFFICES ASSUME NEW r \in capacityWaiters', ahead'[r] = {}
               PROVE  Cardinality(pending') + Cardinality(streams') + capacityReservations' = Slots
    BY DEF NoIdleSlot, InFlight
  <2>1. capacityReservations' = Cardinality(Granted(p0)) + free
    BY <1>5
  <2> QED BY <1>2, <1>4, <2>1, BoundsType DEF InFlight
<1> QED BY <1>4, <1>5, <1>6, <1>7, <1>8

----------------------------------------------------------------------------
\* Nothing is queued, granted or written initially.
LEMMA InitInv == Init => Inv
<1> SUFFICES ASSUME Init PROVE Inv
  OBVIOUS
<1>1. RestOK
  <2>1. announced \in [Sockets -> [connected : Nat, disconnected : Nat]]
    BY DEF Init
  <2>2. closed \in BOOLEAN
    BY DEF Init
  <2>3. history \in [Requests -> 0..Window] /\ age \in [Requests -> 0..Window]
    BY BoundsType DEF Init
  <2>4. cooldowns \in [Methods \cup {"*"} -> 0..MaxCooldown]
    BY BoundsType DEF Init
  <2> QED BY <2>1, <2>2, <2>3, <2>4 DEF Init, RestOK
<1>2. CallsOK(pc, outcome, pending, streams, abandoned, wire)
  <2>1. \A r \in Requests : pc[r] = "idle" /\ outcome[r] = "none" /\ wire[r] = NoSocket
    BY DEF Init
  <2>2. {r \in Requests : pc[r] = "sent"} = {}
    BY <2>1
  <2>3. pc \in [Requests -> Phases] /\ outcome \in [Requests -> Outcomes]
    BY DEF Init, Phases, Outcomes
  <2> QED BY <2>1, <2>2, <2>3 DEF Init, CallsOK
<1>3. SlotsOK(pc, capacityWaiters, capacityReservations) /\ SlotBound
  <2>1. Granted(pc) = {} /\ Waiting(pc) = {}
    BY DEF Init, Granted, Waiting
  <2>2. Cardinality({}) = 0
    BY FS_EmptySet
  <2>3. SlotsOK(pc, capacityWaiters, capacityReservations)
    BY <2>1, <2>2 DEF Init, SlotsOK
  <2>4. Cardinality(pending) = 0 /\ Cardinality(streams) = 0 /\ capacityReservations = 0
    BY <2>2 DEF Init
  <2> QED BY <2>3, <2>4, BoundsType DEF SlotBound, InFlight
<1> QED BY <1>1, <1>2, <1>3 DEF Inv

\* One drain step of an action, with the other variables already known to be
\* well-typed: all that is left to show is the intermediate state.
LEMMA StepByDrain ==
    ASSUME NEW order \in [Requests -> SUBSET Requests],
           NEW p0, NEW o0, NEW pend, NEW strm,
           CallsOK(p0, o0, pend, strm, abandoned', wire'),
           DrainQueue(order, Waiting(p0), pend, strm, Cardinality(Granted(p0)), p0, o0),
           ahead' \in [Requests -> SUBSET Requests] => RestOK',
           capacityWaiters \subseteq Requests, KeepsOrder(order, p0)
    PROVE  Inv' /\ Turn
<1>1. /\ CallsOK(pc', outcome', pending', streams', abandoned', wire')
      /\ SlotsOK(pc', capacityWaiters', capacityReservations')
      /\ ahead' \in [Requests -> SUBSET Requests]
      /\ SlotBound' /\ NoIdleSlot'
      /\ \A first, later \in Waiting(p0) :
           first \in order[later] /\ pc'[later] = "granted" => pc'[first] # "waiting"
      /\ \A r \in Requests : p0[r] # "waiting" => pc'[r] = p0[r]
  BY DrainLemma
<1>2. ASSUME NEW first \in capacityWaiters, NEW later \in capacityWaiters,
             first \in ahead[later], pc'[later] = "granted"
      PROVE  pc'[first] # "waiting"
  <2>1. p0[later] = "waiting" /\ order[later] = ahead[later]
    BY <1>1, <1>2 DEF KeepsOrder
  <2> QED BY <1>1, <1>2, <2>1 DEF Waiting
<1> QED BY <1>1, <1>2 DEF Inv, Turn, InOrder


\* Counting an event of one connection.
LEMMA AnnouncedType ==
    ASSUME NEW f \in [Sockets -> [connected : Nat, disconnected : Nat]], NEW s \in Sockets
    PROVE  /\ [f EXCEPT ![s].disconnected = @ + 1] \in [Sockets -> [connected : Nat, disconnected : Nat]]
           /\ [f EXCEPT ![s].connected = @ + 1] \in [Sockets -> [connected : Nat, disconnected : Nat]]
<1>1. f[s] \in [connected : Nat, disconnected : Nat]
  OBVIOUS
<1>2. [f[s] EXCEPT !.disconnected = @ + 1] \in [connected : Nat, disconnected : Nat]
  BY <1>1
<1>3. [f[s] EXCEPT !.connected = @ + 1] \in [connected : Nat, disconnected : Nat]
  BY <1>1
<1> QED BY <1>2, <1>3

\* A step that leaves the slots alone.
LEMMA StepBesideSlots ==
    ASSUME Inv, UNCHANGED slotVars, RestOK',
           CallsOK(pc', outcome', pending, streams, abandoned', wire'),
           Granted(pc') = Granted(pc), Waiting(pc') = Waiting(pc)
    PROVE  Inv' /\ Turn
<1>1. SlotsOK(pc', capacityWaiters', capacityReservations')
  BY DEF Inv, SlotsOK, slotVars
<1>2. SlotBound' 
  BY DEF Inv, SlotBound, slotVars
<1>3. CallsOK(pc', outcome', pending', streams', abandoned', wire')
  BY DEF slotVars
<1>4. InOrder
  BY DEF InOrder, Inv, SlotsOK, Waiting
<1> QED BY <1>1, <1>2, <1>3, <1>4 DEF Inv, Turn

\* A call settles, unwritten, outside the slots.
LEMMA SettleUnsent ==
    ASSUME Inv, NEW r \in Requests, NEW o \in {"cancelled", "unsent"},
           pc[r] \in {"idle", "pace", "connect", "connected", "repace"},
           Settle(r, o), abandoned' = abandoned, wire' = wire, RestOK'
    PROVE  Inv' /\ Turn
<1>1. UNCHANGED slotVars /\ pc' = [pc EXCEPT ![r] = "done"] /\ outcome' = [outcome EXCEPT ![r] = o]
  BY DEF Settle
<1>2. CallsOK(pc', outcome', pending, streams, abandoned', wire')
  BY <1>1 DEF Inv, CallsOK, Phases, Outcomes
<1>3. Granted(pc') = Granted(pc) /\ Waiting(pc') = Waiting(pc)
  BY <1>1 DEF Granted, Waiting, Inv, CallsOK
<1> QED BY <1>1, <1>2, <1>3, StepBesideSlots

\* request() up to its first await: refused at once, or paced.
LEMMA CallStep == ASSUME Inv, NEW r \in Requests, Call(r) PROVE Inv' /\ Turn
<1>1. RestOK' /\ abandoned' = abandoned /\ wire' = wire
  <2>1. CASE ahead' = ahead
    BY <2>1 DEF Inv, RestOK, Call, streamVars, quotaVars, connVars, ghostVars
  <2> QED BY <2>1 DEF Call, Settle, slotVars
<1>2. CASE \E o \in {"cancelled", "unsent"} : Settle(r, o)
  BY <1>1, <1>2, SettleUnsent DEF Call
<1>3. CASE pc' = [pc EXCEPT ![r] = "pace"] /\ UNCHANGED <<outcome, slotVars>>
  <2>1. CallsOK(pc', outcome', pending, streams, abandoned', wire')
    BY <1>1, <1>3 DEF Call, Inv, CallsOK, Phases, Outcomes
  <2>2. Granted(pc') = Granted(pc) /\ Waiting(pc') = Waiting(pc)
    BY <1>3 DEF Call, Granted, Waiting, Inv, CallsOK
  <2> QED BY <1>1, <1>3, <2>1, <2>2, StepBesideSlots
<1> QED BY <1>2, <1>3 DEF Call

\* connect(): the call moves on; only the connection's state changes.
LEMMA PaceThenConnectStep == ASSUME Inv, NEW r \in Requests, PaceThenConnect(r) PROVE Inv' /\ Turn
<1>1. PICK next \in {"connected", "connect"} : pc' = [pc EXCEPT ![r] = next]
  BY DEF PaceThenConnect
<1>2. /\ UNCHANGED slotVars /\ outcome' = outcome /\ abandoned' = abandoned /\ wire' = wire
      /\ pc[r] = "pace"
  BY DEF PaceThenConnect, streamVars
<1>3. CallsOK(pc', outcome', pending, streams, abandoned', wire')
  BY <1>1, <1>2 DEF Inv, CallsOK, Phases, Outcomes
<1>4. Granted(pc') = Granted(pc) /\ Waiting(pc') = Waiting(pc)
  BY <1>1, <1>2 DEF Granted, Waiting, Inv, CallsOK
<1>5. RestOK'
  <2>1. announced' \in [Sockets -> [connected : Nat, disconnected : Nat]]
    <3>1. CASE SocketAfterPublish = socket
      BY <3>1 DEF Inv, RestOK, PaceThenConnect, AnnounceInConnect
    <3>2. CASE SocketAfterPublish # socket
      <4>1. socket \in Sockets
        BY <3>2 DEF Inv, RestOK, SocketAfterPublish
      <4> QED BY <3>2, <4>1, AnnouncedType DEF Inv, RestOK, PaceThenConnect, AnnounceInConnect
    <3> QED BY <3>1, <3>2
  <2>2. /\ sock' \in [Requests -> {NoSocket} \cup Sockets]
        /\ socket' \in {NoSocket} \cup Sockets /\ connecting' \in {NoSocket} \cup Sockets
        /\ sstate' \in [Sockets -> {"unused", "connecting", "open", "destroyed", "closed"}]
    <3>1. CASE UsableSocket
      BY <3>1 DEF Inv, RestOK, PaceThenConnect, connVars
    <3>2. CASE ~UsableSocket /\ connecting # NoSocket
      BY <3>2 DEF Inv, RestOK, PaceThenConnect, SocketAfterPublish
    <3>3. CASE ~UsableSocket /\ connecting = NoSocket
      <4>1. PICK s \in Sockets :
              /\ sstate' = [sstate EXCEPT ![s] = "connecting"]
              /\ socket' = s /\ connecting' = s /\ sock' = [sock EXCEPT ![r] = s]
        BY <3>3 DEF PaceThenConnect
      <4> QED BY <4>1 DEF Inv, RestOK
    <3> QED BY <3>1, <3>2, <3>3
  <2>3. closed' = closed
    BY DEF PaceThenConnect, connVars
  <2> QED
    BY <1>2, <2>1, <2>2, <2>3 DEF Inv, RestOK, PaceThenConnect, slotVars, streamVars, quotaVars
<1> QED BY <1>2, <1>3, <1>4, <1>5, StepBesideSlots

\* waitForCapacity(): the call joins the queue and the queue is drained.
LEMMA WaitForCapacityStep == ASSUME Inv, NEW r \in Requests, WaitForCapacity(r) PROVE Inv' /\ Turn
<1> DEFINE p0 == [pc EXCEPT ![r] = "waiting"]
           order == [ahead EXCEPT ![r] = capacityWaiters]
<1>1. pc[r] \in {"connected", "repace"}
  BY DEF WaitForCapacity
<1>2. abandoned' = abandoned /\ wire' = wire
  BY DEF WaitForCapacity, streamVars, ghostVars
<1>3. CallsOK(p0, outcome, pending, streams, abandoned', wire')
  BY <1>1, <1>2 DEF Inv, CallsOK, Phases
<1>4. Granted(p0) = Granted(pc) /\ Waiting(p0) = capacityWaiters \cup {r}
  BY <1>1 DEF Granted, Waiting, Inv, CallsOK, SlotsOK
<1>5. order \in [Requests -> SUBSET Requests]
  BY DEF Inv, RestOK, SlotsOK, Waiting
<1>6. DrainQueue(order, Waiting(p0), pending, streams, Cardinality(Granted(p0)), p0, outcome)
  BY <1>4 DEF WaitForCapacity, Inv, SlotsOK
<1>7. ahead' \in [Requests -> SUBSET Requests] => RestOK'
  BY DEF Inv, RestOK, WaitForCapacity, streamVars, quotaVars, connVars, ghostVars
<1>8. capacityWaiters \subseteq Requests /\ KeepsOrder(order, p0)
  BY <1>1 DEF KeepsOrder, Inv, RestOK, SlotsOK, Waiting, CallsOK
<1> HIDE DEF p0, order
<1> QED BY <1>3, <1>5, <1>6, <1>7, <1>8, StepByDrain

\* A granted call gives its slot back without having written.
LEMMA ReleaseStep ==
    ASSUME Inv, NEW r \in Requests, NEW next, NEW o, pc[r] = "granted",
           \/ next = "done" /\ o \in {"cancelled", "unsent"}
           \/ next = "repace" /\ o = "none",
           Release(r, next, o),
           UNCHANGED <<aborted, sock, streamVars, quotaVars, connVars, ghostVars>>
    PROVE  Inv' /\ Turn
<1> DEFINE p0 == [pc EXCEPT ![r] = next]
           o0 == [outcome EXCEPT ![r] = o]
<1>2. abandoned' = abandoned /\ wire' = wire
  BY DEF streamVars, ghostVars
<1>3. CallsOK(p0, o0, pending, streams, abandoned', wire')
  BY <1>2 DEF Inv, CallsOK, Phases, Outcomes
<1>4. Granted(p0) = Granted(pc) \ {r} /\ Waiting(p0) = capacityWaiters /\ r \in Granted(pc)
  BY DEF Granted, Waiting, Inv, CallsOK, SlotsOK
<1>5. Cardinality(Granted(p0)) = capacityReservations - 1
  <2>1. Granted(pc) \in SUBSET Requests
    BY DEF Granted
  <2>2. IsFiniteSet(Granted(pc)) /\ Cardinality(Granted(pc)) \in Nat
    BY <2>1, SubsetCardinality
  <2>3. Cardinality(Granted(pc) \ {r}) = Cardinality(Granted(pc)) - 1
    BY <1>4, <2>2, FS_RemoveElement
  <2> QED BY <1>4, <2>3 DEF Inv, SlotsOK
<1>6. DrainQueue(ahead, Waiting(p0), pending, streams, Cardinality(Granted(p0)), p0, o0)
  BY <1>4, <1>5 DEF Release, Drain
<1>7. ahead' \in [Requests -> SUBSET Requests] => RestOK'
  BY DEF Inv, RestOK, streamVars, quotaVars, connVars, ghostVars
<1>8. ahead \in [Requests -> SUBSET Requests]
  BY DEF Inv, RestOK
<1>9. capacityWaiters \subseteq Requests /\ KeepsOrder(ahead, p0)
  BY DEF KeepsOrder, Inv, SlotsOK, Waiting, CallsOK
<1> HIDE DEF p0, o0
<1> QED BY <1>3, <1>6, <1>7, <1>8, <1>9, StepByDrain

\* The recheck after the slot wait fails.
LEMMA GrantRevokedStep == ASSUME Inv, NEW r \in Requests, GrantRevoked(r) PROVE Inv' /\ Turn
BY ReleaseStep DEF GrantRevoked, DeadOutcome

\* The call goes back to pacing and gives its slot up.
LEMMA GrantThrottledStep == ASSUME Inv, NEW r \in Requests, GrantThrottled(r) PROVE Inv' /\ Turn
BY ReleaseStep DEF GrantThrottled

\* beforeSend or a local limit refuses.
LEMMA GrantRefusedStep == ASSUME Inv, NEW r \in Requests, GrantRefused(r) PROVE Inv' /\ Turn
BY ReleaseStep DEF GrantRefused


\* The write moves the slot from the counter to `pending'.
LEMMA TransmitStep == ASSUME Inv, NEW r \in Requests, Transmit(r) PROVE Inv' /\ Turn
<1> DEFINE p0 == [pc EXCEPT ![r] = "sent"]
           pend == pending \cup {r}
<1>1. /\ pc[r] = "granted" /\ sock[r] # NoSocket /\ sock[r] \in {NoSocket} \cup Sockets
      /\ abandoned' = abandoned /\ wire' = [wire EXCEPT ![r] = sock[r]]
  BY DEF Transmit, Write, Alive, Inv, RestOK, streamVars
<1>2. CallsOK(p0, outcome, pend, streams, abandoned', wire')
  <2>1. p0 \in [Requests -> Phases]
    BY DEF Inv, CallsOK, Phases
  <2>2. r \notin pending \cup streams \cup abandoned
    BY <1>1 DEF Inv, CallsOK
  <2> QED BY <1>1, <2>1, <2>2 DEF Inv, CallsOK, RestOK
<1>3. Granted(p0) = Granted(pc) \ {r} /\ Waiting(p0) = capacityWaiters /\ r \in Granted(pc)
  BY <1>1 DEF Granted, Waiting, Inv, CallsOK, SlotsOK
<1>4. Cardinality(Granted(p0)) = capacityReservations - 1
  <2>1. Granted(pc) \in SUBSET Requests
    BY DEF Granted
  <2>2. IsFiniteSet(Granted(pc)) /\ Cardinality(Granted(pc)) \in Nat
    BY <2>1, SubsetCardinality
  <2>3. Cardinality(Granted(pc) \ {r}) = Cardinality(Granted(pc)) - 1
    BY <1>3, <2>2, FS_RemoveElement
  <2> QED BY <1>3, <2>3 DEF Inv, SlotsOK
<1>5. DrainQueue(ahead, Waiting(p0), pend, streams, Cardinality(Granted(p0)), p0, outcome)
  BY <1>3, <1>4 DEF Transmit, Write, Drain
<1>6. ahead' \in [Requests -> SUBSET Requests] => RestOK'
  <2>1. history' \in [Requests -> 0..Window] /\ age' \in [Requests -> 0..Window]
    BY BoundsType DEF Transmit, Write, Charge, Inv, RestOK
  <2>2. wire' \in [Requests -> {NoSocket} \cup Sockets]
    BY <1>1 DEF Inv, RestOK
  <2> QED BY <2>1, <2>2 DEF Inv, RestOK, Transmit, Write, streamVars, connVars
<1>7. ahead \in [Requests -> SUBSET Requests]
  BY DEF Inv, RestOK
<1>8. capacityWaiters \subseteq Requests /\ KeepsOrder(ahead, p0)
  BY DEF KeepsOrder, Inv, SlotsOK, Waiting, CallsOK
<1> HIDE DEF p0, pend
<1> QED BY <1>2, <1>5, <1>6, <1>7, <1>8, StepByDrain

\* An abort settles a call that waits and is ignored after the write.
LEMMA AbortStep == ASSUME Inv, NEW r \in Requests, Abort(r) PROVE Inv' /\ Turn
<1>1. abandoned' = abandoned /\ wire' = wire
  BY DEF Abort, streamVars, ghostVars
<1>2. ahead' \in [Requests -> SUBSET Requests] => RestOK'
  BY DEF Inv, RestOK, Abort, streamVars, quotaVars, connVars, ghostVars
<1>3. ahead \in [Requests -> SUBSET Requests]
  BY DEF Inv, RestOK
<1>4. CASE pc[r] \in {"pace", "connect", "repace"}
  <2>1. Settle(r, "cancelled")
    BY <1>4 DEF Abort
  <2>2. RestOK'
    BY <1>2, <1>3, <2>1 DEF Settle, slotVars
  <2> QED BY <1>1, <1>4, <2>1, <2>2, SettleUnsent
<1>5. CASE pc[r] = "waiting"
  <2> DEFINE p0 == [pc EXCEPT ![r] = "done"]
             o0 == [outcome EXCEPT ![r] = "cancelled"]
  <2>1. CallsOK(p0, o0, pending, streams, abandoned', wire')
    BY <1>1, <1>5 DEF Inv, CallsOK, Phases, Outcomes
  <2>2. Granted(p0) = Granted(pc) /\ Waiting(p0) = capacityWaiters \ {r}
    BY <1>5 DEF Granted, Waiting, Inv, CallsOK, SlotsOK
  <2>3. DrainQueue(ahead, Waiting(p0), pending, streams, Cardinality(Granted(p0)), p0, o0)
    BY <1>5, <2>2 DEF Abort, Drain, Inv, SlotsOK
  <2>4. capacityWaiters \subseteq Requests /\ KeepsOrder(ahead, p0)
    BY DEF KeepsOrder, Inv, SlotsOK, Waiting, CallsOK
  <2> HIDE DEF p0, o0
  <2> QED BY <1>2, <1>3, <2>1, <2>3, <2>4, StepByDrain
<1>6. CASE pc[r] \notin {"pace", "connect", "repace", "waiting"}
  <2>1. UNCHANGED <<callVars, slotVars>>
    BY <1>6 DEF Abort
  <2>2. pc' = pc /\ outcome' = outcome /\ ahead' = ahead
    BY <2>1 DEF callVars, slotVars
  <2>3. CallsOK(pc', outcome', pending, streams, abandoned', wire')
    BY <1>1, <2>2 DEF Inv
  <2> QED BY <1>2, <1>3, <2>1, <2>2, <2>3, StepBesideSlots
<1> QED BY <1>4, <1>5, <1>6

\* failAll(error, s), possibly after the connection's waiters were rejected.
LEMMA FailAllStep ==
    ASSUME Inv, NEW s, NEW p1, NEW o1,
           CallsOK(p1, o1, pending, streams, abandoned, wire),
           Granted(p1) = Granted(pc), Waiting(p1) = Waiting(pc),
           FailAll(s, p1, o1), abandoned' = abandoned, wire' = wire,
           ahead' \in [Requests -> SUBSET Requests] => RestOK'
    PROVE  Inv' /\ Turn
<1> DEFINE carried == {r \in pending \cup streams : sock[r] = s}
           lost    == carried \ abandoned
           queued  == {r \in capacityWaiters : sock[r] = s}
           p0 == [r \in Requests |-> IF r \in lost \cup queued THEN "done" ELSE p1[r]]
           o0 == [r \in Requests |-> IF r \in lost THEN LossError(r) ELSE
                                     IF r \in queued THEN "unsent" ELSE o1[r]]
<1>1. capacityWaiters = Waiting(pc) /\ capacityReservations = Cardinality(Granted(pc))
  BY DEF Inv, SlotsOK
<1>2. /\ lost \subseteq Requests /\ queued \subseteq Requests
      /\ \A r \in lost : p1[r] = "sent" /\ wire[r] # NoSocket
      /\ \A r \in queued : p1[r] = "waiting" /\ wire[r] = NoSocket /\ r \notin lost
  BY <1>1 DEF CallsOK, Waiting
<1>3. \A r \in Requests : LossError(r) \in {"unknown", "lost"} /\ (MethodOf[r] = "send" => LossError(r) = "unknown")
  BY DEF LossError
<1>4. p0 \in [Requests -> Phases] /\ o0 \in [Requests -> Outcomes]
  BY <1>3 DEF CallsOK, Phases, Outcomes
<1>5. CallsOK(p0, o0, pending \ carried, streams \ carried, abandoned', wire')
  <2>1. ((pending \ carried) \cup (streams \ carried)) \ abandoned = {r \in Requests : p0[r] = "sent"}
    BY <1>2 DEF CallsOK
  <2>2. \A r \in Requests : \/ r \in lost /\ p0[r] = "done" /\ o0[r] = LossError(r)
                            \/ r \in queued /\ p0[r] = "done" /\ o0[r] = "unsent"
                            \/ r \notin lost \cup queued /\ p0[r] = p1[r] /\ o0[r] = o1[r]
    BY <1>2
  <2>3. \A r \in lost : r \notin abandoned /\ r \in pending \cup streams
    OBVIOUS
  <2>4. \A r \in queued : r \notin abandoned
    BY <1>2 DEF CallsOK
  <2> HIDE DEF p0, o0, lost, queued
  <2> QED BY <1>2, <1>3, <1>4, <2>1, <2>2, <2>3, <2>4 DEF CallsOK
<1>6. Granted(p0) = Granted(pc) /\ Waiting(p0) = {w \in capacityWaiters : sock[w] # s}
  <2>1. Granted(p0) = Granted(p1)
    BY <1>2 DEF Granted
  <2>2. Waiting(p0) = {w \in Waiting(p1) : sock[w] # s}
    BY <1>1, <1>2 DEF Waiting
  <2> QED BY <1>1, <2>1, <2>2
<1>7. DrainQueue(ahead, Waiting(p0), pending \ carried, streams \ carried, Cardinality(Granted(p0)), p0, o0)
  BY <1>1, <1>6 DEF FailAll, Drain
<1>8. ahead \in [Requests -> SUBSET Requests]
  BY DEF Inv, RestOK
<1>9. capacityWaiters \subseteq Requests /\ KeepsOrder(ahead, p0)
  BY <1>1 DEF KeepsOrder, Waiting
<1> HIDE DEF p0, o0, carried
<1> QED BY <1>5, <1>7, <1>8, <1>9, StepByDrain

\* failAll and destroy() after a protocol failure, a timeout or a broken stream.
LEMMA LoseSocketStep == ASSUME Inv, NEW s, LoseSocket(s) PROVE Inv' /\ Turn
<1>1. FailAll(s, pc, outcome) /\ abandoned' = abandoned /\ wire' = wire
  BY DEF LoseSocket, streamVars, ghostVars
<1>2. sstate' \in [Sockets -> {"unused", "connecting", "open", "destroyed", "closed"}]
  BY DEF LoseSocket, Inv, RestOK
<1>3. ahead' \in [Requests -> SUBSET Requests] => RestOK'
  BY <1>2 DEF Inv, RestOK, LoseSocket, streamVars, quotaVars, ghostVars
<1>4. CallsOK(pc, outcome, pending, streams, abandoned, wire)
  BY DEF Inv
<1> QED BY <1>1, <1>3, <1>4, FailAllStep

\* 'connect' resumes the calls that awaited this connection.
LEMMA SocketConnectedStep == ASSUME Inv, NEW s \in Sockets, SocketConnected(s) PROVE Inv' /\ Turn
<1>1. /\ UNCHANGED slotVars /\ outcome' = outcome /\ abandoned' = abandoned /\ wire' = wire
      /\ pc' = [r \in Requests |-> IF pc[r] = "connect" /\ sock[r] = s THEN "connected" ELSE pc[r]]
  BY DEF SocketConnected, streamVars
<1>2. \A r \in Requests : pc'[r] = pc[r] \/ (pc[r] = "connect" /\ pc'[r] = "connected")
  <2>1. pc' = [r \in Requests |-> IF pc[r] = "connect" /\ sock[r] = s THEN "connected" ELSE pc[r]]
    BY <1>1
  <2> QED BY <2>1
<1>3. pc' \in [Requests -> Phases]
  BY <1>1 DEF Inv, CallsOK, Phases
<1>4. CallsOK(pc', outcome', pending, streams, abandoned', wire')
  <2>1. {r \in Requests : pc'[r] = "sent"} = {r \in Requests : pc[r] = "sent"}
    BY <1>2
  <2> QED BY <1>1, <1>2, <1>3, <2>1 DEF Inv, CallsOK
<1>5. Granted(pc') = Granted(pc) /\ Waiting(pc') = Waiting(pc)
  BY <1>2 DEF Granted, Waiting
<1>6. RestOK'
  <2>1. announced' \in [Sockets -> [connected : Nat, disconnected : Nat]]
    BY AnnouncedType DEF SocketConnected, Inv, RestOK
  <2>2. sstate' \in [Sockets -> {"unused", "connecting", "open", "destroyed", "closed"}]
    BY DEF SocketConnected, Inv, RestOK
  <2> QED BY <2>1, <2>2 DEF Inv, RestOK, SocketConnected, slotVars, streamVars, quotaVars
<1> QED BY <1>1, <1>4, <1>5, <1>6, StepBesideSlots

\* The network kills a socket: no call learns of it yet.
LEMMA SocketDroppedStep == ASSUME Inv, NEW s \in Sockets, SocketDropped(s) PROVE Inv' /\ Turn
<1>1. UNCHANGED slotVars /\ pc' = pc /\ outcome' = outcome /\ abandoned' = abandoned /\ wire' = wire
  BY DEF SocketDropped, callVars, streamVars, ghostVars
<1>2. RestOK'
  <2>1. sstate' \in [Sockets -> {"unused", "connecting", "open", "destroyed", "closed"}]
    BY DEF SocketDropped, Inv, RestOK
  <2> QED BY <2>1 DEF Inv, RestOK, SocketDropped, slotVars, streamVars, quotaVars, ghostVars
<1>3. CallsOK(pc', outcome', pending, streams, abandoned', wire')
  BY <1>1 DEF Inv
<1> QED BY <1>1, <1>2, <1>3, StepBesideSlots

\* 'close' refuses the calls that awaited the connection, then runs failAll.
LEMMA SocketClosedStep == ASSUME Inv, NEW s \in Sockets, SocketClosed(s) PROVE Inv' /\ Turn
<1> DEFINE refused == {r \in Requests : pc[r] = "connect" /\ sock[r] = s}
           p1 == [r \in Requests |-> IF r \in refused THEN "done" ELSE pc[r]]
           o1 == [r \in Requests |-> IF r \in refused THEN "unsent" ELSE outcome[r]]
<1>1. FailAll(s, p1, o1) /\ abandoned' = abandoned /\ wire' = wire
  BY DEF SocketClosed, streamVars
<1>2. \A r \in Requests : \/ p1[r] = pc[r] /\ o1[r] = outcome[r]
                          \/ pc[r] = "connect" /\ p1[r] = "done" /\ o1[r] = "unsent"
  OBVIOUS
<1>3. p1 \in [Requests -> Phases] /\ o1 \in [Requests -> Outcomes]
  BY DEF Inv, CallsOK, Phases, Outcomes
<1>4. ahead' \in [Requests -> SUBSET Requests] => RestOK'
  <2>1. sstate' \in [Sockets -> {"unused", "connecting", "open", "destroyed", "closed"}]
    BY DEF SocketClosed, Inv, RestOK
  <2>2. connecting' \in {NoSocket} \cup Sockets
    BY DEF SocketClosed, Inv, RestOK
  <2>3. socket' \in {NoSocket} \cup Sockets
    BY DEF SocketClosed, PublishDisconnection, Inv, RestOK
  <2>4. announced' \in [Sockets -> [connected : Nat, disconnected : Nat]]
    <3>1. \/ announced' = announced
          \/ announced' = [announced EXCEPT ![s].disconnected = @ + 1]
      BY DEF SocketClosed, PublishDisconnection
    <3>2. announced \in [Sockets -> [connected : Nat, disconnected : Nat]]
      BY DEF Inv, RestOK
    <3> QED BY <3>1, <3>2, AnnouncedType
  <2> QED BY <2>1, <2>2, <2>3, <2>4 DEF Inv, RestOK, SocketClosed, streamVars, quotaVars
<1> HIDE DEF p1, o1
<1>5. CallsOK(p1, o1, pending, streams, abandoned, wire)
  <2>1. {r \in Requests : p1[r] = "sent"} = {r \in Requests : pc[r] = "sent"}
    BY <1>2
  <2> QED BY <1>2, <1>3, <2>1 DEF Inv, CallsOK
<1>6. Granted(p1) = Granted(pc) /\ Waiting(p1) = Waiting(pc)
  BY <1>2 DEF Granted, Waiting
<1> QED BY <1>1, <1>4, <1>5, <1>6, FailAllStep

\* close() settles every wait and everything in flight; granted calls keep their
\* reservation until their continuation runs.
LEMMA CloseStep == ASSUME Inv, Close PROVE Inv' /\ Turn
<1> DEFINE inFlight == (pending \cup streams) \ abandoned
           waits    == {r \in Requests : pc[r] \in {"pace", "connect", "waiting", "repace"}}
<1>1. /\ pc' = [r \in Requests |-> IF r \in inFlight \cup waits THEN "done" ELSE pc[r]]
      /\ outcome' = [r \in Requests |-> IF r \in inFlight THEN LossError(r) ELSE
                                        IF r \in waits THEN "cancelled" ELSE outcome[r]]
      /\ pending' = {} /\ streams' = {} /\ capacityWaiters' = {}
      /\ capacityReservations' = capacityReservations
      /\ abandoned' = abandoned /\ wire' = wire
  BY DEF Close, streamVars, ghostVars
<1>2. inFlight = {r \in Requests : pc[r] = "sent"}
  BY DEF Inv, CallsOK
<1>3. \A r \in Requests : LossError(r) \in {"unknown", "lost"} /\ (MethodOf[r] = "send" => LossError(r) = "unknown")
  BY DEF LossError
<1>4. \A r \in Requests :
        \/ pc[r] = "sent" /\ pc'[r] = "done" /\ outcome'[r] = LossError(r)
        \/ pc[r] \in {"pace", "connect", "waiting", "repace"} /\ pc'[r] = "done" /\ outcome'[r] = "cancelled"
        \/ pc[r] \notin {"sent", "pace", "connect", "waiting", "repace"} /\ pc'[r] = pc[r] /\ outcome'[r] = outcome[r]
  BY <1>1, <1>2
<1>5. pc' \in [Requests -> Phases] /\ outcome' \in [Requests -> Outcomes]
  BY <1>1, <1>3 DEF Inv, CallsOK, Phases, Outcomes
<1>6. CallsOK(pc', outcome', pending', streams', abandoned', wire')
  <2>1. {r \in Requests : pc'[r] = "sent"} = {}
    BY <1>4
  <2>2. \A r \in Requests : r \in abandoned => pc[r] = "done"
    BY DEF Inv, CallsOK
  <2> QED BY <1>1, <1>3, <1>4, <1>5, <2>1, <2>2 DEF Inv, CallsOK
<1>7. Granted(pc') = Granted(pc) /\ Waiting(pc') = {}
  BY <1>4 DEF Granted, Waiting
<1>8. SlotsOK(pc', capacityWaiters', capacityReservations')
  BY <1>1, <1>7 DEF Inv, SlotsOK
<1>9. SlotBound'
  <2>1. pending \in SUBSET Requests /\ streams \in SUBSET Requests /\ Granted(pc) \in SUBSET Requests
    BY DEF Inv, CallsOK, Granted
  <2>2. Cardinality(pending) \in Nat /\ Cardinality(streams) \in Nat /\ capacityReservations \in Nat
    BY <2>1, SubsetCardinality DEF Inv, SlotsOK
  <2>3. Cardinality({}) = 0
    BY FS_EmptySet
  <2>4. Cardinality(pending') = 0 /\ Cardinality(streams') = 0
    BY <1>1, <2>3
  <2> QED BY <1>1, <2>2, <2>4, BoundsType DEF Inv, SlotBound, InFlight
<1>10. RestOK'
  <2>1. ahead' \in [Requests -> SUBSET Requests]
    BY DEF Close
  <2>2. sstate' \in [Sockets -> {"unused", "connecting", "open", "destroyed", "closed"}]
    BY DEF Close, Inv, RestOK
  <2>3. closed' \in BOOLEAN
    BY DEF Close
  <2> QED BY <2>1, <2>2, <2>3 DEF Inv, RestOK, Close, streamVars, quotaVars, ghostVars
<1>11. Turn
  <2>1. NoIdleSlot'
    BY <1>1 DEF NoIdleSlot
  <2>2. InOrder
    BY <1>4 DEF InOrder, Inv, SlotsOK, Waiting
  <2> QED BY <2>1, <2>2 DEF Turn
<1> QED BY <1>6, <1>8, <1>9, <1>10, <1>11 DEF Inv

\* A reply or the end of a stream settles its call and frees its slot.
LEMMA SettleInFlightStep ==
    ASSUME Inv, NEW r \in Requests, NEW o \in Outcomes, r \in pending \cup streams,
           \/ r \notin abandoned /\ o \in {"ok", "refused"}
           \/ r \notin abandoned /\ o = "notForwarded"
           \/ r \in abandoned /\ o = outcome[r],
           SettleInFlight(r, o), abandoned' = abandoned, wire' = wire,
           ahead' \in [Requests -> SUBSET Requests] => RestOK'
    PROVE  Inv' /\ Turn
<1> DEFINE p0 == [pc EXCEPT ![r] = "done"]
           o0 == [outcome EXCEPT ![r] = o]
<1>1. /\ r \notin abandoned => pc[r] = "sent" /\ wire[r] # NoSocket
      /\ r \in abandoned => pc[r] = "done"
  BY DEF Inv, CallsOK
<1>2. p0 \in [Requests -> Phases] /\ o0 \in [Requests -> Outcomes]
  BY DEF Inv, CallsOK, Phases
<1>3. CallsOK(p0, o0, pending \ {r}, streams \ {r}, abandoned', wire')
  <2>1. ((pending \ {r}) \cup (streams \ {r})) \ abandoned = {x \in Requests : p0[x] = "sent"}
    BY <1>1 DEF Inv, CallsOK
  <2>2. \A x \in Requests : x # r => p0[x] = pc[x] /\ o0[x] = outcome[x]
    BY DEF Inv, CallsOK
  <2>3. p0[r] = "done" /\ o0[r] = o
    BY DEF Inv, CallsOK
  <2> HIDE DEF p0, o0
  <2> QED BY <1>1, <1>2, <2>1, <2>2, <2>3 DEF Inv, CallsOK
<1>4. Granted(p0) = Granted(pc) /\ Waiting(p0) = capacityWaiters
  BY <1>1 DEF Granted, Waiting, Inv, CallsOK, SlotsOK
<1>5. DrainQueue(ahead, Waiting(p0), pending \ {r}, streams \ {r}, Cardinality(Granted(p0)), p0, o0)
  BY <1>4 DEF SettleInFlight, Drain, Inv, SlotsOK
<1>6. ahead \in [Requests -> SUBSET Requests]
  BY DEF Inv, RestOK
<1>7. capacityWaiters \subseteq Requests /\ KeepsOrder(ahead, p0)
  BY DEF KeepsOrder, Inv, SlotsOK, Waiting, CallsOK
<1> HIDE DEF p0, o0
<1> QED BY <1>3, <1>5, <1>6, <1>7, StepByDrain

\* A result.
LEMMA ReplyResultStep == ASSUME Inv, NEW r \in Requests, ReplyResult(r) PROVE Inv' /\ Turn
<1>1. /\ SettleInFlight(r, "ok") /\ abandoned' = abandoned /\ wire' = wire
      /\ r \in pending /\ r \notin abandoned
  BY DEF ReplyResult, streamVars, ghostVars, Inv, CallsOK
<1>2. ahead' \in [Requests -> SUBSET Requests] => RestOK'
  BY DEF Inv, RestOK, ReplyResult, streamVars, quotaVars, connVars, ghostVars
<1> QED BY <1>1, <1>2, SettleInFlightStep DEF Outcomes

\* An error, with or without a cooldown.
LEMMA ReplyErrorStep ==
    ASSUME Inv, NEW r \in Requests, NEW scope \in {"none", "method", "*"}, NEW nodeCode \in BOOLEAN,
           NEW wait \in 0..MaxCooldown, ReplyError(r, scope, nodeCode, wait)
    PROVE  Inv' /\ Turn
<1>1. PICK o \in {"notForwarded", "refused"} : SettleInFlight(r, o)
  BY DEF ReplyError
<1>2. abandoned' = abandoned /\ wire' = wire /\ r \in pending /\ r \notin abandoned
  BY DEF ReplyError, streamVars, ghostVars, Inv, CallsOK
<1>3. cooldowns' \in [Methods \cup {"*"} -> 0..MaxCooldown]
  BY MethodOfType DEF ReplyError, Inv, RestOK
<1>4. ahead' \in [Requests -> SUBSET Requests] => RestOK'
  BY <1>3 DEF Inv, RestOK, ReplyError, streamVars, connVars, ghostVars
<1> QED BY <1>1, <1>2, <1>4, SettleInFlightStep DEF Outcomes

\* The stream's first reply moves the slot from `pending' to `streams'.
LEMMA StreamStartStep == ASSUME Inv, NEW r \in Requests, StreamStart(r) PROVE Inv' /\ Turn
<1>1. abandoned' = abandoned /\ wire' = wire /\ r \in pending /\ MethodOf[r] = "stream"
  BY DEF StreamStart, streamVars, ghostVars
<1>2. CallsOK(pc, outcome, pending \ {r}, streams \cup {r}, abandoned', wire')
  BY <1>1 DEF Inv, CallsOK
<1>3. DrainQueue(ahead, Waiting(pc), pending \ {r}, streams \cup {r}, Cardinality(Granted(pc)), pc, outcome)
  BY DEF StreamStart, Drain, Inv, SlotsOK
<1>4. ahead' \in [Requests -> SUBSET Requests] => RestOK'
  BY DEF Inv, RestOK, StreamStart, streamVars, quotaVars, connVars, ghostVars
<1>5. ahead \in [Requests -> SUBSET Requests]
  BY DEF Inv, RestOK
<1>6. capacityWaiters \subseteq Requests /\ KeepsOrder(ahead, pc)
  BY DEF KeepsOrder, Inv, SlotsOK, Waiting
<1> QED BY <1>2, <1>3, <1>4, <1>5, <1>6, StepByDrain

\* A chunk advances the stream; a cancelling consumer settles its call while the
\* stream keeps its slot.
LEMMA StreamChunkStep ==
    ASSUME Inv, NEW r \in Requests, NEW kind, NEW cancels \in BOOLEAN, StreamChunk(r, kind, cancels)
    PROVE  Inv' /\ Turn
<1>1. wire' = wire /\ r \in streams /\ UNCHANGED slotVars
  BY DEF StreamChunk, Settle, slotVars, ghostVars
<1>2. RestOK'
  <2>1. phase' \in [Requests -> {"snapshot", "bounties", "end"}]
    BY DEF StreamChunk, Inv, RestOK
  <2>2. abandoned' \subseteq Requests
    BY DEF StreamChunk, Inv, RestOK
  <2> QED BY <1>1, <2>1, <2>2 DEF StreamChunk, Inv, RestOK, slotVars, quotaVars, connVars, ghostVars
<1>3. CASE abandoned' = abandoned /\ pc' = pc /\ outcome' = outcome
  <2>1. CallsOK(pc', outcome', pending, streams, abandoned', wire')
    BY <1>1, <1>3 DEF Inv
  <2> QED BY <1>1, <1>2, <1>3, <2>1, StepBesideSlots
<1>4. CASE r \notin abandoned /\ abandoned' = abandoned \cup {r} /\ Settle(r, "stopped")
  <2>1. pc' = [pc EXCEPT ![r] = "done"] /\ outcome' = [outcome EXCEPT ![r] = "stopped"]
    BY <1>4 DEF Settle
  <2>2. pc[r] = "sent" /\ wire[r] # NoSocket /\ MethodOf[r] = "stream" /\ r \notin pending
    BY <1>1, <1>4 DEF Inv, CallsOK
  <2>3. CallsOK(pc', outcome', pending, streams, abandoned', wire')
    <3>1. (pending \cup streams) \ abandoned' = {x \in Requests : pc'[x] = "sent"}
      BY <1>1, <1>4, <2>1, <2>2 DEF Inv, CallsOK
    <3>2. pc' \in [Requests -> Phases] /\ outcome' \in [Requests -> Outcomes]
      BY <2>1 DEF Inv, CallsOK, Phases, Outcomes
    <3> QED BY <1>1, <1>4, <2>1, <2>2, <3>1, <3>2 DEF Inv, CallsOK
  <2>4. Granted(pc') = Granted(pc) /\ Waiting(pc') = Waiting(pc)
    BY <2>1, <2>2 DEF Granted, Waiting, Inv, CallsOK
  <2> QED BY <1>1, <1>2, <2>3, <2>4, StepBesideSlots
<1> QED BY <1>3, <1>4 DEF StreamChunk, callVars

\* stream.end settles the call, or only frees the slot of an abandoned stream.
LEMMA StreamEndStep == ASSUME Inv, NEW r \in Requests, StreamEnd(r) PROVE Inv' /\ Turn
<1> DEFINE o == IF r \in abandoned THEN outcome[r] ELSE "ok"
<1>1. SettleInFlight(r, o) /\ abandoned' = abandoned /\ wire' = wire /\ r \in streams
  BY DEF StreamEnd, streamVars, ghostVars
<1>2. o \in Outcomes /\ (r \in abandoned => o = outcome[r]) /\ (r \notin abandoned => o = "ok")
  BY DEF Inv, CallsOK, Outcomes
<1>3. ahead' \in [Requests -> SUBSET Requests] => RestOK'
  BY DEF Inv, RestOK, StreamEnd, streamVars, quotaVars, connVars, ghostVars
<1> HIDE DEF o
<1> QED BY <1>1, <1>2, <1>3, SettleInFlightStep

\* Time moves only charges, cooldowns and ages.
LEMMA TickStep == ASSUME Inv, Tick PROVE Inv' /\ Turn
<1>1. UNCHANGED slotVars /\ pc' = pc /\ outcome' = outcome /\ abandoned' = abandoned /\ wire' = wire
  BY DEF Tick, callVars, streamVars
<1>2. RestOK'
  <2>1. history' \in [Requests -> 0..Window]
    BY BoundsType DEF Tick, Inv, RestOK
  <2>2. age' \in [Requests -> 0..Window]
    BY BoundsType DEF Tick, Inv, RestOK
  <2>3. cooldowns' \in [Methods \cup {"*"} -> 0..MaxCooldown]
    BY BoundsType DEF Tick, Inv, RestOK
  <2> QED BY <2>1, <2>2, <2>3 DEF Inv, RestOK, Tick, slotVars, streamVars, connVars
<1>3. CallsOK(pc', outcome', pending, streams, abandoned', wire')
  BY <1>1 DEF Inv
<1> QED BY <1>1, <1>2, <1>3, StepBesideSlots

----------------------------------------------------------------------------
\* Every step of the client keeps the invariant.
LEMMA NextInv == Inv /\ [Next]_vars => Inv' /\ Turn
<1> SUFFICES ASSUME Inv, [Next]_vars PROVE Inv' /\ Turn
  OBVIOUS
<1>1. CASE UNCHANGED vars
  BY <1>1 DEF vars, callVars, slotVars, streamVars, quotaVars, connVars, ghostVars,
              Inv, RestOK, CallsOK, SlotsOK, SlotBound, InFlight, Granted, Waiting, Turn, InOrder
<1>2. ASSUME NEW r \in Requests, Call(r) \/ Continue(r) \/ Abort(r) PROVE Inv' /\ Turn
  BY <1>2, CallStep, PaceThenConnectStep, WaitForCapacityStep, GrantRevokedStep,
     GrantThrottledStep, GrantRefusedStep, TransmitStep, AbortStep DEF Continue
<1>3. ASSUME NEW r \in Requests, RequestTimeout(r) PROVE Inv' /\ Turn
  BY <1>3, LoseSocketStep DEF RequestTimeout
<1>4. ASSUME NEW r \in Requests, Receive(r) PROVE Inv' /\ Turn
  <2>1. CASE ReplyResult(r) \/ StreamStart(r) \/ StreamEnd(r) \/ StreamIncomplete(r)
    BY <2>1, ReplyResultStep, StreamStartStep, StreamEndStep, LoseSocketStep DEF StreamIncomplete
  <2>2. CASE \E scope \in {"none", "method", "*"}, nodeCode \in BOOLEAN, wait \in 0..MaxCooldown :
               ReplyError(r, scope, nodeCode, wait)
    BY <2>2, ReplyErrorStep
  <2>3. CASE \E kind \in {"snapshot", "bounties", "state"}, cancels \in BOOLEAN : StreamChunk(r, kind, cancels)
    BY <2>3, StreamChunkStep
  <2> QED BY <1>4, <2>1, <2>2, <2>3 DEF Receive
<1>5. ASSUME NEW s \in Sockets, ProtocolFailure(s) \/ SocketConnected(s) \/ SocketDropped(s) \/ SocketClosed(s)
      PROVE Inv' /\ Turn
  BY <1>5, LoseSocketStep, SocketConnectedStep, SocketDroppedStep, SocketClosedStep
     DEF ProtocolFailure
<1> QED BY <1>1, <1>2, <1>3, <1>4, <1>5, CloseStep, TickStep DEF Next

\* The invariant holds in every reachable state.
LEMMA Invariance == Spec => []Inv
BY InitInv, NextInv, PTL DEF Spec

\* The client's state keeps its types (the maps, queue, counters and sockets of
\* RpcClient), whatever the calls, the server and the network do.
THEOREM TypeCorrect == Spec => []TypeOK
BY Invariance, InvImplies, PTL

\* drainCapacity never grants more than the in-flight ceiling.
THEOREM SlotsBounded == Spec => []SlotBound
BY Invariance, InvImplies, PTL

\* No path through request(), failAll(), receive() or close() leaks a slot or
\* frees one twice.
THEOREM SlotsAreOwned == Spec => []SlotsOwned
BY Invariance, InvImplies, PTL

\* request() tells its caller the truth about what was written.
THEOREM OutcomesHonest == Spec => []HonestOutcome
BY Invariance, InvImplies, PTL

----------------------------------------------------------------------------
\* No loss was announced of a connection that is current or not yet opened.
ConnOK == \A s \in Sockets : sstate[s] = "unused" \/ s = socket => announced[s].disconnected = 0

\* Only Transmit writes.
LEMMA OnlyTransmitWrites == ASSUME [Next]_vars PROVE wire' = wire \/ \E r \in Requests : Transmit(r)
<1>1. CASE UNCHANGED vars
  BY <1>1 DEF vars, ghostVars
<1>2. ASSUME NEW r \in Requests, Call(r) \/ Continue(r) \/ Abort(r) \/ RequestTimeout(r) \/ Receive(r)
      PROVE  wire' = wire \/ Transmit(r)
  BY <1>2 DEF Call, Continue, PaceThenConnect, WaitForCapacity, GrantRevoked, GrantThrottled,
              GrantRefused,
              Abort, RequestTimeout, LoseSocket, Receive, ReplyResult, ReplyError, StreamStart,
              StreamChunk, StreamEnd, StreamIncomplete, ghostVars
<1>3. ASSUME NEW s \in Sockets, ProtocolFailure(s) \/ SocketConnected(s) \/ SocketDropped(s) \/ SocketClosed(s)
      PROVE  wire' = wire
  BY <1>3 DEF ProtocolFailure, LoseSocket, SocketConnected, SocketDropped, SocketClosed, ghostVars
<1>4. CASE Close \/ Tick
  BY <1>4 DEF Close, Tick, ghostVars
<1> QED BY <1>1, <1>2, <1>3, <1>4 DEF Next

\* A step that neither announces a loss nor opens or changes the current socket,
\* and makes no socket unused, keeps ConnOK.
LEMMA ConnFrame ==
    ASSUME ConnOK, announced' = announced, socket' \in {socket, NoSocket},
           \A s \in Sockets : sstate'[s] = "unused" => sstate[s] = "unused"
    PROVE  ConnOK'
BY DEF ConnOK, Sockets, NoSocket

\* Every step keeps ConnOK: publishDisconnection retires the socket it announces.
LEMMA NextConn == Inv /\ ConnOK /\ [Next]_vars => ConnOK'
<1> SUFFICES ASSUME Inv, ConnOK, [Next]_vars PROVE ConnOK'
  OBVIOUS
<1> DEFINE Frame == /\ announced' = announced /\ socket' \in {socket, NoSocket}
                    /\ \A s \in Sockets : sstate'[s] = "unused" => sstate[s] = "unused"
<1>1. CASE UNCHANGED vars
  BY <1>1, ConnFrame DEF vars, connVars, ghostVars
<1>2. ASSUME NEW r \in Requests, Call(r) \/ Abort(r) \/ RequestTimeout(r) \/ Receive(r) PROVE Frame
  <2>1. CASE Call(r) \/ Abort(r)
    BY <2>1 DEF Call, Abort, connVars, ghostVars
  <2>2. ASSUME NEW s, LoseSocket(s) PROVE Frame
    BY <2>2 DEF LoseSocket, ghostVars, Inv, RestOK
  <2>3. CASE Receive(r) /\ ~StreamIncomplete(r)
    BY <2>3 DEF Receive, ReplyResult, ReplyError, StreamStart, StreamChunk, StreamEnd, connVars,
                ghostVars
  <2> QED BY <1>2, <2>1, <2>2, <2>3 DEF RequestTimeout, StreamIncomplete
<1>3. ASSUME NEW r \in Requests, Continue(r), ~PaceThenConnect(r) PROVE Frame
  BY <1>3 DEF Continue, WaitForCapacity, GrantRevoked, GrantThrottled, GrantRefused, Transmit,
              Write, connVars, ghostVars
<1>4. ASSUME NEW r \in Requests, PaceThenConnect(r) PROVE ConnOK'
  <2>1. \A s \in Sockets : s # socket => announced'[s] = announced[s]
    BY <1>4 DEF PaceThenConnect, AnnounceInConnect, Inv, RestOK
  <2>2. CASE UsableSocket
    <3>1. SocketAfterPublish = socket
      BY <2>2 DEF UsableSocket, SocketAfterPublish
    <3> QED BY <1>4, <2>2, <3>1, ConnFrame DEF PaceThenConnect, AnnounceInConnect, connVars
  <2>3. CASE ~UsableSocket /\ connecting # NoSocket
    <3>1. socket' = SocketAfterPublish /\ sstate' = sstate
      BY <1>4, <2>3 DEF PaceThenConnect
    <3>2. CASE SocketAfterPublish = socket
      BY <1>4, <3>1, <3>2, ConnFrame DEF PaceThenConnect, AnnounceInConnect
    <3>3. CASE SocketAfterPublish # socket
      <4>1. SocketAfterPublish = NoSocket /\ socket # NoSocket /\ sstate[socket] = "destroyed"
        BY <3>3 DEF SocketAfterPublish
      <4> QED BY <2>1, <3>1, <4>1 DEF ConnOK, Sockets, NoSocket
    <3> QED BY <3>2, <3>3
  <2>4. CASE ~UsableSocket /\ connecting = NoSocket
    <3>1. PICK t \in Sockets : /\ \A x \in Sockets : sstate[x] = "unused" <=> x >= t
                               /\ sstate' = [sstate EXCEPT ![t] = "connecting"] /\ socket' = t
      BY <1>4, <2>4 DEF PaceThenConnect
    <3>2. sstate[t] = "unused" /\ announced[t].disconnected = 0
      BY <3>1 DEF ConnOK, Sockets
    <3>3. \A s \in Sockets : sstate'[s] = "unused" => sstate[s] = "unused"
      BY <3>1 DEF Inv, RestOK
    <3>4. CASE SocketAfterPublish = socket
      BY <1>4, <3>1, <3>2, <3>3, <3>4 DEF PaceThenConnect, AnnounceInConnect, ConnOK
    <3>5. CASE SocketAfterPublish # socket
      <4>1. socket # NoSocket /\ sstate[socket] = "destroyed"
        BY <3>5 DEF SocketAfterPublish
      <4>2. sstate'[socket] = "destroyed" /\ t # socket
        BY <3>1, <3>2, <4>1 DEF Inv, RestOK
      <4> QED BY <2>1, <3>1, <3>2, <3>3, <4>1, <4>2 DEF ConnOK
    <3> QED BY <3>4, <3>5
  <2> QED BY <2>2, <2>3, <2>4
<1>5. ASSUME NEW s \in Sockets, ProtocolFailure(s) \/ SocketDropped(s) PROVE Frame
  BY <1>5 DEF ProtocolFailure, LoseSocket, SocketDropped, ghostVars, Inv, RestOK
<1>6. ASSUME NEW s \in Sockets, SocketConnected(s) PROVE ConnOK'
  <2>1. \A t \in Sockets : announced'[t].disconnected = announced[t].disconnected
    BY <1>6 DEF SocketConnected, Inv, RestOK
  <2>2. \A t \in Sockets : sstate'[t] = "unused" => sstate[t] = "unused"
    BY <1>6 DEF SocketConnected, Inv, RestOK
  <2>3. socket' = socket
    BY <1>6 DEF SocketConnected
  <2> QED BY <2>1, <2>2, <2>3 DEF ConnOK
<1>7. ASSUME NEW s \in Sockets, SocketClosed(s) PROVE ConnOK'
  <2>1. \A t \in Sockets : sstate'[t] = "unused" => sstate[t] = "unused" /\ t # s
    BY <1>7 DEF SocketClosed, Inv, RestOK
  <2>2. CASE socket # s
    BY <1>7, <2>1, <2>2, ConnFrame DEF SocketClosed, PublishDisconnection
  <2>3. CASE socket = s
    <3>1. socket' = NoSocket /\ \A t \in Sockets : t # s => announced'[t] = announced[t]
      BY <1>7, <2>3 DEF SocketClosed, PublishDisconnection, Inv, RestOK
    <3> QED BY <2>1, <3>1 DEF ConnOK, Sockets, NoSocket
  <2> QED BY <2>2, <2>3
<1>8. CASE Close \/ Tick
  <2>1. Frame
    BY <1>8 DEF Close, Tick, connVars, ghostVars, Inv, RestOK
  <2> QED BY <2>1, ConnFrame
<1> QED BY <1>1, <1>2, <1>3, <1>4, <1>5, <1>6, <1>7, <1>8, ConnFrame DEF Next

\* A step writes only for a live call, once, on the current announced connection.
LEMMA TransmitFenced ==
    ASSUME Inv, ConnOK, [Next]_vars, NEW r \in Requests, wire'[r] # wire[r]
    PROVE  /\ wire[r] = NoSocket
           /\ r \notin aborted /\ ~closed
           /\ wire'[r] = socket /\ announced[socket].disconnected = 0
           /\ cooldowns[MethodOf[r]] = 0 /\ cooldowns["*"] = 0
<1>1. PICK x \in Requests : Transmit(x)
  BY OnlyTransmitWrites
<1>2. wire' = [wire EXCEPT ![x] = sock[x]]
  BY <1>1 DEF Transmit, Write
<1>3. x = r
  BY <1>2 DEF Inv, RestOK
<1>4. pc[r] = "granted" /\ Alive(r) /\ QuotaFree(r)
  BY <1>1, <1>3 DEF Transmit
<1>5. wire[r] = NoSocket
  BY <1>4 DEF Inv, CallsOK
<1>6. wire'[r] = socket
  BY <1>2, <1>3, <1>4 DEF Alive, Inv, RestOK
<1>7. announced[socket].disconnected = 0
  BY <1>4 DEF Alive, ConnOK, Inv, RestOK
<1> QED BY <1>4, <1>5, <1>6, <1>7 DEF Alive, QuotaFree

\* Nothing is announced initially.
LEMMA InitConn == Init => ConnOK
BY DEF Init, ConnOK

\* Bytes leave the client only behind every fence of request(): for a live call,
\* once, on its connection before the loss is announced, outside cooldowns.
THEOREM WritesFenced == Spec => WriteFenced
<1>1. Inv /\ ConnOK /\ [Next]_vars =>
        [\A r \in Requests : wire'[r] # wire[r] =>
          /\ wire[r] = NoSocket
          /\ r \notin aborted /\ ~closed
          /\ wire'[r] = socket /\ announced[socket].disconnected = 0
          /\ cooldowns[MethodOf[r]] = 0 /\ cooldowns["*"] = 0]_vars
  BY TransmitFenced
<1> QED BY <1>1, Invariance, InitConn, NextConn, PTL DEF Spec, WriteFenced

----------------------------------------------------------------------------
\* The quota of a call is what its write left of the window, and no method is over its limit.
QuotaInv ==
    /\ \A r \in Requests : history[r] = IF wire[r] = NoSocket THEN 0 ELSE Window - age[r]
    /\ \A m \in Methods : Cardinality(Charged(m)) <= Limit[m]

\* Only a write and the passing of time touch the quota.
LEMMA QuotaFrame ==
    ASSUME [Next]_vars PROVE UNCHANGED <<history, wire, age>> \/ Tick \/ \E r \in Requests : Transmit(r)
<1>1. CASE UNCHANGED vars
  BY <1>1 DEF vars, ghostVars, quotaVars
<1>2. ASSUME NEW r \in Requests, Call(r) \/ Continue(r) \/ Abort(r) \/ RequestTimeout(r) \/ Receive(r)
      PROVE  UNCHANGED <<history, wire, age>> \/ Transmit(r)
  BY <1>2 DEF Call, Continue, PaceThenConnect, WaitForCapacity, GrantRevoked, GrantThrottled,
              GrantRefused,
              Abort, RequestTimeout, LoseSocket, Receive, ReplyResult, ReplyError, StreamStart,
              StreamChunk, StreamEnd, StreamIncomplete, ghostVars, quotaVars
<1>3. ASSUME NEW s \in Sockets, ProtocolFailure(s) \/ SocketConnected(s) \/ SocketDropped(s) \/ SocketClosed(s)
      PROVE  UNCHANGED <<history, wire, age>>
  BY <1>3 DEF ProtocolFailure, LoseSocket, SocketConnected, SocketDropped, SocketClosed, ghostVars,
              quotaVars
<1>4. CASE Close
  BY <1>4 DEF Close, ghostVars, quotaVars
<1> QED BY <1>1, <1>2, <1>3, <1>4 DEF Next

\* quotaWait(..., {reserve: true}) adds the written call to a window that had room.
LEMMA QuotaTransmit == ASSUME Inv, QuotaInv, NEW r \in Requests, Transmit(r) PROVE QuotaInv'
<1>1. /\ pc[r] = "granted" /\ sock[r] # NoSocket /\ QuotaFree(r)
      /\ history' = [history EXCEPT ![r] = Window]
      /\ wire' = [wire EXCEPT ![r] = sock[r]] /\ age' = [age EXCEPT ![r] = 0]
  BY DEF Transmit, Write, Charge, Alive
<1>2. \A x \in Requests : history'[x] = IF wire'[x] = NoSocket THEN 0 ELSE Window - age'[x]
  BY <1>1, BoundsType DEF QuotaInv, Inv, RestOK
<1>3. ASSUME NEW m \in Methods PROVE Cardinality(Charged(m)') <= Limit[m]
  <2>1. Charged(m) \in SUBSET Requests /\ MethodOf[r] \in Methods
    BY MethodOfType DEF Charged
  <2>2. IsFiniteSet(Charged(m)) /\ Cardinality(Charged(m)) \in Nat
    BY <2>1, SubsetCardinality
  <2>3. CASE MethodOf[r] = m
    <3>1. Charged(m)' = Charged(m) \cup {r}
      BY <1>1, <2>3, BoundsType DEF Charged, Inv, RestOK
    <3>2. Cardinality(Charged(m) \cup {r}) \in {Cardinality(Charged(m)), Cardinality(Charged(m)) + 1}
      BY <2>2, FS_AddElement
    <3>3. Cardinality(Charged(m)) < Limit[m]
      BY <1>1, <2>3 DEF QuotaFree
    <3> QED BY <2>2, <3>1, <3>2, <3>3, BoundsType
  <2>4. CASE MethodOf[r] # m
    <3>1. Charged(m)' = Charged(m)
      BY <1>1, <2>4 DEF Charged, Inv, RestOK
    <3> QED BY <3>1 DEF QuotaInv
  <2> QED BY <2>3, <2>4
<1> QED BY <1>2, <1>3 DEF QuotaInv

\* Time takes charges out of the window and puts none in.
LEMMA QuotaTick == ASSUME Inv, QuotaInv, Tick PROVE QuotaInv'
<1>1. /\ history' = [r \in Requests |-> IF history[r] > 0 THEN history[r] - 1 ELSE 0] /\ wire' = wire
      /\ age' = [r \in Requests |-> IF wire[r] # NoSocket /\ age[r] < Window THEN age[r] + 1 ELSE age[r]]
  BY DEF Tick
<1>2. \A x \in Requests : history'[x] = IF wire'[x] = NoSocket THEN 0 ELSE Window - age'[x]
  BY <1>1, BoundsType DEF QuotaInv, Inv, RestOK
<1>3. ASSUME NEW m \in Methods PROVE Cardinality(Charged(m)') <= Limit[m]
  <2>1. Charged(m) \in SUBSET Requests /\ Charged(m)' \subseteq Charged(m)
    BY <1>1 DEF Charged, Inv, RestOK
  <2>2. IsFiniteSet(Charged(m)) /\ Cardinality(Charged(m)) \in Nat
    BY <2>1, SubsetCardinality
  <2>3. Cardinality(Charged(m)') \in Nat /\ Cardinality(Charged(m)') <= Cardinality(Charged(m))
    BY <2>1, <2>2, FS_Subset, FS_CardinalityType
  <2> QED BY <2>2, <2>3, BoundsType DEF QuotaInv
<1> QED BY <1>2, <1>3 DEF QuotaInv

\* Every step keeps the quota.
LEMMA NextQuota == Inv /\ QuotaInv /\ [Next]_vars => QuotaInv'
<1> SUFFICES ASSUME Inv, QuotaInv, [Next]_vars PROVE QuotaInv'
  OBVIOUS
<1>1. CASE UNCHANGED <<history, wire, age>>
  BY <1>1 DEF QuotaInv, Charged
<1> QED BY <1>1, QuotaFrame, QuotaTransmit, QuotaTick

\* Nothing is charged initially.
LEMMA InitQuota == Init => QuotaInv
<1> SUFFICES ASSUME Init PROVE QuotaInv
  OBVIOUS
<1>1. \A r \in Requests : history[r] = 0 /\ wire[r] = NoSocket
  BY DEF Init
<1>2. \A m \in Methods : Charged(m) = {}
  BY <1>1 DEF Charged
<1>3. \A m \in Methods : Cardinality(Charged(m)) <= Limit[m]
  BY <1>2, FS_EmptySet, BoundsType
<1> QED BY <1>1, <1>3 DEF QuotaInv

\* A charge lasts exactly one window from the write.
LEMMA QuotaImplies == Inv /\ QuotaInv => QuotaKept
<1> SUFFICES ASSUME Inv, QuotaInv PROVE QuotaMatchesWire
  BY InvImplies DEF QuotaKept
<1> QED BY BoundsType DEF Inv, RestOK, QuotaInv, QuotaMatchesWire

\* quotaWait charges exactly the writes and no window sees more of them than its limit, although
\* slot waits in which other calls write lie between each check and its write.
THEOREM QuotasKept == Spec => []QuotaKept
BY Invariance, InitQuota, NextQuota, QuotaImplies, PTL DEF Spec

----------------------------------------------------------------------------
\* drainCapacity pops from the front: a call overtakes nobody that is still live.
THEOREM GrantedInOrder == Spec => GrantsAreFifo
<1>1. Inv /\ [Next]_vars =>
        [\A first, later \in capacityWaiters :
          first \in ahead[later] /\ pc'[later] = "granted" => pc'[first] # "waiting"]_vars
  BY NextInv DEF Turn, InOrder
<1> QED BY <1>1, Invariance, PTL DEF Spec, GrantsAreFifo

\* Past connect(): the awaits whose call has a connection.
Past == {"connected", "waiting", "granted", "repace", "sent"}

\* A call past connect() holds a socket that has been open.
Reached ==
    \A r \in Requests : pc[r] \in Past =>
        sock[r] \in Sockets /\ sstate[sock[r]] \in {"open", "destroyed", "closed"}

\* What the sockets say about one another: one is current, later ones are unused, earlier ones
\* were announced as lost, a connection being made is the current one, and close() leaves none.
Current ==
    /\ \A s \in Sockets :
        /\ sstate[s] \in {"unused", "connecting"} => announced[s].connected = 0
        /\ sstate[s] = "connecting" => socket = s /\ connecting = s
        /\ socket # NoSocket /\ s > socket => sstate[s] = "unused"
        /\ ~closed /\ sstate[s] # "unused" /\ s # socket => announced[s].disconnected = 1
        /\ \A t \in Sockets : s < t /\ sstate[t] # "unused" => sstate[s] # "unused"
    /\ socket # NoSocket => sstate[socket] \in {"connecting", "open", "destroyed"}
    /\ closed => socket = NoSocket /\ \A r \in Requests : pc[r] # "pace"

\* With the property itself, which close() freezes.
Link == Current /\ LossAnnouncedBeforeReplacement

\* No call comes past connect() or back to its first pace.
Advance ==
    \A r \in Requests : (pc'[r] \in Past => pc[r] \in Past) /\ (pc'[r] = "pace" => pc[r] = "pace")

\* drainCapacity moves only calls of the queue, and only on.
LEMMA AdvanceByDrain ==
    ASSUME NEW order, NEW q \in SUBSET Requests, NEW pend, NEW strm, NEW resv,
           NEW p0 \in [Requests -> Phases], NEW o0,
           \A r \in q : pc[r] \in Past,
           \A r \in Requests : (p0[r] \in Past => pc[r] \in Past) /\ (p0[r] = "pace" => pc[r] = "pace"),
           DrainQueue(order, q, pend, strm, resv, p0, o0)
    PROVE  Advance
<1>1. PICK popped \in SUBSET q :
        pc' = [r \in Requests |->
                IF r \in {x \in popped : Alive(x)} THEN "granted" ELSE
                IF r \in popped \ {x \in popped : Alive(x)} THEN "done" ELSE p0[r]]
  BY DEF DrainQueue, Serve
<1>2. ASSUME NEW r \in Requests PROVE pc'[r] = p0[r] \/ (r \in q /\ pc'[r] \in {"granted", "done"})
  BY <1>1
<1> QED BY <1>2 DEF Advance, Past

\* The queue holds calls past connect().
LEMMA QueuePast == ASSUME Inv PROVE capacityWaiters \in SUBSET Requests /\ \A r \in capacityWaiters : pc[r] \in Past
BY DEF Inv, SlotsOK, Waiting, Past

\* failAll advances calls.
LEMMA AdvanceByFailAll ==
    ASSUME Inv, NEW s, NEW p1 \in [Requests -> Phases], NEW o1,
           \A r \in Requests : p1[r] = pc[r] \/ p1[r] = "done",
           FailAll(s, p1, o1)
    PROVE  Advance
<1> DEFINE carried == {r \in pending \cup streams : sock[r] = s}
           lost    == carried \ abandoned
           queued  == {r \in capacityWaiters : sock[r] = s}
           q  == {w \in capacityWaiters : sock[w] # s}
           p0 == [r \in Requests |-> IF r \in lost \cup queued THEN "done" ELSE p1[r]]
<1>1. PICK o0 : DrainQueue(ahead, q, pending \ carried, streams \ carried, capacityReservations, p0, o0)
  BY DEF FailAll, Drain
<1>2. q \in SUBSET Requests /\ \A r \in q : pc[r] \in Past
  BY QueuePast
<1>3. p0 \in [Requests -> Phases] /\ \A r \in Requests : p0[r] = pc[r] \/ p0[r] = "done"
  BY DEF Phases
<1>4. \A r \in Requests : (p0[r] \in Past => pc[r] \in Past) /\ (p0[r] = "pace" => pc[r] = "pace")
  BY <1>3 DEF Past
<1> HIDE DEF p0, q, carried
<1> QED BY <1>1, <1>2, <1>3, <1>4, AdvanceByDrain

\* A call settles, or changes its await past connect(), and the queue is drained.
LEMMA AdvanceByOne ==
    ASSUME Inv, NEW r \in Requests, NEW next \in Phases, NEW q \in SUBSET (capacityWaiters \cup {r}),
           NEW order, NEW pend, NEW strm, NEW resv, NEW o0,
           next = "done" \/ (next \in Past /\ pc[r] \in Past), r \in q => pc[r] \in Past,
           DrainQueue(order, q, pend, strm, resv, [pc EXCEPT ![r] = next], o0)
    PROVE  Advance
<1> DEFINE p0 == [pc EXCEPT ![r] = next]
<1>1. q \in SUBSET Requests /\ \A x \in q : pc[x] \in Past
  BY QueuePast
<1>2. p0 \in [Requests -> Phases]
  BY DEF Inv, CallsOK
<1>3. \A x \in Requests : (p0[x] \in Past => pc[x] \in Past) /\ (p0[x] = "pace" => pc[x] = "pace")
  BY DEF Inv, CallsOK, Past
<1> HIDE DEF p0
<1>4. DrainQueue(order, q, pend, strm, resv, p0, o0)
  BY DEF p0
<1> QED BY <1>1, <1>2, <1>3, <1>4, AdvanceByDrain

\* A step of one call that changes neither its socket nor any connection.
LEMMA CallAdvances ==
    ASSUME Inv, NEW r \in Requests,
           \/ WaitForCapacity(r) \/ GrantRevoked(r) \/ GrantThrottled(r) \/ GrantRefused(r)
           \/ Transmit(r) \/ Abort(r)
    PROVE  Advance
<1>0. pc \in [Requests -> Phases]
  BY DEF Inv, CallsOK
<1>1. CASE WaitForCapacity(r)
  <2>1. pc[r] \in Past
    BY <1>1 DEF WaitForCapacity, Past
  <2>2. DrainQueue([ahead EXCEPT ![r] = capacityWaiters], capacityWaiters \cup {r},
                  pending, streams, capacityReservations, [pc EXCEPT ![r] = "waiting"], outcome)
    BY <1>1 DEF WaitForCapacity
  <2>3. "waiting" \in Phases /\ "waiting" \in Past
    BY DEF Phases, Past
  <2> QED BY <2>1, <2>2, <2>3, AdvanceByOne
<1>2. ASSUME NEW next \in {"done", "repace"}, NEW o, pc[r] = "granted", Release(r, next, o) PROVE Advance
  <2>1. pc[r] \in Past /\ next \in Phases /\ (next = "done" \/ next \in Past)
    BY <1>2 DEF Past, Phases
  <2> QED BY <1>2, <2>1, AdvanceByOne DEF Release, Drain
<1>3. CASE GrantRevoked(r) \/ GrantThrottled(r) \/ GrantRefused(r)
  BY <1>2, <1>3 DEF GrantRevoked, GrantThrottled, GrantRefused
<1>4. CASE Transmit(r)
  <2>1. pc[r] \in Past /\ "sent" \in Past /\ "sent" \in Phases
    BY <1>4 DEF Past, Phases, Transmit
  <2> QED BY <1>4, <2>1, AdvanceByOne DEF Transmit, Write, Drain
<1>5. CASE Abort(r)
  <2>1. CASE pc[r] \in {"pace", "connect", "repace"}
    <3>1. pc' = [pc EXCEPT ![r] = "done"]
      BY <1>5, <2>1 DEF Abort, Settle
    <3> QED BY <1>0, <3>1 DEF Advance, Past
  <2>2. CASE pc[r] = "waiting"
    <3>1. DrainQueue(ahead, capacityWaiters \ {r}, pending, streams, capacityReservations,
                     [pc EXCEPT ![r] = "done"], [outcome EXCEPT ![r] = "cancelled"])
      BY <1>5, <2>2 DEF Abort, Drain
    <3>2. "done" \in Phases
      BY DEF Phases
    <3> QED BY <3>1, <3>2, AdvanceByOne
  <2>3. CASE pc[r] \notin {"pace", "connect", "repace", "waiting"}
    <3>1. pc' = pc
      BY <1>5, <2>3 DEF Abort, callVars
    <3> QED BY <3>1 DEF Advance
  <2> QED BY <2>1, <2>2, <2>3
<1> QED BY <1>1, <1>3, <1>4, <1>5

\* A frame that is well-formed.
LEMMA ReceiveAdvances == ASSUME Inv, NEW r \in Requests, Receive(r), ~StreamIncomplete(r) PROVE Advance
<1>0. pc \in [Requests -> Phases] /\ "done" \in Phases
  BY DEF Inv, CallsOK, Phases
<1>1. ASSUME NEW o, SettleInFlight(r, o) PROVE Advance
  BY <1>0, <1>1, AdvanceByOne, QueuePast DEF SettleInFlight, Drain
<1>2. CASE ReplyResult(r) \/ StreamEnd(r)
  BY <1>1, <1>2 DEF ReplyResult, StreamEnd
<1>3. ASSUME NEW scope, NEW nodeCode, NEW wait, ReplyError(r, scope, nodeCode, wait) PROVE Advance
  BY <1>1, <1>3 DEF ReplyError
<1>4. CASE StreamStart(r)
  <2>1. DrainQueue(ahead, capacityWaiters, pending \ {r}, streams \cup {r}, capacityReservations, pc, outcome)
    BY <1>4 DEF StreamStart, Drain
  <2> QED BY <1>0, <2>1, AdvanceByDrain, QueuePast
<1>5. ASSUME NEW kind, NEW cancels, StreamChunk(r, kind, cancels) PROVE Advance
  <2>1. pc' = pc \/ pc' = [pc EXCEPT ![r] = "done"]
    BY <1>5 DEF StreamChunk, Settle, callVars
  <2> QED BY <1>0, <2>1 DEF Advance, Past
<1> QED BY <1>2, <1>3, <1>4, <1>5 DEF Receive

\* The sockets' side.
LEMMA SocketAdvances ==
    ASSUME Inv, NEW s, LoseSocket(s) \/ SocketDropped(s) \/ SocketClosed(s) PROVE Advance
<1>0. pc \in [Requests -> Phases]
  BY DEF Inv, CallsOK
<1>1. CASE LoseSocket(s)
  BY <1>0, <1>1, AdvanceByFailAll DEF LoseSocket
<1>2. CASE SocketDropped(s)
  BY <1>2 DEF SocketDropped, callVars, Advance
<1>3. CASE SocketClosed(s)
  <2> DEFINE refused == {r \in Requests : pc[r] = "connect" /\ sock[r] = s}
             p1 == [r \in Requests |-> IF r \in refused THEN "done" ELSE pc[r]]
  <2>1. PICK o1 : FailAll(s, p1, o1)
    BY <1>3 DEF SocketClosed
  <2>2. p1 \in [Requests -> Phases] /\ \A r \in Requests : p1[r] = pc[r] \/ p1[r] = "done"
    BY <1>0 DEF Phases
  <2> HIDE DEF p1
  <2> QED BY <2>1, <2>2, AdvanceByFailAll
<1> QED BY <1>1, <1>2, <1>3

\* A step that advances calls and leaves the connections alone keeps both.
LEMMA QuietLink ==
    ASSUME Reached, Link, Advance, UNCHANGED <<sock, connVars, announced>> PROVE Reached' /\ Link'
<1>1. /\ sock' = sock /\ socket' = socket /\ sstate' = sstate /\ connecting' = connecting
      /\ closed' = closed /\ announced' = announced
  BY DEF connVars
<1>2. Reached'
  BY <1>1 DEF Reached, Advance
<1>3. Link'
  BY <1>1 DEF Link, Current, Advance, LossAnnouncedBeforeReplacement
<1> QED BY <1>2, <1>3

\* Both events come at most once per connection.
Once == \A s \in Sockets : announced[s].connected <= 1 /\ announced[s].disconnected <= 1

\* While the client is open, every earlier connection was announced as lost.
LEMMA OpenOrder == ASSUME Current, Once, ~closed PROVE LossAnnouncedBeforeReplacement
<1> SUFFICES ASSUME NEW s \in Sockets, NEW t \in Sockets, t > s, announced[t].connected = 1
             PROVE  announced[s].disconnected = 1
  BY DEF LossAnnouncedBeforeReplacement, Once
<1>1. sstate[t] # "unused"
  BY DEF Current
<1>2. socket # s
  BY <1>1 DEF Current, Sockets, NoSocket
<1>3. sstate[s] # "unused"
  BY <1>1 DEF Current, Sockets
<1> QED BY <1>2, <1>3 DEF Current

\* A step within an open client, or one that announces nothing, keeps the property if it keeps the rest.
LEMMA LinkStep ==
    ASSUME Link, Current', Once', announced' = announced \/ ~closed' PROVE Link'
<1>1. LossAnnouncedBeforeReplacement'
  <2>1. CASE announced' = announced
    BY <2>1 DEF Link, LossAnnouncedBeforeReplacement
  <2>2. CASE ~closed'
    <3>1. Current /\ Once /\ ~closed => LossAnnouncedBeforeReplacement
      BY OpenOrder
    <3>2. (Current /\ Once /\ ~closed => LossAnnouncedBeforeReplacement)'
      BY <3>1, OpenOrder, PTL
    <3> QED BY <2>2, <3>2
  <2> QED BY <2>1, <2>2
<1> QED BY <1>1 DEF Link

\* An event raises one counter of one connection.
LEMMA AnnouncedValue ==
    ASSUME NEW f \in [Sockets -> [connected : Nat, disconnected : Nat]], NEW s \in Sockets
    PROVE  /\ \A t \in Sockets : t # s => [f EXCEPT ![s].disconnected = @ + 1][t] = f[t]
           /\ [f EXCEPT ![s].disconnected = @ + 1][s].disconnected = f[s].disconnected + 1
           /\ [f EXCEPT ![s].disconnected = @ + 1][s].connected = f[s].connected
           /\ \A t \in Sockets : t # s => [f EXCEPT ![s].connected = @ + 1][t] = f[t]
           /\ [f EXCEPT ![s].connected = @ + 1][s].connected = f[s].connected + 1
           /\ [f EXCEPT ![s].connected = @ + 1][s].disconnected = f[s].disconnected
<1>1. f[s] \in [connected : Nat, disconnected : Nat]
  OBVIOUS
<1>2. /\ [f[s] EXCEPT !.disconnected = @ + 1].disconnected = f[s].disconnected + 1
      /\ [f[s] EXCEPT !.disconnected = @ + 1].connected = f[s].connected
      /\ [f[s] EXCEPT !.connected = @ + 1].connected = f[s].connected + 1
      /\ [f[s] EXCEPT !.connected = @ + 1].disconnected = f[s].disconnected
  BY <1>1
<1> QED BY <1>2

\* request() accepts no call once the client is closed.
LEMMA CallLink == ASSUME Inv, Reached, Link, NEW r \in Requests, Call(r) PROVE Reached' /\ Link'
<1>1. /\ sock' = sock /\ socket' = socket /\ sstate' = sstate /\ connecting' = connecting
      /\ closed' = closed /\ announced' = announced
  BY DEF Call, connVars, ghostVars
<1>2. pc' = [pc EXCEPT ![r] = "done"] \/ (~closed /\ pc' = [pc EXCEPT ![r] = "pace"])
  BY DEF Call, Settle
<1>3. Reached'
  BY <1>1, <1>2 DEF Reached, Past, Inv, CallsOK
<1>4. Link'
  BY <1>1, <1>2 DEF Link, Current, LossAnnouncedBeforeReplacement, Inv, CallsOK
<1> QED BY <1>3, <1>4

\* connect() announces the loss of a destroyed socket before a new one takes its place.
LEMMA PaceLink ==
    ASSUME Inv, ConnOK, Reached, Link, NEW r \in Requests, PaceThenConnect(r) PROVE Reached' /\ Link'
<1>0. /\ announced \in [Sockets -> [connected : Nat, disconnected : Nat]]
      /\ sstate \in [Sockets -> {"unused", "connecting", "open", "destroyed", "closed"}]
      /\ sock \in [Requests -> {NoSocket} \cup Sockets] /\ socket \in {NoSocket} \cup Sockets
      /\ pc \in [Requests -> Phases] /\ NoSocket \notin Sockets
  BY DEF Inv, RestOK, CallsOK, Sockets, NoSocket
<1>1. pc[r] = "pace" /\ closed' = closed /\ ~closed
  BY DEF PaceThenConnect, connVars, Link, Current
<1>2. Once
  BY DEF Link, LossAnnouncedBeforeReplacement, Once
<1>3. CASE UsableSocket
  <2>1. /\ sock' = [sock EXCEPT ![r] = socket] /\ pc' = [pc EXCEPT ![r] = "connected"]
        /\ UNCHANGED connVars
    BY <1>3 DEF PaceThenConnect
  <2>2. announced' = announced
    BY <1>3 DEF PaceThenConnect, AnnounceInConnect, SocketAfterPublish, UsableSocket
  <2>3. Reached'
    BY <1>0, <1>3, <2>1 DEF Reached, Past, UsableSocket, connVars
  <2>4. Link'
    BY <1>0, <1>1, <2>1, <2>2 DEF Link, Current, LossAnnouncedBeforeReplacement, connVars
  <2> QED BY <2>3, <2>4
<1>4. CASE ~UsableSocket
  <2>1. /\ pc' = [pc EXCEPT ![r] = "connect"]
        /\ \A x \in Requests : x # r => sock'[x] = sock[x]
    BY <1>0, <1>4 DEF PaceThenConnect
  <2>2. \A x \in Requests : pc'[x] \in Past => x # r /\ pc[x] = pc'[x] /\ sock'[x] = sock[x]
    BY <1>0, <2>1 DEF Past
  <2>3. \/ announced' = announced /\ (socket = NoSocket \/ sstate[socket] # "destroyed")
        \/ /\ socket \in Sockets /\ sstate[socket] = "destroyed"
           /\ announced' = [announced EXCEPT ![socket].disconnected = @ + 1]
    BY <1>0 DEF PaceThenConnect, AnnounceInConnect, SocketAfterPublish
  <2>4. /\ \A t \in Sockets : t # socket => announced'[t] = announced[t]
        /\ \A t \in Sockets : announced'[t].connected = announced[t].connected
        /\ socket # NoSocket /\ sstate[socket] = "destroyed" => announced'[socket].disconnected = 1
        /\ Once'
    <3>1. CASE announced' = announced /\ (socket = NoSocket \/ sstate[socket] # "destroyed")
      BY <1>2, <3>1 DEF Once
    <3>2. CASE /\ socket \in Sockets /\ sstate[socket] = "destroyed"
               /\ announced' = [announced EXCEPT ![socket].disconnected = @ + 1]
      <4>1. announced[socket].disconnected = 0
        BY <3>2 DEF ConnOK
      <4>2. /\ \A t \in Sockets : t # socket => announced'[t] = announced[t]
            /\ announced'[socket].disconnected = 0 + 1
            /\ announced'[socket].connected = announced[socket].connected
        BY <1>0, <3>2, <4>1, AnnouncedValue
      <4> QED BY <1>2, <4>2 DEF Once
    <3> QED BY <2>3, <3>1, <3>2
  <2>5. CASE connecting # NoSocket
    <3>1. socket' = SocketAfterPublish /\ sstate' = sstate /\ connecting' = connecting
      BY <1>4, <2>5 DEF PaceThenConnect
    <3>2. Reached'
      BY <2>2, <3>1 DEF Reached
    <3>3. socket' = socket \/ (socket' = NoSocket /\ socket \in Sockets /\ sstate[socket] = "destroyed")
      BY <1>0, <3>1 DEF SocketAfterPublish
    <3>4. Current'
      BY <1>0, <1>1, <2>1, <2>4, <3>1, <3>3 DEF Link, Current
    <3> QED BY <1>1, <2>4, <3>2, <3>4, LinkStep
  <2>6. CASE connecting = NoSocket
    <3>1. PICK n \in Sockets : /\ \A x \in Sockets : sstate[x] = "unused" <=> x >= n
                               /\ sstate' = [sstate EXCEPT ![n] = "connecting"] /\ socket' = n /\ connecting' = n
      BY <1>4, <2>6 DEF PaceThenConnect
    <3>2. sstate[n] = "unused"
      BY <3>1 DEF Sockets
    <3>3. Reached'
      BY <1>0, <2>2, <3>1, <3>2 DEF Reached
    <3>4. socket # NoSocket => sstate[socket] = "destroyed" /\ socket # n
      BY <1>0, <1>4, <2>6, <3>2 DEF Link, Current, UsableSocket
    <3>5. \A s \in Sockets : s # n /\ sstate[s] # "unused" => announced'[s].disconnected = 1
      BY <1>0, <1>1, <2>4, <3>4 DEF Link, Current
    <3>6. \A s \in Sockets : sstate'[s] = IF s = n THEN "connecting" ELSE sstate[s]
      BY <1>0, <3>1
    <3>7. \A s \in Sockets : sstate[s] # "connecting"
      BY <1>0, <2>6 DEF Link, Current
    <3>8. \A s \in Sockets : s > n => sstate[s] = "unused"
      BY <3>1 DEF Sockets
    <3>9. \A s, t \in Sockets : s < t /\ sstate'[t] # "unused" => sstate'[s] # "unused"
      BY <3>1, <3>6 DEF Sockets
    <3>10. \A s \in Sockets : sstate'[s] \in {"unused", "connecting"} => announced'[s].connected = 0
      BY <2>4, <3>2, <3>6 DEF Link, Current
    <3>11. \A s \in Sockets : sstate'[s] = "connecting" => socket' = s /\ connecting' = s
      BY <3>1, <3>6, <3>7
    <3>12. \A s \in Sockets : s > socket' => sstate'[s] = "unused"
      <4>1. n \in Nat
        BY DEF Sockets
      <4> QED BY <3>1, <3>6, <3>8, <4>1
    <3>13. \A s \in Sockets : sstate'[s] # "unused" /\ s # socket' => announced'[s].disconnected = 1
      BY <3>1, <3>5, <3>6
    <3>14. sstate'[socket'] = "connecting"
      BY <3>1, <3>6
    <3>15. Current'
      BY <1>1, <3>9, <3>10, <3>11, <3>12, <3>13, <3>14 DEF Current
    <3> QED BY <1>1, <2>4, <3>3, <3>15, LinkStep
  <2> QED BY <2>5, <2>6
<1> QED BY <1>3, <1>4

\* A socket that dies stays current until its loss is announced.
LEMMA DropLink ==
    ASSUME Inv, Reached, Link, NEW s, LoseSocket(s) \/ (s \in Sockets /\ SocketDropped(s)) PROVE Reached' /\ Link'
<1>0. sstate \in [Sockets -> {"unused", "connecting", "open", "destroyed", "closed"}]
  BY DEF Inv, RestOK
<1>1. /\ sock' = sock /\ socket' = socket /\ connecting' = connecting
      /\ closed' = closed /\ announced' = announced
  BY DEF LoseSocket, SocketDropped, ghostVars
<1>2. \A t \in Sockets : \/ sstate'[t] = sstate[t]
                         \/ sstate[t] \in {"connecting", "open"} /\ sstate'[t] = "destroyed"
  BY <1>0 DEF LoseSocket, SocketDropped
<1>3. Advance
  BY SocketAdvances
<1>4. Reached'
  BY <1>1, <1>2, <1>3 DEF Reached, Advance
<1>5. Link'
  <2>1. socket # NoSocket => sstate'[socket] \in {"connecting", "open", "destroyed"}
    BY <1>2 DEF Link, Current, Inv, RestOK
  <2>2. Current'
    BY <1>1, <1>2, <1>3, <2>1 DEF Link, Current, Advance
  <2>3. Once'
    BY <1>1 DEF Link, LossAnnouncedBeforeReplacement, Once
  <2> QED BY <1>1, <2>2, <2>3, LinkStep
<1> QED BY <1>4, <1>5

\* 'connect' is announced for the current connection, once.
LEMMA ConnectedLink ==
    ASSUME Inv, Reached, Link, NEW s \in Sockets, SocketConnected(s) PROVE Reached' /\ Link'
<1>0. /\ sstate \in [Sockets -> {"unused", "connecting", "open", "destroyed", "closed"}]
      /\ announced \in [Sockets -> [connected : Nat, disconnected : Nat]]
      /\ NoSocket \notin Sockets
  BY DEF Inv, RestOK, Sockets, NoSocket
<1>1. /\ sock' = sock /\ socket' = socket /\ connecting' = NoSocket /\ closed' = closed
      /\ sstate[s] = "connecting" /\ sstate' = [sstate EXCEPT ![s] = "open"]
      /\ pc' = [r \in Requests |-> IF pc[r] = "connect" /\ sock[r] = s THEN "connected" ELSE pc[r]]
      /\ announced' = [announced EXCEPT ![s].connected = @ + 1]
  BY DEF SocketConnected
<1>2. socket = s /\ ~closed /\ announced[s].connected = 0
  BY <1>0, <1>1 DEF Link, Current
<1>3. \A t \in Sockets : sstate'[t] = IF t = s THEN "open" ELSE sstate[t]
  BY <1>0, <1>1
<1>4. /\ \A t \in Sockets : t # s => announced'[t] = announced[t]
      /\ announced'[s].connected = 1 /\ announced'[s].disconnected = announced[s].disconnected
  BY <1>0, <1>1, <1>2, AnnouncedValue
<1>5. \A r \in Requests : pc'[r] = pc[r] \/ (pc[r] = "connect" /\ sock[r] = s /\ pc'[r] = "connected")
  BY <1>1
<1>6. Reached'
  BY <1>1, <1>3, <1>5 DEF Reached, Past
<1>7. Current'
  BY <1>0, <1>1, <1>2, <1>3, <1>4, <1>5 DEF Link, Current
<1>8. Once'
  BY <1>4 DEF Link, LossAnnouncedBeforeReplacement, Once
<1> QED BY <1>1, <1>2, <1>6, <1>7, <1>8, LinkStep

\* 'close' announces the loss of the connection if it is still the current one.
LEMMA ClosedLink ==
    ASSUME Inv, ConnOK, Reached, Link, NEW s \in Sockets, SocketClosed(s) PROVE Reached' /\ Link'
<1>0. /\ sstate \in [Sockets -> {"unused", "connecting", "open", "destroyed", "closed"}]
      /\ announced \in [Sockets -> [connected : Nat, disconnected : Nat]]
      /\ NoSocket \notin Sockets /\ socket \in {NoSocket} \cup Sockets
  BY DEF Inv, RestOK, Sockets, NoSocket
<1>1. /\ sock' = sock /\ closed' = closed /\ sstate[s] = "destroyed"
      /\ sstate' = [sstate EXCEPT ![s] = "closed"]
      /\ connecting' = IF connecting = s THEN NoSocket ELSE connecting
      /\ PublishDisconnection(s)
  BY DEF SocketClosed
<1>2. Advance
  BY SocketAdvances
<1>3. \A t \in Sockets : sstate'[t] = IF t = s THEN "closed" ELSE sstate[t]
  BY <1>0, <1>1
<1>4. Reached'
  BY <1>1, <1>2, <1>3 DEF Reached, Advance
<1>5. Once
  BY DEF Link, LossAnnouncedBeforeReplacement, Once
<1>6. CASE socket = s
  <2>1. socket' = NoSocket /\ announced' = [announced EXCEPT ![s].disconnected = @ + 1]
    BY <1>1, <1>6 DEF PublishDisconnection
  <2>2. announced[s].disconnected = 0 /\ ~closed
    BY <1>0, <1>6 DEF ConnOK, Link, Current
  <2>3. /\ \A t \in Sockets : t # s => announced'[t] = announced[t]
        /\ announced'[s].disconnected = 1 /\ announced'[s].connected = announced[s].connected
    BY <1>0, <2>1, <2>2, AnnouncedValue
  <2>4. Current'
    BY <1>0, <1>1, <1>2, <1>3, <1>6, <2>1, <2>2, <2>3 DEF Link, Current, Advance
  <2>5. Once'
    BY <1>5, <2>3 DEF Once
  <2> QED BY <1>1, <1>4, <2>2, <2>4, <2>5, LinkStep
<1>7. CASE socket # s
  <2>1. socket' = socket /\ announced' = announced
    BY <1>1, <1>7 DEF PublishDisconnection
  <2>2. socket # NoSocket => sstate'[socket] = sstate[socket]
    BY <1>0, <1>3, <1>7
  <2>3. Current'
    BY <1>0, <1>1, <1>2, <1>3, <1>7, <2>1, <2>2 DEF Link, Current, Advance
  <2>4. Once'
    BY <1>5, <2>1 DEF Once
  <2> QED BY <1>4, <2>1, <2>3, <2>4, LinkStep
<1> QED BY <1>6, <1>7

\* close() destroys the connection and announces nothing any more.
LEMMA CloseLink == ASSUME Inv, Reached, Link, Close PROVE Reached' /\ Link'
<1>0. /\ sstate \in [Sockets -> {"unused", "connecting", "open", "destroyed", "closed"}]
      /\ socket \in {NoSocket} \cup Sockets /\ NoSocket \notin Sockets
  BY DEF Inv, RestOK, Sockets, NoSocket
<1>1. /\ sock' = sock /\ socket' = NoSocket /\ connecting' = connecting /\ closed' /\ announced' = announced
      /\ sstate' = IF socket # NoSocket /\ sstate[socket] \in {"connecting", "open"}
                   THEN [sstate EXCEPT ![socket] = "destroyed"] ELSE sstate
  BY DEF Close, ghostVars
<1>2. \A r \in Requests : pc'[r] = "done" \/ (pc'[r] = pc[r] /\ pc[r] # "pace")
  BY DEF Close
<1>3. \A t \in Sockets : \/ sstate'[t] = sstate[t] /\ (t = socket => sstate[t] \notin {"connecting", "open"})
                         \/ t = socket /\ sstate[t] \in {"connecting", "open"} /\ sstate'[t] = "destroyed"
  BY <1>0, <1>1
<1>4. Reached'
  BY <1>1, <1>2, <1>3 DEF Reached, Past
<1>5. Current'
  BY <1>0, <1>1, <1>2, <1>3 DEF Link, Current
<1>6. Once'
  BY <1>1 DEF Link, LossAnnouncedBeforeReplacement, Once
<1> QED BY <1>1, <1>4, <1>5, <1>6, LinkStep

\* Every step keeps what the sockets say about one another.
LEMMA NextLink == Inv /\ ConnOK /\ Reached /\ Link /\ [Next]_vars => Reached' /\ Link'
<1> SUFFICES ASSUME Inv, ConnOK, Reached, Link, [Next]_vars PROVE Reached' /\ Link'
  OBVIOUS
<1>1. CASE UNCHANGED vars \/ Tick
  <2>1. Advance
    BY <1>1 DEF vars, callVars, Tick, Advance
  <2>2. UNCHANGED <<sock, connVars, announced>>
    BY <1>1 DEF vars, ghostVars, Tick
  <2> QED BY <2>1, <2>2, QuietLink
<1>2. ASSUME NEW r \in Requests, \/ WaitForCapacity(r) \/ GrantRevoked(r) \/ GrantThrottled(r)
                                 \/ GrantRefused(r) \/ Transmit(r) \/ Abort(r)
      PROVE  Reached' /\ Link'
  <2>1. UNCHANGED <<sock, connVars, announced>>
    BY <1>2 DEF WaitForCapacity, GrantRevoked, GrantThrottled, GrantRefused, Transmit, Write,
                Abort, ghostVars
  <2> QED BY <1>2, <2>1, CallAdvances, QuietLink
<1>3. ASSUME NEW r \in Requests, Receive(r) PROVE Reached' /\ Link'
  <2>1. CASE StreamIncomplete(r)
    BY <2>1, DropLink DEF StreamIncomplete
  <2>2. CASE ~StreamIncomplete(r)
    <3>1. UNCHANGED <<sock, connVars, announced>>
      BY <1>3, <2>2 DEF Receive, ReplyResult, ReplyError, StreamStart, StreamChunk, StreamEnd,
                        ghostVars
    <3> QED BY <1>3, <2>2, <3>1, ReceiveAdvances, QuietLink
  <2> QED BY <2>1, <2>2
<1>4. ASSUME NEW r \in Requests, RequestTimeout(r) PROVE Reached' /\ Link'
  BY <1>4, DropLink DEF RequestTimeout
<1>5. ASSUME NEW s \in Sockets, ProtocolFailure(s) \/ SocketDropped(s) PROVE Reached' /\ Link'
  BY <1>5, DropLink DEF ProtocolFailure
<1> QED
  BY <1>1, <1>2, <1>3, <1>4, <1>5, CallLink, PaceLink, ConnectedLink, ClosedLink, CloseLink
     DEF Next, Continue

\* No socket is used initially.
LEMMA InitLink == Init => Reached /\ Link
<1> SUFFICES ASSUME Init PROVE Reached /\ Link
  OBVIOUS
<1>1. /\ \A s \in Sockets : sstate[s] = "unused" /\ announced[s].connected = 0 /\ announced[s].disconnected = 0
      /\ socket = NoSocket /\ closed = FALSE /\ \A r \in Requests : pc[r] = "idle"
  BY DEF Init
<1> QED BY <1>1 DEF Reached, Past, Link, Current, LossAnnouncedBeforeReplacement

\* A queued call that is live after a step that leaves the queue alone was live before it.
LEMMA LiveBefore ==
    ASSUME Inv, Reached, [Next]_vars, UNCHANGED slotVars, NEW w \in capacityWaiters, Alive(w)' PROVE Alive(w)
<1>0. /\ sstate \in [Sockets -> {"unused", "connecting", "open", "destroyed", "closed"}]
      /\ sock \in [Requests -> {NoSocket} \cup Sockets] /\ socket \in {NoSocket} \cup Sockets
      /\ NoSocket \notin Sockets /\ closed \in BOOLEAN
  BY DEF Inv, RestOK, Sockets, NoSocket
<1>1. /\ w \in Requests /\ pc[w] = "waiting" /\ sock[w] \in Sockets
      /\ sstate[sock[w]] \in {"open", "destroyed", "closed"}
  BY DEF Inv, SlotsOK, Waiting, Reached, Past
<1>2. /\ w \notin aborted' /\ ~closed' /\ sock'[w] = socket' /\ sock'[w] # NoSocket
      /\ sstate'[sock'[w]] = "open"
  BY DEF Alive
<1> DEFINE Same == UNCHANGED <<sock, connVars>> /\ aborted \subseteq aborted'
<1>3. CASE Same
  BY <1>2, <1>3 DEF Alive, connVars
<1>4. CASE UNCHANGED vars \/ Tick
  BY <1>3, <1>4 DEF vars, Tick
<1>5. ASSUME NEW r \in Requests, \/ Call(r) \/ WaitForCapacity(r) \/ GrantRevoked(r) \/ GrantThrottled(r)
                                 \/ GrantRefused(r) \/ Transmit(r) \/ Abort(r)
      PROVE  Same
  BY <1>5 DEF Call, WaitForCapacity, GrantRevoked, GrantThrottled, GrantRefused, Transmit, Write,
              Abort
<1>6. ASSUME NEW r \in Requests, Receive(r), ~StreamIncomplete(r) PROVE Same
  BY <1>6 DEF Receive, ReplyResult, ReplyError, StreamStart, StreamChunk, StreamEnd
<1>7. ASSUME NEW s, LoseSocket(s) \/ (s \in Sockets /\ SocketDropped(s)) PROVE Alive(w)
  <2>1. /\ sock' = sock /\ socket' = socket /\ closed' = closed /\ aborted' = aborted
        /\ \A t \in Sockets : sstate'[t] = "open" => sstate[t] = "open"
    BY <1>0, <1>7 DEF LoseSocket, SocketDropped
  <2> QED BY <1>1, <1>2, <2>1 DEF Alive
<1>8. ASSUME NEW r \in Requests, PaceThenConnect(r) PROVE Alive(w)
  <2>1. sock'[w] = sock[w] /\ aborted' = aborted /\ closed' = closed
    BY <1>0, <1>1, <1>8 DEF PaceThenConnect, connVars
  <2>2. CASE UsableSocket
    BY <1>2, <1>8, <2>1, <2>2 DEF PaceThenConnect, connVars, Alive
  <2>3. CASE ~UsableSocket /\ connecting # NoSocket
    <3>1. socket' = SocketAfterPublish /\ sstate' = sstate
      BY <1>8, <2>3 DEF PaceThenConnect
    <3> QED BY <1>2, <2>1, <3>1 DEF SocketAfterPublish, Alive
  <2>4. CASE ~UsableSocket /\ connecting = NoSocket
    <3>1. PICK n \in Sockets : sstate' = [sstate EXCEPT ![n] = "connecting"] /\ socket' = n
      BY <1>8, <2>4 DEF PaceThenConnect
    <3>2. sstate'[socket'] = "connecting"
      BY <1>0, <3>1
    <3> QED BY <1>2, <3>2
  <2> QED BY <2>2, <2>3, <2>4
<1>9. ASSUME NEW s \in Sockets, SocketConnected(s) PROVE Alive(w)
  <2>1. /\ sock' = sock /\ socket' = socket /\ closed' = closed /\ aborted' = aborted
        /\ sstate[s] = "connecting" /\ \A t \in Sockets : t # s => sstate'[t] = sstate[t]
    BY <1>0, <1>9 DEF SocketConnected
  <2> QED BY <1>1, <1>2, <2>1 DEF Alive
<1>10. ASSUME NEW s \in Sockets, SocketClosed(s) PROVE Alive(w)
  <2>1. /\ sock' = sock /\ closed' = closed /\ aborted' = aborted /\ socket' \in {socket, NoSocket}
        /\ \A t \in Sockets : sstate'[t] = "open" => sstate[t] = "open"
    BY <1>0, <1>10 DEF SocketClosed, PublishDisconnection
  <2> QED BY <1>1, <1>2, <2>1 DEF Alive
<1>11. ~Close
  BY <1>2 DEF Close
<1> HIDE DEF Same
<1> QED BY <1>3, <1>4, <1>5, <1>6, <1>7, <1>8, <1>9, <1>10, <1>11
        DEF Next, Continue, RequestTimeout, StreamIncomplete, ProtocolFailure

\* Every step keeps the slots busy while a live call waits.
LEMMA NextIdle == Inv /\ Reached /\ NoIdleSlot /\ [Next]_vars => NoIdleSlot'
<1> SUFFICES ASSUME Inv, Reached, NoIdleSlot, [Next]_vars, UNCHANGED slotVars PROVE NoIdleSlot'
  BY NextInv DEF Turn
<1>1. /\ capacityWaiters' = capacityWaiters /\ ahead' = ahead
      /\ InFlight(pending, streams, capacityReservations)' = InFlight(pending, streams, capacityReservations)
  BY DEF slotVars, InFlight
<1>2. \A w \in capacityWaiters : Alive(w)' => Alive(w)
  BY LiveBefore
<1> QED BY <1>1, <1>2 DEF NoIdleSlot

\* drainCapacity runs often enough that no live call heads the queue while a slot is free, and
\* publishDisconnection tells listeners of every loss before connect() replaces the connection.
THEOREM SlotsBusyLossesAnnounced == Spec => []NoneIdleNoneSilent
<1>1. Init => NoIdleSlot
  BY DEF Init, NoIdleSlot
<1>2. Link /\ NoIdleSlot => NoneIdleNoneSilent
  BY DEF Link, NoneIdleNoneSilent
<1> QED BY <1>1, <1>2, Invariance, InitConn, NextConn, InitLink, NextLink, NextIdle, PTL DEF Spec

=============================================================================
