------------------------- MODULE ClaimsEngineProofs -------------------------
(***************************************************************************)
(* The engine by itself: one that was stopped or suspended is quiet, it    *)
(* has one helper at a time, a change of its queue is looked at, and the   *)
(* warning of an unknown broadcast stays, for any number of tasks, halts   *)
(* and failures.  Then the connection to its helper, P!Spec: the counters  *)
(* and deadlines watch every request.  Last the proofs it finds, F!Spec:   *)
(* for any number of outpoints an acceptance is counted once, a proof is   *)
(* kept, a confirmed claim stays reserved, and none is sent again blindly. *)
(***************************************************************************)
EXTENDS ClaimsEngine, Sequences, TLAPS, FiniteSetTheorems

Live        == {"starting", "ready"}
PoolState   == {"none", "failed", "closed"} \cup Live
Task        == [on : BOOLEAN, gen : Gens, aborted : BOOLEAN, gated : BOOLEAN]
Coordinator == [phase : {"none", "queued", "pool", "gate", "done"}, gen : Gens]
Blocking    == {"no", "prepared", "all"}
Halting     == {"no", "close", "drain"}
Warning     == {"none", "retry", "helper", "unknown"}
HaltReason  == {"none", "stop", "suspend", "locked", "fatal"}

Engine ==
    [enabled : BOOLEAN, paused : BOOLEAN, blocked : Blocking, gen : Gens, coordinator : Coordinator,
     wakeRequested : BOOLEAN, timer : BOOLEAN, refreshTimer : BOOLEAN, pool : Gens \cup {None},
     closing : Gens \cup {None}, stopping : Halting, haltReason : HaltReason, lastError : Warning,
     tasks : [Slots -> Task]]

\* While the engine is not stopping its coordinator is of its generation and its pool is the one
\* that lives; while it stops, its coordinator is of an older one and the pool it closes lives, if any.
Fit(s, p) ==
    /\ s.stopping = "no" =>
         /\ s.coordinator.phase # "none" => s.coordinator.gen = s.gen
         /\ s.coordinator.phase \in {"pool", "gate"} => s.pool # None
         /\ s.pool \in {s.gen, None} /\ (s.pool # None => p[s.pool] \in Live)
         /\ \A g \in Gens : p[g] \in Live => g = s.pool
    /\ s.stopping # "no" =>
         /\ s.gen > 0 /\ s.pool = None
         /\ s.coordinator.phase # "none" => s.coordinator.gen < s.gen
         /\ \A g \in Gens : p[g] \in Live => g = s.closing /\ s.stopping = "close"

\* StoppedIsQuiet.
Off(s) == s.stopping = "no" /\ (~s.enabled \/ s.paused) => ~Busy(s) /\ s.pool = None

\* An engine that is on under a lock has a halt left for it.
Room(s, u) == ~u /\ s.enabled => s.gen < MaxGen

\* An unknown outcome has stopped the engine, and what still runs knows it.
Warned(s) == s.lastError = "unknown" => ~s.enabled /\ (s.haltReason = "fatal" \/ ~Busy(s))

\* Until the first halt a change of the queue is looked at, also under a lock.
Wake(s, f) ==
    s.gen = 0 /\ f /\ ~Shut(s) => s.coordinator.phase \in {"queued", "pool", "gate"} \/ s.wakeRequested

Good(s, p, u) == s \in Engine /\ Fit(s, p) /\ Off(s) /\ Room(s, u) /\ Warned(s)

Types == pools \in [Gens -> PoolState] /\ unlocked \in BOOLEAN /\ fresh \in BOOLEAN

Inv == Types /\ Good(e, pools, unlocked) /\ Wake(e, fresh)

-----------------------------------------------------------------------------
\* Generations are numbers, and no pool is none of them.
LEMMA GensType ==
    /\ MaxGen \in Nat /\ 0 \in Gens /\ None \notin Gens
    /\ \A g \in Gens : g \in Nat /\ g <= MaxGen /\ (g < MaxGen => g + 1 \in Gens)
  BY LifecycleConstants DEF Gens, None

\* What halt() leaves alone, and what it sets when it is the first.
HaltOf(h, s, reason) ==
    /\ h \in Engine /\ h.stopping # "no"
    /\ h.enabled = s.enabled /\ h.paused = s.paused /\ h.coordinator = s.coordinator
    /\ h.lastError = s.lastError /\ h.haltReason = Reason(s.haltReason, reason) /\ (Busy(h) = Busy(s))
    /\ s.stopping # "no" =>
         h.gen = s.gen /\ h.pool = s.pool /\ h.closing = s.closing /\ h.stopping = s.stopping
    /\ s.stopping = "no" =>
         h.gen = s.gen + 1 /\ h.pool = None /\ h.closing = s.pool /\ h.stopping = "close"

\* What Halt changes.
LEMMA HaltFields ==
    ASSUME NEW s \in Engine, NEW reason \in HaltReason, s.stopping # "no" \/ s.gen < MaxGen
    PROVE  HaltOf(Halt(s, reason), s, reason)
<1> DEFINE r == [s EXCEPT !.timer = FALSE, !.refreshTimer = Refreshing(s), !.haltReason = Reason(@, reason)]
           tasks == [i \in Slots |-> Cancelled(s.tasks[i])]
           h == [r EXCEPT !.gen = @ + 1, !.closing = s.pool, !.pool = None, !.stopping = "close",
                          !.tasks = tasks]
<1>1. Refreshing(s) \in BOOLEAN /\ Reason(s.haltReason, reason) \in HaltReason
  BY DEF Refreshing, Reason, Engine
<1>2. /\ r \in Engine /\ r.stopping = s.stopping /\ r.gen = s.gen /\ r.pool = s.pool /\ r.closing = s.closing
      /\ r.enabled = s.enabled /\ r.paused = s.paused /\ r.coordinator = s.coordinator
      /\ r.lastError = s.lastError /\ r.haltReason = Reason(s.haltReason, reason) /\ r.tasks = s.tasks
  BY <1>1 DEF Engine
<1>3. CASE s.stopping # "no"
  <2>1. Halt(s, reason) = r
    BY <1>3 DEF Halt
  <2>2. Busy(r) = Busy(s)
    BY <1>2 DEF Busy
  <2> HIDE DEF r
  <2> QED BY <1>2, <1>3, <2>1, <2>2 DEF HaltOf
<1>4. CASE s.stopping = "no"
  <2>1. \A i \in Slots : tasks[i] \in Task /\ tasks[i].on = s.tasks[i].on
    BY DEF Engine, Task, Cancelled
  <2>2. tasks \in [Slots -> Task]
    BY <2>1
  <2>3. s.gen + 1 \in Gens /\ s.pool \in Gens \cup {None}
    BY <1>4, GensType DEF Engine
  <2>4. Halt(s, reason) = h
    <3>1. r.tasks = s.tasks
      BY <1>2
    <3>2. [i \in Slots |-> Cancelled(r.tasks[i])] = tasks
      BY <3>1
    <3>3. Halt(s, reason) =
            [r EXCEPT !.gen = @ + 1, !.closing = s.pool, !.pool = None, !.stopping = "close",
                      !.tasks = [i \in Slots |-> Cancelled(r.tasks[i])]]
      BY <1>4 DEF Halt
    <3> QED BY <3>2, <3>3
  <2> HIDE DEF r, tasks
  <2>5. /\ h \in Engine /\ h.stopping = "close" /\ h.gen = r.gen + 1 /\ h.pool = None /\ h.closing = s.pool
        /\ h.enabled = r.enabled /\ h.paused = r.paused /\ h.coordinator = r.coordinator
        /\ h.lastError = r.lastError /\ h.haltReason = r.haltReason /\ h.tasks = tasks
    BY <1>2, <2>2, <2>3 DEF Engine, Halting
  <2> HIDE DEF h
  <2>6. Busy(h) = Busy(s)
    BY <1>2, <2>1, <2>5 DEF Busy
  <2> QED BY <1>2, <1>4, <2>4, <2>5, <2>6 DEF HaltOf
<1> QED BY <1>3, <1>4

NoneStarts(p, q) == \A g \in Gens : p[g] \in Live => q[g] \in Live

\* A halt that is called for an engine that is off or suspended leaves it in order, also when its
\* helper has just died.
LEMMA HaltGood ==
    ASSUME NEW s \in Engine, NEW p, NEW q, NEW u \in BOOLEAN, NEW reason \in HaltReason, NEW f,
           s.stopping # "no" \/ s.gen < MaxGen, Fit(s, q), NoneStarts(p, q),
           Warned(s) \/ (~s.enabled /\ reason = "fatal"), ~s.enabled \/ s.paused,
           s.enabled /\ ~u => (s.stopping # "no" /\ s.gen < MaxGen) \/ s.gen + 1 < MaxGen
    PROVE  /\ Good(Halt(s, reason), p, u) /\ Wake(Halt(s, reason), f)
           /\ Halt(s, reason).lastError = s.lastError
<1> DEFINE h == Halt(s, reason)
<1>1. HaltOf(h, s, reason)
  BY HaltFields
<1> HIDE DEF h
<1>2. Fit(h, p)
  BY <1>1, GensType DEF HaltOf, Fit, Engine, NoneStarts
<1>3. Off(h)
  BY <1>1 DEF HaltOf, Off
<1>4. Room(h, u)
  BY <1>1, GensType DEF HaltOf, Room, Engine
<1>5. Warned(h)
  BY <1>1 DEF HaltOf, Warned, Reason
<1>6. Wake(h, f)
  <2>1. h.gen > 0
    BY <1>1, <1>2 DEF HaltOf, Fit
  <2>2. h.gen \in Nat
    BY <1>1, GensType DEF HaltOf, Engine
  <2> QED BY <2>1, <2>2 DEF Wake
<1> QED BY <1>1, <1>2, <1>3, <1>4, <1>5, <1>6 DEF Good, HaltOf, h

\* stop().
LEMMA StopGood ==
    ASSUME NEW s \in Engine, NEW p, NEW u \in BOOLEAN, NEW reason \in HaltReason, NEW f,
           s.stopping # "no" \/ s.gen < MaxGen, Fit(s, p), Warned(s)
    PROVE  /\ Good(Stop(s, reason), p, u) /\ Wake(Stop(s, reason), f)
           /\ Stop(s, reason).lastError = s.lastError
<1> DEFINE t == [s EXCEPT !.enabled = FALSE, !.paused = FALSE]
<1>1. /\ t \in Engine /\ ~t.enabled /\ t.stopping = s.stopping /\ t.gen = s.gen /\ t.pool = s.pool
      /\ t.closing = s.closing /\ t.coordinator = s.coordinator /\ t.lastError = s.lastError
      /\ t.haltReason = s.haltReason /\ t.tasks = s.tasks
  BY DEF Engine
<1>2. Stop(s, reason) = Halt(t, reason)
  BY DEF Stop
<1> HIDE DEF t
<1>3. Fit(t, p)
  BY <1>1 DEF Fit
<1>4. Warned(t)
  BY <1>1 DEF Warned, Busy
<1>5. NoneStarts(p, p)
  BY DEF NoneStarts
<1>6. /\ t.stopping # "no" \/ t.gen < MaxGen
      /\ Warned(t) \/ (~t.enabled /\ reason = "fatal")
      /\ ~t.enabled \/ t.paused
      /\ t.enabled /\ ~u => (t.stopping # "no" /\ t.gen < MaxGen) \/ t.gen + 1 < MaxGen
  BY <1>1, <1>4
<1>7. /\ Good(Halt(t, reason), p, u) /\ Wake(Halt(t, reason), f)
      /\ Halt(t, reason).lastError = t.lastError
  BY <1>1, <1>3, <1>5, <1>6, HaltGood
<1> QED BY <1>1, <1>2, <1>7

\* kick(): whatever changed, the engine is in order and the change is looked at.
LEMMA KickGood ==
    ASSUME NEW s, NEW p, NEW f, unlocked \in BOOLEAN, Good(s, p, unlocked)
    PROVE  Good(Kick(s), p, unlocked) /\ Wake(Kick(s), f) /\ Kick(s).lastError = s.lastError
<1>0. s \in Engine /\ Fit(s, p) /\ Off(s) /\ Room(s, unlocked) /\ Warned(s)
  BY DEF Good
<1>1. CASE Shut(s) \/ s.stopping # "no"
  <2>1. Kick(s) = s
    BY <1>1 DEF Kick
  <2>2. Wake(s, f)
    BY <1>0, <1>1 DEF Wake, Fit
  <2> QED BY <2>1, <2>2
<1>2. CASE ~(Shut(s) \/ s.stopping # "no") /\ s.coordinator.phase # "none"
  <2> DEFINE t == [s EXCEPT !.wakeRequested = TRUE]
  <2>1. Kick(s) = t
    BY <1>2 DEF Kick, Woken
  <2>2. /\ t \in Engine /\ t.wakeRequested /\ t.stopping = s.stopping /\ t.gen = s.gen /\ t.pool = s.pool
        /\ t.closing = s.closing /\ t.coordinator = s.coordinator /\ t.lastError = s.lastError
        /\ t.haltReason = s.haltReason /\ t.tasks = s.tasks /\ t.enabled = s.enabled /\ t.paused = s.paused
    BY <1>0 DEF Engine
  <2> HIDE DEF t
  <2>3. Fit(t, p) /\ Room(t, unlocked) /\ Wake(t, f)
    BY <1>0, <2>2 DEF Fit, Room, Wake
  <2>4. Off(t) /\ Warned(t)
    BY <1>0, <2>2 DEF Off, Warned, Busy
  <2> QED BY <2>1, <2>2, <2>3, <2>4 DEF Good
<1>3. CASE ~(Shut(s) \/ s.stopping # "no") /\ s.coordinator.phase = "none" /\ ~unlocked
  <2>1. Kick(s) = Stop(s, "locked")
    BY <1>3 DEF Kick
  <2>2. s.gen < MaxGen
    BY <1>0, <1>3 DEF Room, Shut
  <2> QED BY <1>0, <2>1, <2>2, StopGood DEF HaltReason
<1>4. CASE ~(Shut(s) \/ s.stopping # "no") /\ s.coordinator.phase = "none" /\ unlocked
  <2> DEFINE c == [phase |-> "queued", gen |-> s.gen]
             t == [s EXCEPT !.timer = FALSE, !.coordinator = c]
  <2>1. Kick(s) = t
    BY <1>4 DEF Kick
  <2>2. c \in Coordinator /\ c.phase = "queued" /\ c.gen = s.gen
    BY <1>0 DEF Coordinator, Engine
  <2> HIDE DEF c
  <2>3. /\ t \in Engine /\ t.stopping = s.stopping /\ t.gen = s.gen /\ t.pool = s.pool
        /\ t.closing = s.closing /\ t.coordinator = c /\ t.lastError = s.lastError
        /\ t.haltReason = s.haltReason /\ t.tasks = s.tasks /\ t.enabled = s.enabled /\ t.paused = s.paused
    BY <1>0, <2>2 DEF Engine
  <2> HIDE DEF t
  <2>4. Fit(t, p) /\ Room(t, unlocked) /\ Wake(t, f)
    BY <1>0, <1>4, <2>2, <2>3 DEF Fit, Room, Wake
  <2>5. Off(t) /\ Warned(t)
    BY <1>0, <1>4, <2>2, <2>3 DEF Off, Warned, Shut
  <2> QED BY <2>1, <2>3, <2>4, <2>5 DEF Good
<1> QED BY <1>1, <1>2, <1>3, <1>4

-----------------------------------------------------------------------------
\* The fields that the invariant reads, but for those that say whether the engine is on.
Same(t, s) ==
    /\ t \in Engine /\ t.stopping = s.stopping /\ t.gen = s.gen /\ t.pool = s.pool /\ t.closing = s.closing
    /\ t.coordinator = s.coordinator /\ t.haltReason = s.haltReason /\ t.tasks = s.tasks

\* Fit is about the fields it names.
LEMMA SameFit ==
    ASSUME NEW s, NEW t, NEW p, Same(t, s), Fit(s, p)
    PROVE  Fit(t, p) /\ (Busy(t) = Busy(s))
  BY DEF Same, Fit, Busy

\* A step that leaves the engine in order and kicks it.
LEMMA KickStep ==
    ASSUME Inv, NEW s, Good(s, pools', unlocked), e' = Kick(s), unlocked' = unlocked,
           pools' \in [Gens -> PoolState], fresh' \in BOOLEAN
    PROVE  Inv' /\ e'.lastError = s.lastError
<1>1. unlocked \in BOOLEAN
  BY DEF Inv, Types
<1>2. Good(e', pools', unlocked) /\ Wake(e', fresh') /\ e'.lastError = s.lastError
  BY <1>1, KickGood
<1> QED
  BY <1>1, <1>2 DEF Inv, Types, Good, Wake, Fit, Off, Room, Warned, Shut, CapturesBlocked, Busy

\* A step after which the engine is in order, and the change of the queue looked at.
LEMMA PlainStep ==
    ASSUME Inv, Good(e', pools', unlocked'), Wake(e', fresh'), unlocked' \in BOOLEAN,
           pools' \in [Gens -> PoolState], fresh' \in BOOLEAN
    PROVE  Inv'
  BY DEF Inv, Types, Good, Wake, Fit, Off, Room, Warned, Shut, CapturesBlocked, Busy

\* No step replaces the warning of an unknown outcome, but a start.
Stays == e.lastError = "unknown" => e'.lastError = "unknown" \/ Start

\* The parts of the invariant.
LEMMA InvParts ==
    ASSUME Inv
    PROVE  /\ e \in Engine /\ Fit(e, pools) /\ Off(e) /\ Room(e, unlocked) /\ Warned(e) /\ Wake(e, fresh)
           /\ pools \in [Gens -> PoolState] /\ unlocked \in BOOLEAN /\ fresh \in BOOLEAN
  BY DEF Inv, Good, Types

-----------------------------------------------------------------------------
(* Calls *)

\* The engine is started.
LEMMA StartStep == ASSUME Inv, Start PROVE Inv' /\ Stays
<1> DEFINE s == [e EXCEPT !.enabled = TRUE, !.refreshTimer = TRUE, !.lastError = "none"]
<1>0. e \in Engine /\ Fit(e, pools) /\ Off(e) /\ fresh \in BOOLEAN /\ pools \in [Gens -> PoolState]
  BY InvParts
<1>1. unlocked /\ e' = Kick(s) /\ UNCHANGED <<pools, unlocked, fresh, faults>>
  BY DEF Start
<1>2. Same(s, e) /\ s.enabled /\ s.paused = e.paused /\ s.lastError = "none"
  BY <1>0 DEF Same, Engine, Warning
<1> HIDE DEF s
<1>3. Fit(s, pools) /\ (Busy(s) = Busy(e))
  BY <1>0, <1>2, SameFit
<1>4. Good(s, pools, unlocked)
  BY <1>0, <1>1, <1>2, <1>3 DEF Good, Same, Off, Room, Warned
<1>5. Inv'
  BY <1>0, <1>1, <1>4, KickStep
<1> QED BY <1>5 DEF Stays

\* The engine is stopped.
LEMMA StopCallStep == ASSUME Inv, StopCall PROVE Inv' /\ Stays
<1>0. /\ e \in Engine /\ Fit(e, pools) /\ Warned(e) /\ fresh \in BOOLEAN /\ pools \in [Gens -> PoolState]
      /\ unlocked \in BOOLEAN
  BY InvParts
<1>1. Halts(e) /\ e' = Stop(e, "stop") /\ UNCHANGED <<pools, unlocked, fresh, faults>>
  BY DEF StopCall
<1>2. e.gen < MaxGen
  BY <1>0, <1>1, GensType DEF Halts, Engine
<1>3. Good(e', pools, unlocked) /\ Wake(e', fresh) /\ e'.lastError = e.lastError
  BY <1>0, <1>1, <1>2, StopGood DEF HaltReason
<1>4. Inv'
  BY <1>0, <1>1, <1>3, PlainStep
<1> QED BY <1>3, <1>4 DEF Stays

\* The engine is suspended.
LEMMA SuspendStep == ASSUME Inv, Suspend PROVE Inv' /\ Stays
<1> DEFINE s == [e EXCEPT !.paused = TRUE]
<1>0. /\ e \in Engine /\ Fit(e, pools) /\ Warned(e) /\ fresh \in BOOLEAN /\ pools \in [Gens -> PoolState]
      /\ unlocked \in BOOLEAN
  BY InvParts
<1>1. Halts(e) /\ e' = Halt(s, "suspend") /\ UNCHANGED <<pools, unlocked, fresh, faults>>
  BY DEF Suspend
<1>2. Same(s, e) /\ s.paused /\ s.enabled = e.enabled /\ s.lastError = e.lastError
  BY <1>0 DEF Same, Engine
<1> HIDE DEF s
<1>3. Fit(s, pools) /\ Warned(s) /\ s \in Engine
  BY <1>0, <1>2, SameFit DEF Warned, Same
<1>4. s.gen < MaxGen /\ (~unlocked => s.gen + 1 < MaxGen)
  BY <1>0, <1>1, <1>2, GensType DEF Halts, Engine, Same
<1>5. Good(e', pools, unlocked) /\ Wake(e', fresh) /\ e'.lastError = s.lastError
  <2>1. "suspend" \in HaltReason /\ NoneStarts(pools, pools)
    BY DEF HaltReason, NoneStarts
  <2>2. /\ s.stopping # "no" \/ s.gen < MaxGen
        /\ Warned(s) \/ (~s.enabled /\ "suspend" = "fatal")
        /\ ~s.enabled \/ s.paused
        /\ s.enabled /\ ~unlocked => (s.stopping # "no" /\ s.gen < MaxGen) \/ s.gen + 1 < MaxGen
    BY <1>2, <1>3, <1>4
  <2>3. /\ Good(Halt(s, "suspend"), pools, unlocked) /\ Wake(Halt(s, "suspend"), fresh)
        /\ Halt(s, "suspend").lastError = s.lastError
    BY <1>0, <1>3, <2>1, <2>2, HaltGood
  <2> QED BY <1>1, <2>3
<1>6. Inv'
  BY <1>0, <1>1, <1>5, PlainStep
<1> QED BY <1>2, <1>5, <1>6 DEF Stays

\* The engine is resumed.
LEMMA ResumeStep == ASSUME Inv, Resume PROVE Inv' /\ Stays
<1> DEFINE s == [e EXCEPT !.paused = FALSE]
<1>0. /\ e \in Engine /\ Fit(e, pools) /\ Off(e) /\ Room(e, unlocked) /\ Warned(e)
      /\ pools \in [Gens -> PoolState]
  BY InvParts
<1>1. e' = Kick(s) /\ fresh' = TRUE /\ UNCHANGED <<pools, unlocked, faults>>
  BY DEF Resume
<1>2. Same(s, e) /\ ~s.paused /\ s.enabled = e.enabled /\ s.lastError = e.lastError
  BY <1>0 DEF Same, Engine
<1> HIDE DEF s
<1>3. Fit(s, pools) /\ (Busy(s) = Busy(e))
  BY <1>0, <1>2, SameFit
<1>4. Good(s, pools, unlocked)
  BY <1>0, <1>2, <1>3 DEF Good, Same, Off, Room, Warned
<1>5. Inv' /\ e'.lastError = s.lastError
  BY <1>0, <1>1, <1>4, KickStep
<1> QED BY <1>2, <1>5 DEF Stays

\* The queue changes.
LEMMA QueueStep == ASSUME Inv, QueueChanges PROVE Inv' /\ Stays
<1>1. e' = Kick(e) /\ fresh' = TRUE /\ UNCHANGED <<pools, unlocked, faults>>
  BY DEF QueueChanges
<1>2. Good(e, pools', unlocked) /\ pools' \in [Gens -> PoolState]
  BY <1>1, InvParts DEF Inv
<1>3. Inv' /\ e'.lastError = e.lastError
  BY <1>1, <1>2, KickStep
<1> QED BY <1>3 DEF Stays

\* The catalog is blocked, opened or reset.
LEMMA CatalogStep ==
    ASSUME Inv, NEW blocked \in {"no", "prepared", "all"}, SetCatalogBlocked(blocked)
    PROVE  Inv' /\ Stays
<1> DEFINE s == [e EXCEPT !.blocked = blocked]
           t == [s EXCEPT !.timer = FALSE]
<1>0. /\ e \in Engine /\ Fit(e, pools) /\ Off(e) /\ Room(e, unlocked) /\ Warned(e)
      /\ pools \in [Gens -> PoolState] /\ unlocked \in BOOLEAN
  BY InvParts
<1>1. /\ e' = IF CapturesBlocked(s) THEN t ELSE Kick(s)
      /\ fresh' = TRUE /\ UNCHANGED <<pools, unlocked, faults>>
  BY DEF SetCatalogBlocked
<1>2. /\ Same(s, e) /\ s.paused = e.paused /\ s.enabled = e.enabled /\ s.lastError = e.lastError
      /\ s.blocked = blocked
  BY <1>0 DEF Same, Engine, Blocking
<1> HIDE DEF s
<1>3. Fit(s, pools) /\ (Busy(s) = Busy(e))
  BY <1>0, <1>2, SameFit
<1>4. Good(s, pools, unlocked)
  BY <1>0, <1>2, <1>3 DEF Good, Same, Off, Room, Warned
<1>5. CASE ~CapturesBlocked(s)
  <2>1. Inv' /\ e'.lastError = s.lastError
    BY <1>0, <1>1, <1>4, <1>5, KickStep
  <2> QED BY <1>2, <2>1 DEF Stays
<1>6. CASE CapturesBlocked(s)
  <2>1. /\ Same(t, s) /\ t.paused = s.paused /\ t.enabled = s.enabled /\ t.lastError = s.lastError
        /\ t.blocked = s.blocked
    BY <1>2 DEF Same, Engine
  <2> HIDE DEF t
  <2>2. Fit(t, pools) /\ (Busy(t) = Busy(s))
    BY <1>3, <2>1, SameFit
  <2>3. Good(t, pools, unlocked) /\ Wake(t, TRUE)
    BY <1>4, <1>6, <2>1, <2>2 DEF Good, Same, Off, Room, Warned, Wake, Shut, CapturesBlocked
  <2>4. Inv'
    BY <1>0, <1>1, <1>6, <2>3, PlainStep
  <2> QED BY <1>1, <1>2, <1>6, <2>1, <2>4 DEF Stays
<1> QED BY <1>5, <1>6

\* The wallet is locked or unlocked.
LEMMA LockStep ==
    ASSUME Inv, NEW u \in BOOLEAN, SetUnlocked(u)
    PROVE  Inv' /\ Stays
<1>0. /\ e \in Engine /\ Fit(e, pools) /\ Off(e) /\ Warned(e) /\ Wake(e, fresh)
      /\ pools \in [Gens -> PoolState] /\ unlocked \in BOOLEAN /\ fresh \in BOOLEAN
  BY InvParts
<1>1. u # unlocked /\ unlocked' = u /\ (u \/ Halts(e)) /\ UNCHANGED <<e, pools, fresh, faults>>
  BY DEF SetUnlocked
<1>2. Room(e, u)
  BY <1>0, <1>1, GensType DEF Room, Halts, Engine
<1>3. Good(e, pools, u)
  BY <1>0, <1>2 DEF Good
<1>4. Inv'
  BY <1>0, <1>1, <1>3, PlainStep
<1> QED BY <1>1, <1>4 DEF Stays

\* The retry timer fires.
LEMMA TimerStep == ASSUME Inv, TimerFires PROVE Inv' /\ Stays
<1> DEFINE s == [e EXCEPT !.timer = FALSE]
<1>0. /\ e \in Engine /\ Fit(e, pools) /\ Off(e) /\ Room(e, unlocked) /\ Warned(e)
      /\ pools \in [Gens -> PoolState] /\ fresh \in BOOLEAN
  BY InvParts
<1>1. e' = Kick(s) /\ UNCHANGED <<pools, unlocked, fresh, faults>>
  BY DEF TimerFires
<1>2. Same(s, e) /\ s.paused = e.paused /\ s.enabled = e.enabled /\ s.lastError = e.lastError
  BY <1>0 DEF Same, Engine
<1> HIDE DEF s
<1>3. Fit(s, pools) /\ (Busy(s) = Busy(e))
  BY <1>0, <1>2, SameFit
<1>4. Good(s, pools, unlocked)
  BY <1>0, <1>2, <1>3 DEF Good, Same, Off, Room, Warned
<1>5. Inv' /\ e'.lastError = s.lastError
  BY <1>0, <1>1, <1>4, KickStep
<1> QED BY <1>2, <1>5 DEF Stays

\* The refresh timer fires.
LEMMA RefreshStep == ASSUME Inv, RefreshFires PROVE Inv' /\ Stays
<1>1. e' = Kick(e) /\ UNCHANGED <<pools, unlocked, fresh, faults>>
  BY DEF RefreshFires
<1>2. Good(e, pools', unlocked) /\ pools' \in [Gens -> PoolState] /\ fresh' \in BOOLEAN
  BY <1>1, InvParts DEF Inv
<1>3. Inv' /\ e'.lastError = e.lastError
  BY <1>1, <1>2, KickStep
<1> QED BY <1>3 DEF Stays

-----------------------------------------------------------------------------
(* The coordinator *)

\* What a phase of the coordinator leaves alone.
Moved(t, s, phase) ==
    /\ t \in Engine /\ t.stopping = s.stopping /\ t.gen = s.gen /\ t.pool = s.pool /\ t.closing = s.closing
    /\ t.haltReason = s.haltReason /\ t.tasks = s.tasks /\ t.enabled = s.enabled /\ t.paused = s.paused
    /\ t.blocked = s.blocked /\ t.wakeRequested = s.wakeRequested /\ t.lastError = s.lastError
    /\ t.coordinator.phase = phase /\ t.coordinator.gen = s.coordinator.gen

\* What Goto changes.
LEMMA GotoFields ==
    ASSUME NEW s \in Engine, NEW phase \in {"pool", "gate", "done"}
    PROVE  Moved(Goto(s, phase), s, phase)
<1> DEFINE c == [s.coordinator EXCEPT !.phase = phase]
           t == [s EXCEPT !.coordinator = c]
<1>1. c \in Coordinator /\ c.phase = phase /\ c.gen = s.coordinator.gen
  BY DEF Engine, Coordinator
<1>2. Goto(s, phase) = t
  BY DEF Goto, Engine
<1> HIDE DEF c
<1>3. t \in Engine /\ t.coordinator = c /\ Moved(t, s, phase)
  BY <1>1 DEF Engine, Moved
<1> QED BY <1>2, <1>3

\* A coordinator that goes on leaves the engine in order.
LEMMA MovedGood ==
    ASSUME NEW s \in Engine, NEW t, NEW p, NEW u, NEW phase \in {"pool", "gate", "done"},
           Moved(t, s, phase), Good(s, p, u), s.coordinator.phase # "none",
           phase \in {"pool", "gate"} => s.pool # None \/ s.stopping # "no"
    PROVE  Good(t, p, u)
<1>1. Busy(s) /\ Busy(t)
  BY DEF Busy, Moved
<1>2. Fit(t, p)
  BY DEF Good, Fit, Moved
<1>3. Off(t) /\ Warned(t)
  BY <1>1 DEF Good, Off, Warned, Moved
<1>4. Room(t, u)
  BY DEF Good, Room, Moved
<1> QED BY <1>2, <1>3, <1>4 DEF Good, Moved

\* The coordinator starts to run.
LEMMA PumpBeginsStep == ASSUME Inv, PumpBegins PROVE Inv' /\ Stays
<1>0. /\ e \in Engine /\ Fit(e, pools) /\ Off(e) /\ Room(e, unlocked) /\ Warned(e) /\ Wake(e, fresh)
      /\ pools \in [Gens -> PoolState] /\ unlocked \in BOOLEAN /\ fresh \in BOOLEAN
      /\ Good(e, pools, unlocked)
  BY InvParts DEF Inv
<1>1. e.coordinator.phase = "queued" /\ UNCHANGED <<unlocked, fresh, faults>>
  BY DEF PumpBegins, At
<1>2. CASE ~Current
  <2>1. e' = Goto(e, "done") /\ pools' = pools
    BY <1>2 DEF PumpBegins
  <2>2. Moved(e', e, "done")
    BY <1>0, <2>1, GotoFields
  <2>3. Good(e', pools, unlocked)
    BY <1>0, <1>1, <2>2, MovedGood
  <2>4. Wake(e', fresh)
    <3>1. e.gen = 0 => Shut(e)
      BY <1>0, <1>1, <1>2 DEF Current, Fit
    <3> QED BY <2>2, <3>1 DEF Wake, Shut, CapturesBlocked, Moved
  <2>5. Inv'
    BY <1>0, <1>1, <2>1, <2>3, <2>4, PlainStep
  <2> QED BY <2>2, <2>5 DEF Stays, Moved
<1>3. CASE Current /\ e.pool # None
  <2>1. e' = Goto(e, "pool") /\ pools' = pools
    BY <1>3 DEF PumpBegins
  <2>2. Moved(e', e, "pool")
    BY <1>0, <2>1, GotoFields
  <2>3. Good(e', pools, unlocked)
    BY <1>0, <1>1, <1>3, <2>2, MovedGood
  <2>4. Wake(e', fresh)
    BY <2>2 DEF Wake, Moved
  <2>5. Inv'
    BY <1>0, <1>1, <2>1, <2>3, <2>4, PlainStep
  <2> QED BY <2>2, <2>5 DEF Stays, Moved
<1>4. CASE Current /\ e.pool = None
  <2> DEFINE s == [e EXCEPT !.pool = e.gen]
             p == [pools EXCEPT ![e.gen] = "starting"]
  <2>1. e' = Goto(s, "pool") /\ pools' = p
    BY <1>4 DEF PumpBegins
  <2>2. e.gen \in Gens /\ e.gen # None /\ e.gen \in Nat
    BY <1>0, GensType DEF Engine
  <2>3. /\ s \in Engine /\ s.stopping = e.stopping /\ s.gen = e.gen /\ s.pool = e.gen
        /\ s.tasks = e.tasks /\ s.enabled = e.enabled /\ s.paused = e.paused
        /\ s.lastError = e.lastError /\ s.haltReason = e.haltReason /\ s.coordinator = e.coordinator
    BY <1>0, <2>2 DEF Engine
  <2>4. p \in [Gens -> PoolState] /\ p[e.gen] \in Live /\ \A g \in Gens : g # e.gen => p[g] = pools[g]
    BY <1>0, <2>2 DEF PoolState, Live
  <2> HIDE DEF s, p
  <2>5. ~Shut(e) /\ e.coordinator.gen = e.gen /\ e.stopping = "no"
    BY <1>0, <1>1, <1>4, <2>2 DEF Current, Fit
  <2>6. Fit(s, p)
    <3>1. \A g \in Gens : p[g] \in Live => g = e.gen
      BY <1>0, <1>4, <2>2, <2>4, <2>5, GensType DEF Fit
    <3> QED BY <1>1, <2>2, <2>3, <2>4, <2>5, <3>1 DEF Fit
  <2>7. Good(s, p, unlocked)
    BY <1>0, <2>3, <2>5, <2>6 DEF Good, Off, Room, Warned, Shut
  <2>8. Moved(e', s, "pool")
    BY <2>1, <2>3, GotoFields
  <2>9. Good(e', p, unlocked)
    BY <1>1, <2>2, <2>3, <2>7, <2>8, MovedGood
  <2>10. Wake(e', fresh)
    BY <2>8 DEF Wake, Moved
  <2>11. Inv'
    BY <1>0, <1>1, <2>1, <2>4, <2>9, <2>10, PlainStep
  <2> QED BY <2>3, <2>8, <2>11 DEF Stays, Moved
<1> QED BY <1>2, <1>3, <1>4

\* The pool it waits for has started or failed.
LEMMA PoolAwaitedStep == ASSUME Inv, PoolAwaited PROVE Inv' /\ Stays
<1>0. /\ e \in Engine /\ Fit(e, pools) /\ pools \in [Gens -> PoolState] /\ unlocked \in BOOLEAN
      /\ fresh \in BOOLEAN /\ Good(e, pools, unlocked)
  BY InvParts DEF Inv
<1>1. e.coordinator.phase = "pool" /\ e' = Goto(e, "gate") /\ UNCHANGED <<pools, unlocked, fresh, faults>>
  BY DEF PoolAwaited, At
<1>2. Moved(e', e, "gate")
  BY <1>0, <1>1, GotoFields
<1>3. e.pool # None \/ e.stopping # "no"
  BY <1>0, <1>1 DEF Fit
<1>4. Good(e', pools, unlocked)
  BY <1>0, <1>1, <1>2, <1>3, MovedGood
<1>5. Wake(e', fresh)
  BY <1>2 DEF Wake, Moved
<1>6. Inv'
  BY <1>0, <1>1, <1>4, <1>5, PlainStep
<1> QED BY <1>2, <1>6 DEF Stays, Moved

\* A pump that throws is one of a generation that was halted: while the engine is on, its pool lives.
LEMMA PumpThrowsStep == ASSUME Inv, PumpThrows PROVE Inv' /\ Stays
<1>0. /\ e \in Engine /\ Fit(e, pools) /\ pools \in [Gens -> PoolState] /\ unlocked \in BOOLEAN
      /\ fresh \in BOOLEAN /\ Good(e, pools, unlocked)
  BY InvParts DEF Inv
<1>1. /\ e.coordinator.phase \in {"pool", "gate"} /\ pools[e.coordinator.gen] \in {"failed", "closed"}
      /\ UNCHANGED <<pools, unlocked, fresh, faults>>
  BY DEF PumpThrows
<1>2. e.coordinator.gen # e.gen /\ e.stopping # "no" /\ e.gen > 0
  <2>1. e.gen \in Nat
    BY <1>0, GensType DEF Engine
  <2>2. e.stopping # "no"
    BY <1>0, <1>1 DEF Fit, Live
  <2> QED BY <1>0, <1>1, <2>1, <2>2 DEF Fit
<1>3. e' = Goto(e, "done")
  BY <1>2 DEF PumpThrows
<1>4. Moved(e', e, "done")
  BY <1>0, <1>3, GotoFields
<1>5. Good(e', pools, unlocked)
  BY <1>0, <1>1, <1>4, MovedGood
<1>6. Wake(e', fresh)
  BY <1>2, <1>4 DEF Wake, Moved
<1>7. Inv'
  BY <1>0, <1>1, <1>5, <1>6, PlainStep
<1> QED BY <1>4, <1>7 DEF Stays, Moved

\* It has dispatched what fits.
LEMMA PumpLoopsStep == ASSUME Inv, NEW begun \in SUBSET Slots, PumpLoops(begun) PROVE Inv' /\ Stays
<1>0. /\ e \in Engine /\ Fit(e, pools) /\ pools \in [Gens -> PoolState] /\ unlocked \in BOOLEAN
      /\ fresh \in BOOLEAN /\ Room(e, unlocked) /\ Warned(e) /\ Good(e, pools, unlocked)
  BY InvParts DEF Inv
<1>1. e.coordinator.phase = "gate" /\ UNCHANGED <<pools, unlocked, faults>>
  BY DEF PumpLoops, At
<1> DEFINE m == Goto(e, "done")
<1>2. Moved(m, e, "done")
  BY <1>0, GotoFields
<1>3. Good(m, pools, unlocked)
  BY <1>0, <1>1, <1>2, MovedGood
<1> HIDE DEF m
<1>4. CASE ~Current
  <2>1. e' = m /\ fresh' = fresh
    BY <1>4 DEF PumpLoops, m
  <2>2. e.gen = 0 => Shut(e)
    BY <1>0, <1>1, <1>4 DEF Current, Fit
  <2>3. Wake(m, fresh)
    BY <1>2, <2>2 DEF Wake, Shut, CapturesBlocked, Moved
  <2>4. Inv'
    BY <1>0, <1>1, <1>3, <2>1, <2>3, PlainStep
  <2> QED BY <1>2, <2>1, <2>4 DEF Stays, Moved
<1>5. CASE Current
  <2>1. PICK timer \in BOOLEAN :
          e' = [m EXCEPT !.timer = timer,
                  !.tasks = [i \in Slots |-> IF i \in begun THEN [Idle EXCEPT !.on = TRUE, !.gen = e.gen]
                                             ELSE m.tasks[i]]]
    BY <1>5 DEF PumpLoops, m
  <2> DEFINE tasks == [i \in Slots |-> IF i \in begun THEN [Idle EXCEPT !.on = TRUE, !.gen = e.gen]
                                       ELSE m.tasks[i]]
  <2>2. tasks \in [Slots -> Task]
    <3>1. e.gen \in Gens /\ m.tasks \in [Slots -> Task] /\ 0 \in Gens
      BY <1>0, <1>2, GensType DEF Engine, Moved
    <3>2. [Idle EXCEPT !.on = TRUE, !.gen = e.gen] \in Task
      BY <3>1 DEF Idle, Task
    <3> QED BY <3>1, <3>2
  <2>3. e' = [m EXCEPT !.timer = timer, !.tasks = tasks]
    BY <2>1
  <2> HIDE DEF tasks
  <2>4. /\ e' \in Engine /\ e'.stopping = m.stopping /\ e'.gen = m.gen /\ e'.pool = m.pool
        /\ e'.closing = m.closing /\ e'.enabled = m.enabled /\ e'.paused = m.paused
        /\ e'.lastError = m.lastError /\ e'.coordinator = m.coordinator
    BY <1>2, <2>2, <2>3 DEF Engine, Moved
  <2>5. fresh' = FALSE /\ e.enabled /\ ~e.paused
    BY <1>5 DEF PumpLoops, Current, Shut
  <2>6. Fit(e', pools) /\ Room(e', unlocked) /\ Wake(e', fresh')
    BY <1>3, <2>4, <2>5 DEF Good, Fit, Room, Wake
  <2>7. Off(e') /\ Warned(e') /\ e.lastError # "unknown"
    BY <1>0, <1>2, <2>4, <2>5 DEF Off, Warned, Moved
  <2>8. Good(e', pools, unlocked)
    BY <2>4, <2>6, <2>7 DEF Good
  <2>9. Inv'
    BY <1>0, <1>1, <2>5, <2>6, <2>8, PlainStep
  <2> QED BY <2>7, <2>9 DEF Stays
<1> QED BY <1>4, <1>5

\* The coordinator ends, and a wake-up that came meanwhile schedules the next.
LEMMA CoordinatorEndsStep == ASSUME Inv, CoordinatorEnds PROVE Inv' /\ Stays
<1> DEFINE s == [e EXCEPT !.coordinator = Quiet, !.wakeRequested = FALSE]
<1>0. /\ e \in Engine /\ Fit(e, pools) /\ Off(e) /\ Room(e, unlocked) /\ Warned(e) /\ Wake(e, fresh)
      /\ pools \in [Gens -> PoolState] /\ unlocked \in BOOLEAN /\ fresh \in BOOLEAN
  BY InvParts
<1>1. /\ e.coordinator.phase = "done" /\ e' = IF e.wakeRequested THEN Kick(s) ELSE s
      /\ UNCHANGED <<pools, unlocked, fresh, faults>>
  BY DEF CoordinatorEnds, At
<1>2. Quiet \in Coordinator /\ Quiet.phase = "none"
  BY GensType DEF Quiet, Coordinator
<1>3. /\ s \in Engine /\ s.stopping = e.stopping /\ s.gen = e.gen /\ s.pool = e.pool /\ s.closing = e.closing
      /\ s.haltReason = e.haltReason /\ s.tasks = e.tasks /\ s.enabled = e.enabled /\ s.paused = e.paused
      /\ s.blocked = e.blocked /\ s.lastError = e.lastError /\ s.coordinator = Quiet
  BY <1>0, <1>2 DEF Engine
<1> HIDE DEF s
<1>4. Fit(s, pools) /\ Room(s, unlocked)
  BY <1>0, <1>2, <1>3 DEF Fit, Room
<1>5. Busy(s) => Busy(e)
  BY <1>2, <1>3 DEF Busy
<1>6. Good(s, pools, unlocked)
  BY <1>0, <1>3, <1>4, <1>5 DEF Good, Off, Warned
<1>7. CASE e.wakeRequested
  <2>1. Inv' /\ e'.lastError = s.lastError
    BY <1>0, <1>1, <1>6, <1>7, KickStep
  <2> QED BY <1>3, <2>1 DEF Stays
<1>8. CASE ~e.wakeRequested
  <2>1. Wake(s, fresh)
    BY <1>0, <1>1, <1>3, <1>8 DEF Wake, Shut, CapturesBlocked
  <2>2. Inv'
    BY <1>0, <1>1, <1>6, <1>8, <2>1, PlainStep
  <2> QED BY <1>1, <1>3, <1>8, <2>2 DEF Stays
<1> QED BY <1>7, <1>8

-----------------------------------------------------------------------------
(* Tasks and pools *)

\* An engine that loses a task stays in order.
LEMMA TaskGone ==
    ASSUME NEW s, NEW p, NEW u, NEW i \in Slots, NEW task \in Task, Good(s, p, u),
           task.on => s.tasks[i].on
    PROVE  LET t == [s EXCEPT !.tasks[i] = task]
           IN  /\ Good(t, p, u) /\ t.lastError = s.lastError
               /\ \A f : Wake(s, f) => Wake(t, f)
<1> DEFINE tasks == [s.tasks EXCEPT ![i] = task]
           t == [s EXCEPT !.tasks = tasks]
<1>1. s \in Engine
  BY DEF Good
<1>2. tasks \in [Slots -> Task] /\ \A j \in Slots : tasks[j].on => s.tasks[j].on
  BY <1>1 DEF Engine
<1>3. [s EXCEPT !.tasks[i] = task] = t
  BY <1>1 DEF Engine
<1> HIDE DEF tasks
<1>4. /\ t \in Engine /\ t.stopping = s.stopping /\ t.gen = s.gen /\ t.pool = s.pool /\ t.closing = s.closing
      /\ t.haltReason = s.haltReason /\ t.tasks = tasks /\ t.enabled = s.enabled /\ t.paused = s.paused
      /\ t.blocked = s.blocked /\ t.lastError = s.lastError /\ t.coordinator = s.coordinator
      /\ t.wakeRequested = s.wakeRequested
  BY <1>1, <1>2 DEF Engine
<1> HIDE DEF t
<1>5. Busy(t) => Busy(s)
  BY <1>2, <1>4 DEF Busy
<1>6. Fit(t, p) /\ Room(t, u)
  BY <1>4 DEF Good, Fit, Room
<1>7. Off(t) /\ Warned(t)
  BY <1>4, <1>5 DEF Good, Off, Warned
<1>8. \A f : Wake(s, f) => Wake(t, f)
  BY <1>4 DEF Wake, Shut, CapturesBlocked
<1> QED BY <1>3, <1>4, <1>6, <1>7, <1>8 DEF Good

\* A task waits for the catalog.
LEMMA TaskWaitsStep == ASSUME Inv, NEW i \in Slots, TaskWaits(i) PROVE Inv' /\ Stays
<1> DEFINE task == [e.tasks[i] EXCEPT !.gated = TRUE]
<1>0. /\ e \in Engine /\ pools \in [Gens -> PoolState] /\ unlocked \in BOOLEAN /\ fresh \in BOOLEAN
      /\ Wake(e, fresh) /\ Good(e, pools, unlocked)
  BY InvParts DEF Inv
<1>1. UNCHANGED <<pools, unlocked, fresh, faults>>
  BY DEF TaskWaits
<1>2. task \in Task /\ (task.on => e.tasks[i].on)
  BY <1>0 DEF Engine, Task
<1>3. e' = [e EXCEPT !.tasks[i] = task]
  BY <1>0 DEF TaskWaits, Engine
<1> HIDE DEF task
<1>4. Good(e', pools, unlocked) /\ Wake(e', fresh) /\ e'.lastError = e.lastError
  BY <1>0, <1>2, <1>3, TaskGone
<1>5. Inv'
  BY <1>0, <1>1, <1>4, PlainStep
<1> QED BY <1>4, <1>5 DEF Stays

\* fatal(): the engine is off, and work that still runs cannot replace the warning.
LEMMA FatalGood ==
    ASSUME NEW s, NEW p, NEW q, NEW u \in BOOLEAN, NEW error \in {"helper", "unknown"}, Good(s, q, u),
           NoneStarts(p, q), s.stopping # "no" \/ s.gen < MaxGen, p = q \/ s.enabled
    PROVE  LET t == Fatal(s, error)
           IN  /\ Good(t, p, u) /\ (s.enabled => \A f : Wake(t, f))
               /\ s.lastError = "unknown" /\ Busy(s) => t.lastError = "unknown"
<1>0. s \in Engine /\ Fit(s, q) /\ Warned(s)
  BY DEF Good
<1>1. CASE ~s.enabled /\ s.haltReason = "fatal" /\ error # "unknown"
  <2>1. Fatal(s, error) = s
    BY <1>1 DEF Fatal
  <2> QED BY <1>1, <2>1
<1>2. CASE ~(~s.enabled /\ s.haltReason = "fatal" /\ error # "unknown")
  <2> DEFINE r == [s EXCEPT !.enabled = FALSE, !.lastError = error]
  <2>1. Fatal(s, error) = Halt(r, "fatal")
    BY <1>2 DEF Fatal
  <2>2. Same(r, s) /\ ~r.enabled /\ r.lastError = error
    BY <1>0 DEF Same, Engine, Warning
  <2> HIDE DEF r
  <2>3. r \in Engine /\ Fit(r, q)
    BY <1>0, <2>2, SameFit DEF Same
  <2>4. "fatal" \in HaltReason /\ (r.stopping # "no" \/ r.gen < MaxGen)
    BY <2>2 DEF HaltReason, Same
  <2>5. \A f : /\ Good(Halt(r, "fatal"), p, u) /\ Wake(Halt(r, "fatal"), f)
               /\ Halt(r, "fatal").lastError = r.lastError
    BY <2>2, <2>3, <2>4, HaltGood
  <2>6. s.lastError = "unknown" /\ Busy(s) => error = "unknown"
    BY <1>0, <1>2 DEF Warned
  <2> QED BY <2>1, <2>2, <2>5, <2>6
<1> QED BY <1>1, <1>2

\* A task is over, with whatever outcome.
LEMMA TaskEndsStep ==
    ASSUME Inv, NEW i \in Slots, NEW outcome \in {"ok", "retry", "helper", "unknown"}, TaskEnds(i, outcome)
    PROVE  Inv' /\ Stays
<1> DEFINE s == CASE outcome = "ok" -> e
                  [] outcome = "retry" -> JobError(e)
                  [] OTHER -> Fatal(e, outcome)
<1>0. /\ e \in Engine /\ pools \in [Gens -> PoolState] /\ unlocked \in BOOLEAN /\ Warned(e)
      /\ Good(e, pools, unlocked)
  BY InvParts DEF Inv
<1>1. /\ e.tasks[i].on /\ e' = Kick([s EXCEPT !.tasks[i] = Idle])
      /\ outcome \in {"helper", "unknown"} => e.stopping # "no" \/ Halts(e)
      /\ fresh' = TRUE /\ UNCHANGED <<pools, unlocked>>
  BY DEF TaskEnds
<1>2. Busy(e)
  BY <1>1 DEF Busy
<1>3. Good(s, pools, unlocked) /\ (e.lastError = "unknown" => s.lastError = "unknown")
  <2>1. CASE outcome = "ok"
    <3>1. s = e
      BY <2>1
    <3> QED BY <1>0, <3>1
  <2>2. CASE outcome = "retry"
    <3>1. s = JobError(e)
      BY <2>2
    <3> HIDE DEF s
    <3>2. CASE e.haltReason = "fatal"
      BY <1>0, <3>1, <3>2 DEF JobError
    <3>3. CASE e.haltReason # "fatal"
      <4>1. Same(s, e) /\ s.enabled = e.enabled /\ s.paused = e.paused /\ s.lastError = "retry"
        BY <1>0, <3>1, <3>3 DEF JobError, Same, Engine, Warning
      <4>2. Fit(s, pools) /\ (Busy(s) = Busy(e))
        BY <1>0, <4>1, SameFit DEF Good
      <4>3. Good(s, pools, unlocked)
        BY <1>0, <4>1, <4>2 DEF Good, Same, Off, Room, Warned
      <4> QED BY <1>0, <1>2, <3>3, <4>3 DEF Warned
    <3> QED BY <3>2, <3>3
  <2>3. CASE outcome \in {"helper", "unknown"}
    <3>1. s = Fatal(e, outcome)
      BY <2>3
    <3>2. e.stopping # "no" \/ e.gen < MaxGen
      BY <1>0, <1>1, <2>3, GensType DEF Halts, Engine
    <3>3. NoneStarts(pools, pools)
      BY DEF NoneStarts
    <3> HIDE DEF s
    <3> QED BY <1>0, <1>2, <2>3, <3>1, <3>2, <3>3, FatalGood
  <2> QED BY <2>1, <2>2, <2>3
<1> HIDE DEF s
<1>4. Idle \in Task /\ ~Idle.on
  BY GensType DEF Idle, Task
<1> DEFINE t == [s EXCEPT !.tasks[i] = Idle]
<1>5. Good(t, pools, unlocked) /\ t.lastError = s.lastError
  BY <1>3, <1>4, TaskGone
<1>6. e' = Kick(t)
  BY <1>1
<1> HIDE DEF t
<1>7. Inv' /\ e'.lastError = t.lastError
  BY <1>0, <1>1, <1>5, <1>6, KickStep
<1> QED BY <1>3, <1>5, <1>7 DEF Stays

\* The helper is ready.
LEMMA PoolStartsStep == ASSUME Inv, NEW g \in Gens, PoolStarts(g) PROVE Inv' /\ Stays
<1>0. /\ e \in Engine /\ Fit(e, pools) /\ Off(e) /\ Room(e, unlocked) /\ Warned(e) /\ Wake(e, fresh)
      /\ pools \in [Gens -> PoolState] /\ unlocked \in BOOLEAN /\ fresh \in BOOLEAN
  BY InvParts
<1>1. pools[g] = "starting" /\ pools' = [pools EXCEPT ![g] = "ready"] /\ UNCHANGED <<e, unlocked, fresh, faults>>
  BY DEF PoolStarts
<1>2. pools' \in [Gens -> PoolState] /\ \A h \in Gens : pools'[h] \in Live <=> pools[h] \in Live
  BY <1>0, <1>1 DEF PoolState, Live
<1>3. Fit(e, pools')
  BY <1>0, <1>2 DEF Fit, Engine
<1>4. Good(e, pools', unlocked)
  BY <1>0, <1>3 DEF Good
<1>5. Inv'
  BY <1>0, <1>1, <1>2, <1>4, PlainStep
<1> QED BY <1>1, <1>5 DEF Stays

\* The helper fails, of itself or while it starts.
LEMMA PoolFailsStep == ASSUME Inv, NEW g \in Gens, PoolFails(g) PROVE Inv' /\ Stays
<1>0. /\ e \in Engine /\ Fit(e, pools) /\ Off(e) /\ Room(e, unlocked) /\ Warned(e) /\ Wake(e, fresh)
      /\ pools \in [Gens -> PoolState] /\ unlocked \in BOOLEAN /\ fresh \in BOOLEAN
      /\ Good(e, pools, unlocked)
  BY InvParts DEF Inv
<1>1. /\ pools[g] \in Live /\ (e.stopping # "no" \/ Halts(e)) /\ pools' = [pools EXCEPT ![g] = "failed"]
      /\ e' = IF e.pool = g /\ e.enabled /\ ~e.paused THEN Fatal(e, "helper") ELSE e
      /\ UNCHANGED <<unlocked, fresh>>
  BY DEF PoolFails, Live
<1>2. pools' \in [Gens -> PoolState] /\ NoneStarts(pools', pools)
  BY <1>0, <1>1 DEF PoolState, Live, NoneStarts
<1>3. CASE e.pool = g /\ e.enabled /\ ~e.paused
  <2>1. e.stopping # "no" \/ e.gen < MaxGen
    BY <1>0, <1>1, GensType DEF Halts, Engine
  <2>2. e' = Fatal(e, "helper")
    BY <1>1, <1>3
  <2>3. Good(e', pools', unlocked) /\ Wake(e', fresh)
    BY <1>0, <1>2, <1>3, <2>1, <2>2, FatalGood
  <2>4. Inv'
    BY <1>0, <1>1, <1>2, <2>3, PlainStep
  <2> QED BY <1>0, <1>3, <2>4 DEF Stays, Warned
<1>4. CASE ~(e.pool = g /\ e.enabled /\ ~e.paused)
  <2>1. e.stopping # "no"
    BY <1>0, <1>1, <1>4, GensType DEF Fit, Off
  <2>2. Fit(e, pools')
    BY <1>0, <1>2, <2>1 DEF Fit, NoneStarts
  <2>3. Good(e, pools', unlocked)
    BY <1>0, <2>2 DEF Good
  <2>4. e' = e
    BY <1>1, <1>4
  <2>5. Inv'
    BY <1>0, <1>1, <1>2, <2>3, <2>4, PlainStep
  <2> QED BY <2>4, <2>5 DEF Stays
<1> QED BY <1>3, <1>4

\* The helper is closed, and the halt is over.
LEMMA PoolClosesStep == ASSUME Inv, PoolCloses PROVE Inv' /\ Stays
<1>0. /\ e \in Engine /\ Fit(e, pools) /\ Off(e) /\ Room(e, unlocked) /\ Warned(e) /\ Wake(e, fresh)
      /\ pools \in [Gens -> PoolState] /\ unlocked \in BOOLEAN /\ fresh \in BOOLEAN
  BY InvParts
<1>1. /\ e.stopping = "close" /\ e.closing # None /\ pools' = [pools EXCEPT ![e.closing] = "closed"]
      /\ UNCHANGED <<e, unlocked, fresh, faults>>
  BY DEF PoolCloses
<1>2. e.closing \in Gens
  BY <1>0, <1>1 DEF Engine
<1>3. pools' \in [Gens -> PoolState] /\ NoneStarts(pools', pools)
  BY <1>0, <1>1, <1>2 DEF PoolState, Live, NoneStarts
<1>4. Fit(e, pools')
  BY <1>0, <1>1, <1>3 DEF Fit, NoneStarts
<1>5. Good(e, pools', unlocked)
  BY <1>0, <1>4 DEF Good
<1>6. Inv'
  BY <1>0, <1>1, <1>3, <1>5, PlainStep
<1> QED BY <1>1, <1>6 DEF Stays

\* The last two steps of halt(): no pool lives when it drains, and nothing runs when it ends.
LEMMA HaltSteps == ASSUME Inv, Drains \/ HaltEnds PROVE Inv' /\ Stays
<1>0. /\ e \in Engine /\ Fit(e, pools) /\ Off(e) /\ Room(e, unlocked) /\ Warned(e) /\ Wake(e, fresh)
      /\ pools \in [Gens -> PoolState] /\ unlocked \in BOOLEAN /\ fresh \in BOOLEAN
  BY InvParts
<1>1. CASE Drains
  <2>1. /\ e.stopping = "close" /\ PoolGone /\ e' = [e EXCEPT !.stopping = "drain"]
        /\ UNCHANGED <<pools, unlocked, fresh, faults>>
    BY <1>1 DEF Drains
  <2>2. /\ e' \in Engine /\ e'.stopping = "drain" /\ e'.gen = e.gen /\ e'.pool = e.pool
        /\ e'.closing = e.closing /\ e'.haltReason = e.haltReason /\ e'.tasks = e.tasks
        /\ e'.enabled = e.enabled /\ e'.paused = e.paused /\ e'.lastError = e.lastError
        /\ e'.coordinator = e.coordinator
    BY <1>0, <2>1 DEF Engine, Halting
  <2>3. \A g \in Gens : pools[g] \notin Live
    BY <1>0, <2>1, GensType DEF Fit, PoolGone, Live
  <2>4. Fit(e', pools) /\ Room(e', unlocked)
    BY <1>0, <2>1, <2>2, <2>3 DEF Fit, Room
  <2>5. Off(e') /\ Warned(e')
    BY <1>0, <2>2 DEF Off, Warned, Busy
  <2>6. Wake(e', fresh)
    BY <1>0, <2>1, <2>2 DEF Wake, Fit
  <2>7. Good(e', pools, unlocked)
    BY <2>2, <2>4, <2>5 DEF Good
  <2>8. Inv'
    BY <1>0, <2>1, <2>6, <2>7, PlainStep
  <2> QED BY <2>2, <2>8 DEF Stays
<1>2. CASE HaltEnds
  <2>1. /\ e.stopping = "drain" /\ ~Busy(e)
        /\ e' = [e EXCEPT !.stopping = "no", !.haltReason = "none", !.closing = None]
        /\ UNCHANGED <<pools, unlocked, fresh, faults>>
    BY <1>2 DEF HaltEnds, Drained
  <2>2. /\ e' \in Engine /\ e'.stopping = "no" /\ e'.gen = e.gen /\ e'.pool = e.pool /\ e'.tasks = e.tasks
        /\ e'.enabled = e.enabled /\ e'.paused = e.paused /\ e'.lastError = e.lastError
        /\ e'.coordinator = e.coordinator
    BY <1>0, <2>1 DEF Engine, Halting, HaltReason
  <2>3. ~Busy(e') /\ e'.coordinator.phase = "none"
    BY <2>1, <2>2 DEF Busy
  <2>4. Fit(e', pools) /\ Room(e', unlocked)
    BY <1>0, <2>1, <2>2, <2>3 DEF Fit, Room
  <2>5. Off(e') /\ Warned(e')
    BY <1>0, <2>1, <2>2, <2>3 DEF Off, Warned, Fit
  <2>6. Wake(e', fresh)
    BY <1>0, <2>1, <2>2 DEF Wake, Fit
  <2>7. Good(e', pools, unlocked)
    BY <2>2, <2>4, <2>5 DEF Good
  <2>8. Inv'
    BY <1>0, <2>1, <2>6, <2>7, PlainStep
  <2> QED BY <2>2, <2>8 DEF Stays
<1> QED BY <1>1, <1>2

-----------------------------------------------------------------------------
\* The engine is off and has no helper.
LEMMA InitInv == Init => Inv
<1> SUFFICES ASSUME Init PROVE Inv
  OBVIOUS
<1>1. Idle \in Task /\ ~Idle.on /\ Quiet \in Coordinator /\ Quiet.phase = "none" /\ 0 \in Gens
  BY GensType DEF Idle, Task, Quiet, Coordinator
<1>2. e \in Engine
  BY <1>1 DEF Init, Engine, Blocking, Halting, HaltReason, Warning
<1>3. /\ e.stopping = "no" /\ e.enabled = FALSE /\ e.pool = None /\ e.coordinator = Quiet
      /\ e.lastError = "none" /\ e.tasks = [i \in Slots |-> Idle]
  BY DEF Init
<1>4. ~Busy(e)
  BY <1>1, <1>3 DEF Busy
<1>5. pools \in [Gens -> PoolState] /\ (\A g \in Gens : pools[g] \notin Live) /\ Types
  BY DEF Init, PoolState, Live, Types
<1>6. Fit(e, pools) /\ Room(e, unlocked)
  BY <1>1, <1>3, <1>5 DEF Fit, Room
<1>7. Off(e) /\ Warned(e) /\ Wake(e, fresh)
  BY <1>3, <1>4 DEF Off, Warned, Wake, Shut
<1> QED BY <1>2, <1>5, <1>6, <1>7 DEF Inv, Good

\* Every step keeps the invariant and the warning.
LEMMA NextInv == ASSUME Inv, [Next]_vars PROVE Inv' /\ [Stays]_vars
<1>1. CASE UNCHANGED vars
  <2>1. Inv'
    BY <1>1, InvParts, PlainStep DEF vars, Inv
  <2> QED BY <1>1, <2>1
<1>2. CASE Next
  <2>1. CASE \/ Start \/ StopCall \/ Suspend \/ Resume \/ QueueChanges \/ TimerFires \/ RefreshFires
             \/ PoolCloses \/ Drains \/ HaltEnds
    BY <2>1, StartStep, StopCallStep, SuspendStep, ResumeStep, QueueStep, TimerStep, RefreshStep,
       PoolClosesStep, HaltSteps
  <2>2. CASE \E b \in {"no", "prepared", "all"} : SetCatalogBlocked(b)
    BY <2>2, CatalogStep
  <2>3. CASE \E u \in BOOLEAN : SetUnlocked(u)
    BY <2>3, LockStep
  <2>4. CASE Coordinate
    BY <2>4, PumpBeginsStep, PoolAwaitedStep, PumpThrowsStep, CoordinatorEndsStep, PumpLoopsStep
       DEF Coordinate
  <2>5. CASE \E i \in Slots : TaskWaits(i) \/ \E outcome \in {"ok", "retry", "helper", "unknown"} :
                                                  TaskEnds(i, outcome)
    BY <2>5, TaskWaitsStep, TaskEndsStep
  <2>6. CASE \E g \in Gens : PoolStarts(g) \/ PoolFails(g)
    BY <2>6, PoolStartsStep, PoolFailsStep
  <2> QED BY <1>2, <2>1, <2>2, <2>3, <2>4, <2>5, <2>6 DEF Next
<1> QED BY <1>1, <1>2

\* The pools that live are at most the one that the engine has, or the one that it closes.
LEMMA InvStopsClean == Inv => StopsClean
<1> SUFFICES ASSUME Inv PROVE StopsClean
  OBVIOUS
<1>0. e \in Engine /\ Fit(e, pools) /\ Off(e) /\ Wake(e, fresh)
  BY InvParts
<1>1. StoppedIsQuiet
  BY <1>0 DEF StoppedIsQuiet, Off
<1>2. OnePool
  <2> DEFINE live == {g \in Gens : pools[g] \in {"starting", "ready"}}
  <2>1. PICK h : live \subseteq {h}
    <3>1. CASE e.stopping = "no"
      BY <1>0, <3>1 DEF Fit, Live
    <3>2. CASE e.stopping # "no"
      BY <1>0, <3>2 DEF Fit, Live
    <3> QED BY <3>1, <3>2
  <2>2. IsFiniteSet({h}) /\ Cardinality({h}) = 1
    BY FS_Singleton
  <2>3. Cardinality(live) <= Cardinality({h})
    BY <2>1, <2>2, FS_Subset
  <2> QED BY <2>2, <2>3 DEF OnePool
<1>3. PromptWake
  BY <1>0 DEF PromptWake, Wake
<1> QED BY <1>1, <1>2, <1>3 DEF StopsClean

\* Whatever was in flight when it was told to, an engine that has finished stopping or is suspended
\* runs nothing and owns no helper; a helper starts only after the one before it is gone; and until
\* the first halt no change of the queue waits for the interval (start, stop, suspend, kick, halt and
\* fatal of claims-engine.mjs).
THEOREM EngineStopsClean == Spec => []StopsClean
<1>1. Init => Inv
  BY InitInv
<1>2. Inv /\ [Next]_vars => Inv'
  BY NextInv
<1>3. Inv => StopsClean
  BY InvStopsClean
<1> QED BY <1>1, <1>2, <1>3, PTL DEF Spec

\* The warning that a broadcast has an unknown outcome stays until the user starts the engine again:
\* no retry, failure or late answer of the work that drains replaces it (fatal and jobError).
THEOREM UnknownOutcomeStays == Spec => UnknownStays
<1>1. Init => Inv
  BY InitInv
<1>2. Inv /\ [Next]_vars => Inv'
  BY NextInv
<1>3. Inv /\ [Next]_vars => [e.lastError = "unknown" => e'.lastError = "unknown" \/ Start]_vars
  BY NextInv DEF Stays
<1> QED BY <1>1, <1>2, <1>3, PTL DEF Spec, UnknownStays

-----------------------------------------------------------------------------
(***************************************************************************)
(* The connection to the helper, in a part of its own: P!Spec.             *)
(***************************************************************************)

Input == [type : {"start", "attempt", "resolve", "admission", "shutdown"}, id : 0..MaxRequests, flag : BOOLEAN]

PoolTypes ==
    /\ child \in {"none", "alive", "exited", "closed"}
    /\ started \in BOOLEAN /\ closing \in BOOLEAN /\ failure \in BOOLEAN /\ drainFailed \in BOOLEAN
    /\ killed \in BOOLEAN /\ admissionTarget \in BOOLEAN /\ admissionPaused \in BOOLEAN
    /\ req \in [P!Ids -> P!Request] /\ sequence \in 0..MaxRequests
    /\ \A i \in P!Open : i <= sequence
    /\ stdin \in Seq(Input) /\ helper \in [gate : BOOLEAN, asked : SUBSET (0..MaxRequests)]

\* Before the helper is ready nothing was asked of it; after a failure nothing runs.
Lives ==
    /\ child = "none" => ~started
    /\ ~started => sequence = 0 /\ admissionTarget /\ ~admissionPaused /\ helper.gate
    /\ failure \/ drainFailed => P!Open = {} /\ child # "none" /\ ~P!Runs
    /\ drainFailed => closing

\* A pause that goes on was asked for, or the resume that ends it is on its way.
Pauses ==
    /\ ~admissionTarget => admissionPaused
    /\ ~closing /\ ~failure /\ admissionPaused =>
         ~admissionTarget \/ \E c \in P!Controls : req[c].allowed /\ req[c].timer

IsControl(j) == stdin[j].type = "admission"

\* What the helper has not read yet: each control is open, and the last one asks for the target.
Pipe ==
    /\ \A j \in DOMAIN stdin :
         /\ stdin[j].type = "start" => j = 1 /\ ~started
         /\ IsControl(j) => stdin[j].id \in P!Controls /\ req[stdin[j].id].allowed = stdin[j].flag
         /\ IsControl(j) /\ (\A l \in DOMAIN stdin : IsControl(l) => l <= j) => stdin[j].flag = admissionTarget
    /\ \A j, l \in DOMAIN stdin : IsControl(j) /\ IsControl(l) /\ stdin[j].id = stdin[l].id => j = l
    /\ helper.gate = admissionTarget \/ \E j \in DOMAIN stdin : IsControl(j)

PoolInv == PoolTypes /\ Lives /\ Pauses /\ P!CountersMatch /\ P!Watched /\ P!PauseIsNotTimed /\ (P!Runs => Pipe)

-----------------------------------------------------------------------------
\* The instance counts as the library does.
LEMMA PoolCardinality == \A S : P!Cardinality(S) = Cardinality(S)
  BY DEF P!Cardinality, Cardinality

\* The numbers of requests.
LEMMA Sizes ==
    /\ IsFiniteSet(P!Ids)
    /\ \A S \in SUBSET P!Ids :
         /\ IsFiniteSet(S) /\ Cardinality(S) \in Nat
         /\ \A T : Cardinality(S \ T) = Cardinality(S) - Cardinality(T \cap S)
         /\ \A x \in P!Ids \ S : Cardinality(S \cup {x}) = Cardinality(S) + 1
         /\ \A x \in S : Cardinality(S \ {x}) = Cardinality(S) - 1
    /\ Cardinality({}) = 0
<1>1. IsFiniteSet(P!Ids)
  BY PoolConstants, FS_Interval DEF P!Ids
<1>2. ASSUME NEW S \in SUBSET P!Ids PROVE IsFiniteSet(S) /\ Cardinality(S) \in Nat
  BY <1>1, FS_Subset, FS_CardinalityType
<1>3. ASSUME NEW S \in SUBSET P!Ids, NEW T PROVE Cardinality(S \ T) = Cardinality(S) - Cardinality(T \cap S)
  <2>1. T \cap S = S \cap T
    OBVIOUS
  <2>2. QED
    BY <1>2, <2>1, FS_Difference
<1>4. ASSUME NEW S \in SUBSET P!Ids, NEW x \in P!Ids \ S PROVE Cardinality(S \cup {x}) = Cardinality(S) + 1
  BY <1>2, FS_AddElement
<1>5. ASSUME NEW S \in SUBSET P!Ids, NEW x \in S PROVE Cardinality(S \ {x}) = Cardinality(S) - 1
  BY <1>2, FS_RemoveElement
<1>6. QED
  BY <1>1, <1>2, <1>3, <1>4, <1>5, FS_EmptySet

\* The requests that are open.
LEMMA Subsets == P!Open \subseteq P!Ids /\ P!Waiting \subseteq P!Open /\ P!Controls \subseteq P!Open
  BY DEF P!Open, P!Waiting, P!Controls

\* What finish() does to the table.
LEMMA FinishTable ==
    ASSUME PoolTypes, P!CountersMatch, NEW ids \in SUBSET P!Ids, NEW outcome \in {"done", "proof", "aborted", "failed"},
           P!Finish(ids, outcome)
    PROVE  /\ req' \in [P!Ids -> P!Request] /\ P!CountersMatch'
           /\ P!Open' = P!Open \ ids /\ P!Waiting' = P!Waiting \ ids /\ P!Controls' = P!Controls \ ids
           /\ \A i \in P!Ids \ ids : req'[i] = req[i]
           /\ \A i \in ids \cap P!Open : req'[i].status = P!Settled(outcome)
           /\ \A i \in P!Ids : req'[i].started = req[i].started
           /\ \A i \in P!Ids \ P!Open : req'[i] = req[i]
<1>1. P!Settled(outcome) \in {"done", "proof", "aborted", "failed"}
  BY DEF P!Settled
<1>2. /\ req' \in [P!Ids -> P!Request]
      /\ \A i \in ids \cap P!Open : req'[i].status = P!Settled(outcome) /\ req'[i].started = req[i].started
      /\ \A i \in P!Ids : i \notin ids \/ i \notin P!Open => req'[i] = req[i]
  <2> DEFINE y == P!Settled(outcome)
  <2>0. y \in {"done", "proof", "aborted", "failed"}
    BY <1>1
  <2>1. req' = [i \in P!Ids |-> IF i \in ids \cap P!Open THEN [req[i] EXCEPT !.status = y, !.timer = FALSE] ELSE req[i]]
    BY DEF P!Finish
  <2> HIDE DEF y
  <2>2. ASSUME NEW i \in P!Ids PROVE [req[i] EXCEPT !.status = y, !.timer = FALSE] \in P!Request
    BY <2>0 DEF PoolTypes, P!Request
  <2>3. req' \in [P!Ids -> P!Request]
    BY <2>1, <2>2 DEF PoolTypes
  <2>4. ASSUME NEW i \in ids \cap P!Open PROVE req'[i].status = y /\ req'[i].started = req[i].started
    <3>1. i \in P!Ids /\ req[i] \in P!Request
      BY Subsets DEF PoolTypes
    <3>2. QED
      BY <2>1, <3>1 DEF P!Request
  <2>5. \A i \in P!Ids : i \notin ids \/ i \notin P!Open => req'[i] = req[i]
    BY <2>1
  <2>6. QED
    BY <2>3, <2>4, <2>5 DEF y
<1>3. P!Open' = P!Open \ ids
  BY <1>1, <1>2 DEF P!Open
<1>4. P!Waiting' = P!Waiting \ ids /\ P!Controls' = P!Controls \ ids
  BY <1>2, <1>3 DEF P!Waiting, P!Controls, P!Open
<1>5. P!CountersMatch'
  <2>1. ids \cap P!Waiting = P!NeverStarted(ids)
    BY DEF P!NeverStarted
  <2>2. P!Waiting \in SUBSET P!Ids /\ P!Controls \in SUBSET P!Ids
    BY Subsets
  <2>3. Cardinality(P!Waiting \ ids) = Cardinality(P!Waiting) - Cardinality(ids \cap P!Waiting)
        /\ Cardinality(P!Controls \ ids) = Cardinality(P!Controls) - Cardinality(ids \cap P!Controls)
    BY <2>2, Sizes
  <2>4. QED
    BY PoolCardinality, <1>4, <2>1, <2>3 DEF P!CountersMatch, P!Finish
<1>6. QED
  BY <1>2, <1>3, <1>4, <1>5

\* fail() leaves nothing open, and nothing runs.
LEMMA FailTable ==
    ASSUME PoolTypes, Lives, P!CountersMatch, P!Fail, child # "none"
    PROVE  /\ req' \in [P!Ids -> P!Request] /\ P!CountersMatch' /\ P!Open' = {} /\ P!Waiting' = {}
           /\ failure' \in BOOLEAN /\ drainFailed' \in BOOLEAN /\ killed' \in BOOLEAN
           /\ (failure' \/ drainFailed') /\ (drainFailed' => closing)
           /\ (child = "alive" => killed')
           /\ stdin' \in Seq(Input) /\ helper' \in [gate : BOOLEAN, asked : SUBSET (0..MaxRequests)]
           /\ (helper.gate => helper'.gate)
           /\ \A i \in P!Ids : (req'[i].started = req[i].started /\ req'[i].status \notin {"done", "proof"}) \/ req'[i] = req[i]
<1>1. CASE failure \/ drainFailed
  <2>1. UNCHANGED <<failure, drainFailed, killed, req, admissionControls, pendingStarts, stdin, helper>>
    BY <1>1 DEF P!Fail
  <2>2. P!Open' = P!Open /\ P!Waiting' = P!Waiting /\ P!Controls' = P!Controls
    BY <2>1 DEF P!Open, P!Waiting, P!Controls
  <2>3. P!Open = {} /\ P!Waiting = {} /\ ~P!Runs
    BY <1>1, Subsets DEF Lives
  <2>4. QED
    BY <1>1, <2>1, <2>2, <2>3 DEF PoolTypes, Lives, P!CountersMatch, P!Runs
<1>2. CASE ~failure /\ ~drainFailed
  <2>1. /\ failure' = ~closing /\ drainFailed' = closing /\ P!Finish(P!Ids, "failed") /\ P!Kill
        /\ stdin' = <<>> /\ helper' = P!Idle
    BY <1>2 DEF P!Fail
  <2>2. P!Settled("failed") \in {"aborted", "failed"}
    BY DEF P!Settled
  <2>3. /\ req' \in [P!Ids -> P!Request] /\ P!CountersMatch' /\ P!Open' = P!Open \ P!Ids /\ P!Waiting' = P!Waiting \ P!Ids
        /\ \A i \in P!Ids \cap P!Open : req'[i].status = P!Settled("failed")
        /\ \A i \in P!Ids : req'[i].started = req[i].started
        /\ \A i \in P!Ids \ P!Open : req'[i] = req[i]
    <3>1. P!Ids \in SUBSET P!Ids
      OBVIOUS
    <3>2. QED
      BY <2>1, <3>1, FinishTable
  <2>4. P!Open' = {} /\ P!Waiting' = {}
    BY <2>3, Subsets
  <2>5. killed' \in BOOLEAN /\ (child = "alive" => killed')
    BY <2>1 DEF P!Kill, PoolTypes
  <2>6. helper' \in [gate : BOOLEAN, asked : SUBSET (0..MaxRequests)] /\ helper'.gate
    BY <2>1 DEF P!Idle
  <2>7. stdin' \in Seq(Input) /\ failure' \in BOOLEAN /\ drainFailed' \in BOOLEAN
    BY <2>1 DEF PoolTypes
  <2>8. QED
    BY <2>1, <2>2, <2>3, <2>4, <2>5, <2>6, <2>7
<1>3. QED
  BY <1>1, <1>2

\* A step that fails the pool keeps the invariant.
LEMMA FailInv ==
    ASSUME PoolInv, P!Fail, child # "none", child' \in {child, "closed"}, UNCHANGED <<started, closing, sequence>>,
           UNCHANGED P!gate \/ (started /\ admissionTarget' \in BOOLEAN /\ admissionPaused' \in BOOLEAN
                                /\ (~admissionTarget' => admissionPaused'))
    PROVE  PoolInv'
<1>1. /\ req' \in [P!Ids -> P!Request] /\ P!CountersMatch' /\ P!Open' = {} /\ P!Waiting' = {}
      /\ failure' \in BOOLEAN /\ drainFailed' \in BOOLEAN /\ killed' \in BOOLEAN
      /\ (failure' \/ drainFailed') /\ (drainFailed' => closing)
      /\ (child = "alive" => killed')
      /\ stdin' \in Seq(Input) /\ helper' \in [gate : BOOLEAN, asked : SUBSET (0..MaxRequests)]
      /\ (helper.gate => helper'.gate)
  BY FailTable DEF PoolInv
<1>2. ~P!Runs' /\ child' # "none"
  BY <1>1 DEF P!Runs
<1>3. PoolTypes'
  BY <1>1 DEF PoolInv, PoolTypes, P!gate
<1>4. Lives'
  BY <1>1, <1>2 DEF PoolInv, Lives, P!gate
<1>5. Pauses'
  BY <1>1 DEF PoolInv, Pauses, Lives, P!gate
<1>6. P!Watched' /\ P!PauseIsNotTimed'
  BY <1>1 DEF P!Watched, P!PauseIsNotTimed
<1>7. QED
  BY <1>1, <1>2, <1>3, <1>4, <1>5, <1>6 DEF PoolInv

\* The requests that were asked before are still there.
Kept == \A c \in P!Controls : c \in P!Controls' /\ req'[c].allowed = req[c].allowed

\* What the helper reads is in the order it was written.
LEMMA PipeSame ==
    ASSUME Pipe, Kept, UNCHANGED <<stdin, started, admissionTarget>>, helper'.gate = helper.gate
    PROVE  Pipe'
  BY DEF Pipe, IsControl, Kept

\* The same with one more message that is no control.
LEMMA PipeAppend ==
    ASSUME Pipe, PoolTypes, Kept, NEW m \in Input, stdin' = Append(stdin, m), m.type \notin {"start", "admission"},
           UNCHANGED <<started, admissionTarget>>, helper'.gate = helper.gate
    PROVE  Pipe'
<1>0. PICK n : n = Len(stdin) + 1
  OBVIOUS
<1>1. /\ stdin \in Seq(Input) /\ Len(stdin) \in Nat /\ DOMAIN stdin = 1..Len(stdin)
      /\ DOMAIN stdin' = 1..n /\ stdin'[n] = m
      /\ \A j \in DOMAIN stdin : stdin'[j] = stdin[j]
  BY <1>0 DEF PoolTypes
<1>2. /\ \A j \in DOMAIN stdin : IsControl(j)' <=> IsControl(j)
      /\ ~IsControl(n)' /\ m.type # "start"
  BY <1>1 DEF IsControl
<1>3. \A j \in DOMAIN stdin' : j \in DOMAIN stdin \/ j = n
  BY <1>0, <1>1
<1>4. \A j \in DOMAIN stdin : j \in DOMAIN stdin'
  BY <1>0, <1>1
<1>5. ASSUME NEW j \in DOMAIN stdin'
      PROVE  /\ stdin'[j].type = "start" => j = 1 /\ ~started'
             /\ IsControl(j)' => stdin'[j].id \in P!Controls' /\ req'[stdin'[j].id].allowed = stdin'[j].flag
             /\ IsControl(j)' /\ (\A l \in DOMAIN stdin' : IsControl(l)' => l <= j)
                  => stdin'[j].flag = admissionTarget'
  BY <1>1, <1>2, <1>3, <1>4 DEF Pipe, Kept
<1>6. \A j, l \in DOMAIN stdin' : IsControl(j)' /\ IsControl(l)' /\ stdin'[j].id = stdin'[l].id => j = l
  BY <1>1, <1>2, <1>3 DEF Pipe
<1>7. helper'.gate = admissionTarget' \/ \E j \in DOMAIN stdin' : IsControl(j)'
  BY <1>2, <1>4 DEF Pipe
<1>8. QED
  BY <1>5, <1>6, <1>7 DEF Pipe

\* The same with one more control.
LEMMA PipeControl ==
    ASSUME Pipe, PoolTypes, Kept, NEW m \in Input, stdin' = Append(stdin, m), m.type = "admission",
           m.id \in P!Controls' \ P!Controls, req'[m.id].allowed = m.flag, admissionTarget' = m.flag,
           UNCHANGED <<started, helper>>
    PROVE  Pipe'
<1>0. PICK n : n = Len(stdin) + 1
  OBVIOUS
<1>1. /\ stdin \in Seq(Input) /\ Len(stdin) \in Nat /\ DOMAIN stdin = 1..Len(stdin)
      /\ DOMAIN stdin' = 1..n /\ stdin'[n] = m
      /\ \A j \in DOMAIN stdin : stdin'[j] = stdin[j]
  BY <1>0 DEF PoolTypes
<1>2. /\ \A j \in DOMAIN stdin : IsControl(j)' <=> IsControl(j)
      /\ IsControl(n)' /\ m.type # "start"
  BY <1>1 DEF IsControl
<1>3. \A j \in DOMAIN stdin' : j \in DOMAIN stdin \/ j = n
  BY <1>0, <1>1
<1>4. \A j \in DOMAIN stdin : j \in DOMAIN stdin' /\ j < n
  BY <1>0, <1>1
<1>5. n \in DOMAIN stdin'
  BY <1>0, <1>1
<1>6. ASSUME NEW j \in DOMAIN stdin'
      PROVE  /\ stdin'[j].type = "start" => j = 1 /\ ~started'
             /\ IsControl(j)' => stdin'[j].id \in P!Controls' /\ req'[stdin'[j].id].allowed = stdin'[j].flag
             /\ IsControl(j)' /\ (\A l \in DOMAIN stdin' : IsControl(l)' => l <= j)
                  => stdin'[j].flag = admissionTarget'
  <2>1. CASE j = n
    BY <1>0, <1>1, <1>2, <2>1
  <2>2. CASE j \in DOMAIN stdin
    <3>1. IsControl(n)' /\ ~(n <= j) /\ n \in DOMAIN stdin'
      BY <1>0, <1>1, <1>2, <1>5, <2>2
    <3>2. QED
      BY <1>1, <1>2, <1>5, <2>2, <3>1 DEF Pipe, Kept
  <2>3. QED
    BY <1>3, <2>1, <2>2
<1>7. \A j, l \in DOMAIN stdin' : IsControl(j)' /\ IsControl(l)' /\ stdin'[j].id = stdin'[l].id => j = l
  BY <1>1, <1>2, <1>3 DEF Pipe
<1>8. helper'.gate = admissionTarget' \/ \E j \in DOMAIN stdin' : IsControl(j)'
  BY <1>2, <1>5
<1>9. QED
  BY <1>6, <1>7, <1>8 DEF Pipe

\* It reads a message that is no control.
LEMMA PipeTail ==
    ASSUME Pipe, PoolTypes, stdin # <<>>, stdin' = Tail(stdin), UNCHANGED <<req, admissionTarget>>,
           Head(stdin).type # "admission", helper'.gate = helper.gate
    PROVE  Pipe'
<1>1. /\ stdin \in Seq(Input) /\ Len(stdin) \in Nat \ {0} /\ DOMAIN stdin = 1..Len(stdin)
      /\ DOMAIN stdin' = 1..(Len(stdin) - 1) /\ Head(stdin) = stdin[1]
      /\ \A j \in DOMAIN stdin' : stdin'[j] = stdin[j + 1] /\ j + 1 \in DOMAIN stdin /\ j + 1 # 1
      /\ \A j \in DOMAIN stdin : j # 1 => j - 1 \in DOMAIN stdin' /\ (j - 1) + 1 = j
  BY DEF PoolTypes
<1>2. ~IsControl(1) /\ \A j \in DOMAIN stdin' : IsControl(j)' <=> IsControl(j + 1)
  BY <1>1 DEF IsControl
<1>3. P!Controls' = P!Controls
  BY DEF P!Controls, P!Open
<1>4. ASSUME NEW j \in DOMAIN stdin'
      PROVE  /\ stdin'[j].type = "start" => j = 1 /\ ~started'
             /\ IsControl(j)' => stdin'[j].id \in P!Controls' /\ req'[stdin'[j].id].allowed = stdin'[j].flag
             /\ IsControl(j)' /\ (\A l \in DOMAIN stdin' : IsControl(l)' => l <= j)
                  => stdin'[j].flag = admissionTarget'
  <2>1. stdin'[j] = stdin[j + 1] /\ j + 1 \in DOMAIN stdin /\ j + 1 # 1
    BY <1>1
  <2>2. ASSUME \A l \in DOMAIN stdin' : IsControl(l)' => l <= j
        PROVE  \A l \in DOMAIN stdin : IsControl(l) => l <= j + 1
    BY <1>1, <1>2, <2>2
  <2>3. QED
    BY <1>2, <1>3, <2>1, <2>2 DEF Pipe
<1>5. \A j, l \in DOMAIN stdin' : IsControl(j)' /\ IsControl(l)' /\ stdin'[j].id = stdin'[l].id => j = l
  BY <1>1, <1>2 DEF Pipe
<1>6. helper'.gate = admissionTarget' \/ \E j \in DOMAIN stdin' : IsControl(j)'
  BY <1>1, <1>2 DEF Pipe
<1>7. QED
  BY <1>4, <1>5, <1>6 DEF Pipe

\* It reads a control, and acknowledges it.
LEMMA PipeRead ==
    ASSUME Pipe, PoolTypes, stdin # <<>>, stdin' = Tail(stdin), UNCHANGED <<started, admissionTarget>>,
           Head(stdin).type = "admission", helper'.gate = Head(stdin).flag,
           P!Controls' = P!Controls \ {Head(stdin).id}, \A c \in P!Controls' : req'[c].allowed = req[c].allowed
    PROVE  Pipe'
<1>1. /\ stdin \in Seq(Input) /\ Len(stdin) \in Nat \ {0} /\ DOMAIN stdin = 1..Len(stdin)
      /\ DOMAIN stdin' = 1..(Len(stdin) - 1) /\ Head(stdin) = stdin[1] /\ 1 \in DOMAIN stdin
      /\ \A j \in DOMAIN stdin' : stdin'[j] = stdin[j + 1] /\ j + 1 \in DOMAIN stdin /\ j + 1 # 1
      /\ \A j \in DOMAIN stdin : j # 1 => j - 1 \in DOMAIN stdin' /\ (j - 1) + 1 = j
  BY DEF PoolTypes
<1>2. IsControl(1) /\ \A j \in DOMAIN stdin' : IsControl(j)' <=> IsControl(j + 1)
  BY <1>1 DEF IsControl
<1>3. ASSUME NEW j \in DOMAIN stdin'
      PROVE  /\ stdin'[j].type = "start" => j = 1 /\ ~started'
             /\ IsControl(j)' => stdin'[j].id \in P!Controls' /\ req'[stdin'[j].id].allowed = stdin'[j].flag
             /\ IsControl(j)' /\ (\A l \in DOMAIN stdin' : IsControl(l)' => l <= j)
                  => stdin'[j].flag = admissionTarget'
  <2>1. stdin'[j] = stdin[j + 1] /\ j + 1 \in DOMAIN stdin /\ j + 1 # 1
    BY <1>1
  <2>2. ASSUME \A l \in DOMAIN stdin' : IsControl(l)' => l <= j
        PROVE  \A l \in DOMAIN stdin : IsControl(l) => l <= j + 1
    BY <1>1, <1>2, <2>2
  <2>3. IsControl(j + 1) => stdin[j + 1].id # stdin[1].id
    BY <1>1, <1>2, <2>1 DEF Pipe
  <2>4. QED
    BY <1>1, <1>2, <2>1, <2>2, <2>3 DEF Pipe
<1>4. \A j, l \in DOMAIN stdin' : IsControl(j)' /\ IsControl(l)' /\ stdin'[j].id = stdin'[l].id => j = l
  BY <1>1, <1>2 DEF Pipe
<1>5. helper'.gate = admissionTarget' \/ \E j \in DOMAIN stdin' : IsControl(j)'
  <2>1. CASE \E j \in DOMAIN stdin : j # 1 /\ IsControl(j)
    BY <1>1, <1>2, <2>1
  <2>2. CASE \A j \in DOMAIN stdin : j # 1 => ~IsControl(j)
    <3>1. \A l \in DOMAIN stdin : IsControl(l) => l <= 1
      BY <1>1, <2>2
    <3>2. QED
      BY <1>1, <1>2, <3>1 DEF Pipe
  <2>3. QED
    BY <2>1, <2>2
<1>6. QED
  BY <1>3, <1>4, <1>5 DEF Pipe

-----------------------------------------------------------------------------
\* One more message.
LEMMA AppendType == ASSUME NEW q \in Seq(Input), NEW m \in Input PROVE Append(q, m) \in Seq(Input)
  OBVIOUS

\* What a step may answer and start.
Promised == P!AnsweredInTime /\ P!StartsInTurn

\* A step that answers nothing and starts nothing.
LEMMA Promises ==
    ASSUME \A i \in P!Ids : req'[i] = req[i] \/ (req'[i].started = req[i].started /\ req'[i].status \notin {"done", "proof"})
    PROVE  Promised
  BY DEF Promised, P!AnsweredInTime, P!StartsInTurn

\* The pool fails.
LEMMA FailStep ==
    ASSUME PoolInv, P!Fail, child # "none", child' \in {child, "closed"}, UNCHANGED <<started, closing, sequence>>,
           UNCHANGED P!gate \/ (started /\ admissionTarget' \in BOOLEAN /\ admissionPaused' \in BOOLEAN
                                /\ (~admissionTarget' => admissionPaused'))
    PROVE  PoolInv' /\ Promised
<1>1. PoolInv'
  BY FailInv
<1>2. \A i \in P!Ids : (req'[i].started = req[i].started /\ req'[i].status \notin {"done", "proof"}) \/ req'[i] = req[i]
  BY FailTable DEF PoolInv
<1>3. QED
  BY <1>1, <1>2, Promises

\* The table as it was.
LEMMA TableSame ==
    ASSUME req' = req
    PROVE  P!Open' = P!Open /\ P!Waiting' = P!Waiting /\ P!Controls' = P!Controls /\ Kept
  BY DEF P!Open, P!Waiting, P!Controls, Kept

\* The process is spawned.
LEMMA PoolStartStep == ASSUME PoolInv, P!Start PROVE PoolInv' /\ Promised
<1>0. /\ child = "none" /\ child' = "alive" /\ stdin' = <<P!Message("start", 0, TRUE)>>
      /\ UNCHANGED <<started, closing, failure, drainFailed, killed, P!table, P!gate, helper, pFaults>>
  BY DEF P!Start
<1>1. UNCHANGED <<req, sequence, pendingStarts, admissionControls, admissionTarget, admissionPaused>>
  BY <1>0 DEF P!table, P!gate
<1>2. ~started /\ ~failure /\ ~drainFailed /\ sequence = 0 /\ admissionTarget /\ helper.gate
  BY <1>0 DEF PoolInv, Lives
<1>3. P!Open' = P!Open /\ P!Waiting' = P!Waiting /\ P!Controls' = P!Controls
  BY <1>1, TableSame
<1>4. stdin' \in Seq(Input) /\ DOMAIN stdin' = {1} /\ stdin'[1].type = "start"
  <2>1. P!Message("start", 0, TRUE) \in Input /\ P!Message("start", 0, TRUE).type = "start"
    BY PoolConstants DEF P!Message, Input
  <2>2. PICK m \in Input : stdin' = <<m>> /\ m.type = "start"
    BY <1>0, <2>1
  <2>3. DOMAIN stdin' = 1..1 /\ 1..1 = {1}
    BY <2>2
  <2>4. QED
    BY <2>2, <2>3
<1>5. PoolTypes'
  BY <1>0, <1>1, <1>3, <1>4 DEF PoolInv, PoolTypes
<1>6. Lives' /\ Pauses' /\ P!CountersMatch' /\ P!Watched' /\ P!PauseIsNotTimed'
  BY <1>0, <1>1, <1>2, <1>3 DEF PoolInv, Lives, Pauses, P!CountersMatch, P!Watched,
                                P!PauseIsNotTimed
<1>7. Pipe'
  BY <1>0, <1>1, <1>2, <1>4 DEF Pipe, IsControl
<1>8. Promised
  BY <1>1, Promises
<1>9. QED
  BY <1>5, <1>6, <1>7, <1>8 DEF PoolInv

\* It cannot be spawned.
LEMMA SpawnFailsStep == ASSUME PoolInv, P!SpawnFails PROVE PoolInv' /\ Promised
<1>0. /\ child = "none" /\ child' = "closed" /\ failure' = TRUE
      /\ UNCHANGED <<started, closing, drainFailed, killed, P!table, P!gate, stdin, helper>>
  BY DEF P!SpawnFails
<1>1. UNCHANGED <<req, sequence, pendingStarts, admissionControls, admissionTarget, admissionPaused>>
  BY <1>0 DEF P!table, P!gate
<1>2. ~started /\ sequence = 0 /\ P!Open = {}
  BY <1>0, Subsets DEF PoolInv, Lives, PoolTypes, P!Ids
<1>3. P!Open' = P!Open /\ P!Waiting' = P!Waiting /\ P!Controls' = P!Controls
  BY <1>1, TableSame
<1>4. PoolTypes' /\ ~P!Runs'
  BY <1>0, <1>1, <1>3 DEF PoolInv, PoolTypes, P!Runs
<1>5. Lives' /\ Pauses' /\ P!CountersMatch' /\ P!Watched' /\ P!PauseIsNotTimed'
  BY <1>0, <1>1, <1>2, <1>3, <1>4 DEF PoolInv, Lives, Pauses, P!CountersMatch, P!Watched,
                                      P!PauseIsNotTimed
<1>6. Promised
  BY <1>1, Promises
<1>7. QED
  BY <1>4, <1>5, <1>6 DEF PoolInv

\* A deadline, the pipe or the helper fails the pool, or too many controls wait.
Breaks ==
    \/ P!StartTimesOut \/ P!WriteFails \/ P!BadFrame
    \/ \E i \in P!Ids : P!TimesOut(i)
    \/ \E allowed \in BOOLEAN : P!ControlOverflow(allowed)

\* Whatever fails the pool settles everything.
LEMMA FailuresStep == ASSUME PoolInv, Breaks PROVE PoolInv' /\ Promised
<1>1. CASE P!StartTimesOut
  BY <1>1, FailStep DEF P!StartTimesOut
<1>2. CASE P!WriteFails
  <2>1. child # "none"
    BY <1>2 DEF P!WriteFails, PoolInv, Lives
  <2>2. QED
    BY <1>2, <2>1, FailStep DEF P!WriteFails
<1>3. CASE P!BadFrame
  BY <1>3, FailStep DEF P!BadFrame, P!Runs
<1>4. ASSUME NEW i \in P!Ids, P!TimesOut(i) PROVE PoolInv' /\ Promised
  <2>1. child # "none"
    BY <1>4 DEF P!TimesOut, PoolInv, Lives, PoolTypes, P!Ids
  <2>2. QED
    BY <1>4, <2>1, FailStep DEF P!TimesOut
<1>5. ASSUME NEW allowed \in BOOLEAN, P!ControlOverflow(allowed) PROVE PoolInv' /\ Promised
  <2>1. child # "none" /\ started
    BY <1>5 DEF P!ControlOverflow, PoolInv, Lives, P!Usable
  <2>2. /\ admissionTarget' \in BOOLEAN /\ admissionPaused' \in BOOLEAN
        /\ (~admissionTarget' => admissionPaused')
    BY <1>5 DEF P!ControlOverflow, PoolInv, PoolTypes
  <2>3. P!Fail /\ UNCHANGED <<child, started, closing, sequence, pFaults>>
    BY <1>5 DEF P!ControlOverflow
  <2>4. QED
    BY <2>1, <2>2, <2>3, FailStep
<1>6. QED
  BY <1>1, <1>2, <1>3, <1>4, <1>5 DEF Breaks

\* A request is entered in the table.
LEMMA EnterTable ==
    ASSUME PoolTypes, P!CountersMatch, NEW kind \in P!Kinds, NEW allowed \in BOOLEAN, NEW suspended \in SUBSET P!Ids,
           sequence < MaxRequests, suspended \subseteq P!Open, P!Enter(kind, allowed, suspended)
    PROVE  LET id == sequence + 1
           IN  /\ id \in P!Ids \ P!Open /\ req' \in [P!Ids -> P!Request] /\ sequence' = id /\ P!CountersMatch'
               /\ P!Open' = P!Open \cup {id}
               /\ P!Waiting' = IF kind = "attempt" THEN P!Waiting \cup {id} ELSE P!Waiting
               /\ P!Controls' = IF kind = "admission" THEN P!Controls \cup {id} ELSE P!Controls
               /\ req'[id] = [P!Unused EXCEPT !.status = "open", !.kind = kind, !.allowed = allowed, !.timer = P!Deadline(kind)]
               /\ \A i \in P!Ids \ (suspended \cup {id}) : req'[i] = req[i]
               /\ \A i \in suspended : ~req'[i].timer
               /\ \A i \in P!Ids \ {id} : /\ req'[i].status = req[i].status /\ req'[i].kind = req[i].kind
                                       /\ req'[i].started = req[i].started /\ req'[i].allowed = req[i].allowed
<1> DEFINE id == sequence + 1
           new == [P!Unused EXCEPT !.status = "open", !.kind = kind, !.allowed = allowed, !.timer = P!Deadline(kind)]
<1>1. id \in P!Ids /\ id \notin P!Open /\ sequence' = id
  BY PoolConstants DEF PoolTypes, P!Ids, P!Enter
<1>2. new \in P!Request /\ new.status = "open" /\ new.kind = kind /\ ~new.started
  BY DEF P!Request, P!Unused, P!Kinds, P!Deadline, PoolTypes
<1>3. req' = [i \in P!Ids |-> IF i = id THEN new
                               ELSE IF i \in suspended THEN [req[i] EXCEPT !.timer = FALSE] ELSE req[i]]
  BY DEF P!Enter
<1> HIDE DEF new, id
<1>4. ASSUME NEW i \in P!Ids
      PROVE  /\ [req[i] EXCEPT !.timer = FALSE] \in P!Request
             /\ LET r == [req[i] EXCEPT !.timer = FALSE]
                IN  r.status = req[i].status /\ r.kind = req[i].kind /\ r.started = req[i].started
                    /\ r.allowed = req[i].allowed /\ ~r.timer
  BY DEF PoolTypes, P!Request
<1>5. /\ req' \in [P!Ids -> P!Request] /\ req'[id] = new
      /\ \A i \in P!Ids \ (suspended \cup {id}) : req'[i] = req[i]
      /\ \A i \in suspended : ~req'[i].timer
      /\ \A i \in P!Ids \ {id} : /\ req'[i].status = req[i].status /\ req'[i].kind = req[i].kind
                               /\ req'[i].started = req[i].started /\ req'[i].allowed = req[i].allowed
  <2>1. req' \in [P!Ids -> P!Request]
    BY <1>2, <1>3, <1>4 DEF PoolTypes
  <2>2. QED
    BY <1>1, <1>3, <1>4, <2>1
<1>6. P!Open' = P!Open \cup {id}
  BY <1>1, <1>2, <1>5 DEF P!Open
<1>7. P!Waiting' = IF kind = "attempt" THEN P!Waiting \cup {id} ELSE P!Waiting
  BY <1>1, <1>2, <1>5, <1>6 DEF P!Waiting, P!Open
<1>8. P!Controls' = IF kind = "admission" THEN P!Controls \cup {id} ELSE P!Controls
  BY <1>1, <1>2, <1>5, <1>6 DEF P!Controls, P!Open
<1>9. P!CountersMatch'
  <2>1. P!Waiting \in SUBSET P!Ids /\ P!Controls \in SUBSET P!Ids /\ id \in P!Ids \ P!Waiting /\ id \in P!Ids \ P!Controls
    BY <1>1, Subsets
  <2>2. Cardinality(P!Waiting \cup {id}) = Cardinality(P!Waiting) + 1
        /\ Cardinality(P!Controls \cup {id}) = Cardinality(P!Controls) + 1
    BY <2>1, Sizes
  <2>3. /\ pendingStarts' = IF kind = "attempt" THEN pendingStarts + 1 ELSE pendingStarts
        /\ admissionControls' = IF kind = "admission" THEN admissionControls + 1 ELSE admissionControls
    BY DEF P!Enter
  <2>4. QED
    BY PoolCardinality, <1>7, <1>8, <2>2, <2>3 DEF P!CountersMatch
<1>10. QED
  BY <1>1, <1>5, <1>6, <1>7, <1>8, <1>9 DEF id, new

\* An attempt or a resolve is asked.
LEMMA AskStep == ASSUME PoolInv, NEW kind \in {"attempt", "resolve"}, P!Ask(kind) PROVE PoolInv' /\ Promised
<1>0. /\ P!Usable /\ sequence < MaxRequests /\ P!Enter(kind, FALSE, {})
      /\ UNCHANGED <<child, started, closing, failure, drainFailed, killed, admissionTarget, admissionPaused, helper>>
  BY DEF P!Ask, P!flags, P!gate
<1>1. PICK id : id = sequence + 1
  OBVIOUS
<1>2. /\ id \in P!Ids \ P!Open /\ req' \in [P!Ids -> P!Request] /\ sequence' = id /\ P!CountersMatch'
      /\ P!Open' = P!Open \cup {id}
      /\ P!Waiting' = IF kind = "attempt" THEN P!Waiting \cup {id} ELSE P!Waiting
      /\ P!Controls' = P!Controls
      /\ req'[id].timer = P!Deadline(kind) /\ ~req'[id].started /\ req'[id].status = "open"
      /\ \A i \in P!Ids \ {id} : req'[i] = req[i]
  <2>1. kind \in P!Kinds /\ kind # "admission" /\ FALSE \in BOOLEAN /\ {} \in SUBSET P!Ids /\ {} \subseteq P!Open
    BY DEF P!Kinds
  <2>2. PoolTypes /\ P!CountersMatch
    BY DEF PoolInv
  <2> DEFINE new == [P!Unused EXCEPT !.status = "open", !.kind = kind, !.allowed = FALSE, !.timer = P!Deadline(kind)]
  <2>3. new.timer = P!Deadline(kind) /\ ~new.started /\ new.status = "open"
    BY DEF P!Unused
  <2> HIDE DEF new
  <2>4. /\ id \in P!Ids \ P!Open /\ req' \in [P!Ids -> P!Request] /\ sequence' = id /\ P!CountersMatch'
        /\ P!Open' = P!Open \cup {id}
        /\ P!Waiting' = (IF kind = "attempt" THEN P!Waiting \cup {id} ELSE P!Waiting)
        /\ P!Controls' = (IF kind = "admission" THEN P!Controls \cup {id} ELSE P!Controls)
        /\ req'[id] = new
        /\ \A i \in P!Ids \ ({} \cup {id}) : req'[i] = req[i]
    BY <1>0, <1>1, <2>1, <2>2, EnterTable DEF new
  <2>5. QED
    BY <2>1, <2>3, <2>4
<1>3. Promised
  BY <1>2 DEF Promised, P!AnsweredInTime, P!StartsInTurn
<1>4. stdin' = stdin \/ stdin' = Append(stdin, P!Message(kind, id, FALSE))
  BY <1>0, <1>1 DEF P!Enter
<1>5. P!Message(kind, id, FALSE) \in Input /\ P!Message(kind, id, FALSE).type = kind
  BY <1>2 DEF P!Message, Input, P!Ids
<1>6. PoolTypes'
  <2>1. stdin' \in Seq(Input)
    BY <1>4, <1>5, AppendType DEF PoolInv, PoolTypes
  <2>2. sequence' \in 0..MaxRequests /\ \A i \in P!Open' : i <= sequence'
    BY <1>1, <1>2, Subsets DEF PoolInv, PoolTypes, P!Ids
  <2>3. QED
    BY <1>0, <1>2, <2>1, <2>2 DEF PoolInv, PoolTypes
<1>7. Lives'
  BY <1>0 DEF PoolInv, Lives, P!Usable, P!Runs
<1>8. Pauses'
  <2>1. \A c \in P!Controls : req'[c] = req[c]
    BY <1>2, Subsets
  <2>2. QED
    BY <1>0, <1>2, <2>1 DEF PoolInv, Pauses
<1>9. P!Watched'
  <2>1. ASSUME NEW i \in P!Open PROVE i \in P!Open' /\ req'[i] = req[i] /\ (i \in P!Waiting => i \in P!Waiting')
    BY <1>2, Subsets
  <2>2. req'[id].timer \/ (id \in P!Waiting' /\ admissionPaused)
    BY <1>0, <1>2 DEF P!Deadline
  <2>3. admissionPaused => ~admissionTarget \/ \E c \in P!Controls : req[c].allowed /\ req[c].timer
    BY <1>0 DEF PoolInv, Pauses, P!Usable
  <2>4. \A c \in P!Controls : req'[c] = req[c]
    BY <2>1, Subsets
  <2>5. QED
    BY <1>0, <1>2, <2>1, <2>2, <2>3, <2>4 DEF PoolInv, P!Watched
<1>10. P!PauseIsNotTimed'
  <2>1. ~admissionTarget => admissionPaused
    BY DEF PoolInv, Pauses
  <2>2. kind = "attempt" => (req'[id].timer <=> ~admissionPaused)
    BY <1>2 DEF P!Deadline, PoolInv, PoolTypes
  <2>3. \A i \in P!Waiting : req'[i] = req[i]
    BY <1>2, Subsets
  <2>4. QED
    BY <1>0, <1>2, <2>1, <2>2, <2>3 DEF PoolInv, P!PauseIsNotTimed
<1>11. P!Runs' => Pipe'
  <2>1. SUFFICES ASSUME P!Runs' PROVE Pipe'
    OBVIOUS
  <2>2. Pipe /\ PoolTypes
    BY <1>0, <2>1 DEF PoolInv, P!Runs
  <2>3. Kept
    BY <1>2, Subsets DEF Kept
  <2>4. QED
    BY <1>0, <1>4, <1>5, <2>2, <2>3, PipeSame, PipeAppend
<1>12. QED
  BY <1>2, <1>3, <1>6, <1>7, <1>8, <1>9, <1>10, <1>11 DEF PoolInv

\* A caller gives up.
LEMMA AbortStep == ASSUME PoolInv, NEW i \in P!Ids, P!Abort(i) PROVE PoolInv' /\ Promised
<1>0. /\ i \in P!Open /\ req' = [req EXCEPT ![i].aborted = TRUE]
      /\ UNCHANGED <<child, started, closing, failure, drainFailed, killed, sequence, pendingStarts, admissionControls,
                     admissionTarget, admissionPaused, stdin, helper>>
  BY DEF P!Abort, P!flags, P!gate
<1>1. /\ req' \in [P!Ids -> P!Request]
      /\ \A j \in P!Ids : /\ req'[j].status = req[j].status /\ req'[j].kind = req[j].kind
                       /\ req'[j].started = req[j].started /\ req'[j].allowed = req[j].allowed
                       /\ req'[j].timer = req[j].timer
  BY <1>0 DEF PoolInv, PoolTypes, P!Request
<1>2. P!Open' = P!Open /\ P!Waiting' = P!Waiting /\ P!Controls' = P!Controls
  BY <1>1 DEF P!Open, P!Waiting, P!Controls
<1>3. Kept
  BY <1>1, <1>2, Subsets DEF Kept
<1>4. PoolTypes' /\ Lives' /\ P!CountersMatch'
  BY <1>0, <1>1, <1>2 DEF PoolInv, PoolTypes, Lives, P!CountersMatch, P!Runs
<1>5. Pauses' /\ P!Watched' /\ P!PauseIsNotTimed'
  BY <1>0, <1>1, <1>2, Subsets DEF PoolInv, Pauses, P!Watched, P!PauseIsNotTimed
<1>6. P!Runs' => Pipe'
  BY <1>0, <1>3, PipeSame DEF PoolInv, P!Runs
<1>7. Promised
  BY <1>1 DEF Promised, P!AnsweredInTime, P!StartsInTurn
<1>8. QED
  BY <1>4, <1>5, <1>6, <1>7 DEF PoolInv

\* The gate is closed or opened.
LEMMA SetAdmissionStep ==
    ASSUME PoolInv, NEW allowed \in BOOLEAN, P!SetAdmissionAllowed(allowed)
    PROVE  PoolInv' /\ Promised
<1> DEFINE suspended == IF allowed THEN {} ELSE P!Waiting
<1>0. /\ P!Usable /\ sequence < MaxRequests /\ P!Enter("admission", allowed, suspended)
      /\ admissionTarget # allowed /\ admissionTarget' = allowed /\ admissionPaused' = (admissionPaused \/ ~allowed)
      /\ UNCHANGED <<child, started, closing, failure, drainFailed, killed, helper>>
  BY DEF P!SetAdmissionAllowed, P!Sends, P!flags
<1>1. PICK id : id = sequence + 1
  OBVIOUS
<1>2. /\ id \in P!Ids \ P!Open /\ req' \in [P!Ids -> P!Request] /\ sequence' = id /\ P!CountersMatch'
      /\ P!Open' = P!Open \cup {id} /\ P!Waiting' = P!Waiting /\ P!Controls' = P!Controls \cup {id}
      /\ req'[id].timer /\ ~req'[id].started /\ req'[id].status = "open" /\ req'[id].allowed = allowed
      /\ \A i \in P!Ids \ (suspended \cup {id}) : req'[i] = req[i]
      /\ \A i \in suspended : ~req'[i].timer
      /\ \A i \in P!Ids \ {id} : /\ req'[i].status = req[i].status /\ req'[i].kind = req[i].kind
                               /\ req'[i].started = req[i].started /\ req'[i].allowed = req[i].allowed
  <2>1. "admission" \in P!Kinds /\ suspended \in SUBSET P!Ids /\ suspended \subseteq P!Open
    BY Subsets DEF P!Kinds
  <2>2. PoolTypes /\ P!CountersMatch
    BY DEF PoolInv
  <2>3. PICK k \in P!Kinds, s \in SUBSET P!Ids : k = "admission" /\ s = suspended
    BY <2>1
  <2> DEFINE new == [P!Unused EXCEPT !.status = "open", !.kind = k, !.allowed = allowed, !.timer = P!Deadline(k)]
  <2>4. new.timer /\ ~new.started /\ new.status = "open" /\ new.allowed = allowed
    BY <2>3 DEF P!Unused, P!Deadline
  <2>5. sequence < MaxRequests /\ P!Enter(k, allowed, s) /\ s \subseteq P!Open
    BY <1>0, <2>1, <2>3
  <2> HIDE DEF suspended
  <2>6. /\ id \in P!Ids \ P!Open /\ req' \in [P!Ids -> P!Request] /\ sequence' = id /\ P!CountersMatch'
        /\ P!Open' = P!Open \cup {id}
        /\ P!Waiting' = (IF k = "attempt" THEN P!Waiting \cup {id} ELSE P!Waiting)
        /\ P!Controls' = (IF k = "admission" THEN P!Controls \cup {id} ELSE P!Controls)
        /\ req'[id] = new
        /\ \A i \in P!Ids \ (s \cup {id}) : req'[i] = req[i]
        /\ \A i \in s : ~req'[i].timer
        /\ \A i \in P!Ids \ {id} : /\ req'[i].status = req[i].status /\ req'[i].kind = req[i].kind
                                 /\ req'[i].started = req[i].started /\ req'[i].allowed = req[i].allowed
    <3>1. sequence + 1 = id
      BY <1>1
    <3>2. /\ sequence + 1 \in P!Ids \ P!Open /\ req' \in [P!Ids -> P!Request] /\ sequence' = sequence + 1
             /\ P!CountersMatch'
          /\ P!Open' = P!Open \cup {sequence + 1}
          /\ P!Waiting' = (IF k = "attempt" THEN P!Waiting \cup {sequence + 1} ELSE P!Waiting)
          /\ P!Controls' = (IF k = "admission" THEN P!Controls \cup {sequence + 1} ELSE P!Controls)
          /\ req'[sequence + 1] = new
          /\ \A i \in P!Ids \ (s \cup {sequence + 1}) : req'[i] = req[i]
          /\ \A i \in s : ~req'[i].timer
          /\ \A i \in P!Ids \ {sequence + 1} : /\ req'[i].status = req[i].status /\ req'[i].kind = req[i].kind
                                   /\ req'[i].started = req[i].started /\ req'[i].allowed = req[i].allowed
      BY <2>2, <2>5, EnterTable, Zenon
    <3> HIDE DEF new
    <3>3. QED
      BY <3>1, <3>2
  <2> HIDE DEF new
  <2>7. QED
    BY <2>3, <2>4, <2>6
<1>3. Promised
  BY <1>2 DEF Promised, P!AnsweredInTime, P!StartsInTurn
<1>4. stdin' = stdin \/ stdin' = Append(stdin, P!Message("admission", id, allowed))
  BY <1>0, <1>1 DEF P!Enter
<1>5. /\ P!Message("admission", id, allowed) \in Input /\ P!Message("admission", id, allowed).type = "admission"
      /\ P!Message("admission", id, allowed).id = id /\ P!Message("admission", id, allowed).flag = allowed
  BY <1>2 DEF P!Message, Input, P!Ids
<1>6. PoolTypes'
  <2>1. stdin' \in Seq(Input)
    BY <1>4, <1>5, AppendType DEF PoolInv, PoolTypes
  <2>2. sequence' \in 0..MaxRequests /\ \A i \in P!Open' : i <= sequence'
    BY <1>1, <1>2, Subsets DEF PoolInv, PoolTypes, P!Ids
  <2>3. admissionTarget' \in BOOLEAN /\ admissionPaused' \in BOOLEAN
    BY <1>0 DEF PoolInv, PoolTypes
  <2>4. QED
    BY <1>0, <1>2, <2>1, <2>2, <2>3 DEF PoolInv, PoolTypes
<1>7. Lives'
  BY <1>0 DEF PoolInv, Lives, P!Usable, P!Runs
<1>8. Pauses'
  BY <1>0, <1>2 DEF PoolInv, Pauses
<1>9. P!Watched'
  <2>1. CASE allowed
    <3>1. ASSUME NEW i \in P!Open PROVE i \in P!Open' /\ req'[i] = req[i]
      BY <1>2, <2>1, Subsets
    <3>2. QED
      BY <1>0, <1>2, <2>1, <3>1 DEF PoolInv, P!Watched
  <2>2. CASE ~allowed
    <3>1. ASSUME NEW i \in P!Open \ P!Waiting PROVE req'[i] = req[i]
      BY <1>2, <2>2, Subsets
    <3>2. QED
      BY <1>0, <1>2, <2>2, <3>1 DEF PoolInv, P!Watched
  <2>3. QED
    BY <2>1, <2>2
<1>10. P!PauseIsNotTimed'
  BY <1>0, <1>2 DEF P!PauseIsNotTimed
<1>11. P!Runs' => Pipe'
  <2>1. SUFFICES ASSUME P!Runs' PROVE Pipe'
    OBVIOUS
  <2>2. Pipe /\ PoolTypes
    BY <1>0, <2>1 DEF PoolInv, P!Runs
  <2>3. Kept
    BY <1>2, Subsets DEF Kept
  <2>4. stdin' = Append(stdin, P!Message("admission", id, allowed))
    BY <1>0, <1>1, <2>1 DEF P!Enter, P!Runs
  <2>5. id \in P!Controls' \ P!Controls
    BY <1>2, Subsets
  <2>6. PICK m \in Input : m.type = "admission" /\ m.id = id /\ m.flag = allowed /\ stdin' = Append(stdin, m)
    BY <1>5, <2>4
  <2>7. QED
    BY <1>0, <1>2, <2>2, <2>3, <2>5, <2>6, PipeControl
<1>12. QED
  BY <1>2, <1>3, <1>6, <1>7, <1>8, <1>9, <1>10, <1>11 DEF PoolInv

\* The pool is closed.
LEMMA CloseStep == ASSUME PoolInv, P!Close PROVE PoolInv' /\ Promised
<1> DEFINE m == P!Message("shutdown", 0, TRUE)
<1>0. /\ closing' = TRUE /\ (stdin' = stdin \/ stdin' = Append(stdin, m))
      /\ killed' = (killed \/ (failure /\ child \in {"alive", "exited"}))
      /\ UNCHANGED <<child, started, failure, drainFailed, req, sequence, pendingStarts, admissionControls,
                     admissionTarget, admissionPaused, helper>>
  BY DEF P!Close, P!table, P!gate
<1>1. m \in Input /\ m.type = "shutdown"
  BY PoolConstants DEF P!Message, Input
<1> HIDE DEF m
<1>2. P!Open' = P!Open /\ P!Waiting' = P!Waiting /\ P!Controls' = P!Controls /\ Kept
  BY <1>0, TableSame
<1>3. PoolTypes'
  <2>1. stdin' \in Seq(Input)
    BY <1>0, <1>1, AppendType DEF PoolInv, PoolTypes
  <2>2. QED
    BY <1>0, <1>2, <2>1 DEF PoolInv, PoolTypes
<1>4. Lives' /\ Pauses' /\ P!CountersMatch' /\ P!Watched' /\ P!PauseIsNotTimed'
  BY <1>0, <1>2 DEF PoolInv, Lives, Pauses, P!CountersMatch, P!Watched, P!PauseIsNotTimed, P!Runs
<1>5. P!Runs' => Pipe'
  <2>1. SUFFICES ASSUME P!Runs' PROVE Pipe'
    OBVIOUS
  <2>2. Pipe /\ PoolTypes
    BY <1>0, <2>1 DEF PoolInv, P!Runs, PoolTypes
  <2>3. QED
    BY <1>0, <1>1, <1>2, <2>2, PipeSame, PipeAppend
<1>6. Promised
  BY <1>0, Promises
<1>7. QED
  BY <1>3, <1>4, <1>5, <1>6 DEF PoolInv

\* The process is killed or ends.
LEMMA EndsStep == ASSUME PoolInv, P!KillTimesOut \/ P!HelperExits PROVE PoolInv' /\ Promised
<1>0. /\ \/ child' = child /\ killed' \in BOOLEAN /\ (child = "alive" => killed')
         \/ child = "alive" /\ child' = "exited" /\ killed' = killed
      /\ UNCHANGED <<started, closing, failure, drainFailed, req, sequence, pendingStarts, admissionControls,
                     admissionTarget, admissionPaused, stdin, helper>>
  BY DEF P!KillTimesOut, P!Kill, P!HelperExits, P!table, P!gate, PoolInv, PoolTypes
<1>1. P!Open' = P!Open /\ P!Waiting' = P!Waiting /\ P!Controls' = P!Controls
  BY <1>0, TableSame
<1>2. PoolTypes' /\ ~P!Runs'
  BY <1>0, <1>1 DEF PoolInv, PoolTypes, P!Runs
<1>3. Lives' /\ Pauses' /\ P!CountersMatch' /\ P!Watched' /\ P!PauseIsNotTimed'
  BY <1>0, <1>1, <1>2 DEF PoolInv, Lives, Pauses, P!CountersMatch, P!Watched, P!PauseIsNotTimed
<1>4. Promised
  BY <1>0, Promises
<1>5. QED
  BY <1>2, <1>3, <1>4 DEF PoolInv

\* The process has ended.
LEMMA ProcessClosedStep == ASSUME PoolInv, P!ProcessClosed PROVE PoolInv' /\ Promised
<1>0. child = "exited" /\ child' = "closed" /\ UNCHANGED <<started, closing, sequence, P!gate, pFaults>>
  BY DEF P!ProcessClosed
<1>1. CASE ~closing
  BY <1>0, <1>1, FailStep DEF P!ProcessClosed
<1>2. CASE closing
  <2>1. P!Finish(P!Open, "aborted") /\ UNCHANGED <<failure, drainFailed, killed, stdin, helper, admissionTarget, admissionPaused>>
    BY <1>2 DEF P!ProcessClosed, P!Unanswered, P!gate
  <2>2. /\ req' \in [P!Ids -> P!Request] /\ P!CountersMatch'
        /\ P!Open' = P!Open \ P!Open /\ P!Waiting' = P!Waiting \ P!Open /\ P!Controls' = P!Controls \ P!Open
        /\ \A i \in P!Open \cap P!Open : req'[i].status = P!Settled("aborted")
        /\ \A i \in P!Ids : req'[i].started = req[i].started
        /\ \A i \in P!Ids \ P!Open : req'[i] = req[i]
    <3>1. P!Open \in SUBSET P!Ids
      BY Subsets
    <3>2. QED
      BY <2>1, <3>1, FinishTable DEF PoolInv
  <2>3. P!Open' = {} /\ P!Waiting' = {} /\ P!Controls' = {}
    BY <2>2, Subsets
  <2>4. PoolTypes' /\ ~P!Runs'
    BY <1>0, <2>1, <2>2, <2>3 DEF PoolInv, PoolTypes, P!Runs
  <2>5. Lives' /\ Pauses' /\ P!Watched' /\ P!PauseIsNotTimed'
    BY <1>0, <1>2, <2>1, <2>3, <2>4 DEF PoolInv, Lives, Pauses, P!Watched, P!PauseIsNotTimed
  <2>6. Promised
    <3>1. P!Settled("aborted") = "aborted"
      BY DEF P!Settled
    <3>2. QED
      BY <2>2, <3>1, Promises
  <2>7. QED
    BY <2>2, <2>4, <2>5, <2>6 DEF PoolInv
<1>3. QED
  BY <1>1, <1>2 DEF PoolInv, PoolTypes

\* The frames that answer attempts and resolves.
Frames == {"started", "capture", "resolved", "blocked", "noproof", "proof"}

\* What the helper has been asked.
LEMMA Asked ==
    ASSUME PoolInv, P!Runs, stdin # <<>>
    PROVE  LET m == Head(stdin)
           IN  /\ m \in Input /\ Tail(stdin) \in Seq(Input)
               /\ m.type = "start" => ~started
               /\ m.type = "admission" => m.id \in P!Controls /\ req[m.id].allowed = m.flag
<1>1. stdin \in Seq(Input) /\ 1 \in DOMAIN stdin /\ Head(stdin) = stdin[1] /\ stdin[1] \in Input
  BY DEF PoolInv, PoolTypes
<1>2. Tail(stdin) \in Seq(Input)
  BY <1>1
<1>3. /\ stdin[1].type = "start" => ~started
      /\ stdin[1].type = "admission" => stdin[1].id \in P!Controls /\ req[stdin[1].id].allowed = stdin[1].flag
  BY <1>1 DEF PoolInv, Pipe, IsControl
<1>4. QED
  BY <1>1, <1>2, <1>3

\* It is ready, it has been asked something, or it is told to stop.
LEMMA ReadsStep ==
    ASSUME PoolInv, P!HelperReads, Head(stdin).type # "admission"
    PROVE  PoolInv' /\ Promised
<1> DEFINE m == Head(stdin)
<1>0. P!Runs /\ stdin # <<>> /\ stdin' = Tail(stdin)
  BY DEF P!HelperReads
<1>1. m \in Input /\ stdin' \in Seq(Input) /\ (m.type = "start" => ~started)
  BY <1>0, Asked
<1>2. ~failure /\ ~drainFailed /\ child = "alive" /\ ~killed
  BY <1>0 DEF PoolInv, Lives, P!Runs
<1>3. /\ UNCHANGED <<closing, failure, drainFailed, killed, req, sequence, pendingStarts,
                     admissionControls, admissionTarget, admissionPaused>>
      /\ (m.type = "start" => started' = TRUE /\ child' = child /\ helper' = helper)
      /\ (m.type = "shutdown" => started' = started /\ child' = "exited" /\ helper' = helper)
      /\ (m.type \in {"attempt", "resolve"} =>
            started' = started /\ child' = child /\ helper' = [helper EXCEPT !.asked = @ \cup {m.id}])
  <2>1. m.type \in {"start", "attempt", "resolve", "shutdown"}
    BY <1>1 DEF Input
  <2>2. CASE m.type = "start"
    <3>1. P!Receive(P!Message("ready", 0, TRUE)) /\ helper' = helper
      BY <2>2 DEF P!HelperReads
    <3>2. P!Message("ready", 0, TRUE).type = "ready" /\ ~started
      BY <1>1, <2>2 DEF P!Message
    <3>3. QED
      BY <2>2, <3>1, <3>2 DEF P!Receive, P!table, P!gate
  <2>3. CASE m.type \in {"attempt", "resolve", "shutdown"}
    BY <2>3 DEF P!HelperReads, P!flags, P!table, P!gate
  <2>4. QED
    BY <2>1, <2>2, <2>3
<1>4. m.type \in {"start", "attempt", "resolve", "shutdown"} /\ m.id \in 0..MaxRequests
  BY <1>1 DEF Input
<1>5. /\ child' \in {child, "exited"} /\ started' \in BOOLEAN /\ (started => started')
      /\ helper' \in [gate : BOOLEAN, asked : SUBSET (0..MaxRequests)] /\ helper'.gate = helper.gate
      /\ (~started' => ~started)
  <2>1. /\ started \in BOOLEAN /\ helper \in [gate : BOOLEAN, asked : SUBSET (0..MaxRequests)]
    BY DEF PoolInv, PoolTypes
  <2>2. helper.asked \cup {m.id} \in SUBSET (0..MaxRequests)
    BY <1>4, <2>1
  <2> HIDE DEF m
  <2>3. helper' = helper \/ helper' = [helper EXCEPT !.asked = @ \cup {m.id}]
    BY <1>3, <1>4
  <2>4. helper' \in [gate : BOOLEAN, asked : SUBSET (0..MaxRequests)] /\ helper'.gate = helper.gate
    BY <2>1, <2>2, <2>3
  <2>5. QED
    BY <1>2, <1>3, <1>4, <2>1, <2>4
<1>6. P!Open' = P!Open /\ P!Waiting' = P!Waiting /\ P!Controls' = P!Controls
  BY <1>3, TableSame
<1> HIDE DEF m
<1>7. PoolTypes'
  BY <1>1, <1>2, <1>3, <1>5, <1>6 DEF PoolInv, PoolTypes
<1>8. Lives'
  BY <1>2, <1>3, <1>5 DEF PoolInv, Lives
<1>9. Pauses' /\ P!CountersMatch' /\ P!Watched' /\ P!PauseIsNotTimed'
  BY <1>3, <1>6 DEF PoolInv, Pauses, P!CountersMatch, P!Watched, P!PauseIsNotTimed
<1>10. Pipe'
  <2>1. Pipe /\ PoolTypes
    BY <1>0 DEF PoolInv
  <2>2. QED
    BY <1>0, <1>3, <1>5, <2>1, PipeTail
<1>11. Promised
  BY <1>3, Promises
<1>12. QED
  BY <1>7, <1>8, <1>9, <1>10, <1>11 DEF PoolInv

\* It acknowledges the gate.
LEMMA AcknowledgesStep ==
    ASSUME PoolInv, P!HelperReads, Head(stdin).type = "admission"
    PROVE  PoolInv' /\ Promised
<1>1. PICK m \in Input : m = Head(stdin)
  BY Asked DEF P!HelperReads
<1>2. P!Runs /\ stdin # <<>> /\ stdin' = Tail(stdin) /\ helper' = [helper EXCEPT !.gate = m.flag] /\ P!Receive(m)
  BY <1>1 DEF P!HelperReads
<1>3. m.type = "admission" /\ m.id \in P!Controls /\ req[m.id].allowed = m.flag /\ stdin' \in Seq(Input)
  BY <1>1, <1>2, Asked
<1>4. m.flag \in BOOLEAN /\ m.id \in P!Ids /\ m.id \in P!Open /\ m.id \notin P!Waiting /\ req[m.id].kind = "admission"
  BY <1>3, Subsets DEF Input, P!Controls, P!Waiting
<1>5. P!InPlace(m)
  BY <1>3, <1>4 DEF P!InPlace
<1>6. /\ admissionPaused' = (admissionPaused /\ ~P!Resumes(m))
      /\ req' = [P!Arm(IF P!Resumes(m) THEN P!Waiting ELSE {}) EXCEPT
                   ![m.id].status = P!Settled("done"), ![m.id].timer = FALSE]
      /\ admissionControls' = admissionControls - 1
      /\ UNCHANGED <<child, started, closing, failure, drainFailed, killed, sequence, pendingStarts, admissionTarget>>
  BY <1>2, <1>3, <1>5 DEF P!Receive, P!flags
<1>7. PICK y \in {"done", "aborted"} : y = P!Settled("done")
  BY DEF P!Settled
<1>8. PICK ws \in SUBSET P!Waiting : ws = IF P!Resumes(m) THEN P!Waiting ELSE {}
  OBVIOUS
<1>9. /\ req' \in [P!Ids -> P!Request] /\ req'[m.id].status = y /\ req'[m.id].started = req[m.id].started
      /\ \A i \in ws : /\ req'[i].status = req[i].status /\ req'[i].kind = req[i].kind
                        /\ req'[i].started = req[i].started /\ req'[i].timer
      /\ \A i \in P!Ids : i # m.id /\ i \notin ws => req'[i] = req[i]
  <2>1. req' = [P!Arm(ws) EXCEPT ![m.id].status = y, ![m.id].timer = FALSE]
    BY <1>6, <1>7, <1>8
  <2>2. ws \subseteq P!Ids /\ m.id \notin ws
    BY <1>4, <1>8, Subsets
  <2>3. \A i \in P!Ids : req[i] \in P!Request
    BY DEF PoolInv, PoolTypes
  <2>4. P!Arm(ws) = [i \in P!Ids |-> IF i \in ws THEN [req[i] EXCEPT !.timer = TRUE] ELSE req[i]]
    BY DEF P!Arm
  <2>5. \A i \in P!Ids : [req[i] EXCEPT !.timer = TRUE] \in P!Request
    BY <2>3 DEF P!Request
  <2>6. P!Arm(ws) \in [P!Ids -> P!Request]
    BY <2>3, <2>4, <2>5
  <2>7. P!Arm(ws)[m.id] = req[m.id]
    BY <1>4, <2>2, <2>4
  <2>8. req'[m.id] = [req[m.id] EXCEPT !.status = y, !.timer = FALSE]
    BY <1>4, <2>1, <2>6, <2>7
  <2>9. [req[m.id] EXCEPT !.status = y, !.timer = FALSE] \in P!Request
    BY <1>4, <1>7, <2>3 DEF P!Request
  <2>10. \A i \in P!Ids : i # m.id => req'[i] = P!Arm(ws)[i]
    BY <2>1, <2>6
  <2>11. req' \in [P!Ids -> P!Request]
    BY <1>4, <2>1, <2>6, <2>8, <2>9, <2>10
  <2>12. req'[m.id].status = y /\ req'[m.id].started = req[m.id].started
    BY <1>4, <2>3, <2>8 DEF P!Request
  <2>13. ASSUME NEW i \in ws
         PROVE  /\ req'[i].status = req[i].status /\ req'[i].kind = req[i].kind
                /\ req'[i].started = req[i].started /\ req'[i].timer
    <3>1. i \in P!Ids /\ req'[i] = [req[i] EXCEPT !.timer = TRUE]
      BY <2>2, <2>4, <2>10
    <3>2. QED
      BY <2>3, <3>1 DEF P!Request
  <2>14. \A i \in P!Ids : i # m.id /\ i \notin ws => req'[i] = req[i]
    BY <2>4, <2>10
  <2>15. QED
    BY <2>11, <2>12, <2>13, <2>14
<1>10. P!Open' = P!Open \ {m.id} /\ P!Waiting' = P!Waiting /\ P!Controls' = P!Controls \ {m.id}
  <2>1. \A i \in ws : i \in P!Waiting /\ i \in P!Open /\ i \in P!Ids /\ i \notin P!Controls
    BY <1>8, Subsets DEF P!Waiting, P!Controls
  <2>2. P!Open' = P!Open \ {m.id}
    BY <1>4, <1>7, <1>9, <2>1 DEF P!Open
  <2>3. QED
    BY <1>4, <1>9, <2>1, <2>2, Subsets DEF P!Waiting, P!Controls
<1>11. P!CountersMatch'
  <2>1. P!Controls \in SUBSET P!Ids
    BY Subsets
  <2>2. Cardinality(P!Controls \ {m.id}) = Cardinality(P!Controls) - 1
    BY <1>3, <2>1, Sizes
  <2>3. QED
    BY PoolCardinality, <1>6, <1>10, <2>2 DEF PoolInv, P!CountersMatch
<1>12. ~failure /\ ~drainFailed /\ started
  BY <1>2, <1>4 DEF PoolInv, Lives, PoolTypes, P!Ids
<1>13. PoolTypes'
  <2>1. helper' \in [gate : BOOLEAN, asked : SUBSET (0..MaxRequests)] /\ admissionPaused' \in BOOLEAN
    BY <1>2, <1>4, <1>6 DEF PoolInv, PoolTypes, P!Resumes
  <2>2. QED
    BY <1>3, <1>6, <1>9, <1>10, <2>1 DEF PoolInv, PoolTypes
<1>14. Lives'
  BY <1>6, <1>12 DEF PoolInv, Lives
<1>15. \A c \in P!Controls' : c \in P!Controls /\ req'[c] = req[c]
  BY <1>8, <1>9, <1>10, Subsets DEF P!Waiting, P!Controls
<1>16. ASSUME ~P!Resumes(m), admissionTarget PROVE \A c \in P!Controls : req[c].allowed => c \in P!Controls'
  BY <1>3, <1>10, <1>16 DEF P!Resumes
<1>17. Pauses'
  BY <1>6, <1>15, <1>16 DEF PoolInv, Pauses, P!Resumes, PoolTypes
<1>18. P!Watched'
  <2>1. SUFFICES ASSUME NEW i \in P!Open', ~req'[i].timer
                 PROVE  /\ i \in P!Waiting' /\ admissionPaused'
                        /\ ~admissionTarget' \/ \E c \in P!Controls' : req'[c].allowed /\ req'[c].timer
    BY DEF P!Watched
  <2>2. i \in P!Open /\ i \in P!Ids /\ i # m.id /\ i \notin ws /\ req'[i] = req[i]
    BY <1>9, <1>10, <2>1, Subsets
  <2>3. i \in P!Waiting /\ admissionPaused /\ (~admissionTarget \/ \E c \in P!Controls : req[c].allowed /\ req[c].timer)
    BY <2>1, <2>2 DEF PoolInv, P!Watched
  <2>4. ~P!Resumes(m)
    BY <1>8, <2>2, <2>3
  <2>5. QED
    BY <1>6, <1>10, <1>15, <1>16, <2>3, <2>4
<1>19. P!PauseIsNotTimed'
  <2>1. ~admissionTarget => ~P!Resumes(m)
    BY DEF P!Resumes
  <2>2. QED
    BY <1>4, <1>6, <1>8, <1>9, <1>10, <2>1, Subsets DEF PoolInv, P!PauseIsNotTimed
<1>20. Pipe'
  <2>1. Pipe /\ PoolTypes /\ helper'.gate = m.flag
    BY <1>2 DEF PoolInv, PoolTypes
  <2>2. \A c \in P!Controls' : req'[c].allowed = req[c].allowed
    BY <1>15
  <2>3. QED
    BY <1>1, <1>2, <1>3, <1>6, <1>10, <2>1, <2>2, PipeRead
<1>21. Promised
  <2>1. \A i \in P!Ids : req'[i].started = req[i].started
    BY <1>4, <1>8, <1>9
  <2>2. \A i \in P!Ids : i # m.id => req'[i].status = req[i].status
    BY <1>9
  <2>3. y = "done" => ~closing
    BY <1>7 DEF P!Settled
  <2>4. QED
    BY <1>4, <1>9, <2>1, <2>2, <2>3 DEF Promised, P!AnsweredInTime, P!StartsInTurn
<1>22. QED
  BY <1>11, <1>13, <1>14, <1>17, <1>18, <1>19, <1>20, <1>21 DEF PoolInv

\* Its sender is open, and an attempt or a resolve.
LEMMA SenderIsOpen ==
    ASSUME PoolInv, NEW i \in P!Ids, NEW type \in Frames, P!HelperSends(i, type)
    PROVE  /\ P!Runs /\ i \in P!Open /\ i \notin P!Controls /\ started /\ ~failure /\ ~drainFailed
           /\ stdin' = stdin /\ helper'.gate = helper.gate
           /\ helper' \in [gate : BOOLEAN, asked : SUBSET (0..MaxRequests)]
           /\ \E m \in [type : Frames, id : P!Ids, flag : BOOLEAN] :
                m.type = type /\ m.id = i /\ P!InPlace(m) /\ P!Receive(m)
<1>1. /\ P!Runs /\ stdin' = stdin
      /\ helper' = IF type \in {"started", "capture"} THEN helper ELSE [helper EXCEPT !.asked = @ \ {i}]
  BY DEF P!HelperSends
<1>2. PICK flag \in BOOLEAN : P!InPlace(P!Message(type, i, flag)) /\ P!Receive(P!Message(type, i, flag))
  BY DEF P!HelperSends
<1>3. PICK m \in [type : Frames, id : P!Ids, flag : BOOLEAN] :
        m.type = type /\ m.id = i /\ P!InPlace(m) /\ P!Receive(m)
  BY <1>2 DEF P!Message
<1>4. i \in P!Open /\ req[i].kind # "admission"
  BY <1>3 DEF P!InPlace, Frames
<1>5. started /\ ~failure /\ ~drainFailed
  BY <1>1, <1>4 DEF PoolInv, Lives, PoolTypes, P!Ids
<1>6. helper'.gate = helper.gate /\ helper' \in [gate : BOOLEAN, asked : SUBSET (0..MaxRequests)]
  BY <1>1 DEF PoolInv, PoolTypes
<1>7. QED
  BY <1>1, <1>3, <1>4, <1>5, <1>6 DEF P!Controls

\* It starts an attempt, reports a capture, or answers.
LEMMA SendsStep ==
    ASSUME PoolInv, NEW i \in P!Ids, NEW type \in Frames, P!HelperSends(i, type)
    PROVE  PoolInv' /\ Promised
<1>1. /\ P!Runs /\ i \in P!Open /\ i \notin P!Controls /\ started /\ ~failure /\ ~drainFailed
      /\ stdin' = stdin /\ helper'.gate = helper.gate
      /\ helper' \in [gate : BOOLEAN, asked : SUBSET (0..MaxRequests)]
  BY SenderIsOpen
<1>2. PICK m \in [type : Frames, id : P!Ids, flag : BOOLEAN] :
        m.type = type /\ m.id = i /\ P!InPlace(m) /\ P!Receive(m)
  BY SenderIsOpen
<1>3. req[i] \in P!Request /\ req[i].status = "open"
  BY <1>1 DEF PoolInv, PoolTypes, P!Open
<1>4. /\ UNCHANGED <<child, started, closing, failure, drainFailed, killed, sequence, admissionControls,
                     admissionTarget, admissionPaused>>
      /\ req' \in [P!Ids -> P!Request] /\ pendingStarts' = Cardinality(P!Waiting')
      /\ P!Open' \in {P!Open, P!Open \ {i}} /\ P!Waiting' \in {P!Waiting, P!Waiting \ {i}} /\ P!Controls' = P!Controls
      /\ \A j \in P!Ids : j # i => req'[j] = req[j]
      /\ i \in P!Open' => req'[i].timer \/ (req'[i].timer = req[i].timer /\ (i \in P!Waiting => i \in P!Waiting'))
      /\ Promised
      /\ i \in P!Waiting' => req'[i].timer = req[i].timer
  <2>1. CASE type = "started"
    <3>1. /\ pendingStarts' = pendingStarts - 1
          /\ req' = [req EXCEPT ![i].started = TRUE, ![i].timer = TRUE]
          /\ UNCHANGED <<child, started, closing, failure, drainFailed, killed, sequence, admissionControls,
                         admissionTarget, admissionPaused>>
      BY <1>2, <2>1 DEF P!Receive, P!flags, P!gate
    <3>2. i \in P!Waiting
      BY <1>1, <1>2, <2>1 DEF P!InPlace, P!Waiting
    <3>3. req'[i] = [req[i] EXCEPT !.started = TRUE, !.timer = TRUE] /\ req'[i] \in P!Request
      BY <1>3, <3>1 DEF PoolInv, PoolTypes, P!Request
    <3>4. /\ req' \in [P!Ids -> P!Request] /\ req'[i].started /\ req'[i].timer
          /\ req'[i].status = req[i].status /\ req'[i].kind = req[i].kind
          /\ \A j \in P!Ids : j # i => req'[j] = req[j]
      BY <1>3, <3>1, <3>3 DEF PoolInv, PoolTypes, P!Request
    <3>5. P!Open' = P!Open /\ P!Waiting' = P!Waiting \ {i} /\ P!Controls' = P!Controls
      BY <3>2, <3>4 DEF P!Open, P!Waiting, P!Controls
    <3>6. Cardinality(P!Waiting \ {i}) = Cardinality(P!Waiting) - 1
      BY <3>2, Subsets, Sizes
    <3>7. pendingStarts' = Cardinality(P!Waiting')
      BY PoolCardinality, <3>1, <3>5, <3>6 DEF PoolInv, P!CountersMatch
    <3>8. admissionTarget \/ P!Controls # {}
      <4>1. helper.gate
        BY <2>1 DEF P!HelperSends
      <4>2. Pipe /\ helper.gate \in BOOLEAN /\ admissionTarget \in BOOLEAN
        BY <1>1 DEF PoolInv, PoolTypes
      <4>3. QED
        BY <4>1, <4>2 DEF Pipe
    <3>9. Promised
      BY <1>3, <3>4, <3>8 DEF Promised, P!AnsweredInTime, P!StartsInTurn
    <3>10. QED
      BY <3>1, <3>4, <3>5, <3>7, <3>9
  <2>2. CASE type = "capture"
    <3>1. /\ req' = [req EXCEPT ![i].capture = IF m.flag THEN "yes" ELSE "no"]
          /\ UNCHANGED <<child, started, closing, failure, drainFailed, killed, sequence, pendingStarts, admissionControls,
                         admissionTarget, admissionPaused>>
      BY <1>2, <2>2 DEF P!Receive, P!flags, P!gate
    <3>2. /\ req' \in [P!Ids -> P!Request]
          /\ req'[i].status = req[i].status /\ req'[i].kind = req[i].kind /\ req'[i].started = req[i].started
          /\ req'[i].timer = req[i].timer
          /\ \A j \in P!Ids : j # i => req'[j] = req[j]
      BY <1>3, <3>1 DEF PoolInv, PoolTypes, P!Request
    <3>3. P!Open' = P!Open /\ P!Waiting' = P!Waiting /\ P!Controls' = P!Controls
      BY <3>2 DEF P!Open, P!Waiting, P!Controls
    <3>4. Promised
      BY <1>3, <3>2, Promises
    <3>5. QED
      BY PoolCardinality, <3>1, <3>2, <3>3, <3>4 DEF PoolInv, P!CountersMatch
  <2>3. CASE type \in {"resolved", "blocked", "noproof", "proof"}
    <3>1. /\ P!Finish({i}, P!Outcome(m))
          /\ UNCHANGED <<child, started, closing, failure, drainFailed, killed, sequence, admissionTarget, admissionPaused>>
      BY <1>2, <2>3 DEF P!Receive, P!flags, P!gate
    <3>2. PICK outcome \in {"done", "proof", "aborted", "failed"} :
            outcome = P!Outcome(m) /\ (req[i].aborted => outcome = "aborted")
      <4>1. CASE req[i].aborted
        <5>1. P!Outcome(m) = "aborted"
          BY <1>2, <4>1 DEF P!Outcome
        <5>2. QED
          BY <5>1
      <4>2. CASE ~req[i].aborted
        <5>1. P!Outcome(m) \in {"done", "proof"}
          BY <1>2, <4>2 DEF P!Outcome
        <5>2. QED
          BY <4>2, <5>1
      <4>3. QED
        BY <4>1, <4>2
    <3>3. /\ req' \in [P!Ids -> P!Request] /\ P!CountersMatch'
          /\ P!Open' = P!Open \ {i} /\ P!Waiting' = P!Waiting \ {i} /\ P!Controls' = P!Controls \ {i}
          /\ \A j \in P!Ids \ {i} : req'[j] = req[j]
          /\ \A j \in {i} \cap P!Open : req'[j].status = P!Settled(outcome)
          /\ \A j \in P!Ids : req'[j].started = req[j].started
      <4>1. {i} \in SUBSET P!Ids /\ P!Finish({i}, outcome) /\ PoolTypes /\ P!CountersMatch
        BY <3>1, <3>2 DEF PoolInv
      <4>2. QED
        BY <4>1, FinishTable
    <3>4. P!Controls' = P!Controls
      BY <1>1, <3>3
    <3>5. admissionControls' = admissionControls
      BY <3>3, <3>4 DEF PoolInv, P!CountersMatch
    <3>6. Promised
      <4>1. req'[i].status = P!Settled(outcome)
        BY <1>1, <3>3
      <4>2. req'[i].status \in {"done", "proof"} => ~closing /\ ~req[i].aborted
        BY <3>2, <4>1 DEF P!Settled
      <4>3. \A j \in P!Ids : j # i => req'[j].status = req[j].status
        BY <3>3
      <4>4. QED
        BY <3>3, <4>2, <4>3 DEF Promised, P!AnsweredInTime, P!StartsInTurn
    <3>7. QED
      BY PoolCardinality, <3>1, <3>3, <3>4, <3>5, <3>6 DEF P!CountersMatch
  <2>4. QED
    BY <2>1, <2>2, <2>3 DEF Frames
<1>5. PoolTypes'
  BY <1>1, <1>4 DEF PoolInv, PoolTypes
<1>6. Lives'
  BY <1>1, <1>4 DEF PoolInv, Lives
<1>7. \A c \in P!Controls : c \in P!Controls' /\ req'[c] = req[c]
  BY <1>1, <1>4, Subsets
<1>8. Pauses' /\ P!CountersMatch'
  BY PoolCardinality, <1>4, <1>7 DEF PoolInv, Pauses, P!CountersMatch
<1>9. P!Watched'
  <2>1. SUFFICES ASSUME NEW j \in P!Open', ~req'[j].timer
                 PROVE  /\ j \in P!Waiting' /\ admissionPaused'
                        /\ ~admissionTarget' \/ \E c \in P!Controls' : req'[c].allowed /\ req'[c].timer
    BY DEF P!Watched
  <2>2. j \in P!Open /\ j \in P!Ids /\ ~req[j].timer
    BY <1>3, <1>4, <2>1, Subsets
  <2>3. j \in P!Waiting /\ admissionPaused /\ (~admissionTarget \/ \E c \in P!Controls : req[c].allowed /\ req[c].timer)
    BY <2>2 DEF PoolInv, P!Watched
  <2>4. j \in P!Waiting'
    BY <1>4, <2>1, <2>3
  <2>5. QED
    BY <1>4, <1>7, <2>3, <2>4
<1>10. P!PauseIsNotTimed'
  <2>1. ASSUME NEW j \in P!Waiting' PROVE j \in P!Waiting /\ req'[j].timer = req[j].timer
    BY <1>4, Subsets
  <2>2. QED
    BY <1>4, <2>1 DEF PoolInv, P!PauseIsNotTimed
<1>11. Pipe'
  <2>1. Pipe /\ Kept
    BY <1>1, <1>7 DEF PoolInv, Kept
  <2>2. QED
    BY <1>1, <1>4, <2>1, PipeSame
<1>12. QED
  BY <1>4, <1>5, <1>6, <1>8, <1>9, <1>10, <1>11 DEF PoolInv

-----------------------------------------------------------------------------
\* Nothing has been asked.
LEMMA PoolInitInv == P!Init => PoolInv
<1> SUFFICES ASSUME P!Init PROVE PoolInv
  OBVIOUS
<1>1. \A i \in P!Ids : req[i] = P!Unused /\ P!Unused \in P!Request /\ P!Unused.status = "unused"
  BY DEF P!Init, P!Unused, P!Request, P!Kinds
<1>2. P!Open = {} /\ P!Waiting = {} /\ P!Controls = {}
  BY <1>1, Subsets DEF P!Open
<1>3. PoolTypes
  <2>1. req \in [P!Ids -> P!Request]
    BY <1>1 DEF P!Init
  <2>2. stdin \in Seq(Input) /\ helper \in [gate : BOOLEAN, asked : SUBSET (0..MaxRequests)] /\ sequence \in 0..MaxRequests
    BY PoolConstants DEF P!Init, P!Idle
  <2>3. QED
    BY <1>2, <2>1, <2>2 DEF P!Init, PoolTypes
<1>4. Lives /\ Pauses /\ P!CountersMatch /\ P!Watched /\ P!PauseIsNotTimed /\ ~P!Runs
  BY PoolCardinality, <1>2, Sizes DEF P!Init, Lives, Pauses, P!CountersMatch, P!Watched,
                                      P!PauseIsNotTimed, P!Runs, P!Idle
<1>5. QED
  BY <1>3, <1>4 DEF PoolInv

\* Every step keeps the invariant and what it promises.
LEMMA PoolNextInv == PoolInv /\ [P!Next]_(P!vars) => PoolInv' /\ [Promised]_(P!vars)
<1> SUFFICES ASSUME PoolInv, [P!Next]_(P!vars) PROVE PoolInv' /\ [Promised]_(P!vars)
  OBVIOUS
<1>1. CASE P!Next
  <2>1. ASSUME P!HelperReads PROVE PoolInv' /\ Promised
    BY <2>1, ReadsStep, AcknowledgesStep
  <2>2. ASSUME NEW i \in P!Ids, NEW type \in Frames, P!HelperSends(i, type) PROVE PoolInv' /\ Promised
    BY <2>2, SendsStep
  <2>3. ASSUME NEW i \in P!Ids, P!Abort(i) PROVE PoolInv' /\ Promised
    BY <2>3, AbortStep
  <2>4. ASSUME NEW kind \in {"attempt", "resolve"}, P!Ask(kind) PROVE PoolInv' /\ Promised
    BY <2>4, AskStep
  <2>5. ASSUME NEW allowed \in BOOLEAN, P!SetAdmissionAllowed(allowed) PROVE PoolInv' /\ Promised
    BY <2>5, SetAdmissionStep
  <2>6. ASSUME Breaks PROVE PoolInv' /\ Promised
    BY <2>6, FailuresStep
  <2>7. ASSUME P!Start \/ P!SpawnFails \/ P!Close \/ P!KillTimesOut \/ P!ProcessClosed \/ P!HelperExits PROVE PoolInv' /\ Promised
    BY <2>7, PoolStartStep, SpawnFailsStep, CloseStep, EndsStep, ProcessClosedStep
  <2>8. QED
    BY <1>1, <2>1, <2>2, <2>3, <2>4, <2>5, <2>6, <2>7 DEF P!Next, Frames, Breaks
<1>2. CASE UNCHANGED P!vars
  <2>1. UNCHANGED <<child, started, closing, failure, drainFailed, killed, req, sequence, pendingStarts, admissionControls,
                    admissionTarget, admissionPaused, stdin, helper>>
    BY <1>2 DEF P!vars, P!flags, P!table, P!gate
  <2>2. P!Open' = P!Open /\ P!Waiting' = P!Waiting /\ P!Controls' = P!Controls /\ Kept
    BY <2>1, TableSame
  <2>3. P!Runs' => Pipe'
    BY <2>1, <2>2, PipeSame DEF PoolInv, P!Runs
  <2>4. QED
    BY <1>2, <2>1, <2>2, <2>3
      DEF PoolInv, PoolTypes, Lives, Pauses, P!CountersMatch, P!Watched, P!PauseIsNotTimed, P!Runs
<1>3. QED
  BY <1>1, <1>2

\* For any number of requests and faults, and any capacity, and however requests, pauses, answers,
\* failures and shutdown interleave: the counters match the table, nothing waits unwatched, a pause is
\* not timed, a late answer delivers nothing, and nothing starts while admission is paused.
THEOREM PoolWatched == P!Spec => PoolIsWatched
<1>1. PoolInv => P!CountersMatch /\ P!Watched /\ P!PauseIsNotTimed
  BY DEF PoolInv
<1>2. [Promised]_(P!vars) => [P!AnsweredInTime /\ P!StartsInTurn]_(P!vars)
  BY DEF Promised
<1>3. QED
  BY <1>1, <1>2, PoolInitInv, PoolNextInv, PTL DEF P!Spec, PoolIsWatched

-----------------------------------------------------------------------------
(***************************************************************************)
(* The proofs the engine finds, in a part of their own: F!Spec.            *)
(***************************************************************************)

\* The network has the claim, and its server has told so, or nobody knows.
Sent(c)     == c \in {"mempool", "mined"}
Answered(s) == s.sub.phase = "written" /\ s.sub.reply \in {"ack", "unknown"}

\* A confirmation that no reorganization has reopened.
Standing(s) == s.confirmation # Nothing /\ ~s.confirmation.reopened

\* What a key does, and whose it is: the winner is the job that waits to be sent; a capture has no
\* winner, no acceptance and no submission beside it; only a submission that the catalog has taken
\* the bounty from is no winner any more; a key at work has a prepared claim.
Acts(s) ==
  /\ s.pending <=> s.job = "won"
  /\ s.capturing => s.job # "won" /\ s.accepted = Nothing /\ s.sub = Nothing /\ s.prepared # Nothing
  /\ s.sub # Nothing => (s.pending <=> ~s.sub.unavailable) /\ s.job # "queued"
       /\ (s.sub.reply # "none" => s.sub.phase = "written")
  /\ s.job = "queued" => s.accepted = Nothing /\ ~s.completed /\ ~s.reserved
  /\ s.accepted # Nothing \/ s.pending \/ s.sub # Nothing => s.prepared # Nothing
  /\ s.row \notin {"available", "retired"} => s.job = "none"

\* Why a key is reserved: its claim is on its way, its outcome is unknown, or it is accepted or
\* confirmed.
Reserves(s) ==
  /\ s.sub # Nothing /\ s.sub.phase \in {"queued", "written"} => s.reserved
  /\ s.reserved => \/ s.sub # Nothing /\ s.sub.phase \in {"queued", "written"}
                   \/ s.unknown \/ Standing(s) \/ s.accepted # Nothing
  /\ s.unknown => s.reserved /\ (s.sub # Nothing => s.sub.phase \in {"check", "gate"})

\* A confirmed claim is over: nothing is done for its key but to let the submission return that
\* the receipt has overtaken.
Confirms(s) ==
  /\ Standing(s) => /\ s.reserved /\ s.completed /\ s.accepted = Nothing /\ s.job = "none"
                    /\ ~s.capturing /\ ~s.unknown
                    /\ s.sub # Nothing => Answered(s) /\ s.prepared.confirmed
                    /\ s.proposed => s.sub # Nothing
  /\ s.prepared # Nothing /\ s.prepared.confirmed => Standing(s)
  /\ s.confirmation # Nothing => s.everCounted

\* Who remembers that the claim was counted: the acceptance, the running submission, or
\* #countedClaimConfirmations with the prepared claim.
Counts(s) ==
  s.tally > 0 =>
    /\ s.tally = 1
    /\ s.accepted # Nothing => s.accepted.counted
    /\ s.pending \/ s.sub # Nothing => s.counted
    /\ ~s.completed => s.everCounted /\ (s.prepared # Nothing => s.prepared.counted)

\* Where a proof is that was never reported lost.
Keeps(s) == s.verified => s.pending \/ s.accepted # Nothing \/ s.unknown \/ s.confirmation # Nothing

\* A key in order.
KeyGood(s) == s \in F!KeyType /\ Acts(s) /\ Reserves(s) /\ Confirms(s) /\ Counts(s) /\ Keeps(s)

USE NothingIsNone DEF F!KeyType

\* tidy() after a capture or a submission.
LEMMA TidiedGood ==
  ASSUME NEW s, KeyGood(s) PROVE KeyGood(F!Tidied(s))
<1> DEFINE t == F!Tidied(s)
<1>0. t = s \/ (t = [s EXCEPT !.row = "aged", !.job = "none"] /\ s.row = "retired" /\ ~F!HasActive(s) /\ ~s.pending)
  BY DEF F!Tidied
<1>1. CASE t = s
  BY <1>1
<1>2. CASE t = [s EXCEPT !.row = "aged", !.job = "none"] /\ s.row = "retired" /\ ~F!HasActive(s) /\ ~s.pending
  <2> HIDE DEF t
  <2>1. t \in F!KeyType BY <1>2 DEF KeyGood, F!Rows
  <2>2. Acts(t)  BY <1>2 DEF KeyGood, Acts, F!HasActive
  <2>3. Reserves(t)  BY <1>2 DEF KeyGood, Reserves, Standing
  <2>4. Confirms(t)  BY <1>2 DEF KeyGood, Confirms, Standing, Answered
  <2>5. Counts(t)  BY <1>2 DEF KeyGood, Counts
  <2>6. Keeps(t)  BY <1>2 DEF KeyGood, Keeps
  <2>7. QED BY <2>1, <2>2, <2>3, <2>4, <2>5, <2>6 DEF KeyGood, t
<1>3. QED
  BY <1>0, <1>1, <1>2

\* What tidy() leaves alone.
LEMMA TidiedFrame ==
  ASSUME NEW s, KeyGood(s)
  PROVE  LET t == F!Tidied(s)
         IN  /\ t.inWindow = s.inWindow /\ (t.row = s.row \/ s.row = "retired")
             /\ t.sub = s.sub /\ t.capturing = s.capturing /\ t.pending = s.pending /\ t.accepted = s.accepted
             /\ t.reserved = s.reserved /\ t.proposed = s.proposed /\ t.unknown = s.unknown
             /\ t.job \in {s.job, "none"} /\ t.prepared = s.prepared
BY DEF F!Tidied, KeyGood

\* The acceptance a submission keeps.
LEMMA KeptIs ==
  ASSUME NEW s \in F!KeyType, s.sub # Nothing, NEW counted \in BOOLEAN
 
  PROVE  \E x \in F!Acceptance : F!Kept(s, counted) = [s EXCEPT !.accepted = x] /\ x # Nothing /\ x.counted = counted
<1>1. s.sub \in F!SubType /\ (s.accepted # Nothing => s.accepted \in F!Acceptance)
  OBVIOUS
<1>2. F!OldEvidence(s) \in BOOLEAN
  BY <1>1 DEF F!OldEvidence, F!SubType, F!Acceptance
<1> DEFINE x == [counted |-> counted, invalidated |-> F!OldEvidence(s)]
<1>3. x \in F!Acceptance /\ x # Nothing /\ x.counted = counted /\ F!Kept(s, counted) = [s EXCEPT !.accepted = x]
  BY <1>2 DEF F!Kept, F!Acceptance
<1>4. QED
  BY <1>3

\* A submission that the server accepted leaves an acceptance, unless a receipt was faster.
LEMMA SubmitAcceptedGood ==
  ASSUME NEW s, KeyGood(s), s.sub # Nothing, s.sub.phase = "written", NEW retain \in BOOLEAN,
         retain = ~s.prepared.confirmed
  PROVE  LET t == F!SubmitAccepted(s, retain)
         IN  /\ KeyGood(t) /\ t.sub = Nothing /\ ~t.pending /\ t.job = "none" /\ ~t.proposed
                  /\ (retain => t.accepted # Nothing)
             /\ t.reserved = s.reserved /\ t.capturing = s.capturing
             /\ t.inWindow = s.inWindow /\ (t.row = s.row \/ s.row = "retired")
<1> DEFINE c == F!CountedNow(s, ~s.counted)
           r == IF retain THEN F!Kept(c, TRUE) ELSE [c EXCEPT !.accepted = Nothing]
           t == [r EXCEPT !.completed = TRUE, !.job = "none", !.pending = FALSE,
                          !.sub = Nothing, !.proposed = FALSE]
<1>1. c \in F!KeyType /\ c = [s EXCEPT !.tally = c.tally] /\ c.tally \in {0, 1}
  BY DEF F!CountedNow, KeyGood, Counts
<1>2. c.sub # Nothing
  BY <1>1 DEF KeyGood
<1>3. PICK x \in F!Acceptance \cup {Nothing} : r = [c EXCEPT !.accepted = x]
             /\ (retain => x # Nothing /\ x.counted) /\ (~retain => x = Nothing)
  <2> HIDE DEF c
  <2>1. CASE retain
    BY <1>1, <1>2, <2>1, KeptIs
  <2>2. CASE ~retain
    BY <2>2
  <2>3. QED
    BY <2>1, <2>2
<1>4. t = [s EXCEPT !.tally = c.tally, !.accepted = x, !.completed = TRUE, !.job = "none", !.pending = FALSE,
                          !.sub = Nothing, !.proposed = FALSE]
  <2> HIDE DEF c, r
  <2>1. QED
    BY <1>1, <1>3 DEF KeyGood, t, F!SubType
<1>5. c.tally \in {0, 1} /\ x \in F!Acceptance \cup {Nothing} /\ (retain => x # Nothing /\ x.counted)
        /\ (~retain => x = Nothing)
  BY <1>1, <1>3
<1>6. F!SubmitAccepted(s, retain) = F!Tidied(t)
  BY DEF F!SubmitAccepted
<1>7. KeyGood(t)
  <2> HIDE DEF t, c, r
  <2>1. t \in F!KeyType
    <3>1. s \in F!KeyType /\ c.tally \in Nat /\ x \in F!Acceptance \cup {Nothing}
      BY <1>5 DEF KeyGood
    <3>2. QED
      BY <1>4, <3>1 DEF F!Rows, F!SubType
  <2>2. Acts(t)  BY <1>4, <1>5 DEF KeyGood, Acts, Confirms
  <2>3. Reserves(t)  BY <1>4, <1>5 DEF KeyGood, Acts, Reserves, Confirms, Standing
  <2>4. Confirms(t)  BY <1>4, <1>5 DEF KeyGood, Acts, Reserves, Confirms, Standing, Answered
  <2>5. Counts(t)  BY <1>4, <1>5 DEF KeyGood, Counts
  <2>6. Keeps(t)  BY <1>4, <1>5 DEF KeyGood, Acts, Keeps, Confirms, Standing
  <2>7. QED BY <2>1, <2>2, <2>3, <2>4, <2>5, <2>6 DEF KeyGood
<1>8. /\ t.sub = Nothing /\ ~t.pending /\ t.job = "none" /\ ~t.proposed /\ (retain => t.accepted # Nothing)
      /\ t.reserved = s.reserved /\ t.capturing = s.capturing /\ t.inWindow = s.inWindow /\ t.row = s.row
  <2>1. s \in F!KeyType
    BY DEF KeyGood
  <2> HIDE DEF t, c, r
  <2>2. QED
    BY <1>4, <1>5, <2>1
<1> HIDE DEF t
<1>9. QED
  BY <1>6, <1>7, <1>8, TidiedGood, TidiedFrame

\* A submission that failed gives its reservation back, if it had one, and keeps its proof.
LEMMA SubmitFailedGood ==
  ASSUME NEW s, KeyGood(s), s.sub # Nothing, ~s.prepared.confirmed, NEW rejected \in BOOLEAN,
         NEW free \in BOOLEAN,
         free = (s.sub.phase \in {"queued", "written"})
  PROVE  LET t == F!SubmitFailed(IF free THEN [s EXCEPT !.reserved = FALSE] ELSE s, rejected)
         IN  /\ KeyGood(t) /\ t.inWindow = s.inWindow /\ (t.row = s.row \/ s.row = "retired")
             /\ s.accepted # Nothing => t.accepted # Nothing
<1> DEFINE f == IF free THEN [s EXCEPT !.reserved = FALSE] ELSE s
           r == IF rejected THEN F!Kept(f, f.counted) ELSE f
           t == [r EXCEPT !.sub = Nothing, !.pending = @ /\ ~f.sub.unavailable]
<1>0. PICK b \in BOOLEAN : b = (s.reserved /\ ~free)
  BY DEF KeyGood
<1>1. f \in F!KeyType /\ f = [s EXCEPT !.reserved = b]
  <2>1. s \in F!KeyType
    BY DEF KeyGood
  <2>2. CASE free
    BY <1>0, <2>1, <2>2 DEF F!SubType, F!Rows
  <2>3. CASE ~free
    BY <1>0, <2>1, <2>3 DEF F!SubType, F!Rows
  <2>4. QED
    BY <2>2, <2>3
<1>2. f.sub # Nothing /\ f.counted = s.counted /\ f.accepted = s.accepted /\ s.counted \in BOOLEAN
  BY <1>1 DEF KeyGood
<1>3. PICK x \in F!Acceptance \cup {Nothing} : r = [f EXCEPT !.accepted = x]
             /\ (x = s.accepted \/ (x # Nothing /\ x.counted = s.counted))
  <2> HIDE DEF f
  <2>1. CASE rejected
    <3>1. \E x \in F!Acceptance : F!Kept(f, f.counted) = [f EXCEPT !.accepted = x] /\ x # Nothing
            /\ x.counted = f.counted
      BY <1>1, <1>2, KeptIs
    <3>2. QED
      BY <1>2, <2>1, <3>1
  <2>2. CASE ~rejected
    BY <1>1, <1>2, <2>2
  <2>3. QED
    BY <2>1, <2>2
<1>4. t = [s EXCEPT !.reserved = b, !.accepted = x, !.sub = Nothing, !.pending = s.pending]
  BY <1>1, <1>3 DEF KeyGood, Acts
<1>6. F!SubmitFailed(f, rejected) = F!Tidied(t)
  BY DEF F!SubmitFailed
<1>7. KeyGood(t)
  <2>0. b = (s.reserved /\ ~free) /\ b \in BOOLEAN /\ x \in F!Acceptance \cup {Nothing}
          /\ (x = s.accepted \/ (x # Nothing /\ x.counted = s.counted))
    BY <1>0, <1>3
  <2> HIDE DEF t, f, r
  <2>1. t \in F!KeyType
    <3>1. s \in F!KeyType /\ x \in F!Acceptance \cup {Nothing} /\ b \in BOOLEAN
      BY <2>0 DEF KeyGood
    <3>2. QED
      BY <1>4, <3>1 DEF F!Rows, F!SubType
  <2>2. Acts(t)  BY <1>4, <2>0 DEF KeyGood, Acts, Confirms
  <2>3. Reserves(t)  BY <1>4, <2>0 DEF KeyGood, Acts, Reserves, Confirms, Standing
  <2>4. Confirms(t)  BY <1>4, <2>0 DEF KeyGood, Acts, Reserves, Confirms, Standing, Answered
  <2>5. Counts(t)  BY <1>4, <2>0 DEF KeyGood, Counts
  <2>6. Keeps(t)  BY <1>4, <2>0 DEF KeyGood, Acts, Keeps, Confirms, Standing
  <2>7. QED BY <2>1, <2>2, <2>3, <2>4, <2>5, <2>6 DEF KeyGood
<1>8. t.inWindow = s.inWindow /\ t.row = s.row /\ (s.accepted # Nothing => t.accepted # Nothing)
  <2>1. s \in F!KeyType
    BY DEF KeyGood
  <2>2. x = s.accepted \/ x # Nothing
    BY <1>3
  <2> HIDE DEF t, f, r
  <2>3. QED
    BY <1>4, <2>1, <2>2
<1> HIDE DEF t
<1>9. QED
  BY <1>6, <1>7, <1>8, TidiedGood, TidiedFrame DEF f

-----------------------------------------------------------------------------
\* What the discovery does to a key: the submission goes on, and nothing is taken up.
Marks(x, y) ==
  /\ y \in F!SubType \cup {Nothing} /\ (y = Nothing <=> x = Nothing)
  /\ x # Nothing => y.phase = x.phase /\ y.reply = x.reply /\ (x.unavailable => y.unavailable)

Follows(s, t) ==
  /\ t.reserved = s.reserved /\ t.capturing = s.capturing /\ t.unknown = s.unknown
  /\ t.prepared = s.prepared /\ t.counted = s.counted /\ t.inWindow = s.inWindow
  /\ Marks(s.sub, t.sub)
  /\ t.pending => s.pending
  /\ s.accepted # Nothing => t.accepted # Nothing
  /\ t.proposed => s.proposed
  /\ t.job \in {s.job, "none"}

\* What the discovery may write on a running submission.
LEMMA MarksSub ==
  ASSUME NEW x \in F!SubType \cup {Nothing}
  PROVE  /\ Marks(x, x)
         /\ Marks(x, F!Aborted(x))
         /\ x # Nothing => F!Aborted(x).unavailable = x.unavailable
         /\ \A i \in {"unset", "yes", "no"} :
              LET y == IF x = Nothing THEN Nothing ELSE [x EXCEPT !.invalid = i] IN
              Marks(x, y) /\ (x # Nothing => y.unavailable = x.unavailable)
         /\ LET y == IF x = Nothing THEN Nothing ELSE [x EXCEPT !.aborted = TRUE, !.unavailable = TRUE] IN
            Marks(x, y) /\ (x # Nothing => y.unavailable)
<1>1. CASE x = Nothing
  BY <1>1 DEF Marks, F!Aborted
<1>2. CASE x # Nothing
  <2>1. x \in F!SubType
    BY <1>2
  <2>2. [x EXCEPT !.aborted = TRUE] \in F!SubType
          /\ [x EXCEPT !.aborted = TRUE, !.unavailable = TRUE] \in F!SubType
    BY <2>1 DEF F!SubType
  <2>3. \A i \in {"unset", "yes", "no"} : [x EXCEPT !.invalid = i] \in F!SubType
    BY <2>1 DEF F!SubType
  <2>4. /\ Marks(x, [x EXCEPT !.aborted = TRUE])
        /\ [x EXCEPT !.aborted = TRUE].unavailable = x.unavailable
    BY <1>2, <2>1, <2>2 DEF Marks, F!SubType
  <2>5. \A i \in {"unset", "yes", "no"} :
          Marks(x, [x EXCEPT !.invalid = i]) /\ [x EXCEPT !.invalid = i].unavailable = x.unavailable
    BY <1>2, <2>1, <2>3 DEF Marks, F!SubType
  <2>6. Marks(x, [x EXCEPT !.aborted = TRUE, !.unavailable = TRUE])
          /\ [x EXCEPT !.aborted = TRUE, !.unavailable = TRUE].unavailable
    BY <1>2, <2>1, <2>2 DEF Marks, F!SubType
  <2>7. QED
    BY <1>2, <2>1, <2>4, <2>5, <2>6 DEF Marks, F!Aborted
<1>3. QED
  BY <1>1, <1>2

\* Two things the discovery does to a key.
LEMMA FollowsOn ==
  ASSUME NEW s, NEW t, NEW u, Follows(s, t), Follows(t, u)
  PROVE  Follows(s, u)
BY DEF Follows, Marks

\* The engine keeps a waiting proof before its job goes.
LEMMA PreservedGood ==
  ASSUME NEW s, KeyGood(s)
  PROVE  /\ KeyGood(F!Preserved(s)) /\ Follows(s, F!Preserved(s))
         /\ F!Preserved(s).pending => F!Preserved(s).accepted # Nothing
         /\ F!Preserved(s).pending = s.pending /\ F!Preserved(s).row = s.row /\ F!Preserved(s).job = s.job
<1>1. CASE ~s.pending \/ s.accepted # Nothing
  <2>1. F!Preserved(s) = s
    BY <1>1 DEF F!Preserved
  <2>2. Marks(s.sub, s.sub)
    BY MarksSub DEF KeyGood
  <2>3. Follows(s, s)
    BY <2>2 DEF Follows
  <2>4. QED
    BY <1>1, <2>1, <2>3
<1>2. CASE s.pending /\ s.accepted = Nothing
  <2> DEFINE x == [counted |-> s.counted, invalidated |-> FALSE]
             t == [s EXCEPT !.accepted = x]
  <2>0. x \in F!Acceptance /\ x.counted = s.counted
    BY DEF KeyGood, F!Acceptance
  <2>1. x \in F!Acceptance /\ x # Nothing /\ x.counted = s.counted
    BY <2>0
  <2>2. F!Preserved(s) = t
    BY <1>2 DEF F!Preserved, KeyGood, Acts
  <2> HIDE DEF x
  <2>3. s \in F!KeyType
    BY DEF KeyGood
  <2>4. t \in F!KeyType
    BY <2>1, <2>3 DEF F!Rows, F!SubType
  <2>5. Acts(t)  BY <1>2, <2>1 DEF KeyGood, Acts
  <2>6. Reserves(t)  BY <1>2, <2>1 DEF KeyGood, Reserves, Standing
  <2>7. Confirms(t)  BY <1>2, <2>1 DEF KeyGood, Acts, Confirms, Standing, Answered
  <2>8. Counts(t)  BY <1>2, <2>1 DEF KeyGood, Counts
  <2>9. Keeps(t)  BY <1>2, <2>1 DEF KeyGood, Keeps
  <2>10. KeyGood(t)
    BY <2>4, <2>5, <2>6, <2>7, <2>8, <2>9 DEF KeyGood
  <2>11. Follows(s, t)
    BY <1>2, <2>1, <2>3, MarksSub DEF Follows
  <2>12. QED
    BY <2>1, <2>2, <2>3, <2>10, <2>11
<1>3. QED
  BY <1>1, <1>2

\* The catalog's evidence on an acceptance.
Judged(s, bad, i, v) ==
  [s EXCEPT !.accepted = IF @ = Nothing THEN Nothing ELSE [@ EXCEPT !.invalidated = bad],
            !.sub = IF @ = Nothing THEN Nothing ELSE [@ EXCEPT !.invalid = i],
            !.verified = v]

\* Such evidence leaves a key in order.
LEMMA JudgedGood ==
  ASSUME NEW s, KeyGood(s), NEW bad \in BOOLEAN, NEW i \in {"unset", "yes", "no"}, NEW v \in BOOLEAN,
         v => s.verified
  PROVE  LET t == Judged(s, bad, i, v)
         IN  /\ KeyGood(t) /\ Follows(s, t) /\ t.pending = s.pending /\ t.row = s.row /\ t.job = s.job
             /\ t.verified = v /\ (t.accepted = Nothing <=> s.accepted = Nothing)
<1> DEFINE a == IF s.accepted = Nothing THEN Nothing ELSE [s.accepted EXCEPT !.invalidated = bad]
           y == IF s.sub = Nothing THEN Nothing ELSE [s.sub EXCEPT !.invalid = i]
<1>1. s \in F!KeyType
  BY DEF KeyGood
<1>2. a \in F!Acceptance \cup {Nothing} /\ (a = Nothing <=> s.accepted = Nothing)
        /\ (a # Nothing => a.counted = s.accepted.counted)
  <2>1. CASE s.accepted = Nothing
    BY <2>1
  <2>2. CASE s.accepted # Nothing
    <3>1. s.accepted \in F!Acceptance
      BY <1>1, <2>2
    <3>2. [s.accepted EXCEPT !.invalidated = bad] \in F!Acceptance
      BY <3>1 DEF F!Acceptance
    <3>3. QED
      BY <2>2, <3>1, <3>2 DEF F!Acceptance
  <2>3. QED
    BY <2>1, <2>2
<1>3. Marks(s.sub, y) /\ (s.sub # Nothing => y.unavailable = s.sub.unavailable)
  <2>1. s.sub \in F!SubType \cup {Nothing}
    BY <1>1
  <2>2. QED
    BY <2>1, MarksSub, Zenon
<1> DEFINE u == [s EXCEPT !.accepted = a, !.sub = y, !.verified = v]
<1>4. Judged(s, bad, i, v) = u
  BY <1>1 DEF Judged
<1> HIDE DEF a, y
<1>5. u \in F!KeyType
  BY <1>1, <1>2, <1>3 DEF Marks, F!Rows
<1>6. Acts(u)  BY <1>1, <1>2, <1>3 DEF KeyGood, Acts, Marks
<1>7. Reserves(u)  BY <1>1, <1>2, <1>3 DEF KeyGood, Reserves, Standing, Marks
<1>8. Confirms(u)  BY <1>1, <1>2, <1>3 DEF KeyGood, Confirms, Standing, Answered, Marks
<1>9. Counts(u)  BY <1>1, <1>2, <1>3 DEF KeyGood, Counts, Marks
<1>10. Keeps(u)  BY <1>1, <1>2, <1>3 DEF KeyGood, Keeps
<1>11. Follows(s, u)
  BY <1>1, <1>2, <1>3 DEF Follows
<1>12. u.pending = s.pending /\ u.row = s.row /\ u.job = s.job /\ u.verified = v
         /\ (u.accepted = Nothing <=> s.accepted = Nothing)
  BY <1>1, <1>2
<1> HIDE DEF u
<1>13. QED
  BY <1>4, <1>5, <1>6, <1>7, <1>8, <1>9, <1>10, <1>11, <1>12 DEF KeyGood

\* A job that is removed.
LEMMA RemovedGood ==
  ASSUME NEW s, KeyGood(s), NEW row \in F!Rows,
         s.verified /\ s.pending => s.accepted # Nothing \/ s.unknown \/ s.confirmation # Nothing
  PROVE  LET t == [F!Removed(s) EXCEPT !.row = row]
         IN  KeyGood(t) /\ Follows(s, t) /\ ~t.pending /\ t.job = "none" /\ t.row = row
               /\ (row = s.row => t = F!Removed(s))
<1> DEFINE y == IF s.sub = Nothing THEN Nothing ELSE [s.sub EXCEPT !.aborted = TRUE, !.unavailable = TRUE]
           t == [s EXCEPT !.job = "none", !.pending = FALSE, !.sub = y, !.row = row]
<1>1. s \in F!KeyType
  BY DEF KeyGood
<1>2. Marks(s.sub, y) /\ (s.sub # Nothing => y.unavailable)
  BY <1>1, MarksSub
<1>3. F!Removed(s) = [s EXCEPT !.job = "none", !.pending = FALSE, !.sub = y]
  BY <1>1 DEF F!Removed
<1> HIDE DEF y
<1>4. t \in F!KeyType
  BY <1>1, <1>2 DEF Marks
<1>5. Acts(t)  BY <1>1, <1>2 DEF KeyGood, Acts, Marks
<1>6. Reserves(t)  BY <1>1, <1>2 DEF KeyGood, Reserves, Standing, Marks
<1>7. Confirms(t)  BY <1>1, <1>2 DEF KeyGood, Confirms, Standing, Answered, Marks
<1>8. Counts(t)  BY <1>1, <1>2 DEF KeyGood, Counts, Marks
<1>9. Keeps(t)  BY <1>1, <1>2 DEF KeyGood, Keeps
<1>10. KeyGood(t)
  BY <1>4, <1>5, <1>6, <1>7, <1>8, <1>9 DEF KeyGood
<1>11. Follows(s, t) /\ ~t.pending /\ t.job = "none" /\ t.row = row
  BY <1>1, <1>2 DEF Follows
<1>12. [F!Removed(s) EXCEPT !.row = row] = t
  BY <1>1, <1>3
<1>13. row = s.row => t = F!Removed(s)
  <2> DEFINE r == [s EXCEPT !.job = "none", !.pending = FALSE, !.sub = y]
  <2>1. r \in F!KeyType /\ r.row = s.row
    BY <1>1, <1>2 DEF Marks
  <2>2. [r EXCEPT !.row = r.row] = r
    <3> HIDE DEF r
    <3>1. QED
      BY <2>1
  <2> HIDE DEF r, t
  <2>3. QED
    BY <1>3, <1>12, <2>1, <2>2 DEF r
<1> HIDE DEF t
<1>14. QED
  BY <1>10, <1>11, <1>12, <1>13

\* A bounty that leaves the window.
LEMMA RetiredGood ==
  ASSUME NEW s, KeyGood(s)
  PROVE  /\ KeyGood(F!Retired(s)) /\ Follows(s, F!Retired(s)) /\ F!Retired(s).row \in {"retired", "aged"}
         /\ F!Retired(s).pending = s.pending
         /\ F!Retired(s).row = "aged" => ~s.pending
<1>1. s \in F!KeyType
  BY DEF KeyGood
<1>2. CASE s.job # "none" /\ (F!HasActive(s) \/ s.pending)
  <2> DEFINE t == [s EXCEPT !.row = "retired"]
  <2>1. t \in F!KeyType  BY <1>1 DEF F!Rows
  <2>2. Acts(t)  BY <1>1 DEF KeyGood, Acts
  <2>3. Reserves(t)  BY <1>1 DEF KeyGood, Reserves, Standing
  <2>4. Confirms(t)  BY <1>1 DEF KeyGood, Confirms, Standing, Answered
  <2>5. Counts(t)  BY <1>1 DEF KeyGood, Counts
  <2>6. Keeps(t)  BY <1>1 DEF KeyGood, Keeps
  <2>7. KeyGood(t)  BY <2>1, <2>2, <2>3, <2>4, <2>5, <2>6 DEF KeyGood
  <2>8. Follows(s, t)  BY <1>1, MarksSub DEF Follows
  <2>9. QED
    BY <1>1, <1>2, <2>7, <2>8 DEF F!Retired
<1>3. CASE ~(s.job # "none" /\ (F!HasActive(s) \/ s.pending))
  <2> DEFINE t == [s EXCEPT !.row = "aged", !.job = "none"]
  <2>0. ~s.pending
    BY <1>1, <1>3 DEF KeyGood, Acts
  <2>1. t \in F!KeyType  BY <1>1 DEF F!Rows
  <2>2. Acts(t)  BY <1>1, <2>0 DEF KeyGood, Acts
  <2>3. Reserves(t)  BY <1>1 DEF KeyGood, Reserves, Standing
  <2>4. Confirms(t)  BY <1>1 DEF KeyGood, Confirms, Standing, Answered
  <2>5. Counts(t)  BY <1>1 DEF KeyGood, Counts
  <2>6. Keeps(t)  BY <1>1 DEF KeyGood, Keeps
  <2>7. KeyGood(t)  BY <2>1, <2>2, <2>3, <2>4, <2>5, <2>6 DEF KeyGood
  <2>8. Follows(s, t)  BY <1>1, MarksSub DEF Follows
  <2>9. QED
    BY <1>1, <1>3, <2>0, <2>7, <2>8 DEF F!Retired
<1>4. QED
  BY <1>2, <1>3

\* Fields that nothing else depends on.
LEMMA RowGood ==
  ASSUME NEW s, KeyGood(s), NEW row \in {"available", "retired"}
  PROVE  KeyGood([s EXCEPT !.row = row]) /\ Follows(s, [s EXCEPT !.row = row])
<1> DEFINE t == [s EXCEPT !.row = row]
<1>0. s \in F!KeyType  BY DEF KeyGood
<1>1. t \in F!KeyType  BY <1>0 DEF F!Rows
<1>2. Acts(t)  BY <1>0 DEF KeyGood, Acts
<1>3. Reserves(t)  BY <1>0 DEF KeyGood, Reserves, Standing
<1>4. Confirms(t)  BY <1>0 DEF KeyGood, Confirms, Standing, Answered
<1>5. Counts(t)  BY <1>0 DEF KeyGood, Counts
<1>6. Keeps(t)  BY <1>0 DEF KeyGood, Keeps
<1>7. Follows(s, t)  BY <1>0, MarksSub DEF Follows
<1>8. QED
  BY <1>1, <1>2, <1>3, <1>4, <1>5, <1>6, <1>7 DEF KeyGood

\* A proof that is reported lost.
LEMMA UnverifiedGood ==
  ASSUME NEW s, KeyGood(s)
  PROVE  LET n == [s EXCEPT !.verified = FALSE] IN KeyGood(n) /\ Follows(s, n) /\ ~n.verified
<1> DEFINE t == [s EXCEPT !.verified = FALSE]
<1>0. s \in F!KeyType  BY DEF KeyGood
<1>1. t \in F!KeyType  BY <1>0 DEF F!Rows
<1>2. Acts(t)  BY <1>0 DEF KeyGood, Acts
<1>3. Reserves(t)  BY <1>0 DEF KeyGood, Reserves, Standing
<1>4. Confirms(t)  BY <1>0 DEF KeyGood, Confirms, Standing, Answered
<1>5. Counts(t)  BY <1>0 DEF KeyGood, Counts
<1>6. Keeps(t)  BY <1>0 DEF KeyGood, Keeps
<1>7. Follows(s, t)  BY <1>0, MarksSub DEF Follows
<1>8. ~t.verified  BY <1>0
<1>9. QED
  BY <1>1, <1>2, <1>3, <1>4, <1>5, <1>6, <1>7, <1>8 DEF KeyGood

\* What the published window says of a key.
LEMMA ShownGood ==
  ASSUME NEW s, KeyGood(s), NEW w \in BOOLEAN, NEW p \in BOOLEAN, p => s.proposed
  PROVE  KeyGood([s EXCEPT !.inWindow = w, !.proposed = p])
<1> DEFINE t == [s EXCEPT !.inWindow = w, !.proposed = p]
<1>0. s \in F!KeyType  BY DEF KeyGood
<1>1. t \in F!KeyType  BY <1>0 DEF F!Rows
<1>2. Acts(t)  BY <1>0 DEF KeyGood, Acts
<1>3. Reserves(t)  BY <1>0 DEF KeyGood, Reserves, Standing
<1>4. Confirms(t)  BY <1>0 DEF KeyGood, Confirms, Standing, Answered
<1>5. Counts(t)  BY <1>0 DEF KeyGood, Counts
<1>6. Keeps(t)  BY <1>0 DEF KeyGood, Keeps
<1>7. QED
  BY <1>1, <1>2, <1>3, <1>4, <1>5, <1>6 DEF KeyGood

\* The catalog says whether the confirming block is on the chain.
LEMMA OrphanMarkGood ==
  ASSUME NEW s, KeyGood(s), s.confirmation # Nothing, NEW o \in BOOLEAN
  PROVE  KeyGood([s EXCEPT !.confirmation.orphaned = o]) /\ Follows(s, [s EXCEPT !.confirmation.orphaned = o])
<1> DEFINE x == [s.confirmation EXCEPT !.orphaned = o]
           t == [s EXCEPT !.confirmation = x]
<1>0. s \in F!KeyType /\ s.confirmation \in F!Confirmation  BY DEF KeyGood
<1>1. x \in F!Confirmation /\ x.reopened = s.confirmation.reopened
  BY <1>0 DEF F!Confirmation
<1>2. x # Nothing
  BY <1>1
<1>3. [s EXCEPT !.confirmation.orphaned = o] = t
  BY <1>0
<1> HIDE DEF x
<1>4. t \in F!KeyType  BY <1>0, <1>1 DEF F!Rows
<1>5. Acts(t)  BY <1>0 DEF KeyGood, Acts
<1>6. Reserves(t)  BY <1>0, <1>1, <1>2 DEF KeyGood, Reserves, Standing
<1>7. Confirms(t)  BY <1>0, <1>1, <1>2 DEF KeyGood, Confirms, Standing, Answered
<1>8. Counts(t)  BY <1>0 DEF KeyGood, Counts
<1>9. Keeps(t)  BY <1>0, <1>2 DEF KeyGood, Keeps
<1>10. Follows(s, t)  BY <1>0, MarksSub DEF Follows
<1>11. QED
  BY <1>3, <1>4, <1>5, <1>6, <1>7, <1>8, <1>9, <1>10 DEF KeyGood

\* The catalog's evidence on a claim of this wallet.
LEMMA EvidenceGood ==
  ASSUME NEW s, KeyGood(s), NEW row \in F!Rows
  PROVE  LET t == F!Evidence(s, row)
         IN  /\ KeyGood(t) /\ Follows(s, t) /\ t.pending = s.pending /\ t.row = s.row /\ t.job = s.job
             /\ t.verified => row \in {"available", "own"}
             /\ t.accepted = Nothing <=> s.accepted = Nothing
<1>1. CASE row \in {"available", "own"}
  <2>1. F!Evidence(s, row) = Judged(s, FALSE, "no", s.verified)
    BY <1>1 DEF F!Evidence, Judged, KeyGood
  <2>2. s.verified \in BOOLEAN
    BY DEF KeyGood
  <2> DEFINE t == Judged(s, FALSE, "no", s.verified)
  <2>3. /\ KeyGood(t) /\ Follows(s, t) /\ t.pending = s.pending /\ t.row = s.row /\ t.job = s.job
        /\ (t.accepted = Nothing <=> s.accepted = Nothing)
    BY <2>2, JudgedGood
  <2> HIDE DEF t
  <2>4. QED
    BY <1>1, <2>1, <2>3 DEF t
<1>2. CASE row \notin {"available", "own"}
  <2>1. F!Evidence(s, row) = Judged(s, TRUE, "yes", FALSE)
    BY <1>2 DEF F!Evidence, Judged, KeyGood
  <2> DEFINE t == Judged(s, TRUE, "yes", FALSE)
  <2>2. /\ KeyGood(t) /\ Follows(s, t) /\ t.pending = s.pending /\ t.row = s.row /\ t.job = s.job
        /\ t.verified = FALSE /\ (t.accepted = Nothing <=> s.accepted = Nothing)
    BY JudgedGood
  <2> HIDE DEF t
  <2>3. QED
    BY <1>2, <2>1, <2>2 DEF t
<1>3. QED
  BY <1>1, <1>2

\* A bounty that is somebody else's marks acceptance and submission.
LEMMA InvalidatedGood ==
  ASSUME NEW s, KeyGood(s)
  PROVE  LET t == F!Invalidated(s)
         IN  KeyGood(t) /\ Follows(s, t) /\ ~t.verified /\ t.row = s.row
<1> DEFINE t == Judged(s, TRUE, "yes", FALSE)
<1>1. F!Invalidated(s) = t
  BY DEF F!Invalidated, Judged
<1>2. KeyGood(t) /\ Follows(s, t) /\ t.row = s.row /\ t.verified = FALSE
  BY JudgedGood
<1> HIDE DEF t
<1>3. QED
  BY <1>1, <1>2

-----------------------------------------------------------------------------
\* What the catalog can say of a bounty.
Seen == {"available", "own", "rival", "gone", "aged"}

\* An event about a bounty that is listed.
LEMMA InvalidateGood ==
  ASSUME NEW s, KeyGood(s), s.row = "available", NEW row \in Seen \ {"available"}
  PROVE  LET t == [F!InvalidateClaim(s, row) EXCEPT !.row = IF row = "aged" THEN @ ELSE s.row]
         IN  KeyGood(t) /\ Follows(s, t) /\ (row # "aged" => t.row = "available")
<1> DEFINE p == F!Preserved(s)
<1>0. s.row \in F!Rows
  BY DEF F!Rows
<1>1. /\ KeyGood(p) /\ Follows(s, p) /\ p.row = s.row
      /\ p.pending => p.accepted # Nothing
  BY PreservedGood
<1>2. CASE row = "own"
  <2> DEFINE t == [F!Removed(p) EXCEPT !.row = s.row]
  <2>1. [F!InvalidateClaim(s, row) EXCEPT !.row = IF row = "aged" THEN @ ELSE s.row] = t
    BY <1>2 DEF F!InvalidateClaim
  <2> HIDE DEF p
  <2>2. KeyGood(t) /\ Follows(p, t) /\ t.row = s.row
    BY <1>0, <1>1, RemovedGood
  <2> HIDE DEF t
  <2>3. QED
    BY <1>1, <2>1, <2>2, FollowsOn
<1>3. CASE row = "rival"
  <2> DEFINE j == F!Invalidated(p)
             t == [F!Removed(j) EXCEPT !.row = s.row]
  <2>1. [F!InvalidateClaim(s, row) EXCEPT !.row = IF row = "aged" THEN @ ELSE s.row] = t
    BY <1>3 DEF F!InvalidateClaim
  <2> HIDE DEF p
  <2>2. KeyGood(j) /\ Follows(p, j) /\ ~j.verified
    BY <1>1, InvalidatedGood
  <2> HIDE DEF j
  <2>3. KeyGood(t) /\ Follows(j, t) /\ t.row = s.row
    BY <1>0, <2>2, RemovedGood
  <2> HIDE DEF t
  <2>4. Follows(s, j)
    BY <1>1, <2>2, FollowsOn
  <2>5. Follows(s, t)
    BY <2>3, <2>4, FollowsOn
  <2>6. QED
    BY <2>1, <2>3, <2>5
<1>4. CASE row = "gone"
  <2> DEFINE j == F!Invalidated(s)
             t == [F!Removed(j) EXCEPT !.row = s.row]
  <2>1. [F!InvalidateClaim(s, row) EXCEPT !.row = IF row = "aged" THEN @ ELSE s.row] = t
    BY <1>4 DEF F!InvalidateClaim
  <2>2. KeyGood(j) /\ Follows(s, j) /\ ~j.verified
    BY InvalidatedGood
  <2> HIDE DEF j
  <2>3. KeyGood(t) /\ Follows(j, t) /\ t.row = s.row
    BY <1>0, <2>2, RemovedGood
  <2> HIDE DEF t
  <2>4. QED
    BY <2>1, <2>2, <2>3, FollowsOn
<1>5. CASE row = "aged"
  <2> DEFINE t == F!Retired(s)
  <2>1. KeyGood(t) /\ Follows(s, t)
    BY RetiredGood
  <2>2. [t EXCEPT !.row = t.row] = t
    <3> HIDE DEF t
    <3>1. QED
      BY <2>1 DEF KeyGood
  <2>3. [F!InvalidateClaim(s, row) EXCEPT !.row = IF row = "aged" THEN @ ELSE s.row] = t
    BY <1>5, <2>2 DEF F!InvalidateClaim
  <2> HIDE DEF t
  <2>4. QED
    BY <1>5, <2>1, <2>3
<1>6. QED
  BY <1>2, <1>3, <1>4, <1>5 DEF Seen

\* A key that the discovery takes up: nobody has claimed it here.
Fresh(s, row) == row = "available" /\ (~s.reserved \/ (s.accepted = Nothing /\ s.sub = Nothing))

\* enqueue() takes it up in order.
LEMMA EnqueuedGood ==
  ASSUME NEW s, KeyGood(s), s.row = "available", ~s.reserved
  PROVE  KeyGood(F!Enqueued(s))
<1>1. CASE F!Enqueued(s) = s
  BY <1>1
<1>2. CASE F!Enqueued(s) # s
  <2> DEFINE x == IF s.proposed THEN s.prepared ELSE Nothing
             t == [s EXCEPT !.job = "queued", !.prepared = x]
  <2>0. s \in F!KeyType
    BY DEF KeyGood
  <2>1. s.job = "none" /\ ~s.completed /\ ~F!HasActive(s) /\ ~(s.accepted # Nothing /\ ~s.pending)
    BY <1>2 DEF F!Enqueued
  <2>2. ~s.pending /\ s.accepted = Nothing
    BY <2>1 DEF KeyGood, Acts
  <2>3. F!Enqueued(s) = t
    BY <2>0, <2>1, <2>2 DEF F!Enqueued
  <2>4. x \in {s.prepared, Nothing}
    OBVIOUS
  <2> HIDE DEF x
  <2>5. t \in F!KeyType  BY <2>0, <2>4 DEF F!Rows, F!SubType
  <2>6. Acts(t)  BY <2>0, <2>1, <2>2 DEF KeyGood, Acts, F!HasActive
  <2>7. Reserves(t)  BY <2>0, <2>1, <2>2 DEF KeyGood, Reserves, Standing, F!HasActive
  <2>8. Confirms(t)  BY <2>0, <2>1, <2>2, <2>4 DEF KeyGood, Confirms, Standing, F!HasActive
  <2>9. Counts(t)  BY <2>0, <2>1, <2>2, <2>4 DEF KeyGood, Counts, F!HasActive
  <2>10. Keeps(t)  BY <2>0, <2>1, <2>2 DEF KeyGood, Keeps
  <2> HIDE DEF t
  <2>11. QED
    BY <2>3, <2>5, <2>6, <2>7, <2>8, <2>9, <2>10 DEF KeyGood
<1>3. QED
  BY <1>1, <1>2

\* The block that confirmed the claim has left the chain, and the key is free again.
LEMMA OrphanedGood ==
  ASSUME NEW s, KeyGood(s), s.row = "available", Standing(s), s.confirmation.orphaned, s.accepted = Nothing,
         ~F!HasActive(s), ~s.pending
  PROVE  KeyGood(F!Enqueued(F!Orphaned(s)))
<1> DEFINE x == [s.confirmation EXCEPT !.reopened = TRUE]
           o == [s EXCEPT !.reserved = FALSE, !.completed = FALSE, !.confirmation = x, !.verified = FALSE]
           t == [s EXCEPT !.reserved = FALSE, !.completed = FALSE, !.confirmation = x, !.verified = FALSE,
                          !.job = "queued", !.prepared = Nothing]
<1>0. s \in F!KeyType /\ s.confirmation \in F!Confirmation /\ s.confirmation # Nothing
  BY DEF KeyGood, Standing
<1>1. x \in F!Confirmation /\ x.reopened
  BY <1>0 DEF F!Confirmation
<1>2. x # Nothing
  BY <1>1
<1>3. F!Orphaned(s) = o
  BY <1>0 DEF F!Orphaned, Standing
<1>4. s.job = "none" /\ ~s.proposed /\ ~s.unknown /\ s.sub = Nothing /\ ~s.capturing
  BY DEF KeyGood, Confirms, F!HasActive
<1> HIDE DEF x
<1>5. F!Enqueued(o) = t
  BY <1>0, <1>4 DEF F!Enqueued, F!HasActive
<1>6. t \in F!KeyType  BY <1>0, <1>1 DEF F!Rows
<1>7. Acts(t)  BY <1>0, <1>4 DEF KeyGood, Acts
<1>8. Reserves(t)  BY <1>0, <1>4 DEF KeyGood, Reserves
<1>9. Confirms(t)  BY <1>0, <1>1, <1>4 DEF KeyGood, Confirms, Standing
<1>10. Counts(t)  BY <1>0, <1>4 DEF KeyGood, Counts, Confirms
<1>11. Keeps(t)  BY <1>0 DEF Keeps
<1> HIDE DEF t, o
<1>12. QED
  BY <1>3, <1>5, <1>6, <1>7, <1>8, <1>9, <1>10, <1>11 DEF KeyGood

\* The committed catalog lists the bounty.
LEMMA AvailableGood ==
  ASSUME NEW s, KeyGood(s)
  PROVE  LET t == F!AppliedRow(s, "available") IN KeyGood(t) /\ (Follows(s, t) \/ Fresh(s, "available"))
<1> DEFINE i == F!Evidence(s, "available")
           x == [i EXCEPT !.row = "available"]
<1>1. "available" \in F!Rows
  BY DEF F!Rows
<1>2. KeyGood(i) /\ Follows(s, i) /\ (i.accepted = Nothing <=> s.accepted = Nothing)
  BY <1>1, EvidenceGood
<1>3. KeyGood(x) /\ Follows(i, x) /\ x.row = "available" /\ x.accepted = i.accepted
  <2> HIDE DEF i
  <2>1. QED
    BY <1>2, RowGood DEF KeyGood
<1>4. F!AppliedRow(s, "available") =
        LET o == F!Orphaned(x) IN IF ~o.reserved THEN F!Enqueued(o) ELSE IF F!OwnReservation(o) THEN o ELSE F!Removed(o)
  BY DEF F!AppliedRow
<1> HIDE DEF i, x
<1>5. Follows(s, x) /\ (x.accepted = Nothing <=> s.accepted = Nothing)
  BY <1>2, <1>3, FollowsOn
<1>6. x.reserved = s.reserved /\ (x.sub = Nothing <=> s.sub = Nothing)
  BY <1>5 DEF Follows, Marks
<1>7. CASE Standing(x) /\ x.confirmation.orphaned /\ x.accepted = Nothing /\ ~F!HasActive(x) /\ ~x.pending
  <2>1. KeyGood(F!Enqueued(F!Orphaned(x)))
    BY <1>3, <1>7, OrphanedGood
  <2>2. ~F!Orphaned(x).reserved
    BY <1>3, <1>7 DEF F!Orphaned, Standing, KeyGood
  <2>3. Fresh(s, "available")
    BY <1>5, <1>6, <1>7 DEF Fresh, F!HasActive
  <2>4. QED
    BY <1>4, <2>1, <2>2, <2>3
<1>8. CASE ~(Standing(x) /\ x.confirmation.orphaned /\ x.accepted = Nothing /\ ~F!HasActive(x) /\ ~x.pending)
  <2>1. F!Orphaned(x) = x
    BY <1>8 DEF F!Orphaned, Standing
  <2>2. CASE ~x.reserved
    <3>1. KeyGood(F!Enqueued(x))
      BY <1>3, <2>2, EnqueuedGood
    <3>2. F!AppliedRow(s, "available") = F!Enqueued(x)
      BY <1>4, <2>1, <2>2
    <3>3. Fresh(s, "available")
      BY <1>6, <2>2 DEF Fresh
    <3>4. QED
      BY <3>1, <3>2, <3>3
  <2>3. CASE x.reserved /\ F!OwnReservation(x)
    BY <1>3, <1>4, <1>5, <2>1, <2>3
  <2>4. CASE x.reserved /\ ~F!OwnReservation(x)
    <3>1. x.verified /\ x.pending => x.accepted # Nothing \/ x.unknown \/ x.confirmation # Nothing
      BY <1>3, <2>4 DEF KeyGood, Acts, Reserves, Standing, F!OwnReservation
    <3>2. KeyGood(F!Removed(x)) /\ Follows(x, F!Removed(x))
      BY <1>1, <1>3, <3>1, RemovedGood
    <3>3. QED
      BY <1>4, <1>5, <2>1, <2>4, <3>2, FollowsOn
  <2>5. QED
    BY <2>2, <2>3, <2>4
<1>9. QED
  BY <1>7, <1>8

\* The committed catalog on a key, whatever it says.
LEMMA AppliedRowGood ==
  ASSUME NEW s, KeyGood(s), NEW row \in Seen
  PROVE  LET t == F!AppliedRow(s, row)
         IN  /\ KeyGood(t) /\ (Follows(s, t) \/ Fresh(s, row))
             /\ row \in {"own", "rival", "gone"} => ~t.pending /\ t.row = row
<1> DEFINE p == F!Preserved(s)
<1>1. /\ KeyGood(p) /\ Follows(s, p)
      /\ p.pending => p.accepted # Nothing
  BY PreservedGood
<1>2. row \in F!Rows
  BY DEF Seen, F!Rows
<1>3. CASE row = "available"
  BY <1>3, AvailableGood
<1>4. CASE row \in {"own", "rival"}
  <2> DEFINE j == F!Evidence(p, row)
             t == [F!Removed(j) EXCEPT !.row = row]
  <2>1. F!AppliedRow(s, row) = t
    BY <1>4 DEF F!AppliedRow
  <2> HIDE DEF p
  <2>2. /\ KeyGood(j) /\ Follows(p, j) /\ j.pending = p.pending
        /\ j.accepted = Nothing <=> p.accepted = Nothing
    BY <1>1, <1>2, EvidenceGood
  <2> HIDE DEF j
  <2>3. KeyGood(t) /\ Follows(j, t) /\ ~t.pending /\ t.row = row
    BY <1>1, <1>2, <2>2, RemovedGood
  <2> HIDE DEF t
  <2>4. Follows(s, j)
    BY <1>1, <2>2, FollowsOn
  <2>5. Follows(s, t)
    BY <2>3, <2>4, FollowsOn
  <2>6. QED
    BY <2>1, <2>3, <2>5
<1>5. CASE row = "gone"
  <2> DEFINE n == [s EXCEPT !.verified = FALSE]
             t == [F!Removed(n) EXCEPT !.row = row]
  <2>1. KeyGood(n) /\ Follows(s, n) /\ ~n.verified
    BY UnverifiedGood
  <2>2. F!AppliedRow(s, row) = t
    BY <1>5 DEF F!AppliedRow, F!Removed, KeyGood
  <2> HIDE DEF n
  <2>3. KeyGood(t) /\ Follows(n, t) /\ ~t.pending /\ t.row = row
    BY <1>2, <2>1, RemovedGood
  <2> HIDE DEF t
  <2>4. Follows(s, t)
    BY <2>1, <2>3, FollowsOn
  <2>5. QED
    BY <2>2, <2>3, <2>4
<1>6. CASE row = "aged" /\ F!Usable(s)
  <2> DEFINE r == F!Retired(s)
             t == [F!Removed(r) EXCEPT !.row = "aged"]
  <2>1. F!AppliedRow(s, row) = IF r.row = "retired" THEN r ELSE t
    BY <1>6 DEF F!AppliedRow
  <2>2. /\ KeyGood(r) /\ Follows(s, r) /\ r.row \in {"retired", "aged"}
        /\ r.pending = s.pending
        /\ r.row = "aged" => ~s.pending
    BY RetiredGood
  <2> HIDE DEF r
  <2>3. CASE r.row = "retired"
    BY <1>6, <2>1, <2>2, <2>3
  <2>4. CASE r.row # "retired"
    <3>1. KeyGood(t) /\ Follows(r, t)
      BY <1>2, <1>6, <2>2, <2>4, RemovedGood
    <3> HIDE DEF t
    <3>2. QED
      BY <1>6, <2>1, <2>2, <2>4, <3>1, FollowsOn
  <2>5. QED
    BY <2>3, <2>4
<1>7. CASE row = "aged" /\ ~F!Usable(s)
  <2> DEFINE t == [F!Removed(s) EXCEPT !.row = "aged"]
  <2>1. F!AppliedRow(s, row) = t
    BY <1>7 DEF F!AppliedRow
  <2>2. ~s.pending
    BY <1>7 DEF KeyGood, Acts, F!Usable
  <2>3. KeyGood(t) /\ Follows(s, t)
    BY <1>2, <1>7, <2>2, RemovedGood
  <2> HIDE DEF t
  <2>4. QED
    BY <1>7, <2>1, <2>3
<1>8. QED
  BY <1>3, <1>4, <1>5, <1>6, <1>7 DEF Seen

-----------------------------------------------------------------------------
\* A claim that the network has is reserved, and its submission has been answered.
Sends(s, c, g) ==
  Sent(c) => /\ s.reserved /\ ~s.capturing
             /\ s.sub # Nothing => Answered(s)
             /\ s.pending /\ s.sub = Nothing => s.unknown /\ g # "on"

\* What was read is older than what is known here, in one direction.
Reads(s, c, v, g) ==
  /\ v \in [row : Seen, mined : BOOLEAN]
  /\ v.mined => /\ v.row = "gone" /\ ~s.capturing /\ s.job # "queued"
                /\ s.sub # Nothing => Answered(s)
                /\ s.pending /\ s.sub = Nothing => g # "on"
  /\ Sent(c) => \/ v.row \in {"own", "gone"}
                \/ s.sub # Nothing /\ ~s.prepared.confirmed
                \/ s.accepted # Nothing /\ ~s.pending

\* The receipt of a claim whose block the window has finds nothing of it half done.
Reached(s) == ~s.capturing /\ (s.sub # Nothing => Answered(s)) /\ (s.proposed => s.sub # Nothing)

\* A key, what the network has of its claim, and what the running discovery has read of it.
Side(s, c, g, ph, v) ==
  /\ Sends(s, c, g)
  /\ ph = "reading" => Reads(s, c, v, g)
  /\ s.inWindow => s.row = "gone" /\ (ph = "receipts" => Reached(s))

\* The commit of the snapshot, on a key.
LEMMA AppliedSide ==
  ASSUME NEW s, NEW c, NEW g, NEW v, KeyGood(s), Side(s, c, g, "reading", v), NEW w
  PROVE  KeyGood(F!Applied(s, v)) /\ Side(F!Applied(s, v), c, "on", "receipts", w)
<1> DEFINE m == IF s.confirmation = Nothing THEN s ELSE [s EXCEPT !.confirmation.orphaned = ~v.mined]
           u == F!AppliedRow(m, v.row)
           r == [u EXCEPT !.inWindow = v.mined]
           gone == r.row \in {"gone", "aged"} /\ ~F!HasActive(r) /\ ~r.pending
           t == F!RetainedProposal(r)
<1>1. v.row \in Seen /\ v.mined \in BOOLEAN
  BY DEF Side, Reads
<1>2. KeyGood(m) /\ Follows(s, m)
  <2>1. CASE s.confirmation = Nothing
    <3>1. Follows(s, s)
      BY MarksSub DEF Follows, KeyGood
    <3>2. QED
      BY <2>1, <3>1
  <2>2. CASE s.confirmation # Nothing
    <3>1. (~v.mined) \in BOOLEAN
      BY <1>1
    <3>2. QED
      BY <2>2, <3>1, OrphanMarkGood
  <2>3. QED
    BY <2>1, <2>2
<1>3. F!Applied(s, v) = t
  BY DEF F!Applied
<1> HIDE DEF m
<1>4. /\ KeyGood(u) /\ (Follows(m, u) \/ Fresh(m, v.row))
      /\ v.row \in {"own", "rival", "gone"} => ~u.pending /\ u.row = v.row
  BY <1>1, <1>2, AppliedRowGood
<1> HIDE DEF u
<1>5. Follows(s, u) \/ Fresh(s, v.row)
  BY <1>2, <1>4, FollowsOn DEF Follows, Marks, Fresh
<1>6. u \in F!KeyType
  BY <1>4 DEF KeyGood
<1>7. r.row = u.row /\ r.sub = u.sub /\ r.capturing = u.capturing /\ r.pending = u.pending
        /\ r.proposed = u.proposed
  BY <1>6
<1> DEFINE left == u.row \in {"gone", "aged"} /\ ~F!HasActive(u) /\ ~u.pending
           t1 == [u EXCEPT !.inWindow = v.mined, !.proposed = FALSE]
           t2 == [u EXCEPT !.inWindow = v.mined, !.proposed = u.proposed]
<1>8. t = t1 \/ (t = t2 /\ ~left)
  <2>1. CASE gone
    BY <1>6, <2>1 DEF F!RetainedProposal
  <2>2. CASE ~gone
    <3>1. t = t2
      BY <1>6, <2>2 DEF F!RetainedProposal
    <3>2. ~left
      BY <1>7, <2>2 DEF F!HasActive
    <3>3. QED
      BY <3>1, <3>2
  <2>3. QED
    BY <2>1, <2>2
<1>9. /\ \A x \in {t1, t2} : /\ x.row = u.row /\ x.sub = u.sub /\ x.capturing = u.capturing
           /\ x.pending = u.pending
                            /\ x.reserved = u.reserved /\ x.unknown = u.unknown /\ x.inWindow = v.mined
      /\ t1.proposed = FALSE
  BY <1>6
<1>10. KeyGood(t1) /\ KeyGood(t2)
  <2>1. u.proposed \in BOOLEAN
    BY <1>6
  <2>2. QED
    BY <1>1, <1>4, <2>1, ShownGood
<1> HIDE DEF r, t, t1, t2
<1>11. /\ KeyGood(t)
       /\ t.row = u.row /\ t.sub = u.sub /\ t.capturing = u.capturing /\ t.pending = u.pending
       /\ t.reserved = u.reserved /\ t.unknown = u.unknown /\ t.inWindow = v.mined
       /\ t.proposed => ~left
  BY <1>8, <1>9, <1>10
<1>12. CASE Fresh(s, v.row)
  <2>1. ~Sent(c) /\ ~v.mined
    BY <1>12 DEF Fresh, Side, Sends, Reads
  <2>2. QED
    BY <1>3, <1>11, <2>1 DEF Side, Sends
<1>13. CASE Follows(s, u)
  <2>1. u.sub # Nothing => s.sub # Nothing /\ (Answered(s) <=> Answered(u))
    BY <1>13 DEF Follows, Marks, Answered
  <2>2. /\ u.reserved = s.reserved /\ u.capturing = s.capturing /\ (u.pending => s.pending)
        /\ u.sub = Nothing <=> s.sub = Nothing
    BY <1>13 DEF Follows, Marks
  <2>3. Sends(t, c, "on")
    <3>1. ASSUME Sent(c), u.pending, u.sub = Nothing PROVE FALSE
      BY <1>4, <2>2, <3>1 DEF Side, Sends, Reads
    <3>2. QED
      BY <1>11, <2>1, <2>2, <3>1 DEF Side, Sends, Answered
  <2>4. t.inWindow => t.row = "gone" /\ Reached(t)
    <3>1. SUFFICES ASSUME v.mined PROVE t.row = "gone" /\ Reached(t)
      BY <1>11
    <3>2. v.row = "gone" /\ ~s.capturing /\ (s.sub # Nothing => Answered(s))
      BY <3>1 DEF Side, Reads
    <3>3. u.row = "gone" /\ ~u.pending
      BY <1>4, <3>2
    <3>4. t.proposed => u.sub # Nothing
      BY <1>11, <2>2, <3>2, <3>3 DEF F!HasActive
    <3>5. QED
      BY <1>11, <2>1, <2>2, <3>2, <3>3, <3>4 DEF Reached, Answered
  <2>5. QED
    BY <1>3, <1>11, <2>3, <2>4 DEF Side
<1>14. QED
  BY <1>5, <1>12, <1>13

-----------------------------------------------------------------------------
\* The network does not have the claim, and nobody has read that it does.
Unseen(s, c, ph, v) ==
  /\ ~Sent(c)
  /\ ph = "reading" => v \in [row : Seen, mined : BOOLEAN] /\ ~v.mined
  /\ s.inWindow => s.row = "gone" /\ ph # "receipts"

\* Such a key is one that work goes on for.
LEMMA UnseenIf ==
  ASSUME NEW s, NEW c, NEW g, NEW ph, NEW v, KeyGood(s), Side(s, c, g, ph, v),
         s.capturing \/ s.job = "queued" \/ (s.sub # Nothing /\ ~Answered(s)) \/ (s.pending /\ s.sub = Nothing /\ g = "on")
  PROVE  Unseen(s, c, ph, v)
<1>1. ~Sent(c)
  BY DEF KeyGood, Acts, Side, Sends
<1>2. ph = "reading" => v \in [row : Seen, mined : BOOLEAN] /\ ~v.mined
  BY DEF Side, Reads
<1>3. s.inWindow => s.row = "gone" /\ ph # "receipts"
  BY DEF KeyGood, Acts, Side, Reached
<1>4. QED
  BY <1>1, <1>2, <1>3 DEF Unseen

\* Of such a key nothing else needs to be known.
LEMMA UnseenSide ==
  ASSUME NEW s, NEW t, NEW c, NEW g, NEW ph, NEW v, Unseen(s, c, ph, v),
         t.inWindow = s.inWindow, t.row = s.row \/ s.row # "gone"
  PROVE  Side(t, c, g, ph, v)
BY DEF Unseen, Side, Sends, Reads

\* The claim is prepared.
LEMMA PrepareGood ==
  ASSUME NEW s, NEW c, NEW g, NEW ph, NEW v, KeyGood(s), Side(s, c, g, ph, v),
         s.job = "queued", s.prepared = Nothing, ~F!HasActive(s)
  PROVE  LET t == [s EXCEPT !.proposed = TRUE, !.prepared =
                     [counted |-> s.everCounted, confirmed |-> FALSE, revalidate |-> FALSE]]
         IN  KeyGood(t) /\ Side(t, c, g, ph, v)
<1> DEFINE x == [counted |-> s.everCounted, confirmed |-> FALSE, revalidate |-> FALSE]
           t == [s EXCEPT !.proposed = TRUE, !.prepared = x]
<1>0. s \in F!KeyType  BY DEF KeyGood
<1>1. x \in F!Preparation /\ x.counted = s.everCounted /\ ~x.confirmed
  BY <1>0 DEF F!Preparation
<1>2. x # Nothing
  BY <1>1
<1> HIDE DEF x
<1>3. t \in F!KeyType  BY <1>0, <1>1 DEF F!Rows, F!SubType
<1>4. Acts(t)  BY <1>0, <1>2 DEF KeyGood, Acts
<1>5. Reserves(t)  BY <1>0 DEF KeyGood, Reserves, Standing
<1>6. Confirms(t)  BY <1>0, <1>1 DEF KeyGood, Confirms, Standing
<1>7. Counts(t)  BY <1>0, <1>1 DEF KeyGood, Counts
<1>8. Keeps(t)  BY <1>0 DEF KeyGood, Keeps
<1>9. Side(t, c, g, ph, v)
  <2>1. t.inWindow = s.inWindow /\ t.row = s.row
    BY <1>0
  <2> HIDE DEF t
  <2>2. QED
    BY <2>1, UnseenIf, UnseenSide
<1>10. QED
  BY <1>3, <1>4, <1>5, <1>6, <1>7, <1>8, <1>9 DEF KeyGood, x

\* The capture starts.
LEMMA DispatchGood ==
  ASSUME NEW s, NEW c, NEW g, NEW ph, NEW v, KeyGood(s), Side(s, c, g, ph, v), s.job = "queued",
         s.prepared # Nothing
  PROVE  LET t == [s EXCEPT !.capturing = TRUE] IN KeyGood(t) /\ Side(t, c, g, ph, v)
<1> DEFINE t == [s EXCEPT !.capturing = TRUE]
<1>0. s \in F!KeyType  BY DEF KeyGood
<1>1. t \in F!KeyType  BY <1>0 DEF F!Rows
<1>2. Acts(t)  BY <1>0 DEF KeyGood, Acts
<1>3. Reserves(t)  BY <1>0 DEF KeyGood, Reserves, Standing
<1>4. Confirms(t)  BY <1>0 DEF KeyGood, Confirms, Standing
<1>5. Counts(t)  BY <1>0 DEF KeyGood, Counts
<1>6. Keeps(t)  BY <1>0 DEF KeyGood, Keeps
<1>7. Side(t, c, g, ph, v)
  <2>1. t.inWindow = s.inWindow /\ t.row = s.row
    BY <1>0
  <2> HIDE DEF t
  <2>2. QED
    BY <2>1, UnseenIf, UnseenSide
<1>8. QED
  BY <1>1, <1>2, <1>3, <1>4, <1>5, <1>6, <1>7 DEF KeyGood

\* The capture finds a proof.
LEMMA CaptureGood ==
  ASSUME NEW s, NEW c, NEW g, NEW ph, NEW v, KeyGood(s), Side(s, c, g, ph, v), s.capturing, s.job = "queued"
 
  PROVE  LET t == [s EXCEPT !.capturing = FALSE, !.job = "won", !.pending = TRUE, !.counted = s.prepared.counted,
                            !.verified = TRUE]
         IN  KeyGood(t) /\ Side(t, c, g, ph, v)
<1> DEFINE t == [s EXCEPT !.capturing = FALSE, !.job = "won", !.pending = TRUE, !.counted = s.prepared.counted,
                          !.verified = TRUE]
<1>0. s \in F!KeyType /\ s.prepared # Nothing
  BY DEF KeyGood, Acts
<1>a. s.prepared \in F!Preparation /\ s.prepared.counted \in BOOLEAN
  BY <1>0 DEF F!Preparation
<1>b. \A b \in BOOLEAN :
        [s EXCEPT !.capturing = FALSE, !.job = "won", !.pending = TRUE, !.counted = b, !.verified = TRUE] \in F!KeyType
  BY <1>0 DEF F!Rows
<1>1. t \in F!KeyType  BY ONLY <1>a, <1>b
<1>2. Acts(t)  BY <1>0 DEF KeyGood, Acts
<1>3. Reserves(t)  BY <1>0 DEF KeyGood, Acts, Reserves, Standing
<1>4. Confirms(t)  BY <1>0 DEF KeyGood, Confirms, Standing
<1>5. Counts(t)  BY <1>0 DEF KeyGood, Acts, Counts
<1>6. Keeps(t)  BY <1>0 DEF KeyGood, Keeps
<1>7. Side(t, c, g, ph, v)
  <2>1. t.inWindow = s.inWindow /\ t.row = s.row
    BY <1>0
  <2> HIDE DEF t
  <2>2. QED
    BY <2>1, UnseenIf, UnseenSide
<1>8. QED
  BY <1>1, <1>2, <1>3, <1>4, <1>5, <1>6, <1>7 DEF KeyGood

\* The capture ends without one.
LEMMA CaptureOver ==
  ASSUME NEW s, NEW c, NEW g, NEW ph, NEW v, KeyGood(s), Side(s, c, g, ph, v), s.capturing
  PROVE  LET t == F!Tidied([s EXCEPT !.capturing = FALSE]) IN KeyGood(t) /\ Side(t, c, g, ph, v)
<1> DEFINE n == [s EXCEPT !.capturing = FALSE]
           t == F!Tidied(n)
<1>0. s \in F!KeyType  BY DEF KeyGood
<1>1. n \in F!KeyType  BY <1>0 DEF F!Rows
<1>2. Acts(n)  BY <1>0 DEF KeyGood, Acts
<1>3. Reserves(n)  BY <1>0 DEF KeyGood, Reserves, Standing
<1>4. Confirms(n)  BY <1>0 DEF KeyGood, Confirms, Standing, Answered
<1>5. Counts(n)  BY <1>0 DEF KeyGood, Counts
<1>6. Keeps(n)  BY <1>0 DEF KeyGood, Keeps
<1>7. n.inWindow = s.inWindow /\ n.row = s.row
  BY <1>0
<1> HIDE DEF n
<1>8. KeyGood(n)
  BY <1>1, <1>2, <1>3, <1>4, <1>5, <1>6 DEF KeyGood
<1>9. KeyGood(t) /\ t.inWindow = n.inWindow /\ (t.row = n.row \/ n.row = "retired")
  BY <1>8, TidiedGood, TidiedFrame
<1> HIDE DEF t
<1>10. Side(t, c, g, ph, v)
  BY <1>7, <1>9, UnseenIf, UnseenSide
<1>11. QED
  BY <1>9, <1>10 DEF t, n

\* A submission in a key.
LEMMA SubKept ==
  ASSUME NEW s \in F!KeyType, NEW x \in F!SubType PROVE [s EXCEPT !.sub = x] \in F!KeyType
<1>1. x \in F!SubType \cup {Nothing}
  OBVIOUS

<1>2. QED
  BY <1>1 DEF F!Rows

\* The submission starts.
LEMMA SubmitGood ==
  ASSUME NEW s, NEW c, NEW ph, NEW v, KeyGood(s), Side(s, c, "on", ph, v), s.sub = Nothing, s.pending,
         NEW phase \in {"check", "gate"}
 
  PROVE  LET t == [s EXCEPT !.sub = [phase |-> phase, aborted |-> FALSE, unavailable |-> FALSE, invalid |-> "unset",
                                     reply |-> "none"]]
         IN  KeyGood(t) /\ Side(t, c, "on", ph, v)
<1> DEFINE x == [phase |-> phase, aborted |-> FALSE, unavailable |-> FALSE, invalid |-> "unset", reply |-> "none"]
           t == [s EXCEPT !.sub = x]
<1>0. s \in F!KeyType  BY DEF KeyGood
<1>a. x \in F!SubType /\ x.phase \in {"check", "gate"} /\ ~x.unavailable /\ x.reply = "none"
  BY DEF F!SubType
<1>b. x # Nothing
  BY <1>a
<1> HIDE DEF x
<1>1. t \in F!KeyType  BY <1>0, <1>a, SubKept
<1>2. Acts(t)  BY <1>0, <1>a DEF KeyGood, Acts
<1>3. Reserves(t)  BY <1>0, <1>a DEF KeyGood, Acts, Reserves, Standing
<1>4. Confirms(t)  BY <1>0 DEF KeyGood, Acts, Confirms, Standing
<1>5. Counts(t)  BY <1>0 DEF KeyGood, Counts
<1>6. Keeps(t)  BY <1>0 DEF KeyGood, Keeps
<1>7. Side(t, c, "on", ph, v)
  <2>1. t.inWindow = s.inWindow /\ t.row = s.row
    BY <1>0
  <2> HIDE DEF t
  <2>2. QED
    BY <2>1, UnseenIf, UnseenSide
<1>8. QED
  BY <1>1, <1>2, <1>3, <1>4, <1>5, <1>6, <1>7 DEF KeyGood, x

\* A submission that goes on.
LEMMA PhaseSub ==
  ASSUME NEW x \in F!SubType, NEW phase \in {"check", "gate", "queued", "written"}
  PROVE  /\ [x EXCEPT !.phase = phase] \in F!SubType /\ [x EXCEPT !.phase = phase] # Nothing
         /\ [x EXCEPT !.phase = phase].phase = phase
         /\ [x EXCEPT !.phase = phase].unavailable = x.unavailable
              /\ [x EXCEPT !.phase = phase].reply = x.reply
<1> DEFINE y == [x EXCEPT !.phase = phase]
<1>1. y \in F!SubType /\ y.phase = phase /\ y.reply = x.reply /\ y.unavailable = x.unavailable
  BY DEF F!SubType
<1>2. y # Nothing
  BY <1>1
<1>3. QED
  BY <1>1, <1>2

\* A submission that is answered.
LEMMA ReplySub ==
  ASSUME NEW x \in F!SubType, NEW reply \in {"none", "ack", "rejected", "refused", "unknown"}
  PROVE  /\ [x EXCEPT !.reply = reply] \in F!SubType /\ [x EXCEPT !.reply = reply] # Nothing
         /\ [x EXCEPT !.reply = reply].reply = reply
         /\ [x EXCEPT !.reply = reply].unavailable = x.unavailable
              /\ [x EXCEPT !.reply = reply].phase = x.phase
<1> DEFINE y == [x EXCEPT !.reply = reply]
<1>1. y \in F!SubType /\ y.phase = x.phase /\ y.reply = reply /\ y.unavailable = x.unavailable
  BY DEF F!SubType
<1>2. y # Nothing
  BY <1>1
<1>3. QED
  BY <1>1, <1>2

\* The claim is known to be open, and waits for the catalog.
LEMMA GateGood ==
  ASSUME NEW s, NEW c, NEW g, NEW ph, NEW v, KeyGood(s), Side(s, c, g, ph, v), s.sub # Nothing,
         s.sub.phase = "check"
 
  PROVE  LET t == [s EXCEPT !.sub.phase = "gate", !.prepared.revalidate = FALSE] IN KeyGood(t) /\ Side(t, c, g, ph, v)
<1> DEFINE y == [s.sub EXCEPT !.phase = "gate"]
           x == [s.prepared EXCEPT !.revalidate = FALSE]
           t == [s EXCEPT !.sub = y, !.prepared = x]
<1>0. s \in F!KeyType /\ s.sub \in F!SubType /\ s.prepared # Nothing
  BY DEF KeyGood, Acts
<1>a. s.prepared \in F!Preparation
  BY <1>0
<1>b. y \in F!SubType /\ y # Nothing /\ y.phase = "gate" /\ y.unavailable = s.sub.unavailable
        /\ y.reply = s.sub.reply
  BY <1>0, PhaseSub
<1>c. x \in F!Preparation /\ x.counted = s.prepared.counted /\ x.confirmed = s.prepared.confirmed
  BY <1>a DEF F!Preparation
<1>d. x # Nothing
  BY <1>c
<1>e. t = [s EXCEPT !.sub.phase = "gate", !.prepared.revalidate = FALSE]
  BY <1>0
<1> HIDE DEF x, y
<1>1. t \in F!KeyType  BY <1>0, <1>b, <1>c DEF F!Rows
<1>2. Acts(t)  BY <1>0, <1>b, <1>d DEF KeyGood, Acts
<1>3. Reserves(t)  BY <1>0, <1>b DEF KeyGood, Reserves, Standing
<1>4. Confirms(t)  BY <1>0, <1>b, <1>c, <1>d DEF KeyGood, Confirms, Standing, Answered
<1>5. Counts(t)  BY <1>0, <1>c, <1>d DEF KeyGood, Counts
<1>6. Keeps(t)  BY <1>0 DEF KeyGood, Keeps
<1>7. Side(t, c, g, ph, v)
  <2>1. t.inWindow = s.inWindow /\ t.row = s.row
    BY <1>0
  <2> HIDE DEF t
  <2>2. QED
    BY <2>1, UnseenIf, UnseenSide DEF Answered
<1> HIDE DEF t
<1>8. QED
  BY <1>e, <1>1, <1>2, <1>3, <1>4, <1>5, <1>6, <1>7 DEF KeyGood

\* The claim is reserved and waits in the client's outbox.
LEMMA QueueGood ==
  ASSUME NEW s, NEW c, NEW g, NEW ph, NEW v, KeyGood(s), Side(s, c, g, ph, v), s.sub # Nothing,
         s.sub.phase = "gate", ~s.reserved
  PROVE  LET t == [s EXCEPT !.sub.phase = "queued", !.reserved = TRUE] IN KeyGood(t) /\ Side(t, c, g, ph, v)
<1> DEFINE y == [s.sub EXCEPT !.phase = "queued"]
           t == [s EXCEPT !.sub = y, !.reserved = TRUE]
<1>0. s \in F!KeyType /\ s.sub \in F!SubType
  BY DEF KeyGood
<1>b. y \in F!SubType /\ y # Nothing /\ y.phase = "queued" /\ y.unavailable = s.sub.unavailable
        /\ y.reply = s.sub.reply
  BY <1>0, PhaseSub
<1>e. t = [s EXCEPT !.sub.phase = "queued", !.reserved = TRUE]
  BY <1>0
<1> HIDE DEF y
<1>1. t \in F!KeyType  BY <1>0, <1>b, SubKept
<1>2. Acts(t)  BY <1>0, <1>b DEF KeyGood, Acts
<1>3. Reserves(t)  BY <1>0, <1>b DEF KeyGood, Reserves, Standing
<1>4. Confirms(t)  BY <1>0, <1>b DEF KeyGood, Confirms, Standing, Answered
<1>5. Counts(t)  BY <1>0, <1>b DEF KeyGood, Counts
<1>6. Keeps(t)  BY <1>0 DEF KeyGood, Keeps
<1>7. Side(t, c, g, ph, v)
  <2>1. t.inWindow = s.inWindow /\ t.row = s.row
    BY <1>0
  <2> HIDE DEF t
  <2>2. QED
    BY <2>1, UnseenIf, UnseenSide DEF Answered
<1> HIDE DEF t
<1>8. QED
  BY <1>e, <1>1, <1>2, <1>3, <1>4, <1>5, <1>6, <1>7 DEF KeyGood

\* The claim is written to the connection.
LEMMA WriteGood ==
  ASSUME NEW s, NEW c, NEW g, NEW ph, NEW v, KeyGood(s), Side(s, c, g, ph, v), s.sub # Nothing,
         s.sub.phase = "queued"
  PROVE  LET t == [s EXCEPT !.sub.phase = "written"] IN KeyGood(t) /\ Side(t, c, g, ph, v)
<1> DEFINE y == [s.sub EXCEPT !.phase = "written"]
           t == [s EXCEPT !.sub = y]
<1>0. s \in F!KeyType /\ s.sub \in F!SubType
  BY DEF KeyGood
<1>b. y \in F!SubType /\ y # Nothing /\ y.phase = "written" /\ y.unavailable = s.sub.unavailable
        /\ y.reply = s.sub.reply
  BY <1>0, PhaseSub
<1>e. t = [s EXCEPT !.sub.phase = "written"]
  BY <1>0
<1> HIDE DEF y
<1>1. t \in F!KeyType  BY <1>0, <1>b, SubKept
<1>2. Acts(t)  BY <1>0, <1>b DEF KeyGood, Acts
<1>3. Reserves(t)  BY <1>0, <1>b DEF KeyGood, Reserves, Standing
<1>4. Confirms(t)  BY <1>0, <1>b DEF KeyGood, Confirms, Standing, Answered
<1>5. Counts(t)  BY <1>0, <1>b DEF KeyGood, Counts
<1>6. Keeps(t)  BY <1>0 DEF KeyGood, Keeps
<1>7. Side(t, c, g, ph, v)
  <2>1. t.inWindow = s.inWindow /\ t.row = s.row
    BY <1>0
  <2> HIDE DEF t
  <2>2. QED
    BY <2>1, UnseenIf, UnseenSide DEF Answered
<1> HIDE DEF t
<1>8. QED
  BY <1>e, <1>1, <1>2, <1>3, <1>4, <1>5, <1>6, <1>7 DEF KeyGood

\* The server answers, or its answer is lost: from then on the network may have the claim.
LEMMA HandleGood ==
  ASSUME NEW s, NEW c, NEW d, NEW g, NEW ph, NEW v, KeyGood(s), Side(s, c, g, ph, v),
         s.sub # Nothing, s.sub.phase = "written", s.sub.reply = "none",
         NEW reply \in {"ack", "rejected", "refused", "unknown"},
         Sent(d) => Sent(c) \/ reply \in {"ack", "unknown"}
  PROVE  LET t == [s EXCEPT !.sub.reply = reply] IN KeyGood(t) /\ Side(t, d, g, ph, v)
<1> DEFINE y == [s.sub EXCEPT !.reply = reply]
           t == [s EXCEPT !.sub = y]
<1>0. s \in F!KeyType /\ s.sub \in F!SubType
  BY DEF KeyGood
<1>b. y \in F!SubType /\ y # Nothing /\ y.phase = "written" /\ y.unavailable = s.sub.unavailable
        /\ y.reply = reply
  <2>1. reply \in {"none", "ack", "rejected", "refused", "unknown"}
    OBVIOUS
  <2>2. s.sub \in F!SubType /\ s.sub.phase = "written"
    BY <1>0
  <2> DEFINE x == s.sub
  <2> HIDE DEF x
  <2>3. [x EXCEPT !.reply = reply] \in F!SubType /\ [x EXCEPT !.reply = reply] # Nothing
        /\ [x EXCEPT !.reply = reply].phase = x.phase
             /\ [x EXCEPT !.reply = reply].unavailable = x.unavailable
        /\ [x EXCEPT !.reply = reply].reply = reply
    BY <2>1, <2>2, ReplySub DEF x
  <2>4. QED
    BY <2>2, <2>3 DEF x
<1>e. t = [s EXCEPT !.sub.reply = reply]
  BY <1>0
<1>f. Unseen(s, c, ph, v) /\ ~Standing(s)
  BY UnseenIf DEF Answered, KeyGood, Confirms
<1> HIDE DEF y
<1>1. t \in F!KeyType  BY <1>0, <1>b, SubKept
<1>2. Acts(t)  BY <1>0, <1>b DEF KeyGood, Acts
<1>3. Reserves(t)  BY <1>0, <1>b DEF KeyGood, Reserves, Standing
<1>4. Confirms(t)  BY <1>0, <1>b, <1>f DEF KeyGood, Confirms, Standing
<1>5. Counts(t)  BY <1>0, <1>b DEF KeyGood, Counts
<1>6. Keeps(t)  BY <1>0 DEF KeyGood, Keeps
<1>7. Side(t, d, g, ph, v)
  <2>1. /\ t.inWindow = s.inWindow /\ t.row = s.row /\ t.reserved = s.reserved /\ t.capturing = s.capturing
        /\ t.sub = y /\ t.prepared = s.prepared
    BY <1>0
  <2>2. t.reserved /\ ~t.capturing /\ t.sub # Nothing /\ ~t.prepared.confirmed
    BY <1>b, <1>f, <2>1 DEF KeyGood, Acts, Reserves, Confirms
  <2>3. Sent(d) => Answered(t)
    BY <1>b, <1>f, <2>1 DEF Unseen, Answered
  <2> HIDE DEF t
  <2>4. QED
    BY <1>f, <2>1, <2>2, <2>3 DEF Side, Sends, Reads, Unseen
<1> HIDE DEF t
<1>8. QED
  BY <1>e, <1>1, <1>2, <1>3, <1>4, <1>5, <1>6, <1>7 DEF KeyGood

\* The submission is over.
LEMMA AcceptedSide ==
  ASSUME NEW s, NEW c, NEW g, NEW ph, NEW v, KeyGood(s), Side(s, c, g, ph, v), s.sub # Nothing,
         s.sub.phase = "written"
  PROVE  LET t == F!SubmitAccepted(s, ~s.prepared.confirmed) IN KeyGood(t) /\ Side(t, c, g, ph, v)
<1>0. s.prepared \in F!Preparation
  BY DEF KeyGood, Acts
<1>1. (~s.prepared.confirmed) \in BOOLEAN
  OBVIOUS
<1> DEFINE t == F!SubmitAccepted(s, ~s.prepared.confirmed)
<1>2. /\ KeyGood(t) /\ t.sub = Nothing /\ ~t.pending /\ t.job = "none" /\ ~t.proposed
      /\ ~s.prepared.confirmed => t.accepted # Nothing
      /\ t.reserved = s.reserved /\ t.capturing = s.capturing
      /\ t.inWindow = s.inWindow /\ (t.row = s.row \/ s.row = "retired")
  BY <1>1, SubmitAcceptedGood
<1> HIDE DEF t
<1>3. ~s.capturing /\ (s.accepted # Nothing => ~s.prepared.confirmed)
  BY <1>0 DEF KeyGood, Acts, Confirms
<1>4. Sends(t, c, g)
  BY <1>2, <1>3 DEF Side, Sends
<1>5. ph = "reading" => Reads(t, c, v, g)
  BY <1>2, <1>3 DEF Side, Reads
<1>6. t.inWindow => t.row = "gone" /\ Reached(t)
  BY <1>2, <1>3 DEF Side, Reached
<1>7. QED
  BY <1>2, <1>4, <1>5, <1>6 DEF Side, t

\* A submission that failed before the network had the claim.
LEMMA FailedSide ==
  ASSUME NEW s, NEW c, NEW g, NEW ph, NEW v, KeyGood(s), Side(s, c, g, ph, v), s.sub # Nothing, ~Answered(s),
         NEW rejected \in BOOLEAN
  PROVE  /\ s.sub.phase \in {"check", "gate"} =>
              LET t == F!SubmitFailed(s, rejected)
              IN  KeyGood(t) /\ Side(t, c, g, ph, v) /\ (s.accepted # Nothing => t.accepted # Nothing)
         /\ s.sub.phase \in {"queued", "written"} =>
              LET t == F!SubmitFailed([s EXCEPT !.reserved = FALSE], rejected)
              IN  KeyGood(t) /\ Side(t, c, g, ph, v) /\ (s.accepted # Nothing => t.accepted # Nothing)
<1>1. ~s.prepared.confirmed
  BY DEF KeyGood, Acts, Confirms
<1>2. Unseen(s, c, ph, v)
  BY UnseenIf
<1>3. ASSUME s.sub.phase \in {"check", "gate"}
      PROVE  LET t == F!SubmitFailed(s, rejected)
             IN  KeyGood(t) /\ Side(t, c, g, ph, v) /\ (s.accepted # Nothing => t.accepted # Nothing)
  <2> DEFINE t == F!SubmitFailed(IF FALSE THEN [s EXCEPT !.reserved = FALSE] ELSE s, rejected)
  <2>0. FALSE = (s.sub.phase \in {"queued", "written"})
    BY <1>3
  <2>1. KeyGood(t) /\ t.inWindow = s.inWindow /\ (t.row = s.row \/ s.row = "retired")
          /\ (s.accepted # Nothing => t.accepted # Nothing)
    BY <1>1, <2>0, SubmitFailedGood
  <2>2. t = F!SubmitFailed(s, rejected)
    OBVIOUS
  <2> HIDE DEF t
  <2>3. QED
    BY <1>2, <2>1, <2>2, UnseenSide
<1>4. ASSUME s.sub.phase \in {"queued", "written"}
      PROVE  LET t == F!SubmitFailed([s EXCEPT !.reserved = FALSE], rejected)
             IN  KeyGood(t) /\ Side(t, c, g, ph, v) /\ (s.accepted # Nothing => t.accepted # Nothing)
  <2> DEFINE f == [s EXCEPT !.reserved = FALSE]
             t == F!SubmitFailed(IF TRUE THEN f ELSE s, rejected)
  <2>0. TRUE = (s.sub.phase \in {"queued", "written"})
    BY <1>4
  <2>1. KeyGood(t) /\ t.inWindow = s.inWindow /\ (t.row = s.row \/ s.row = "retired")
          /\ (s.accepted # Nothing => t.accepted # Nothing)
    BY <1>1, <2>0, SubmitFailedGood
  <2>2. t = F!SubmitFailed(f, rejected)
    OBVIOUS
  <2> HIDE DEF t, f
  <2>3. KeyGood(t) /\ Side(t, c, g, ph, v)
    BY <1>2, <2>1, UnseenSide
  <2>4. QED
    BY <2>1, <2>2, <2>3 DEF f
<1>5. QED
  BY <1>3, <1>4

\* Everything is told to stop: the engine is off, and the running discovery is void.
LEMMA StoppedGood ==
  ASSUME NEW s, NEW c, NEW g, NEW ph, NEW v, KeyGood(s), Side(s, c, g, ph, v), NEW h, h # "on",
         NEW q, q \notin {"reading", "receipts"}, NEW w, NEW inw \in BOOLEAN, inw => s.inWindow
  PROVE  LET t == [s EXCEPT !.sub = F!Aborted(@), !.inWindow = inw] IN KeyGood(t) /\ Side(t, c, h, q, w)
<1> DEFINE y == F!Aborted(s.sub)
           t == [s EXCEPT !.sub = y, !.inWindow = inw]
<1>0. s \in F!KeyType  BY DEF KeyGood
<1>a. Marks(s.sub, y) /\ (s.sub # Nothing => y.unavailable = s.sub.unavailable)
  BY <1>0, MarksSub
<1> HIDE DEF y
<1>1. t \in F!KeyType  BY <1>0, <1>a DEF F!Rows, Marks
<1>2. Acts(t)  BY <1>0, <1>a DEF KeyGood, Acts, Marks
<1>3. Reserves(t)  BY <1>0, <1>a DEF KeyGood, Reserves, Standing, Marks
<1>4. Confirms(t)  BY <1>0, <1>a DEF KeyGood, Confirms, Standing, Answered, Marks
<1>5. Counts(t)  BY <1>0, <1>a DEF KeyGood, Counts, Marks
<1>6. Keeps(t)  BY <1>0 DEF KeyGood, Keeps
<1>7. Side(t, c, h, q, w)
  <2>1. Sends(t, c, h)
    BY <1>0, <1>a DEF Side, Sends, Answered, Marks
  <2>2. t.inWindow => t.row = "gone"
    BY <1>0 DEF Side
  <2> HIDE DEF t
  <2>3. QED
    BY <2>1, <2>2 DEF Side
<1>8. [s EXCEPT !.sub = F!Aborted(@), !.inWindow = inw] = t
  BY <1>0 DEF y
<1> HIDE DEF t
<1>9. QED
  BY <1>1, <1>2, <1>3, <1>4, <1>5, <1>6, <1>7, <1>8 DEF KeyGood

\* A broadcast of unknown outcome stays reserved.
LEMMA UnknownGood ==
  ASSUME NEW s, NEW c, NEW g, NEW ph, NEW v, KeyGood(s), Side(s, c, g, ph, v),
         s.sub # Nothing, s.sub.reply = "unknown", ~s.prepared.confirmed, NEW h, h # "on",
         NEW q, q \notin {"reading", "receipts"}, NEW w
  PROVE  LET t == [s EXCEPT !.sub = Nothing, !.unknown = TRUE] IN KeyGood(t) /\ Side(t, c, h, q, w)
<1> DEFINE t == [s EXCEPT !.sub = Nothing, !.unknown = TRUE]
<1>0. s \in F!KeyType  BY DEF KeyGood
<1>a. s.reserved /\ ~Standing(s) /\ ~s.capturing
  BY DEF KeyGood, Acts, Reserves, Confirms
<1>1. t \in F!KeyType  BY <1>0 DEF F!Rows, F!SubType
<1>2. Acts(t)  BY <1>0 DEF KeyGood, Acts
<1>3. Reserves(t)  BY <1>0, <1>a DEF KeyGood, Reserves, Standing
<1>4. Confirms(t)  BY <1>0, <1>a DEF KeyGood, Confirms, Standing
<1>5. Counts(t)  BY <1>0 DEF KeyGood, Counts
<1>6. Keeps(t)  BY <1>0 DEF KeyGood, Keeps
<1>7. Side(t, c, h, q, w)
  <2>1. Sends(t, c, h)
    BY <1>0, <1>a DEF Side, Sends
  <2>2. t.inWindow => t.row = "gone"
    BY <1>0 DEF Side
  <2> HIDE DEF t
  <2>3. QED
    BY <2>1, <2>2 DEF Side
<1>8. QED
  BY <1>1, <1>2, <1>3, <1>4, <1>5, <1>6, <1>7 DEF KeyGood

\* A receipt puts the proof back, for a claim that the network does not have.
LEMMA ReopenGood ==
  ASSUME NEW s, NEW c, NEW g, NEW ph, NEW v, KeyGood(s), Side(s, c, g, ph, v), ph # "reading", ~Sent(c),
         s.accepted # Nothing, F!MayReopen(s)
  PROVE  KeyGood(F!ReopenClaim(s)) /\ Side(F!ReopenClaim(s), c, g, ph, v)
<1> DEFINE x == [s.prepared EXCEPT !.revalidate = TRUE]
           row == IF s.row = "aged" THEN "retired" ELSE s.row
           t == [s EXCEPT !.job = "won", !.pending = TRUE, !.counted = s.accepted.counted, !.proposed = TRUE,
                          !.prepared = x, !.reserved = FALSE, !.unknown = FALSE, !.row = row]
<1>0. /\ s \in F!KeyType /\ s.accepted \in F!Acceptance /\ s.prepared \in F!Preparation
      /\ s.sub = Nothing /\ ~s.capturing /\ s.row \in {"available", "retired", "aged"} /\ s.prepared # Nothing
  BY DEF KeyGood, Acts, F!MayReopen, F!HasActive
<1>a. s.accepted.counted \in BOOLEAN
  BY <1>0 DEF F!Acceptance
<1>b. x \in F!Preparation /\ x.counted = s.prepared.counted /\ x.confirmed = s.prepared.confirmed
  BY <1>0 DEF F!Preparation
<1>c. x # Nothing
  BY <1>b
<1>d. row \in {"available", "retired"}
  BY <1>0
<1>e. F!ReopenClaim(s) = t
  <2>1. CASE s.row = "aged"
    BY <1>0, <2>1 DEF F!ReopenClaim, F!Reopened
  <2>2. CASE s.row # "aged"
    BY <1>0, <2>2 DEF F!ReopenClaim, F!Reopened
  <2>3. QED
    BY <2>1, <2>2
<1>f. ~Standing(s) /\ ~s.inWindow
  BY <1>0 DEF KeyGood, Confirms, Side
<1> HIDE DEF x, row
<1>1. t \in F!KeyType  BY <1>0, <1>a, <1>b, <1>d DEF F!Rows
<1>2. Acts(t)  BY <1>0, <1>c, <1>d DEF Acts
<1>3. Reserves(t)  BY <1>0 DEF KeyGood, Reserves
<1>4. Confirms(t)  BY <1>0, <1>b, <1>c, <1>f DEF KeyGood, Confirms, Standing
<1>5. Counts(t)  BY <1>0, <1>b, <1>c DEF KeyGood, Counts
<1>6. Keeps(t)  BY <1>0 DEF Keeps
<1>7. Side(t, c, g, ph, v)
  BY <1>0, <1>f DEF Side, Sends
<1> HIDE DEF t
<1>8. QED
  BY <1>e, <1>1, <1>2, <1>3, <1>4, <1>5, <1>6, <1>7 DEF KeyGood

\* A receipt confirms the claim, also while its submission is on its way back.
LEMMA ConfirmGood ==
  ASSUME NEW s, NEW c, NEW g, NEW v, KeyGood(s), Side(s, c, g, "receipts", v), s.accepted # Nothing, s.inWindow
  PROVE  KeyGood(F!ConfirmClaim(s)) /\ Side(F!ConfirmClaim(s), c, g, "receipts", v)
<1> DEFINE x == [orphaned |-> FALSE, reopened |-> FALSE]
           y == [s.prepared EXCEPT !.confirmed = TRUE]
           z == IF s.accepted.counted THEN s.tally ELSE s.tally + 1
           t == [s EXCEPT !.tally = z, !.counted = TRUE, !.accepted = Nothing, !.completed = TRUE, !.confirmation = x,
                          !.reserved = TRUE, !.everCounted = TRUE, !.unknown = FALSE, !.prepared = y]
<1>0. /\ s \in F!KeyType /\ s.accepted \in F!Acceptance /\ s.prepared \in F!Preparation
      /\ s.row = "gone" /\ s.job = "none" /\ ~s.pending /\ Reached(s)
  BY DEF KeyGood, Acts, Side
<1>a. x \in F!Confirmation /\ ~x.reopened
  BY DEF F!Confirmation
<1>b. x # Nothing
  BY <1>a
<1>c. y \in F!Preparation /\ y.counted = s.prepared.counted /\ y.confirmed
  BY <1>0 DEF F!Preparation
<1>d. y # Nothing
  BY <1>c
<1>e. z \in {0, 1} /\ z \in Nat
  BY <1>0 DEF KeyGood, Counts
<1>f. F!ConfirmClaim(s) = t
  <2>1. CASE s.accepted.counted
    BY <1>0, <2>1 DEF F!ConfirmClaim, F!Confirmed, F!CountedNow
  <2>2. CASE ~s.accepted.counted
    BY <1>0, <2>2 DEF F!ConfirmClaim, F!Confirmed, F!CountedNow
  <2>3. QED
    BY <2>1, <2>2
<1> HIDE DEF x, y, z
<1>1. t \in F!KeyType  BY <1>0, <1>a, <1>c, <1>e DEF F!Rows
<1>2. Acts(t)  BY <1>0, <1>d DEF KeyGood, Acts
<1>3. Reserves(t)  BY <1>0, <1>a, <1>b DEF KeyGood, Reserves, Standing
<1>4. Confirms(t)
  BY <1>0, <1>a, <1>b, <1>c, <1>d DEF KeyGood, Confirms, Standing, Reached, Answered
<1>5. Counts(t)  BY <1>0, <1>e DEF Counts
<1>6. Keeps(t)  BY <1>0, <1>b DEF Keeps
<1>7. Side(t, c, g, "receipts", v)
  <2>1. /\ t.reserved /\ t.capturing = s.capturing /\ t.sub = s.sub /\ t.pending = s.pending /\ t.row = s.row
        /\ t.inWindow = s.inWindow /\ t.proposed = s.proposed
    BY <1>0
  <2> HIDE DEF t
  <2>2. QED
    BY <1>0, <2>1 DEF Side, Sends, Reached, Answered
<1> HIDE DEF t
<1>8. QED
  BY <1>f, <1>1, <1>2, <1>3, <1>4, <1>5, <1>6, <1>7 DEF KeyGood

-----------------------------------------------------------------------------
\* A void discovery will not be committed.
Phase == IF sync.void THEN "void" ELSE sync.phase

Chains  == {"open", "mempool", "mined", "rival", "spent"}
Answers == {"none", "confirmed", "pending", "missing"}
View    == [row : Seen, mined : BOOLEAN]

KeyTypes ==
  /\ st \in [Keys -> F!KeyType] /\ chain \in [Keys -> Chains] /\ engine \in {"off", "paused", "on"}
  /\ sync \in [phase : {"idle", "reading", "receipts"}, view : [Keys -> View] \cup {Nothing}, void : BOOLEAN]
  /\ receipt \in [key : Keys, answer : Answers, current : BOOLEAN] \cup {Nothing}

\* A key by itself, and against the network and the running discovery.
KeyInv(k) == KeyGood(st[k]) /\ Side(st[k], chain[k], engine, Phase, sync.view[k])

\* The receipt that is read is of an acceptance that is still kept; an answer that nothing is
\* known of the claim is out of date only while its submission is not over.
ReceiptInv ==
  receipt # Nothing =>
    /\ sync.phase = "receipts"
    /\ receipt.current => st[receipt.key].accepted # Nothing
    /\ receipt.current /\ receipt.answer = "missing" /\ ~sync.void /\ Sent(chain[receipt.key])
         => st[receipt.key].sub # Nothing

\* The inductive invariant.
ProofInv == KeyTypes /\ (\A k \in Keys : KeyInv(k)) /\ ReceiptInv

\* The wallet starts with nothing.
LEMMA ProofInitInv == F!Init => ProofInv
<1> SUFFICES ASSUME F!Init PROVE ProofInv
  OBVIOUS
<1> DEFINE z == [row |-> "gone", job |-> "none", capturing |-> FALSE, pending |-> FALSE,
        counted |-> FALSE, sub |-> Nothing, accepted |-> Nothing, completed |-> FALSE,
        reserved |-> FALSE, confirmation |-> Nothing, prepared |-> Nothing,
        proposed |-> FALSE, everCounted |-> FALSE, inWindow |-> FALSE, tally |-> 0, unknown |-> FALSE,
        verified |-> FALSE]
<1>1. z \in F!KeyType
  BY DEF F!Rows
<1>2. KeyGood(z)
  BY <1>1 DEF KeyGood, Acts, Reserves, Confirms, Counts, Keeps, Standing
<1>3. \A v : Side(z, "open", "off", "idle", v)
  BY DEF Side, Sends, Sent
<1>4. st = [k \in Keys |-> z]
  BY DEF F!Init
<1> HIDE DEF z
<1>5. KeyTypes
  BY <1>1, <1>4 DEF F!Init, KeyTypes, F!Idle, Chains
<1>6. \A k \in Keys : KeyInv(k)
  BY <1>2, <1>3, <1>4 DEF F!Init, KeyInv, Phase, F!Idle
<1>7. QED
  BY <1>5, <1>6 DEF ProofInv, ReceiptInv, F!Init

-----------------------------------------------------------------------------
\* A step about one key.
LEMMA OneKey ==
  ASSUME ProofInv, NEW k \in Keys, NEW t, NEW d \in Chains, KeyGood(t), Side(t, d, engine, Phase, sync.view[k]),
         st' = [st EXCEPT ![k] = t], chain' = [chain EXCEPT ![k] = d], UNCHANGED <<engine, sync>>
  PROVE  /\ st' \in [Keys -> F!KeyType] /\ chain' \in [Keys -> Chains]
         /\ engine' \in {"off", "paused", "on"}
         /\ sync' \in [phase : {"idle", "reading", "receipts"}, view : [Keys -> View] \cup {Nothing}, void : BOOLEAN]
         /\ \A j \in Keys : KeyInv(j)'
         /\ st'[k] = t /\ chain'[k] = d
         /\ \A j \in Keys \ {k} : st'[j] = st[j] /\ chain'[j] = chain[j]
<1>1. t \in F!KeyType
  BY DEF KeyGood
<1>2. st \in [Keys -> F!KeyType] /\ chain \in [Keys -> Chains]
  BY DEF ProofInv, KeyTypes
<1> HIDE DEF F!KeyType
<1>3. st' \in [Keys -> F!KeyType] /\ chain' \in [Keys -> Chains] /\ st'[k] = t /\ chain'[k] = d
  BY <1>1, <1>2
<1>4. \A j \in Keys \ {k} : st'[j] = st[j] /\ chain'[j] = chain[j]
  BY <1>1, <1>2
<1>5. ASSUME NEW j \in Keys PROVE KeyInv(j)'
  <2>1. CASE j = k
    BY <1>3, <2>1 DEF KeyInv, Phase
  <2>2. CASE j # k
    <3>1. KeyInv(j) /\ st'[j] = st[j] /\ chain'[j] = chain[j]
      BY <1>4, <2>2 DEF ProofInv
    <3>2. QED
      BY <3>1 DEF KeyInv, Phase
  <2>3. QED
    BY <2>1, <2>2
<1>6. QED
  BY <1>3, <1>4, <1>5 DEF ProofInv, KeyTypes

\* A step about one key that no receipt has to know of.
LEMMA OneKeyKeeps ==
  ASSUME ProofInv, NEW k \in Keys, NEW t, NEW d \in Chains, KeyGood(t), Side(t, d, engine, Phase, sync.view[k]),
         st' = [st EXCEPT ![k] = t], chain' = [chain EXCEPT ![k] = d], UNCHANGED <<engine, sync, receipt>>,
         st[k].accepted # Nothing => t.accepted # Nothing,
         Sent(d) => t.sub # Nothing \/ (Sent(chain[k]) /\ st[k].sub = Nothing)
  PROVE  ProofInv'
<1>1. /\ \A j \in Keys : KeyInv(j)'
      /\ st'[k] = t /\ chain'[k] = d
      /\ \A j \in Keys \ {k} : st'[j] = st[j] /\ chain'[j] = chain[j]
  BY OneKey
<1>2. KeyTypes'
  <2>1. /\ st' \in [Keys -> F!KeyType] /\ chain' \in [Keys -> Chains]
        /\ engine' \in {"off", "paused", "on"}
        /\ sync' \in [phase : {"idle", "reading", "receipts"}, view : [Keys -> View] \cup {Nothing}, void : BOOLEAN]
    BY OneKey
  <2> HIDE DEF F!KeyType
  <2>2. QED
    BY <2>1 DEF ProofInv, KeyTypes
<1>3. ReceiptInv'
  <2>1. SUFFICES ASSUME receipt # Nothing PROVE ReceiptInv'
    BY DEF ReceiptInv
  <2>2. receipt.key \in Keys
    BY <2>1 DEF ProofInv, KeyTypes
  <2>3. CASE receipt.key = k
    BY <1>1, <2>1, <2>3 DEF ProofInv, ReceiptInv
  <2>4. CASE receipt.key # k
    <3>1. st'[receipt.key] = st[receipt.key] /\ chain'[receipt.key] = chain[receipt.key]
      BY <1>1, <2>2, <2>4
    <3>2. QED
      BY <2>1, <3>1 DEF ProofInv, ReceiptInv
  <2>5. QED
    BY <2>3, <2>4
<1>4. QED
  BY <1>1, <1>2, <1>3 DEF ProofInv

\* The network's side stays.
LEMMA OneKeyHere ==
  ASSUME ProofInv, NEW k \in Keys, NEW t, KeyGood(t), Side(t, chain[k], engine, Phase, sync.view[k]),
         st' = [st EXCEPT ![k] = t], UNCHANGED <<chain, engine, sync, receipt>>,
         st[k].accepted # Nothing => t.accepted # Nothing,
         Sent(chain[k]) => t.sub # Nothing \/ st[k].sub = Nothing
  PROVE  ProofInv'
<1>1. chain[k] \in Chains /\ chain' = [chain EXCEPT ![k] = chain[k]]
  BY DEF ProofInv, KeyTypes
<1>2. QED
  BY <1>1, OneKeyKeeps

\* prepareClaim.
LEMMA PrepareInv ==
  ASSUME ProofInv, NEW k \in Keys, F!Prepare(k) PROVE ProofInv'
<1> DEFINE s == st[k] c == chain[k] v == sync.view[k]
<1>1. s \in F!KeyType /\ KeyGood(s) /\ Side(s, c, engine, Phase, v)
  BY DEF ProofInv, KeyInv, KeyGood
<1> DEFINE t == [s EXCEPT !.proposed = TRUE, !.prepared =
                 [counted |-> s.everCounted, confirmed |-> FALSE, revalidate |-> FALSE]]
<1>2. KeyGood(t) /\ Side(t, c, engine, Phase, v)
  BY <1>1, PrepareGood DEF F!Prepare
<1>3. st' = [st EXCEPT ![k] = t]
  BY DEF F!Prepare, ProofInv, KeyTypes
<1>4. t.accepted = s.accepted
  BY <1>1
<1>5. ~Sent(c)
  BY <1>1, UnseenIf DEF F!Prepare, Unseen
<1> HIDE DEF t
<1>6. QED
  BY <1>2, <1>3, <1>4, <1>5, OneKeyHere DEF F!Prepare

\* dispatch().
LEMMA DispatchInv ==
  ASSUME ProofInv, NEW k \in Keys, F!Dispatch(k) PROVE ProofInv'
<1> DEFINE s == st[k] c == chain[k] v == sync.view[k]
<1>1. s \in F!KeyType /\ KeyGood(s) /\ Side(s, c, engine, Phase, v)
  BY DEF ProofInv, KeyInv, KeyGood
<1> DEFINE t == [s EXCEPT !.capturing = TRUE]
<1>2. KeyGood(t) /\ Side(t, c, engine, Phase, v)
  BY <1>1, DispatchGood DEF F!Dispatch
<1>3. st' = [st EXCEPT ![k] = t]
  BY DEF F!Dispatch
<1>4. t.accepted = s.accepted
  BY <1>1
<1>5. ~Sent(c)
  BY <1>1, UnseenIf DEF F!Dispatch, Unseen
<1> HIDE DEF t
<1>6. QED
  BY <1>2, <1>3, <1>4, <1>5, OneKeyHere DEF F!Dispatch

\* A connection of the job ends.
LEMMA CaptureEndsInv ==
  ASSUME ProofInv, NEW k \in Keys, NEW found \in BOOLEAN, F!CaptureEnds(k, found) PROVE ProofInv'
<1> DEFINE s == st[k] c == chain[k] v == sync.view[k]
<1>1. s \in F!KeyType /\ KeyGood(s) /\ Side(s, c, engine, Phase, v)
  BY DEF ProofInv, KeyInv, KeyGood
<1> DEFINE n == [s EXCEPT !.capturing = FALSE]
           won == [s EXCEPT !.capturing = FALSE, !.job = "won", !.pending = TRUE, !.counted = s.prepared.counted,
                            !.verified = TRUE]
           taken == found /\ engine = "on" /\ s.job = "queued"
<1>2. n.job = s.job /\ n.prepared = s.prepared /\ n.accepted = s.accepted
  BY <1>1
<1>3. st' = [st EXCEPT ![k] = IF taken
                              THEN [n EXCEPT !.job = "won", !.pending = TRUE, !.counted = n.prepared.counted, !.verified = TRUE]
                              ELSE F!Tidied(n)]
  BY <1>2 DEF F!CaptureEnds
<1>4. [n EXCEPT !.job = "won", !.pending = TRUE, !.counted = n.prepared.counted, !.verified = TRUE] = won
  BY <1>1
<1>5. ~Sent(c)
  BY <1>1, UnseenIf DEF F!CaptureEnds, Unseen
<1>6. UNCHANGED <<chain, engine, sync, receipt>> /\ s.capturing
  BY DEF F!CaptureEnds
<1>7. CASE taken
  <2>1. KeyGood(won) /\ Side(won, c, engine, Phase, v)
    BY <1>1, <1>6, <1>7, CaptureGood
  <2>2. won.accepted = s.accepted
    BY <1>1
  <2> HIDE DEF won, n
  <2>3. QED
    BY <1>3, <1>4, <1>5, <1>6, <1>7, <2>1, <2>2, OneKeyHere
<1>8. CASE ~taken
  <2> DEFINE t == F!Tidied(n)
  <2>1. KeyGood(t) /\ Side(t, c, engine, Phase, v)
    BY <1>1, <1>6, CaptureOver
  <2>2. t.accepted = s.accepted
    <3> HIDE DEF n
    <3>1. n \in F!KeyType
      BY <1>1 DEF n, F!Rows
    <3>2. QED
      BY <1>2, <3>1 DEF F!Tidied
  <2> HIDE DEF t
  <2>3. st' = [st EXCEPT ![k] = t]
    BY <1>3, <1>8 DEF t
  <2>4. QED
    BY <1>5, <1>6, <2>1, <2>2, <2>3, OneKeyHere
<1>9. QED
  BY <1>7, <1>8

\* submitVerified().
LEMMA SubmitVerifiedInv ==
  ASSUME ProofInv, NEW k \in Keys, F!SubmitVerified(k) PROVE ProofInv'
<1> DEFINE s == st[k] c == chain[k] v == sync.view[k]
<1>1. s \in F!KeyType /\ KeyGood(s) /\ Side(s, c, engine, Phase, v)
  BY DEF ProofInv, KeyInv, KeyGood
<1> DEFINE phase == IF s.prepared.revalidate THEN "check" ELSE "gate"
           t == [s EXCEPT !.sub = [phase |-> phase, aborted |-> FALSE, unavailable |-> FALSE, invalid |-> "unset",
                                   reply |-> "none"]]
<1>2. phase \in {"check", "gate"}
  OBVIOUS
<1>3. st' = [st EXCEPT ![k] = t]
  BY DEF F!SubmitVerified
<1> HIDE DEF phase
<1>4. engine = "on" /\ s.sub = Nothing /\ s.pending /\ UNCHANGED <<chain, engine, sync, receipt>>
  BY DEF F!SubmitVerified
<1>5. KeyGood(t) /\ Side(t, c, engine, Phase, v)
  BY <1>1, <1>2, <1>4, SubmitGood
<1>6. t.accepted = s.accepted
  BY <1>1
<1>7. ~Sent(c)
  BY <1>1, <1>4, UnseenIf DEF Unseen
<1> HIDE DEF t
<1>8. QED
  BY <1>3, <1>4, <1>5, <1>6, <1>7, OneKeyHere

\* The retained proof is checked again.
LEMMA CheckClaimInv ==
  ASSUME ProofInv, NEW k \in Keys, F!CheckClaim(k) PROVE ProofInv'
<1> DEFINE s == st[k] c == chain[k] v == sync.view[k]
<1>1. s \in F!KeyType /\ KeyGood(s) /\ Side(s, c, engine, Phase, v)
  BY DEF ProofInv, KeyInv, KeyGood
<1> DEFINE t == [s EXCEPT !.sub.phase = "gate", !.prepared.revalidate = FALSE]
           f == F!SubmitFailed(s, FALSE)
           fails == s.sub.aborted \/ ~F!Enabled \/ ~F!Usable(s)
<1>2. s.sub # Nothing /\ s.sub.phase = "check" /\ UNCHANGED <<chain, engine, sync, receipt>>
  BY DEF F!CheckClaim
<1>3. ~Answered(s)
  BY <1>2 DEF Answered
<1>4. ~Sent(c)
  BY <1>1, <1>2, <1>3, UnseenIf DEF Unseen
<1>5. CASE fails
  <2>1. st' = [st EXCEPT ![k] = f]
    BY <1>5 DEF F!CheckClaim
  <2>2. KeyGood(f) /\ Side(f, c, engine, Phase, v) /\ (s.accepted # Nothing => f.accepted # Nothing)
    BY <1>1, <1>2, <1>3, FailedSide
  <2> HIDE DEF f
  <2>3. QED
    BY <1>2, <1>4, <2>1, <2>2, OneKeyHere
<1>6. CASE ~fails
  <2>1. st' = [st EXCEPT ![k] = t]
    BY <1>6 DEF F!CheckClaim
  <2>2. KeyGood(t) /\ Side(t, c, engine, Phase, v)
    BY <1>1, <1>2, GateGood
  <2>3. t.accepted = s.accepted
    BY <1>1
  <2> HIDE DEF t
  <2>4. QED
    BY <1>2, <1>4, <2>1, <2>2, <2>3, OneKeyHere
<1>7. QED
  BY <1>5, <1>6

\* The catalog gate is open: the claim is reserved.
LEMMA ReserveClaimInv ==
  ASSUME ProofInv, NEW k \in Keys, F!ReserveClaim(k) PROVE ProofInv'
<1> DEFINE s == st[k] c == chain[k] v == sync.view[k]
<1>1. s \in F!KeyType /\ KeyGood(s) /\ Side(s, c, engine, Phase, v)
  BY DEF ProofInv, KeyInv, KeyGood
<1> DEFINE t == [s EXCEPT !.sub.phase = "queued", !.reserved = TRUE]
           f == F!SubmitFailed(s, FALSE)
           fails == s.sub.aborted \/ ~F!Enabled \/ ~F!Usable(s) \/ s.reserved
<1>2. s.sub # Nothing /\ s.sub.phase = "gate" /\ UNCHANGED <<chain, engine, sync, receipt>>
  BY DEF F!ReserveClaim
<1>3. ~Answered(s)
  BY <1>2 DEF Answered
<1>4. ~Sent(c)
  BY <1>1, <1>2, <1>3, UnseenIf DEF Unseen
<1>5. CASE fails
  <2>1. st' = [st EXCEPT ![k] = f]
    BY <1>5 DEF F!ReserveClaim
  <2>2. KeyGood(f) /\ Side(f, c, engine, Phase, v) /\ (s.accepted # Nothing => f.accepted # Nothing)
    BY <1>1, <1>2, <1>3, FailedSide
  <2> HIDE DEF f
  <2>3. QED
    BY <1>2, <1>4, <2>1, <2>2, OneKeyHere
<1>6. CASE ~fails
  <2>1. st' = [st EXCEPT ![k] = t]
    BY <1>6 DEF F!ReserveClaim
  <2>2. KeyGood(t) /\ Side(t, c, engine, Phase, v)
    BY <1>1, <1>2, <1>6, QueueGood
  <2>3. t.accepted = s.accepted
    BY <1>1
  <2> HIDE DEF t
  <2>4. QED
    BY <1>2, <1>4, <2>1, <2>2, <2>3, OneKeyHere
<1>7. QED
  BY <1>5, <1>6

\* The submission ends before the claim is sent.
LEMMA NotSentInv ==
  ASSUME ProofInv, NEW k \in Keys, F!NotSent(k) PROVE ProofInv'
<1> DEFINE s == st[k] c == chain[k] v == sync.view[k]
<1>1. s \in F!KeyType /\ KeyGood(s) /\ Side(s, c, engine, Phase, v)
  BY DEF ProofInv, KeyInv, KeyGood
<1> DEFINE f == F!SubmitFailed([s EXCEPT !.reserved = FALSE], FALSE)
<1>2. s.sub # Nothing /\ s.sub.phase = "queued" /\ UNCHANGED <<chain, engine, sync>>
  BY DEF F!NotSent
<1>3. ~Answered(s)
  BY <1>2 DEF Answered
<1>4. ~Sent(c)
  BY <1>1, <1>2, <1>3, UnseenIf DEF Unseen
<1>5. ~s.prepared.confirmed
  BY <1>1, <1>2, <1>3 DEF KeyGood, Acts, Confirms
<1>6. st' = [st EXCEPT ![k] = f] /\ receipt' = receipt
  BY <1>5 DEF F!NotSent, F!Superseded
<1>7. KeyGood(f) /\ Side(f, c, engine, Phase, v) /\ (s.accepted # Nothing => f.accepted # Nothing)
  BY <1>1, <1>2, <1>3, FailedSide
<1> HIDE DEF f
<1>8. QED
  BY <1>2, <1>4, <1>6, <1>7, OneKeyHere

\* The client writes the claim.
LEMMA WriteClaimInv ==
  ASSUME ProofInv, NEW k \in Keys, F!WriteClaim(k) PROVE ProofInv'
<1> DEFINE s == st[k] c == chain[k] v == sync.view[k]
<1>1. s \in F!KeyType /\ KeyGood(s) /\ Side(s, c, engine, Phase, v)
  BY DEF ProofInv, KeyInv, KeyGood
<1> DEFINE t == [s EXCEPT !.sub.phase = "written"]
<1>2. s.sub # Nothing /\ s.sub.phase = "queued" /\ UNCHANGED <<chain, engine, sync, receipt>>
  BY DEF F!WriteClaim
<1>3. KeyGood(t) /\ Side(t, c, engine, Phase, v)
  BY <1>1, <1>2, WriteGood
<1>4. st' = [st EXCEPT ![k] = t]
  BY DEF F!WriteClaim
<1>5. t.accepted = s.accepted
  BY <1>1
<1>6. ~Sent(c)
  BY <1>1, <1>2, UnseenIf DEF Unseen, Answered
<1> HIDE DEF t
<1>7. QED
  BY <1>2, <1>3, <1>4, <1>5, <1>6, OneKeyHere

\* The server handles the claim, and answers or not.
LEMMA ServerHandlesInv ==
  ASSUME ProofInv, NEW k \in Keys, NEW r \in {"ack", "rejected", "refused", "unknown"}, F!ServerHandles(k, r)
  PROVE  ProofInv'
<1> DEFINE s == st[k] c == chain[k] v == sync.view[k]
<1>1. s \in F!KeyType /\ KeyGood(s) /\ Side(s, c, engine, Phase, v)
  BY DEF ProofInv, KeyInv, KeyGood
<1> DEFINE t == [s EXCEPT !.sub.reply = r]
<1>2. /\ s.sub # Nothing /\ s.sub.phase = "written" /\ s.sub.reply = "none"
      /\ st' = [st EXCEPT ![k] = t] /\ UNCHANGED <<engine, sync, receipt>>
  BY DEF F!ServerHandles
<1>3. PICK d \in Chains : chain' = [chain EXCEPT ![k] = d] /\ (Sent(d) => Sent(c) \/ r \in {"ack", "unknown"})
  <2>1. chain \in [Keys -> Chains]
    BY DEF ProofInv, KeyTypes
  <2>2. CASE chain' = chain
    <3>1. chain' = [chain EXCEPT ![k] = c] /\ c \in Chains
      BY <2>1, <2>2
    <3>2. QED
      BY <3>1
  <2>3. CASE r \in {"ack", "unknown"} /\ chain' = [chain EXCEPT ![k] = "mempool"]
    <3>1. "mempool" \in Chains
      BY DEF Chains
    <3>2. QED
      BY <2>3, <3>1
  <2>4. QED
    BY <2>2, <2>3 DEF F!ServerHandles
<1>4. KeyGood(t) /\ Side(t, d, engine, Phase, v)
  BY <1>1, <1>2, <1>3, HandleGood
<1>5. t.accepted = s.accepted /\ t.sub # Nothing
  <2>1. s.sub \in F!SubType
    BY <1>1, <1>2
  <2>2. r \in {"none", "ack", "rejected", "refused", "unknown"}
    OBVIOUS
  <2>3. [s.sub EXCEPT !.reply = r] # Nothing
    BY <2>1, <2>2, ReplySub
  <2>4. QED
    BY <1>1, <2>3
<1> HIDE DEF t
<1>6. QED
  BY <1>2, <1>3, <1>4, <1>5, OneKeyKeeps

\* The step's outcome replaces the acceptance that a receipt may be reading.
LEMMA OneKeySuperseded ==
  ASSUME ProofInv, NEW k \in Keys, NEW t, KeyGood(t), Side(t, chain[k], engine, Phase, sync.view[k]),
         st' = [st EXCEPT ![k] = t], UNCHANGED <<chain, engine, sync>>,
         NEW replaced \in BOOLEAN, receipt' = F!Superseded(k, replaced),
         replaced \/ ((st[k].accepted # Nothing => t.accepted # Nothing) /\ ~Sent(chain[k]))
  PROVE  ProofInv'
<1>1. CASE receipt = Nothing \/ receipt.key # k \/ ~replaced
  <2>1. receipt' = receipt
    BY <1>1 DEF F!Superseded
  <2>2. chain[k] \in Chains /\ chain' = [chain EXCEPT ![k] = chain[k]]
    BY DEF ProofInv, KeyTypes
  <2>3. /\ \A j \in Keys : KeyInv(j)'
        /\ st'[k] = t /\ chain'[k] = chain[k]
        /\ \A j \in Keys \ {k} : st'[j] = st[j] /\ chain'[j] = chain[j]
    BY <2>2, OneKey
  <2>4. KeyTypes'
    <3>1. /\ st' \in [Keys -> F!KeyType] /\ chain' \in [Keys -> Chains]
          /\ engine' \in {"off", "paused", "on"}
          /\ sync' \in [phase : {"idle", "reading", "receipts"}, view : [Keys -> View] \cup {Nothing}, void : BOOLEAN]
      BY <2>2, OneKey
    <3> HIDE DEF F!KeyType
    <3>2. QED
      BY <2>1, <3>1 DEF ProofInv, KeyTypes
  <2>5. ReceiptInv'
    <3>1. SUFFICES ASSUME receipt # Nothing PROVE ReceiptInv'
      BY <2>1 DEF ReceiptInv
    <3>2. receipt.key \in Keys
      BY <3>1 DEF ProofInv, KeyTypes
    <3>3. CASE receipt.key = k
      BY <1>1, <2>1, <2>3, <3>1, <3>3 DEF ProofInv, ReceiptInv
    <3>4. CASE receipt.key # k
      <4>1. st'[receipt.key] = st[receipt.key] /\ chain'[receipt.key] = chain[receipt.key]
        BY <2>3, <3>2, <3>4
      <4>2. QED
        BY <2>1, <3>1, <4>1 DEF ProofInv, ReceiptInv
    <3>5. QED
      BY <3>3, <3>4
  <2>6. QED
    BY <2>3, <2>4, <2>5 DEF ProofInv
<1>2. CASE ~(receipt = Nothing \/ receipt.key # k \/ ~replaced)
  <2>1. receipt' = [receipt EXCEPT !.current = FALSE]
    BY <1>2 DEF F!Superseded
  <2>2. chain[k] \in Chains /\ chain' = [chain EXCEPT ![k] = chain[k]]
    BY DEF ProofInv, KeyTypes
  <2>3. \A j \in Keys : KeyInv(j)'
    BY <2>2, OneKey
  <2>4. receipt' \in [key : Keys, answer : Answers, current : BOOLEAN] /\ ~receipt'.current
    BY <1>2, <2>1 DEF ProofInv, KeyTypes
  <2>5. KeyTypes'
    <3>1. /\ st' \in [Keys -> F!KeyType] /\ chain' \in [Keys -> Chains]
          /\ engine' \in {"off", "paused", "on"}
          /\ sync' \in [phase : {"idle", "reading", "receipts"}, view : [Keys -> View] \cup {Nothing}, void : BOOLEAN]
      BY <2>2, OneKey
    <3> HIDE DEF F!KeyType
    <3>2. QED
      BY <2>4, <3>1 DEF KeyTypes
  <2>6. ReceiptInv'
    BY <1>2, <2>4 DEF ProofInv, ReceiptInv
  <2>7. QED
    BY <2>3, <2>5, <2>6 DEF ProofInv
<1>3. QED
  BY <1>1, <1>2

\* The submission returns with its answer.
LEMMA SubmitReturnsInv ==
  ASSUME ProofInv, NEW k \in Keys, F!SubmitReturns(k) PROVE ProofInv'
<1> DEFINE s == st[k] c == chain[k] v == sync.view[k]
<1>1. s \in F!KeyType /\ KeyGood(s) /\ Side(s, c, engine, Phase, v)
  BY DEF ProofInv, KeyInv, KeyGood
<1> DEFINE r == s.sub.reply
           done == r = "ack" \/ s.prepared.confirmed
           replaced == r # "refused" \/ s.prepared.confirmed
<1>2. s.sub # Nothing /\ r # "none" /\ (done \/ r # "unknown") /\ UNCHANGED <<chain, engine, sync>>
  BY DEF F!SubmitReturns
<1>3. s.sub.phase = "written" /\ r \in {"none", "ack", "rejected", "refused", "unknown"}
  BY <1>1, <1>2 DEF KeyGood, Acts, F!SubType
<1>4. replaced \in BOOLEAN /\ receipt' = F!Superseded(k, replaced)
  BY DEF F!SubmitReturns
<1>5. CASE done
  <2> DEFINE t == F!SubmitAccepted(s, ~s.prepared.confirmed)
  <2>1. st' = [st EXCEPT ![k] = t]
    BY <1>5 DEF F!SubmitReturns
  <2>2. KeyGood(t) /\ Side(t, c, engine, Phase, v)
    BY <1>1, <1>2, <1>3, AcceptedSide
  <2>3. replaced
    BY <1>5
  <2> HIDE DEF t, replaced
  <2>4. QED
    BY <1>2, <1>4, <2>1, <2>2, <2>3, OneKeySuperseded
<1>6. CASE ~done
  <2> DEFINE t == F!SubmitFailed([s EXCEPT !.reserved = FALSE], r = "rejected")
  <2>1. st' = [st EXCEPT ![k] = t]
    BY <1>6 DEF F!SubmitReturns, F!Freed
  <2>2. ~Answered(s)
    BY <1>2, <1>6 DEF Answered
  <2>3. (r = "rejected") \in BOOLEAN
    OBVIOUS
  <2>4. KeyGood(t) /\ Side(t, c, engine, Phase, v) /\ (s.accepted # Nothing => t.accepted # Nothing)
    BY <1>1, <1>2, <1>3, <2>2, <2>3, FailedSide
  <2>5. ~Sent(c)
    BY <1>1, <1>2, <2>2, UnseenIf DEF Unseen
  <2> HIDE DEF t, replaced
  <2>6. QED
    BY <1>2, <1>4, <2>1, <2>4, <2>5, OneKeySuperseded
<1>7. QED
  BY <1>5, <1>6

\* A step that switches the engine off and voids the discovery; what it does to each key is f.
LEMMA Voided ==
  ASSUME ProofInv, sync' = [sync EXCEPT !.void = (sync.phase # "idle")]
 
  PROVE  /\ sync' \in [phase : {"idle", "reading", "receipts"}, view : [Keys -> View] \cup {Nothing}, void : BOOLEAN]
         /\ sync'.phase = sync.phase /\ Phase' \notin {"reading", "receipts"}
              /\ (sync.phase # "idle" => sync'.void)
<1>1. sync \in [phase : {"idle", "reading", "receipts"}, view : [Keys -> View] \cup {Nothing}, void : BOOLEAN]
  BY DEF ProofInv, KeyTypes
<1>2. sync'.phase = sync.phase /\ sync'.void = (sync.phase # "idle")
  BY <1>1
<1>3. (sync.phase # "idle") \in BOOLEAN
  OBVIOUS
<1>4. QED
  BY <1>1, <1>2, <1>3 DEF Phase

\* The engine is off: each key on its own.
LEMMA HaltedInv ==
  ASSUME ProofInv, sync' = [sync EXCEPT !.void = (sync.phase # "idle")], engine' = "off", UNCHANGED <<chain,
         receipt>>,
         NEW H, st' = [j \in Keys |-> H[j]],
         \A j \in Keys : /\ KeyGood(H[j])
                         /\ \A q, w : q \notin {"reading", "receipts"} => Side(H[j], chain[j], "off", q, w)
                         /\ H[j].accepted = st[j].accepted
  PROVE  ProofInv'
<1>1.
           /\ sync' \in [phase : {"idle", "reading", "receipts"}, view : [Keys -> View] \cup {Nothing}, void : BOOLEAN]
      /\ sync'.phase = sync.phase /\ Phase' \notin {"reading", "receipts"}
           /\ (sync.phase # "idle" => sync'.void)
  BY Voided
<1>2. \A j \in Keys : st'[j] = H[j] /\ H[j] \in F!KeyType
  BY DEF KeyGood
<1>3. KeyTypes'
  <2> HIDE DEF F!KeyType
  <2>1. QED
    BY <1>1, <1>2 DEF ProofInv, KeyTypes
<1>4. \A j \in Keys : KeyInv(j)'
  BY <1>1, <1>2 DEF KeyInv
<1>5. ReceiptInv'
  BY <1>1, <1>2 DEF ProofInv, KeyTypes, ReceiptInv
<1>6. QED
  BY <1>3, <1>4, <1>5 DEF ProofInv

\* What stopping does to a key.
LEMMA StoppedKey ==
  ASSUME ProofInv, NEW k \in Keys, NEW inw \in BOOLEAN, inw => st[k].inWindow
  PROVE  LET t == [st[k] EXCEPT !.sub = F!Aborted(@), !.inWindow = inw]
         IN  /\ KeyGood(t) /\ t.accepted = st[k].accepted
             /\ \A q, w : q \notin {"reading", "receipts"} => Side(t, chain[k], "off", q, w)
<1> DEFINE s == st[k] t == [s EXCEPT !.sub = F!Aborted(@), !.inWindow = inw]
<1>1. s \in F!KeyType /\ KeyGood(s) /\ Side(s, chain[k], engine, Phase, sync.view[k])
  BY DEF ProofInv, KeyInv, KeyGood
<1>2. t.accepted = s.accepted
  BY <1>1
<1>3. ASSUME NEW q, NEW w, q \notin {"reading", "receipts"} PROVE KeyGood(t) /\ Side(t, chain[k], "off", q, w)
  BY <1>1, <1>3, StoppedGood
<1> HIDE DEF t
<1>4. KeyGood(t)
  <2>1. "idle" \notin {"reading", "receipts"}
    OBVIOUS
  <2>2. QED
    BY <1>3, <2>1
<1>5. QED
  BY <1>2, <1>3, <1>4 DEF t

\* stopClaims().
LEMMA StopClaimsInv ==
  ASSUME ProofInv, F!StopClaims PROVE ProofInv'
<1> DEFINE H == [j \in Keys |-> [st[j] EXCEPT !.sub = F!Aborted(@), !.inWindow = st[j].inWindow]]
<1>1. \A j \in Keys : st[j] \in F!KeyType
  BY DEF ProofInv, KeyInv, KeyGood
<1>2. st' = [j \in Keys |-> H[j]]
  <2>1. \A j \in Keys : [st[j] EXCEPT !.sub = F!Aborted(@)] = H[j]
    BY <1>1
  <2> HIDE DEF H
  <2>2. QED
    BY <2>1 DEF F!StopClaims, F!Stopped
<1>3. ASSUME NEW j \in Keys
      PROVE  /\ KeyGood(H[j]) /\ H[j].accepted = st[j].accepted
             /\ \A q, w : q \notin {"reading", "receipts"} => Side(H[j], chain[j], "off", q, w)
  <2>1. st[j].inWindow \in BOOLEAN
    BY <1>1
  <2>2. QED
    BY <2>1, StoppedKey
<1> HIDE DEF H
<1>4. QED
  BY <1>2, <1>3, HaltedInv DEF F!StopClaims

\* The connection is lost.
LEMMA DisconnectedInv ==
  ASSUME ProofInv, F!Disconnected PROVE ProofInv'
<1> DEFINE H == [j \in Keys |-> [st[j] EXCEPT !.sub = F!Aborted(@), !.inWindow = FALSE]]
<1>1. \A j \in Keys : st[j] \in F!KeyType
  BY DEF ProofInv, KeyInv, KeyGood
<1>2. st' = [j \in Keys |-> H[j]]
  <2>1. \A j \in Keys : [F!Stopped[j] EXCEPT !.inWindow = FALSE] = H[j]
    BY <1>1 DEF F!Stopped
  <2> HIDE DEF H
  <2>2. QED
    BY <2>1 DEF F!Disconnected
<1>3. ASSUME NEW j \in Keys
      PROVE  /\ KeyGood(H[j]) /\ H[j].accepted = st[j].accepted
             /\ \A q, w : q \notin {"reading", "receipts"} => Side(H[j], chain[j], "off", q, w)
  BY StoppedKey
<1> HIDE DEF H
<1>4. QED
  BY <1>2, <1>3, HaltedInv DEF F!Disconnected

\* A broadcast of unknown outcome stops the engine.
LEMMA OutcomeUnknownInv ==
  ASSUME ProofInv, NEW k \in Keys, F!OutcomeUnknown(k) PROVE ProofInv'
<1> DEFINE s == st[k] c == chain[k] v == sync.view[k]
<1>1. s \in F!KeyType /\ KeyGood(s) /\ Side(s, c, engine, Phase, v)
  BY DEF ProofInv, KeyInv, KeyGood
<1> DEFINE H == [j \in Keys |-> IF j = k THEN [s EXCEPT !.sub = Nothing, !.unknown = TRUE]
                                           ELSE [st[j] EXCEPT !.sub = F!Aborted(@), !.inWindow = st[j].inWindow]]
<1>2. \A j \in Keys : st[j] \in F!KeyType
  BY DEF ProofInv, KeyInv, KeyGood
<1>3. st' = [j \in Keys |-> H[j]]
  <2> DEFINE S == [j \in Keys |-> [st[j] EXCEPT !.sub = F!Aborted(@)]]
  <2>1. S[k] \in [row : F!Rows, job : {"none", "queued", "won"}, capturing : BOOLEAN, pending : BOOLEAN,
                  counted : BOOLEAN, sub : {F!Aborted(s.sub)}, accepted : F!Acceptance \cup {Nothing},
                  completed : BOOLEAN, reserved : BOOLEAN, confirmation : F!Confirmation \cup {Nothing},
                  prepared : F!Preparation \cup {Nothing}, proposed : BOOLEAN, everCounted : BOOLEAN,
                  inWindow : BOOLEAN, tally : Nat, unknown : BOOLEAN, verified : BOOLEAN]
    BY <1>1 DEF F!Rows
  <2>2. [S[k] EXCEPT !.sub = Nothing, !.unknown = TRUE] = H[k]
    BY <1>1
  <2>3. \A j \in Keys \ {k} : S[j] = H[j]
    BY <1>2
  <2>4. st' = [S EXCEPT ![k].sub = Nothing, ![k].unknown = TRUE]
    BY DEF F!OutcomeUnknown, F!Stopped
  <2>5. st' = [S EXCEPT ![k] = [S[k] EXCEPT !.sub = Nothing, !.unknown = TRUE]]
    BY <2>4
  <2>6. S = [j \in Keys |-> S[j]]
    OBVIOUS
  <2> HIDE DEF S, H
  <2>7. QED
    BY <2>2, <2>3, <2>5, <2>6
<1>4. ASSUME NEW j \in Keys
      PROVE  /\ KeyGood(H[j]) /\ H[j].accepted = st[j].accepted
             /\ \A q, w : q \notin {"reading", "receipts"} => Side(H[j], chain[j], "off", q, w)
  <2>1. CASE j = k
    <3> DEFINE t == [s EXCEPT !.sub = Nothing, !.unknown = TRUE]
    <3>1. ASSUME NEW q, NEW w, q \notin {"reading", "receipts"} PROVE KeyGood(t) /\ Side(t, c, "off", q, w)
      BY <1>1, <3>1, UnknownGood DEF F!OutcomeUnknown
    <3>2. t.accepted = s.accepted
      BY <1>1
    <3>3. H[j] = t
      BY <2>1
    <3> HIDE DEF t, H
    <3>4. KeyGood(t)
      <4>1. "idle" \notin {"reading", "receipts"}
        OBVIOUS
      <4>2. QED
        BY <3>1, <4>1
    <3>5. QED
      BY <2>1, <3>1, <3>2, <3>3, <3>4
  <2>2. CASE j # k
    <3>1. st[j].inWindow \in BOOLEAN
      BY <1>2
    <3> DEFINE t == [st[j] EXCEPT !.sub = F!Aborted(@), !.inWindow = st[j].inWindow]
    <3>2. H[j] = t
      BY <2>2
    <3>3. /\ KeyGood(t) /\ t.accepted = st[j].accepted
          /\ \A q, w : q \notin {"reading", "receipts"} => Side(t, chain[j], "off", q, w)
      BY <3>1, StoppedKey
    <3> HIDE DEF H, t
    <3>4. QED
      BY <3>2, <3>3
  <2>3. QED
    BY <2>1, <2>2
<1> HIDE DEF H
<1>5. QED
  BY <1>3, <1>4, HaltedInv DEF F!OutcomeUnknown

\* Steps that leave every key alone.
LEMMA SideElsewhere ==
  ASSUME NEW s, NEW c, NEW g, NEW ph, NEW v, Side(s, c, g, ph, v), NEW d, Sent(d) => Sent(c),
         NEW h, h = g \/ h # "on", NEW q, NEW w,
         (q = ph /\ w = v) \/ q \notin {"reading", "receipts"}
  PROVE  Side(s, d, h, q, w)
BY DEF Side, Sends, Reads

\* The engine is started.
LEMMA StartInv ==
  ASSUME ProofInv, F!Start PROVE ProofInv'
<1>1. KeyTypes'
  BY DEF ProofInv, KeyTypes, F!Start
<1>2. ASSUME NEW j \in Keys PROVE KeyInv(j)'
  BY SideElsewhere DEF ProofInv, KeyInv, Phase, F!Start
<1>3. QED
  BY <1>1, <1>2 DEF ProofInv, ReceiptInv, F!Start

\* The server announces another catalog.
LEMMA ResetNoticeInv ==
  ASSUME ProofInv, F!ResetNotice PROVE ProofInv'
<1>1.
           /\ sync' \in [phase : {"idle", "reading", "receipts"}, view : [Keys -> View] \cup {Nothing}, void : BOOLEAN]
      /\ sync'.phase = sync.phase /\ Phase' \notin {"reading", "receipts"}
           /\ (sync.phase # "idle" => sync'.void)
  BY Voided DEF F!ResetNotice
<1>2. UNCHANGED <<st, chain, engine, receipt>>
  BY DEF F!ResetNotice
<1>3. KeyTypes'
  BY <1>1, <1>2 DEF ProofInv, KeyTypes
<1>4. ASSUME NEW j \in Keys PROVE KeyInv(j)'
  BY <1>1, <1>2, SideElsewhere DEF ProofInv, KeyInv
<1>5. ReceiptInv'
  BY <1>1, <1>2 DEF ProofInv, ReceiptInv
<1>6. QED
  BY <1>3, <1>4, <1>5 DEF ProofInv

\* The network moves on.
LEMMA ChainMovesInv ==
  ASSUME ProofInv, NEW k \in Keys, F!ChainMoves(k) PROVE ProofInv'
<1>1. chain \in [Keys -> Chains] /\ UNCHANGED <<st, engine, sync, receipt>>
  BY DEF ProofInv, KeyTypes, F!ChainMoves
<1>2. PICK d \in F!Moves[chain[k]] : chain' = [chain EXCEPT ![k] = d]
  BY DEF F!ChainMoves
<1>3. d \in Chains /\ (Sent(d) => Sent(chain[k]))
  BY <1>1, <1>2 DEF F!Moves, Chains, Sent
<1>4. chain' \in [Keys -> Chains] /\ \A j \in Keys : Sent(chain'[j]) => Sent(chain[j])
  BY <1>1, <1>2, <1>3
<1>5. KeyTypes'
  BY <1>1, <1>4 DEF ProofInv, KeyTypes
<1>6. ASSUME NEW j \in Keys PROVE KeyInv(j)'
  BY <1>1, <1>4, SideElsewhere DEF ProofInv, KeyInv, Phase
<1>7. ReceiptInv'
  BY <1>1, <1>4 DEF ProofInv, KeyTypes, ReceiptInv
<1>8. QED
  BY <1>5, <1>6, <1>7 DEF ProofInv

\* What is read at once is true.
LEMMA ReadsFirst ==
  ASSUME ProofInv, NEW k \in Keys, NEW row \in F!Views(k)
  PROVE  Side(st[k], chain[k], engine, "reading", [row |-> row, mined |-> chain[k] = "mined"])
<1> DEFINE s == st[k] c == chain[k]
           x == [row |-> row, mined |-> c = "mined"]
<1>1. KeyGood(s) /\ Side(s, c, engine, Phase, sync.view[k])
  BY DEF ProofInv, KeyInv
<1>2. x \in [row : Seen, mined : BOOLEAN] /\ x.row = row /\ (x.mined <=> c = "mined")
  BY DEF F!Views, Seen
<1>3. Sent(c) => row \in {"own", "gone"} /\ (c = "mined" => row = "gone")
  BY DEF F!Views, Sent
<1>4. c = "mined" => Sent(c)
  BY DEF Sent
<1> HIDE DEF x
<1>5. Reads(s, c, x, engine)
  BY <1>1, <1>2, <1>3, <1>4 DEF Reads, Side, Sends, KeyGood, Acts
<1>6. Side(s, c, engine, "reading", x)
  BY <1>1, <1>5 DEF Side
<1>7. QED
  BY <1>6 DEF x

\* The discovery reads its snapshot.
LEMMA SyncReadsInv ==
  ASSUME ProofInv, F!SyncReads PROVE ProofInv'
<1>1. PICK view \in [Keys -> F!Rows] :
        /\ \A k \in Keys : view[k] \in F!Views(k)
        /\ sync' = [phase |-> "reading", void |-> FALSE,
                    view |-> [k \in Keys |-> [row |-> view[k], mined |-> chain[k] = "mined"]]]
  BY DEF F!SyncReads
<1> DEFINE w == [k \in Keys |-> [row |-> view[k], mined |-> chain[k] = "mined"]]
<1>2. ASSUME NEW k \in Keys PROVE Side(st[k], chain[k], engine, "reading", w[k]) /\ w[k] \in View
  <2>1. view[k] \in F!Views(k)
    BY <1>1
  <2>2. view[k] \in Seen
    BY <2>1 DEF F!Views, Seen
  <2>3. QED
    BY <2>1, <2>2, ReadsFirst DEF View
<1> HIDE DEF w
<1>3. w \in [Keys -> View]
  BY <1>2 DEF w
<1>4. sync' = [phase |-> "reading", void |-> FALSE, view |-> w] /\ UNCHANGED <<st, chain, engine, receipt>>
  BY <1>1 DEF w, F!SyncReads
<1>5. KeyTypes'
  BY <1>3, <1>4 DEF ProofInv, KeyTypes
<1>6. ASSUME NEW k \in Keys PROVE KeyInv(k)'
  BY <1>2, <1>4 DEF ProofInv, KeyInv, Phase
<1>7. ReceiptInv'
  BY <1>4 DEF ProofInv, ReceiptInv, F!SyncReads
<1>8. QED
  BY <1>5, <1>6, <1>7 DEF ProofInv

\* An event of the discovery takes a bounty away.
LEMMA SyncInvalidatesInv ==
  ASSUME ProofInv, NEW k \in Keys, F!SyncInvalidates(k) PROVE ProofInv'
<1> DEFINE s == st[k] c == chain[k] v == sync.view[k]
<1>1. s \in F!KeyType /\ KeyGood(s) /\ Side(s, c, engine, Phase, v)
  BY DEF ProofInv, KeyInv, KeyGood
<1> DEFINE t == [F!InvalidateClaim(s, v.row) EXCEPT !.row = IF v.row = "aged" THEN @ ELSE s.row]
<1>2. /\ sync.phase = "reading" /\ ~sync.void /\ v.row # "available" /\ s.row = "available"
      /\ UNCHANGED <<chain, engine, sync, receipt>>
  BY DEF F!SyncInvalidates
<1>3. st' = [st EXCEPT ![k] = t]
  BY DEF F!SyncInvalidates
<1>4. Phase = "reading"
  BY <1>2 DEF Phase
<1>5. Reads(s, c, v, engine)
  BY <1>1, <1>4 DEF Side
<1>6. v.row \in Seen \ {"available"}
  BY <1>2, <1>5 DEF Reads
<1>7. KeyGood(t) /\ Follows(s, t)
  BY <1>1, <1>2, <1>6, InvalidateGood
<1> HIDE DEF t
<1>8. /\ t.reserved = s.reserved /\ t.capturing = s.capturing /\ t.unknown = s.unknown
           /\ t.prepared = s.prepared
      /\ t.inWindow = s.inWindow /\ (t.sub = Nothing <=> s.sub = Nothing)
           /\ (s.sub # Nothing => (Answered(t) <=> Answered(s)))
      /\ t.pending => s.pending
      /\ s.accepted # Nothing => t.accepted # Nothing
      /\ t.job = "queued" => s.job = "queued"
  BY <1>7 DEF Follows, Marks, Answered
<1>9. ~s.inWindow
  BY <1>1, <1>2 DEF Side
<1>10. Side(t, c, engine, Phase, v)
  BY <1>1, <1>4, <1>5, <1>8, <1>9 DEF Side, Sends, Reads
<1>11. QED
  BY <1>2, <1>3, <1>7, <1>8, <1>10, OneKeyHere

\* The snapshot is void.
LEMMA SyncResetsInv ==
  ASSUME ProofInv, F!SyncResets PROVE ProofInv'
<1>1. UNCHANGED <<st, chain, engine, sync, receipt>>
  BY DEF F!SyncResets
<1>2. QED
  BY <1>1 DEF ProofInv, KeyTypes, KeyInv, ReceiptInv, Phase

\* The snapshot is committed.
LEMMA SyncAppliesInv ==
  ASSUME ProofInv, F!SyncApplies PROVE ProofInv'
<1>1. /\ st' = [k \in Keys |-> F!Applied(st[k], sync.view[k])] /\ engine' = "on" /\ UNCHANGED <<chain, receipt>>
      /\ sync' = [F!Idle EXCEPT !.phase = "receipts"] /\ sync.phase = "reading" /\ ~sync.void
  BY DEF F!SyncApplies
<1>2. ASSUME NEW k \in Keys
      PROVE  KeyGood(st'[k]) /\ Side(st'[k], chain[k], "on", "receipts", sync'.view[k])
  <2>1. KeyGood(st[k]) /\ Side(st[k], chain[k], engine, "reading", sync.view[k])
    BY <1>1 DEF ProofInv, KeyInv, Phase
  <2>2. QED
    BY <1>1, <2>1, AppliedSide
<1>3. \A k \in Keys : st'[k] \in F!KeyType
  BY <1>2 DEF KeyGood
<1>4. sync' = [phase |-> "receipts", view |-> Nothing, void |-> FALSE]
  BY <1>1 DEF F!Idle
<1>5. KeyTypes'
  <2> HIDE DEF F!KeyType
  <2>1. st' \in [Keys -> F!KeyType]
    BY <1>1, <1>3
  <2>2. sync' \in [phase : {"idle", "reading", "receipts"}, view : [Keys -> View] \cup {Nothing}, void : BOOLEAN]
    BY <1>4
  <2>3. QED
    BY <1>1, <2>1, <2>2 DEF ProofInv, KeyTypes
<1>6. \A k \in Keys : KeyInv(k)'
  BY <1>1, <1>2, <1>4 DEF KeyInv, Phase
<1>7. ReceiptInv'
  BY <1>1 DEF ProofInv, ReceiptInv
<1>8. QED
  BY <1>5, <1>6, <1>7 DEF ProofInv

\* The discovery or the reading of receipts is over.
LEMMA SettledInv ==
  ASSUME ProofInv, F!SyncAborts \/ F!SyncEnds PROVE ProofInv'
<1>1. sync' = [phase |-> "idle", view |-> Nothing, void |-> FALSE] /\ receipt' = Nothing /\ UNCHANGED <<st,
      chain, engine>>
  BY DEF F!SyncAborts, F!SyncEnds, F!Idle
<1>2. KeyTypes'
  BY <1>1 DEF ProofInv, KeyTypes
<1>3. ASSUME NEW k \in Keys PROVE KeyInv(k)'
  BY <1>1, SideElsewhere DEF ProofInv, KeyInv, Phase
<1>4. QED
  BY <1>1, <1>2, <1>3 DEF ProofInv, ReceiptInv

\* A receipt is asked for.
LEMMA ReadReceiptInv ==
  ASSUME ProofInv, NEW k \in Keys, F!ReadReceipt(k) PROVE ProofInv'
<1>1. /\ UNCHANGED <<st, chain, engine, sync>> /\ receipt' = [key |-> k, answer |-> "none", current |-> TRUE]
      /\ sync.phase = "receipts" /\ st[k].accepted # Nothing
  BY DEF F!ReadReceipt
<1>2. KeyTypes'
  BY <1>1 DEF ProofInv, KeyTypes, Answers
<1>3. ReceiptInv'
  BY <1>1 DEF ReceiptInv
<1>4. QED
  BY <1>1, <1>2, <1>3 DEF ProofInv, KeyInv, Phase

\* The server answers for the receipt.
LEMMA ServerAnswersInv ==
  ASSUME ProofInv, F!ServerAnswers PROVE ProofInv'
<1> DEFINE a == F!ReceiptOf(chain[receipt.key])
<1>1. UNCHANGED <<st, chain, engine, sync>> /\ receipt' = [receipt EXCEPT !.answer = a] /\ receipt # Nothing
  BY DEF F!ServerAnswers
<1>2. a \in Answers /\ (a = "missing" => ~Sent(chain[receipt.key]))
  BY DEF F!ReceiptOf, Answers, Sent
<1> HIDE DEF a
<1>3. /\ receipt' \in [key : Keys, answer : Answers, current : BOOLEAN]
      /\ receipt'.key = receipt.key /\ receipt'.current = receipt.current /\ receipt'.answer = a
  BY <1>1, <1>2 DEF ProofInv, KeyTypes
<1>4. KeyTypes'
  BY <1>1, <1>3 DEF ProofInv, KeyTypes
<1>5. ReceiptInv'
  BY <1>1, <1>2, <1>3 DEF ProofInv, ReceiptInv
<1>6. QED
  BY <1>1, <1>4, <1>5 DEF ProofInv, KeyInv, Phase

\* The receipt confirms the claim, reopens it, or changes nothing.
LEMMA ReceiptArrivesInv ==
  ASSUME ProofInv, F!ReceiptArrives PROVE ProofInv'
<1> DEFINE k == receipt.key
           s == st[k] c == chain[k] v == sync.view[k]
<1>1. /\ k \in Keys /\ receipt # Nothing /\ ~sync.void /\ receipt' = Nothing /\ UNCHANGED <<chain, engine,
         sync>>
      /\ sync.phase = "receipts"
  BY DEF F!ReceiptArrives, ProofInv, KeyTypes, ReceiptInv
<1>2. KeyGood(s) /\ Side(s, c, engine, Phase, v) /\ Phase = "receipts"
  BY <1>1 DEF ProofInv, KeyInv, Phase
<1>3. \E t : st' = [st EXCEPT ![k] = t] /\ KeyGood(t) /\ Side(t, c, engine, Phase, v)
  <2>1. CASE receipt.current /\ receipt.answer = "confirmed" /\ s.inWindow
    <3>1. s.accepted # Nothing
      BY <1>1, <2>1 DEF ProofInv, ReceiptInv
    <3>2. KeyGood(F!ConfirmClaim(s)) /\ Side(F!ConfirmClaim(s), c, engine, Phase, v)
      BY <1>2, <2>1, <3>1, ConfirmGood
    <3>3. st' = [st EXCEPT ![k] = F!ConfirmClaim(s)]
      BY <2>1 DEF F!ReceiptArrives
    <3>4. QED
      BY <3>2, <3>3
  <2>2. CASE receipt.current /\ receipt.answer = "missing" /\ F!MayReopen(s)
    <3>1. s.accepted # Nothing /\ ~Sent(c)
      BY <1>1, <2>2 DEF ProofInv, ReceiptInv, F!MayReopen, F!HasActive
    <3>2. KeyGood(F!ReopenClaim(s)) /\ Side(F!ReopenClaim(s), c, engine, Phase, v)
      BY <1>2, <2>2, <3>1, ReopenGood
    <3>3. st' = [st EXCEPT ![k] = F!ReopenClaim(s)]
      BY <2>2 DEF F!ReceiptArrives
    <3>4. QED
      BY <3>2, <3>3
  <2>3. CASE /\ ~(receipt.current /\ receipt.answer = "confirmed" /\ s.inWindow)
             /\ ~(receipt.current /\ receipt.answer = "missing" /\ F!MayReopen(s))
    <3>1. st' = [st EXCEPT ![k] = s]
      BY <2>3 DEF F!ReceiptArrives
    <3>2. QED
      BY <1>2, <3>1
  <2>4. QED
    BY <2>1, <2>2, <2>3
<1>4. PICK t : st' = [st EXCEPT ![k] = t] /\ KeyGood(t) /\ Side(t, c, engine, Phase, v)
  BY <1>3
<1>5. c \in Chains /\ chain' = [chain EXCEPT ![k] = c]
  BY <1>1 DEF ProofInv, KeyTypes
<1>6. \A j \in Keys : KeyInv(j)'
  BY <1>1, <1>4, <1>5, OneKey
<1>7. KeyTypes'
  <2>1. /\ st' \in [Keys -> F!KeyType] /\ chain' \in [Keys -> Chains]
        /\ engine' \in {"off", "paused", "on"}
        /\ sync' \in [phase : {"idle", "reading", "receipts"}, view : [Keys -> View] \cup {Nothing}, void : BOOLEAN]
    BY <1>1, <1>4, <1>5, OneKey
  <2> HIDE DEF F!KeyType
  <2>2. QED
    BY <1>1, <2>1 DEF KeyTypes
<1>8. QED
  BY <1>1, <1>6, <1>7 DEF ProofInv, ReceiptInv

-----------------------------------------------------------------------------
\* Every step keeps the invariant.
LEMMA ProofNextInv ==
  ASSUME ProofInv, [F!Next]_(F!vars) PROVE ProofInv'
<1>1. CASE UNCHANGED F!vars
  BY <1>1 DEF ProofInv, KeyTypes, KeyInv, ReceiptInv, Phase, F!vars
<1>2. CASE \E k \in Keys : F!Prepare(k) \/ F!Dispatch(k) \/ \E found \in BOOLEAN : F!CaptureEnds(k, found)
  BY <1>2, PrepareInv, DispatchInv, CaptureEndsInv
<1>3. CASE \E k \in Keys : F!SubmitVerified(k) \/ F!CheckClaim(k) \/ F!ReserveClaim(k) \/ F!NotSent(k) \/ F!WriteClaim(k)
  BY <1>3, SubmitVerifiedInv, CheckClaimInv, ReserveClaimInv, NotSentInv, WriteClaimInv
<1>4. CASE \E k \in Keys : \/ F!SubmitReturns(k) \/ F!OutcomeUnknown(k)
                          \/ \E r \in {"ack", "rejected", "refused", "unknown"} : F!ServerHandles(k, r)
  BY <1>4, SubmitReturnsInv, OutcomeUnknownInv, ServerHandlesInv
<1>5. CASE \E k \in Keys : F!ChainMoves(k) \/ F!SyncInvalidates(k) \/ F!ReadReceipt(k)
  BY <1>5, ChainMovesInv, SyncInvalidatesInv, ReadReceiptInv
<1>6. CASE F!Start \/ F!StopClaims \/ F!Disconnected \/ F!ResetNotice
  BY <1>6, StartInv, StopClaimsInv, DisconnectedInv, ResetNoticeInv
<1>7. CASE F!SyncReads \/ F!SyncResets \/ F!SyncApplies \/ F!SyncAborts \/ F!SyncEnds \/ F!ServerAnswers \/ F!ReceiptArrives
  BY <1>7, SyncReadsInv, SyncResetsInv, SyncAppliesInv, SettledInv, ServerAnswersInv,
     ReceiptArrivesInv
<1>8. QED
  BY <1>1, <1>2, <1>3, <1>4, <1>5, <1>6, <1>7 DEF F!Next

\* It holds in every state.
LEMMA ProofSpecInv == F!Spec => []ProofInv
<1>1. F!Init => ProofInv
  BY ProofInitInv
<1>2. ProofInv /\ [F!Next]_(F!vars) => ProofInv'
  BY ProofNextInv
<1>3. QED
  BY <1>1, <1>2, PTL DEF F!Spec

\* What it says of each key.
LEMMA InvProofs ==
  ASSUME ProofInv PROVE F!CountedOnce /\ F!ProofKept /\ F!ConfirmedIsReserved
<1> SUFFICES ASSUME NEW k \in Keys
             PROVE  /\ st[k].tally <= 1
                    /\ st[k].verified => \/ st[k].pending /\ st[k].job = "won"
                                         \/ st[k].accepted # Nothing \/ st[k].sub # Nothing
                                         \/ st[k].unknown \/ st[k].confirmation # Nothing
                    /\ st[k].confirmation # Nothing /\ ~st[k].confirmation.reopened => st[k].reserved
  BY DEF F!CountedOnce, F!ProofKept, F!ConfirmedIsReserved
<1>1. KeyGood(st[k])
  BY DEF ProofInv, KeyInv
<1> HIDE DEF F!KeyType
<1>2. st[k].tally \in Nat
  BY <1>1 DEF KeyGood, F!KeyType
<1>3. QED
  BY <1>1, <1>2 DEF KeyGood, Acts, Counts, Keeps, Confirms, Standing

\* What it says of a claim that is written.
LEMMA InvKnown ==
  ASSUME ProofInv PROVE F!SentOnlyIfKnown
<1> SUFFICES ASSUME NEW k \in Keys, F!WriteClaim(k) PROVE ~st[k].unknown
  BY DEF F!SentOnlyIfKnown
<1>1. Reserves(st[k])
  BY DEF ProofInv, KeyInv, KeyGood
<1>2. QED
  BY <1>1 DEF Reserves, F!WriteClaim

\* However broadcasts, answers, receipts, snapshots, stops and starts interleave, for any number of
\* outpoints: an acceptance is counted once, a proof is kept until it is confirmed or worthless, a
\* confirmed claim stays reserved, and a broadcast of unknown outcome is not repeated blindly.
THEOREM ProofsKept == F!Spec => ProofsAreKept
<1>1. ProofInv => F!CountedOnce /\ F!ProofKept /\ F!ConfirmedIsReserved
  BY InvProofs
<1>2. ProofInv => [F!SentOnlyIfKnown]_(F!vars)
  BY InvKnown
<1>3. QED
  BY <1>1, <1>2, ProofSpecInv, PTL DEF ProofsAreKept, F!NoBlindResend
=============================================================================
