------------------------- MODULE ClaimSettingsProofs -------------------------
(***************************************************************************)
(* TLAPS proofs about ClaimSettings, for every set of endpoints and every  *)
(* number of clicks, reviews, locks and failures.                          *)
(*                                                                         *)
(* None of the three parts of SettingsHold is inductive.  The engine is    *)
(* left running by a write that changes nothing, which is safe only because*)
(* the settings it was merged from are still in force or a review has      *)
(* stopped the engine since (Harmless).  A consent is fresh only because no*)
(* click that could dismiss the newest review was queued before it         *)
(* (Consent).  That the last click stands is a statement about the whole   *)
(* queue: the last queued change of each setting, or the write under way,  *)
(* or the settings themselves, hold the value asked for last (HostStands,  *)
(* SwitchStands).                                                          *)
(***************************************************************************)
EXTENDS ClaimSettings, TLAPS

Config  == [host : Hosts, enabled : BOOLEAN]
Engine  == [on : BOOLEAN, draining : BOOLEAN]
Counter == [clicks : Nat, reviews : Nat, locks : Nat, faults : Nat, lost : Nat, bad : Nat]
Change  == [kind : {"host"}, host : Hosts]
              \cup [kind : {"claims"}, enabled : BOOLEAN, review : Nat]
              \cup [kind : {"safety"}, enabled : {FALSE}]

\* An operation has merged its change and not written it yet.
Writing == op # None /\ op.pc = "write"

Types ==
    /\ config \in Config /\ disk \in Config /\ asked \in Config
    /\ queue \in Seq(Change)
    /\ session \in BOOLEAN /\ review \in BOOLEAN /\ warned \in BOOLEAN /\ reviewGen \in Nat
    /\ engine \in Engine /\ count \in Counter
    /\ Writing => op.new \in Config /\ op.stops \in BOOLEAN

\* A write that leaves the engine alone writes the settings in force, or the engine is stopped.
Harmless == Writing /\ ~op.stops => op.new = config \/ review

Enabling(x) == x.kind = "claims" /\ x.enabled

\* A warning keeps its review, and a queued click that would dismiss it came after it.
Consent ==
    /\ warned => review
    /\ \A i \in 1..Len(queue) : Enabling(queue[i]) =>
          queue[i].review <= reviewGen /\ (queue[i].review = reviewGen => ~warned)

\* The i-th change of the queue q is its last one of the endpoint, or there is none.
LastHost(q, i) ==
    /\ i \in 1..Len(q) /\ q[i].kind = "host"
    /\ \A j \in 1..Len(q) : j > i => q[j].kind # "host"
NoHost(q) == \A j \in 1..Len(q) : q[j].kind # "host"

\* The same of the switch.
LastSwitch(q, i) ==
    /\ i \in 1..Len(q) /\ q[i].kind # "host"
    /\ \A j \in 1..Len(q) : j > i => q[j].kind = "host"
NoSwitch(q) == \A j \in 1..Len(q) : q[j].kind = "host"

\* The endpoint asked for last is the last one queued, or being written, or in force and saved.
HostStands ==
    /\ \A i \in Nat : LastHost(queue, i) => queue[i].host = asked.host
    /\ NoHost(queue) =>
          /\ Writing => op.new.host = asked.host
          /\ ~Writing => config.host = asked.host /\ disk.host = asked.host

\* So is the switch; a queued "on" that will stand belongs to the newest review.
SwitchStands ==
    /\ \A i \in Nat : LastSwitch(queue, i) =>
          /\ queue[i].enabled = asked.enabled
          /\ queue[i].enabled => queue[i].kind = "claims" /\ queue[i].review = reviewGen
    /\ NoSwitch(queue) =>
          /\ review => ~asked.enabled
          /\ Writing => op.new.enabled = asked.enabled
          /\ ~Writing => config.enabled = asked.enabled /\ disk.enabled = asked.enabled

Inv ==
    /\ Types /\ RunsOnlyWhenAllowed /\ Harmless /\ Consent
    /\ count.lost = 0 => HostStands /\ SwitchStands

-----------------------------------------------------------------------------
(* Queues *)

\* Appending.
LEMMA AppendAt ==
    ASSUME NEW S, NEW q \in Seq(S), NEW x \in S
    PROVE  /\ Append(q, x) \in Seq(S) /\ Len(Append(q, x)) = Len(q) + 1 /\ Len(q) \in Nat
           /\ \A i \in 1..Len(q) : Append(q, x)[i] = q[i]
           /\ Append(q, x)[Len(q) + 1] = x
OBVIOUS

\* Taking the head.
LEMMA TailAt ==
    ASSUME NEW S, NEW q \in Seq(S), q # <<>>
    PROVE  /\ Tail(q) \in Seq(S) /\ Len(Tail(q)) = Len(q) - 1 /\ Len(q) \in Nat \ {0}
           /\ \A i \in 1..Len(q) - 1 : Tail(q)[i] = q[i + 1]
           /\ Head(q) = q[1] /\ q[1] \in S
OBVIOUS

\* What a change at the end does to the last changes of each kind.
LEMMA AppendLast ==
    ASSUME NEW q \in Seq(Change), NEW x \in Change
    PROVE  /\ x.kind = "host" => /\ ~NoHost(Append(q, x))
                                 /\ \A i \in Nat : LastHost(Append(q, x), i) => i = Len(q) + 1
                                 /\ \A i \in Nat : LastSwitch(Append(q, x), i) => LastSwitch(q, i)
                                 /\ NoSwitch(Append(q, x)) => NoSwitch(q)
           /\ x.kind # "host" => /\ ~NoSwitch(Append(q, x))
                                 /\ \A i \in Nat : LastSwitch(Append(q, x), i) => i = Len(q) + 1
                                 /\ \A i \in Nat : LastHost(Append(q, x), i) => LastHost(q, i)
                                 /\ NoHost(Append(q, x)) => NoHost(q)
<1> DEFINE p == Append(q, x)
<1>1. /\ Len(p) = Len(q) + 1 /\ Len(q) \in Nat
      /\ \A i \in 1..Len(q) : p[i] = q[i]
      /\ p[Len(q) + 1] = x
  BY AppendAt
<1>2. \A i \in 1..Len(p) : i \in 1..Len(q) \/ i = Len(q) + 1
  BY <1>1
<1>3. Len(q) + 1 \in 1..Len(p) /\ \A i \in 1..Len(q) : i \in 1..Len(p) /\ Len(q) + 1 > i
  BY <1>1
<1> HIDE DEF p
<1>4. x.kind = "host" => ~NoHost(p) /\ \A i \in Nat : LastHost(p, i) => i = Len(q) + 1
  BY <1>1, <1>2, <1>3 DEF NoHost, LastHost
<1>5. x.kind = "host" => /\ \A i \in Nat : LastSwitch(p, i) => LastSwitch(q, i)
                         /\ NoSwitch(p) => NoSwitch(q)
  BY <1>1, <1>2, <1>3 DEF NoSwitch, LastSwitch
<1>6. x.kind # "host" => ~NoSwitch(p) /\ \A i \in Nat : LastSwitch(p, i) => i = Len(q) + 1
  BY <1>1, <1>2, <1>3 DEF NoSwitch, LastSwitch
<1>7. x.kind # "host" => /\ \A i \in Nat : LastHost(p, i) => LastHost(q, i)
                         /\ NoHost(p) => NoHost(q)
  BY <1>1, <1>2, <1>3 DEF NoHost, LastHost
<1> QED BY <1>4, <1>5, <1>6, <1>7 DEF p

\* What taking the first change does to them.
LEMMA TailLast ==
    ASSUME NEW q \in Seq(Change), q # <<>>
    PROVE  /\ \A i \in Nat : LastHost(Tail(q), i) => LastHost(q, i + 1) /\ Tail(q)[i] = q[i + 1]
           /\ \A i \in Nat : LastSwitch(Tail(q), i) => LastSwitch(q, i + 1) /\ Tail(q)[i] = q[i + 1]
           /\ NoHost(Tail(q)) => IF Head(q).kind = "host" THEN LastHost(q, 1) ELSE NoHost(q)
           /\ NoSwitch(Tail(q)) => IF Head(q).kind = "host" THEN NoSwitch(q) ELSE LastSwitch(q, 1)
<1> DEFINE p == Tail(q)
<1>1. /\ Len(p) = Len(q) - 1 /\ Len(q) \in Nat \ {0}
      /\ \A i \in 1..Len(q) - 1 : p[i] = q[i + 1]
      /\ Head(q) = q[1]
  BY TailAt
<1>2. \A j \in 1..Len(q) : j = 1 \/ (j - 1 \in 1..Len(p) /\ p[j - 1] = q[j])
  <2> TAKE j \in 1..Len(q)
  <2>1. CASE j # 1
    <3>1. j - 1 \in 1..Len(q) - 1 /\ (j - 1) + 1 = j
      BY <1>1, <2>1
    <3> QED BY <1>1, <3>1
  <2> QED BY <2>1
<1>3. \A i \in 1..Len(p) : i + 1 \in 1..Len(q) /\ p[i] = q[i + 1]
  BY <1>1
<1>4. 1 \in 1..Len(q)
  BY <1>1
<1> HIDE DEF p
<1>5. ASSUME NEW i \in Nat, LastHost(p, i) PROVE LastHost(q, i + 1) /\ p[i] = q[i + 1]
  <2>1. i + 1 \in 1..Len(q) /\ p[i] = q[i + 1]
    BY <1>3, <1>5 DEF LastHost
  <2>2. ASSUME NEW j \in 1..Len(q), j > i + 1 PROVE q[j].kind # "host"
    <3>1. j - 1 \in 1..Len(p) /\ p[j - 1] = q[j] /\ j - 1 > i
      BY <1>1, <1>2, <2>2
    <3> QED BY <1>5, <3>1 DEF LastHost
  <2> QED BY <1>5, <2>1, <2>2 DEF LastHost
<1>6. ASSUME NEW i \in Nat, LastSwitch(p, i) PROVE LastSwitch(q, i + 1) /\ p[i] = q[i + 1]
  <2>1. i + 1 \in 1..Len(q) /\ p[i] = q[i + 1]
    BY <1>3, <1>6 DEF LastSwitch
  <2>2. ASSUME NEW j \in 1..Len(q), j > i + 1 PROVE q[j].kind = "host"
    <3>1. j - 1 \in 1..Len(p) /\ p[j - 1] = q[j] /\ j - 1 > i
      BY <1>1, <1>2, <2>2
    <3> QED BY <1>6, <3>1 DEF LastSwitch
  <2> QED BY <1>6, <2>1, <2>2 DEF LastSwitch
<1>7. NoHost(p) => IF Head(q).kind = "host" THEN LastHost(q, 1) ELSE NoHost(q)
  BY <1>1, <1>2, <1>4 DEF LastHost, NoHost
<1>8. NoSwitch(p) => IF Head(q).kind = "host" THEN NoSwitch(q) ELSE LastSwitch(q, 1)
  BY <1>1, <1>2, <1>4 DEF LastSwitch, NoSwitch
<1> QED BY <1>5, <1>6, <1>7, <1>8 DEF p
-----------------------------------------------------------------------------
(* The steps *)

\* Nothing is asked for and nothing runs initially.
LEMMA InitInv == Init => Inv
<1> SUFFICES ASSUME Init PROVE Inv
  OBVIOUS
<1>1. /\ config \in Config /\ disk = config /\ asked = config /\ queue = <<>> /\ op = None
      /\ session = FALSE /\ review = FALSE /\ warned = FALSE /\ reviewGen = 0
      /\ engine = [on |-> FALSE, draining |-> FALSE]
      /\ count = [clicks |-> 0, reviews |-> 0, locks |-> 0, faults |-> 0, lost |-> 0, bad |-> 0]
  BY DEF Init, Config
<1>2. ~Writing /\ queue \in Seq(Change) /\ Len(queue) = 0
  BY <1>1 DEF Writing
<1>3. engine \in Engine /\ ~engine.on
  BY <1>1 DEF Engine
<1>4. count \in Counter
  BY <1>1 DEF Counter
<1>5. Types
  BY <1>1, <1>2, <1>3, <1>4 DEF Types
<1>6. 1..Len(queue) = {}
  BY <1>2
<1>7. Consent /\ Harmless /\ RunsOnlyWhenAllowed
  BY <1>1, <1>2, <1>3, <1>6 DEF Consent, Harmless, RunsOnlyWhenAllowed
<1>8. HostStands /\ SwitchStands
  BY <1>1, <1>2, <1>6 DEF HostStands, SwitchStands, LastHost, LastSwitch
<1> QED BY <1>5, <1>7, <1>8 DEF Inv

\* A stop turns the engine off.
LEMMA StopType == ASSUME engine \in Engine PROVE Stopped \in Engine /\ Stopped.on = FALSE
BY DEF Engine, Stopped

\* Counting leaves the lost writes alone, whatever is counted.
LEMMA CountsType ==
    ASSUME count \in Counter, NEW k \in {"clicks", "reviews", "locks", "faults"}, Counts(k)
    PROVE  count' \in Counter /\ count'.lost = count.lost
<1>1. CASE k = "clicks"
  BY <1>1 DEF Counter, Counts
<1>2. CASE k = "reviews"
  BY <1>2 DEF Counter, Counts
<1>3. CASE k = "locks"
  BY <1>3 DEF Counter, Counts
<1>4. CASE k = "faults"
  BY <1>4 DEF Counter, Counts
<1> QED BY <1>1, <1>2, <1>3, <1>4

\* A step that moves neither the settings nor the queue nor a review, and under which the
\* engine runs only where it may.
LEMMA QuietStep ==
    ASSUME Inv, UNCHANGED <<config, disk, queue, review, reviewGen, warned, asked>>,
           op' = op \/ (~Writing /\ ~Writing'),
           session' \in BOOLEAN, engine' \in Engine, RunsOnlyWhenAllowed',
           count' \in Counter, count'.lost = count.lost
    PROVE  Inv'
<1>1. /\ config' = config /\ disk' = disk /\ queue' = queue /\ review' = review
      /\ reviewGen' = reviewGen /\ warned' = warned /\ asked' = asked
  OBVIOUS
<1>2. Writing' = Writing /\ (Writing => op' = op)
  BY DEF Writing
<1>3. Types'
  BY <1>1, <1>2 DEF Inv, Types
<1>4. Harmless' /\ Consent'
  BY <1>1, <1>2 DEF Inv, Harmless, Consent
<1>5. HostStands => HostStands'
  BY <1>1, <1>2 DEF HostStands
<1>6. SwitchStands => SwitchStands'
  BY <1>1, <1>2 DEF SwitchStands
<1> QED BY <1>3, <1>4, <1>5, <1>6 DEF Inv

\* The engine's own steps and the start of claims.
LEMMA EngineSteps ==
    ASSUME Inv, Drained \/ ResumeWaits \/ ResumeStarts \/ ResumeFails \/ BountyRun PROVE Inv'
<1>0. engine \in Engine /\ session \in BOOLEAN /\ count \in Counter /\ RunsOnlyWhenAllowed
  BY DEF Inv, Types
<1>1. CASE Drained
  <2>1. engine' \in Engine /\ engine'.on = engine.on
    BY <1>0, <1>1 DEF Drained, Engine
  <2>2. RunsOnlyWhenAllowed'
    BY <1>0, <1>1, <2>1 DEF Drained, RunsOnlyWhenAllowed, MayResume
  <2> QED BY <1>0, <1>1, <2>1, <2>2, QuietStep DEF Drained
<1>2. CASE ResumeWaits
  <2>1. RunsOnlyWhenAllowed'
    BY <1>0, <1>2 DEF ResumeWaits, RunsOnlyWhenAllowed, MayResume
  <2> QED BY <1>0, <1>2, <2>1, QuietStep DEF ResumeWaits
<1>3. CASE ResumeStarts
  <2>1. engine' \in Engine /\ (engine'.on => engine.on \/ Current(resume))
    BY <1>0, <1>3 DEF ResumeStarts, Engine
  <2>2. RunsOnlyWhenAllowed'
    BY <1>0, <1>3, <2>1 DEF ResumeStarts, RunsOnlyWhenAllowed, MayResume, Current
  <2> QED BY <1>0, <1>3, <2>1, <2>2, QuietStep DEF ResumeStarts
<1>4. CASE ResumeFails
  <2>1. RunsOnlyWhenAllowed'
    BY <1>0, <1>4 DEF ResumeFails, RunsOnlyWhenAllowed, MayResume
  <2>2. count' \in Counter /\ count'.lost = count.lost
    BY <1>0, <1>4, CountsType DEF ResumeFails
  <2> QED BY <1>0, <1>4, <2>1, <2>2, QuietStep DEF ResumeFails
<1>5. CASE BountyRun
  <2>1. RunsOnlyWhenAllowed'
    BY <1>0, <1>5 DEF BountyRun, RunsOnlyWhenAllowed, MayResume
  <2> QED BY <1>0, <1>5, <2>1, QuietStep DEF BountyRun
<1> QED BY <1>1, <1>2, <1>3, <1>4, <1>5

\* What happens to the connection and to the session.
LEMMA SessionSteps ==
    ASSUME Inv, SyncFails \/ Disconnected \/ Lock \/ Unlock \/ OpenSession PROVE Inv'
<1>0. /\ engine \in Engine /\ session \in BOOLEAN /\ count \in Counter /\ RunsOnlyWhenAllowed
      /\ Stopped \in Engine /\ Stopped.on = FALSE
  BY StopType DEF Inv, Types
<1>1. CASE SyncFails
  <2>1. PICK kind \in {"gated", "transient", "malformed"} :
          /\ count' = [count EXCEPT !.faults = @ + 1, !.bad = @ + (IF kind = "malformed" THEN 1 ELSE 0)]
          /\ engine' = IF kind = "gated" THEN engine ELSE Stopped
    BY <1>1 DEF SyncFails
  <2>2. count' \in Counter /\ count'.lost = count.lost
    <3>1. PICK n \in Nat : count' = [count EXCEPT !.faults = @ + 1, !.bad = @ + n]
      BY <2>1
    <3>2. count.faults + 1 \in Nat /\ count.bad + n \in Nat
      BY <1>0 DEF Counter
    <3>3. \A m, k \in Nat : /\ [count EXCEPT !.faults = m, !.bad = k] \in Counter
                            /\ [count EXCEPT !.faults = m, !.bad = k].lost = count.lost
      BY <1>0 DEF Counter
    <3>4. count' = [count EXCEPT !.faults = count.faults + 1, !.bad = count.bad + n]
      BY <1>0, <3>1 DEF Counter
    <3> QED BY <3>2, <3>3, <3>4
  <2>3. RunsOnlyWhenAllowed' /\ engine' \in Engine
    BY <1>0, <1>1, <2>1 DEF SyncFails, RunsOnlyWhenAllowed, MayResume
  <2> QED BY <1>0, <1>1, <2>2, <2>3, QuietStep DEF SyncFails
<1>2. CASE Disconnected
  <2>1. RunsOnlyWhenAllowed' /\ engine' \in Engine
    BY <1>0, <1>2 DEF Disconnected, RunsOnlyWhenAllowed
  <2>2. count' \in Counter /\ count'.lost = count.lost
    BY <1>0, <1>2, CountsType DEF Disconnected
  <2> QED BY <1>0, <1>2, <2>1, <2>2, QuietStep DEF Disconnected
<1>3. CASE Lock
  <2>1. RunsOnlyWhenAllowed' /\ engine' \in Engine
    BY <1>0, <1>3 DEF Lock, RunsOnlyWhenAllowed
  <2>2. count' \in Counter /\ count'.lost = count.lost
    BY <1>0, <1>3, CountsType DEF Lock
  <2> QED BY <1>0, <1>3, <2>1, <2>2, QuietStep DEF Lock
<1>4. CASE Unlock
  <2>1. RunsOnlyWhenAllowed' /\ engine' = engine
    BY <1>0, <1>4 DEF Unlock, claimVars, RunsOnlyWhenAllowed, MayResume
  <2> QED BY <1>0, <1>4, <2>1, QuietStep DEF Unlock
<1>5. CASE OpenSession
  <2>1. engine' \in Engine /\ (engine'.on => engine.on) /\ session' \in BOOLEAN /\ (session => session')
    BY <1>0, <1>5 DEF OpenSession, claimVars
  <2>2. RunsOnlyWhenAllowed'
    BY <1>0, <1>5, <2>1 DEF OpenSession, RunsOnlyWhenAllowed, MayResume
  <2> QED BY <1>0, <1>5, <2>1, <2>2, QuietStep DEF OpenSession
<1> QED BY <1>1, <1>2, <1>3, <1>4, <1>5

\* An operation goes on after its write.
LEMMA AfterWriteSteps == ASSUME Inv, AfterStop \/ OpEnds PROVE Inv'
<1>0. /\ engine \in Engine /\ session \in BOOLEAN /\ count \in Counter /\ RunsOnlyWhenAllowed
      /\ Stopped \in Engine /\ Stopped.on = FALSE
  BY StopType DEF Inv, Types
<1>1. ~Writing
  BY DEF AfterStop, OpEnds, Writing
<1>2. op' = None \/ op'.pc = "resume"
  BY DEF AfterStop, OpEnds
<1>3. ~Writing'
  BY <1>2 DEF Writing
<1>4. /\ UNCHANGED <<config, disk, queue, review, reviewGen, warned, asked>>
      /\ session' = session /\ count' = count /\ (engine' = engine \/ engine' = Stopped)
  BY DEF AfterStop, OpEnds, claimVars
<1>5. RunsOnlyWhenAllowed'
  BY <1>0, <1>4 DEF RunsOnlyWhenAllowed, MayResume
<1> QED BY <1>0, <1>1, <1>3, <1>4, <1>5, QuietStep
\* A change at the end of the queue: consents queued before it keep their meaning.
LEMMA QueueStep ==
    ASSUME Inv, NEW x \in Change, queue' = Append(queue, x), disk' = disk, op' = op,
           session' = session, engine' \in Engine, count' \in Counter, count'.lost = count.lost,
           config' \in Config, asked' \in Config, review' \in BOOLEAN, warned' \in BOOLEAN, reviewGen' \in Nat,
           RunsOnlyWhenAllowed', Harmless',
           warned' => review', Enabling(x) => x.review <= reviewGen' /\ ~warned',
           \/ reviewGen' = reviewGen /\ (warned' => warned)
           \/ reviewGen' = reviewGen + 1,
           HostStands /\ SwitchStands => HostStands' /\ SwitchStands'
    PROVE  Inv'
<1>0. queue \in Seq(Change) /\ reviewGen \in Nat /\ Consent
  BY DEF Inv, Types
<1>1. /\ queue' \in Seq(Change) /\ Len(queue') = Len(queue) + 1 /\ Len(queue) \in Nat
      /\ \A i \in 1..Len(queue) : queue'[i] = queue[i]
      /\ queue'[Len(queue) + 1] = x
  BY <1>0, AppendAt
<1>2. Types'
  BY <1>1 DEF Inv, Types, Writing
<1>3. ASSUME NEW i \in 1..Len(queue'), Enabling(queue'[i])
      PROVE  queue'[i].review <= reviewGen' /\ (queue'[i].review = reviewGen' => ~warned')
  <2>1. CASE i = Len(queue) + 1
    BY <1>1, <1>3, <2>1
  <2>2. CASE i \in 1..Len(queue)
    <3>1. queue'[i] = queue[i] /\ queue[i] \in Change
      BY <1>0, <1>1, <2>2
    <3>2. queue[i].review \in Nat
      BY <1>3, <3>1 DEF Enabling, Change
    <3>3. queue[i].review <= reviewGen /\ (queue[i].review = reviewGen => ~warned)
      BY <1>0, <1>3, <2>2, <3>1 DEF Consent
    <3> QED BY <1>0, <3>1, <3>2, <3>3
  <2> QED BY <1>1, <2>1, <2>2
<1>4. Consent'
  BY <1>3 DEF Consent
<1> QED BY <1>2, <1>4 DEF Inv

\* A click is the last change of its setting.
LEMMA ClickStep == ASSUME Inv, Click PROVE Inv'
<1>0. /\ Types /\ queue \in Seq(Change) /\ Len(queue) \in Nat /\ RunsOnlyWhenAllowed /\ Harmless /\ Consent
      /\ asked \in Config /\ config \in Config
  BY DEF Inv, Types
<1>1. /\ count' \in Counter /\ count'.lost = count.lost
  BY <1>0, CountsType DEF Click, Types
<1>2. /\ config' = config /\ disk' = disk /\ op' = op /\ session' = session /\ engine' = engine
      /\ review' = review /\ reviewGen' = reviewGen
  BY DEF Click, claimVars
<1>3. Writing' = Writing /\ RunsOnlyWhenAllowed' /\ Harmless'
  BY <1>0, <1>2 DEF Writing, RunsOnlyWhenAllowed, MayResume, Harmless
<1>4. ASSUME NEW h \in Hosts, queue' = Append(queue, [kind |-> "host", host |-> h]),
             asked' = [asked EXCEPT !.host = h], warned' = warned
      PROVE  Inv'
  <2> DEFINE x == [kind |-> "host", host |-> h]
  <2>1. x \in Change /\ x.kind = "host" /\ x.host = h /\ ~Enabling(x)
    BY DEF Change, Enabling
  <2>2. asked' \in Config /\ asked'.host = h /\ asked'.enabled = asked.enabled
    BY <1>0, <1>4 DEF Config
  <2> HIDE DEF x
  <2>3. queue' = Append(queue, x)
    BY <1>4 DEF x
  <2>4. /\ \A i \in 1..Len(queue) : queue'[i] = queue[i]
        /\ queue'[Len(queue) + 1] = x
    BY <1>0, <2>1, <2>3, AppendAt
  <2>5. /\ ~NoHost(queue')
        /\ \A i \in Nat : LastHost(queue', i) => i = Len(queue) + 1
        /\ \A i \in Nat : LastSwitch(queue', i) => LastSwitch(queue, i)
        /\ NoSwitch(queue') => NoSwitch(queue)
    BY <1>0, <2>1, <2>3, AppendLast
  <2>6. HostStands'
    BY <2>1, <2>2, <2>4, <2>5 DEF HostStands
  <2>7. \A i \in Nat : LastSwitch(queue', i) => LastSwitch(queue, i) /\ queue'[i] = queue[i]
    BY <2>4, <2>5 DEF LastSwitch
  <2>8. SwitchStands => SwitchStands'
    BY <1>2, <1>3, <2>2, <2>5, <2>7 DEF SwitchStands
  <2>9. warned' => review'
    BY <1>0, <1>2, <1>4 DEF Consent
  <2> QED BY <1>0, <1>1, <1>2, <1>3, <1>4, <2>1, <2>2, <2>3, <2>6, <2>8, <2>9, QueueStep DEF Types
<1>5. ASSUME NEW b \in BOOLEAN,
             queue' = Append(queue, [kind |-> "claims", enabled |-> b, review |-> reviewGen]),
             asked' = [asked EXCEPT !.enabled = b], warned' = (warned /\ ~b)
      PROVE  Inv'
  <2> DEFINE x == [kind |-> "claims", enabled |-> b, review |-> reviewGen]
  <2>0. reviewGen \in Nat /\ warned \in BOOLEAN
    BY <1>0 DEF Types
  <2>1. x \in Change /\ x.kind = "claims" /\ x.enabled = b /\ x.review = reviewGen
    BY <2>0 DEF Change
  <2>2. asked' \in Config /\ asked'.host = asked.host /\ asked'.enabled = b
    BY <1>0, <1>5 DEF Config
  <2> HIDE DEF x
  <2>3. queue' = Append(queue, x)
    BY <1>5 DEF x
  <2>4. /\ \A i \in 1..Len(queue) : queue'[i] = queue[i]
        /\ queue'[Len(queue) + 1] = x
    BY <1>0, <2>1, <2>3, AppendAt
  <2>5. /\ ~NoSwitch(queue')
        /\ \A i \in Nat : LastSwitch(queue', i) => i = Len(queue) + 1
        /\ \A i \in Nat : LastHost(queue', i) => LastHost(queue, i)
        /\ NoHost(queue') => NoHost(queue)
    BY <1>0, <2>1, <2>3, AppendLast
  <2>6. SwitchStands'
    BY <1>2, <2>1, <2>2, <2>4, <2>5 DEF SwitchStands
  <2>7. \A i \in Nat : LastHost(queue', i) => LastHost(queue, i) /\ queue'[i] = queue[i]
    BY <2>4, <2>5 DEF LastHost
  <2>8. HostStands => HostStands'
    BY <1>2, <1>3, <2>2, <2>5, <2>7 DEF HostStands
  <2>9. (warned' => review') /\ (warned' => warned) /\ warned' \in BOOLEAN
    BY <1>0, <1>2, <1>5, <2>0 DEF Consent
  <2>10. Enabling(x) => x.review <= reviewGen' /\ ~warned'
    <3>1. Enabling(x) => b
      BY <2>1 DEF Enabling
    <3>2. b => ~warned'
      BY <1>5
    <3>3. x.review <= reviewGen'
      BY <1>2, <2>0, <2>1
    <3> QED BY <3>1, <3>2, <3>3
  <2> QED
    BY <1>0, <1>1, <1>2, <1>3, <2>0, <2>1, <2>2, <2>3, <2>6, <2>8, <2>9, <2>10, QueueStep
       DEF Types
<1> QED BY <1>4, <1>5 DEF Click

\* A review turns the engine and the switch off and queues the write that saves it.
LEMMA ReviewStep == ASSUME Inv, StopClaimsForReview PROVE Inv'
<1> DEFINE x == [kind |-> "safety", enabled |-> FALSE]
<1>0. /\ Types /\ queue \in Seq(Change) /\ Len(queue) \in Nat /\ asked \in Config /\ config \in Config
      /\ reviewGen \in Nat /\ engine \in Engine
  BY DEF Inv, Types
<1>1. count' \in Counter /\ count'.lost = count.lost
  BY <1>0, CountsType DEF StopClaimsForReview, Types
<1>2. /\ disk' = disk /\ op' = op /\ session' = session /\ engine' = Stopped
      /\ review' = TRUE /\ warned' = TRUE /\ reviewGen' = reviewGen + 1
      /\ config' = [config EXCEPT !.enabled = FALSE] /\ asked' = [asked EXCEPT !.enabled = FALSE]
      /\ queue' = Append(queue, x)
  BY DEF StopClaimsForReview
<1>3. engine' \in Engine /\ engine'.on = FALSE
  BY <1>0, <1>2, StopType
<1>4. config' \in Config /\ config'.host = config.host
  BY <1>0, <1>2 DEF Config
<1>5. asked' \in Config /\ asked'.host = asked.host /\ asked'.enabled = FALSE
  BY <1>0, <1>2 DEF Config
<1>6. x \in Change /\ x.kind = "safety" /\ x.enabled = FALSE /\ ~Enabling(x)
  BY DEF Change, Enabling
<1> HIDE DEF x
<1>7. /\ \A i \in 1..Len(queue) : queue'[i] = queue[i]
      /\ queue'[Len(queue) + 1] = x
  BY <1>0, <1>2, <1>6, AppendAt
<1>8. /\ ~NoSwitch(queue')
      /\ \A i \in Nat : LastSwitch(queue', i) => i = Len(queue) + 1
      /\ \A i \in Nat : LastHost(queue', i) => LastHost(queue, i)
      /\ NoHost(queue') => NoHost(queue)
  BY <1>0, <1>2, <1>6, AppendLast
<1>9. SwitchStands'
  BY <1>5, <1>6, <1>7, <1>8 DEF SwitchStands
<1>10. \A i \in Nat : LastHost(queue', i) => LastHost(queue, i) /\ queue'[i] = queue[i]
  BY <1>7, <1>8 DEF LastHost
<1>11. HostStands => HostStands'
  BY <1>2, <1>4, <1>5, <1>8, <1>10 DEF HostStands, Writing
<1>12. RunsOnlyWhenAllowed' /\ Harmless'
  BY <1>2, <1>3 DEF RunsOnlyWhenAllowed, Harmless
<1>13. review' \in BOOLEAN /\ warned' \in BOOLEAN /\ reviewGen' \in Nat /\ (warned' => review')
  BY <1>0, <1>2
<1> QED BY <1>1, <1>2, <1>3, <1>4, <1>5, <1>6, <1>9, <1>11, <1>12, <1>13, QueueStep
\* The merge changes one setting and lets a review keep claims off.
LEMMA MergedValue ==
    ASSUME config \in Config, NEW q \in Change, NEW rev \in BOOLEAN
    PROVE  /\ Merged(q, rev) \in Config
           /\ q.kind = "host" => /\ Merged(q, rev).host = q.host
                                 /\ Merged(q, rev).enabled = (config.enabled /\ ~rev)
           /\ q.kind # "host" => /\ Merged(q, rev).host = config.host
                                 /\ Merged(q, rev).enabled = (q.enabled /\ ~rev)
<1>1. CASE q.kind = "host"
  <2>1. q.host \in Hosts
    BY <1>1 DEF Change
  <2>2. Merged(q, rev) = [[config EXCEPT !.host = q.host] EXCEPT !.enabled = @ /\ ~rev]
    BY <1>1 DEF Merged
  <2> QED BY <1>1, <2>1, <2>2 DEF Config
<1>2. CASE q.kind # "host"
  <2>1. q.enabled \in BOOLEAN
    BY <1>2 DEF Change
  <2>2. Merged(q, rev) = [[config EXCEPT !.enabled = q.enabled] EXCEPT !.enabled = @ /\ ~rev]
    BY <1>2 DEF Merged
  <2> QED BY <1>2, <2>1, <2>2 DEF Config
<1> QED BY <1>1, <1>2

\* The first change of the queue is merged into the settings of now.
LEMMA ApplyStep == ASSUME Inv, ApplyConfig PROVE Inv'
<1> DEFINE q == Head(queue)
           rev == review /\ ~Dismisses(q)
           new == Merged(q, rev)
<1>0. /\ Types /\ queue \in Seq(Change) /\ queue # <<>> /\ op = None /\ config \in Config
      /\ asked \in Config /\ Consent /\ RunsOnlyWhenAllowed /\ review \in BOOLEAN
  BY DEF Inv, Types, ApplyConfig
<1>1. /\ review' = rev /\ queue' = Tail(queue)
      /\ op' = [pc |-> "write", new |-> new, reconnect |-> new.host # config.host,
                stops |-> new # config \/ (q.kind = "claims" /\ q.enabled /\ ~engine.on)]
      /\ UNCHANGED <<config, disk, session, engine, reviewGen, warned, asked, count>>
  BY DEF ApplyConfig, claimVars
<1>2. /\ Tail(queue) \in Seq(Change) /\ Len(Tail(queue)) = Len(queue) - 1 /\ Len(queue) \in Nat \ {0}
      /\ \A i \in 1..Len(queue) - 1 : Tail(queue)[i] = queue[i + 1]
      /\ q = queue[1] /\ q \in Change
  BY <1>0, TailAt
<1>3. rev \in BOOLEAN /\ (rev => review)
  BY <1>0
<1>4. /\ new \in Config
      /\ q.kind = "host" => new.host = q.host /\ new.enabled = (config.enabled /\ ~rev)
      /\ q.kind # "host" => new.host = config.host /\ new.enabled = (q.enabled /\ ~rev)
  <2> HIDE DEF q, rev
  <2> QED BY <1>0, <1>2, <1>3, MergedValue
<1>5. Dismisses(q) <=> Enabling(q) /\ q.review = reviewGen
  BY DEF Dismisses, Enabling
<1>6. Dismisses(q) => ~rev
  OBVIOUS
<1>7. review /\ ~Dismisses(q) => rev
  OBVIOUS
<1> HIDE DEF q, rev, new
<1>8. ~Writing
  BY <1>0 DEF Writing
<1>9. op' # None /\ op'.pc = "write" /\ op'.new = new /\ (new # config => op'.stops) /\ op'.stops \in BOOLEAN
  BY <1>1 DEF None
<1>10. Writing'
  BY <1>9 DEF Writing
<1>11. Types'
  BY <1>0, <1>1, <1>2, <1>3, <1>4, <1>9 DEF Types
<1>12. RunsOnlyWhenAllowed'
  BY <1>0, <1>1, <1>3 DEF RunsOnlyWhenAllowed, MayResume
<1>13. Harmless'
  BY <1>1, <1>9 DEF Harmless
<1>14. Consent'
  <2>1. warned' => review'
    BY <1>0, <1>1, <1>2, <1>5, <1>7 DEF Consent
  <2>2. ASSUME NEW i \in 1..Len(queue'), Enabling(queue'[i])
        PROVE  queue'[i].review <= reviewGen' /\ (queue'[i].review = reviewGen' => ~warned')
    <3>1. i + 1 \in 1..Len(queue) /\ queue'[i] = queue[i + 1]
      BY <1>1, <1>2
    <3> QED BY <1>0, <1>1, <2>2, <3>1 DEF Consent
  <2> QED BY <2>1, <2>2 DEF Consent
<1>15. /\ \A i \in Nat : LastHost(queue', i) => LastHost(queue, i + 1) /\ queue'[i] = queue[i + 1]
       /\ \A i \in Nat : LastSwitch(queue', i) => LastSwitch(queue, i + 1) /\ queue'[i] = queue[i + 1]
       /\ NoHost(queue') => IF q.kind = "host" THEN LastHost(queue, 1) ELSE NoHost(queue)
       /\ NoSwitch(queue') => IF q.kind = "host" THEN NoSwitch(queue) ELSE LastSwitch(queue, 1)
  BY <1>0, <1>1, TailLast DEF q
<1>16. \A i \in Nat : i + 1 \in Nat
  OBVIOUS
<1>17. HostStands => HostStands'
  <2> SUFFICES ASSUME HostStands PROVE HostStands'
    OBVIOUS
  <2>1. \A i \in Nat : LastHost(queue', i) => queue'[i].host = asked'.host
    BY <1>1, <1>15, <1>16 DEF HostStands
  <2>2. NoHost(queue') => op'.new.host = asked'.host
    BY <1>1, <1>2, <1>4, <1>8, <1>9, <1>15 DEF HostStands
  <2> QED BY <1>10, <2>1, <2>2 DEF HostStands
<1>18. SwitchStands => SwitchStands'
  <2> SUFFICES ASSUME SwitchStands PROVE SwitchStands'
    OBVIOUS
  <2>1. ASSUME NEW i \in Nat, LastSwitch(queue', i)
        PROVE  /\ queue'[i].enabled = asked'.enabled
               /\ queue'[i].enabled => queue'[i].kind = "claims" /\ queue'[i].review = reviewGen'
    <3>1. LastSwitch(queue, i + 1) /\ queue'[i] = queue[i + 1] /\ i + 1 \in Nat
      BY <1>15, <1>16, <2>1
    <3> QED BY <1>1, <3>1 DEF SwitchStands
  <2>2. ASSUME NoSwitch(queue'), q.kind = "host"
        PROVE  (review' => ~asked'.enabled) /\ op'.new.enabled = asked'.enabled
    <3>1. config.enabled = asked.enabled /\ (review => ~asked.enabled)
      BY <1>8, <1>15, <2>2 DEF SwitchStands
    <3>2. new.enabled = (config.enabled /\ ~rev)
      BY <1>4, <2>2
    <3>3. asked.enabled \in BOOLEAN
      BY <1>0 DEF Config
    <3>4. (rev => ~asked.enabled) /\ new.enabled = asked.enabled
      BY <1>3, <3>1, <3>2, <3>3
    <3> QED BY <1>1, <1>9, <3>4
  <2>3. ASSUME NoSwitch(queue'), q.kind # "host"
        PROVE  (review' => ~asked'.enabled) /\ op'.new.enabled = asked'.enabled
    <3>1. q.enabled = asked.enabled /\ (q.enabled => q.kind = "claims" /\ q.review = reviewGen)
      BY <1>2, <1>15, <2>3 DEF SwitchStands
    <3>2. q.enabled => ~rev
      BY <1>5, <1>6, <3>1 DEF Enabling
    <3>3. new.enabled = (q.enabled /\ ~rev)
      BY <1>4, <2>3
    <3>4. asked.enabled \in BOOLEAN
      BY <1>0 DEF Config
    <3>5. (rev => ~asked.enabled) /\ new.enabled = asked.enabled
      BY <3>1, <3>2, <3>3, <3>4
    <3> QED BY <1>1, <1>9, <3>5
  <2> QED BY <1>10, <2>1, <2>2, <2>3 DEF SwitchStands
<1> QED BY <1>1, <1>11, <1>12, <1>13, <1>14, <1>17, <1>18 DEF Inv

\* The write puts the merged settings in force and on disk.
LEMMA WriteStep == ASSUME Inv, WriteConfig PROVE Inv'
<1>0. /\ Types /\ Writing /\ op.new \in Config /\ op.stops \in BOOLEAN /\ engine \in Engine
      /\ Harmless /\ RunsOnlyWhenAllowed
  BY DEF Inv, Types, WriteConfig, Writing
<1>1. /\ disk' = op.new /\ config' = op.new /\ (op' = None \/ op'.pc = "stop")
      /\ (op.stops /\ engine' = Stopped) \/ (~op.stops /\ engine' = engine)
      /\ UNCHANGED <<queue, session, review, reviewGen, warned, asked, count>>
  BY DEF WriteConfig, Captured
<1>2. ~Writing'
  BY <1>1 DEF Writing
<1>3. engine' \in Engine /\ (engine'.on => engine.on /\ ~op.stops)
  BY <1>0, <1>1, StopType
<1>4. Types'
  BY <1>0, <1>1, <1>2, <1>3 DEF Types
<1>5. RunsOnlyWhenAllowed'
  BY <1>0, <1>1, <1>3 DEF RunsOnlyWhenAllowed, MayResume, Harmless
<1>6. Harmless' /\ Consent'
  BY <1>1, <1>2 DEF Harmless, Consent, Inv
<1>7. HostStands => HostStands'
  BY <1>0, <1>1, <1>2 DEF HostStands
<1>8. SwitchStands => SwitchStands'
  BY <1>0, <1>1, <1>2 DEF SwitchStands
<1> QED BY <1>1, <1>4, <1>5, <1>6, <1>7, <1>8 DEF Inv

\* A write that fails is the only way to lose a change.
LEMMA WriteFailsStep == ASSUME Inv, WriteFails PROVE Inv'
<1>0. Types /\ count \in Counter
  BY DEF Inv, Types
<1>1. /\ count' = [count EXCEPT !.faults = @ + 1, !.lost = @ + 1] /\ op' = None
      /\ UNCHANGED <<config, disk, queue, session, engine, review, reviewGen, warned, asked>>
  BY DEF WriteFails, claimVars
<1>2. count' \in Counter /\ count'.lost # 0
  <2>1. count.faults + 1 \in Nat /\ count.lost + 1 \in Nat /\ count.lost + 1 # 0
    BY <1>0 DEF Counter
  <2>2. \A m, k \in Nat : /\ [count EXCEPT !.faults = m, !.lost = k] \in Counter
                          /\ [count EXCEPT !.faults = m, !.lost = k].lost = k
    BY <1>0 DEF Counter
  <2>3. count' = [count EXCEPT !.faults = count.faults + 1, !.lost = count.lost + 1]
    BY <1>0, <1>1 DEF Counter
  <2> QED BY <2>1, <2>2, <2>3
<1>3. ~Writing'
  BY <1>1 DEF Writing
<1>4. Types'
  BY <1>0, <1>1, <1>2, <1>3 DEF Types
<1>5. RunsOnlyWhenAllowed' /\ Harmless' /\ Consent'
  BY <1>1, <1>3 DEF Inv, RunsOnlyWhenAllowed, MayResume, Harmless, Consent
<1> QED BY <1>2, <1>4, <1>5 DEF Inv

-----------------------------------------------------------------------------
\* Every step keeps the invariant.
LEMMA NextInv == Inv /\ [Next]_vars => Inv'
<1> SUFFICES ASSUME Inv, [Next]_vars PROVE Inv'
  OBVIOUS
<1>1. CASE UNCHANGED vars
  <2>1. RunsOnlyWhenAllowed'
    BY <1>1 DEF Inv, vars, claimVars, RunsOnlyWhenAllowed, MayResume
  <2>2. session' \in BOOLEAN /\ engine' \in Engine /\ count' \in Counter /\ count'.lost = count.lost
    BY <1>1 DEF Inv, Types, vars, claimVars
  <2> QED BY <1>1, <2>1, <2>2, QuietStep DEF vars
<1> QED BY <1>1, EngineSteps, SessionSteps, AfterWriteSteps, ClickStep, ReviewStep, ApplyStep,
           WriteStep, WriteFailsStep DEF Next

\* The invariant contains the property.
LEMMA InvImplies == Inv => SettingsHold
<1> SUFFICES ASSUME Inv PROVE SettingsHold
  OBVIOUS
<1>1. ConsentIsFresh
  BY DEF Inv, Consent, ConsentIsFresh, RunsOnlyWhenAllowed, MayResume
<1>2. LastClickStands
  <2> SUFFICES ASSUME queue = <<>>, op = None, count.lost = 0 PROVE config = asked /\ disk = asked
    BY DEF LastClickStands, Idle
  <2>1. 1..Len(queue) = {}
    OBVIOUS
  <2>2. NoHost(queue) /\ NoSwitch(queue) /\ ~Writing
    BY <2>1 DEF NoHost, NoSwitch, Writing
  <2>3. /\ config.host = asked.host /\ disk.host = asked.host
        /\ config.enabled = asked.enabled /\ disk.enabled = asked.enabled
    BY <2>2 DEF Inv, HostStands, SwitchStands
  <2>4. config \in Config /\ disk \in Config /\ asked \in Config
    BY DEF Inv, Types
  <2> QED BY <2>3, <2>4 DEF Config
<1> QED BY <1>1, <1>2 DEF Inv, SettingsHold

\* queueSettings, applyConfig, setClaims, resumeClaims and stopClaimsForReview: the claims engine
\* runs only where an open session, the settings in force and a consent newer than every warning
\* allow it, and the last value asked for each setting is the one in force and on disk.
THEOREM SettingsAreKept == Spec => []SettingsHold
BY InitInv, NextInv, InvImplies, PTL DEF Spec
=============================================================================
