--------------------------- MODULE WalletSyncProofs --------------------------
(***************************************************************************)
(* The wallet's refresher is an EventRefresh, whatever LiveUpdates, the    *)
(* server and the reads do beside it, and the workers that register        *)
(* addresses never oversubscribe a connection.                             *)
(***************************************************************************)
EXTENDS WalletSync, TLAPS, FiniteSetTheorems

\* The flags are Booleans, a locked wallet is owed nothing, and a timer is armed only while an
\* invalidation is waiting and no run() is in progress.
Armed ==
    /\ active \in BOOLEAN /\ dirty \in BOOLEAN /\ timer \in BOOLEAN
    /\ ~active => ~dirty /\ ~timer
    /\ timer => dirty /\ step = "none"


\* A step that asks for a refresh while the wallet is unlocked, and one that leaves the refresher alone.
Asks   == active /\ UNCHANGED <<active, step>> /\ RequestUpdate
Leaves == UNCHANGED <<active, dirty, timer>> /\ (step' # "none") = (step # "none")

\* Every wake-up either asks the refresher or leaves it alone.
LEMMA WakeUps ==
    /\ \A c \in BOOLEAN : OnWalletChange(c) /\ active /\ UNCHANGED <<active, step>> => Asks
    /\ NoChange /\ UNCHANGED <<active, step>> => Leaves
  BY DEF OnWalletChange, NoChange, eventVars, Asks, Leaves

\* The end of a read never ends the run() that awaits it.
LEMMA Settles ==
    ASSUME NEW result \in {"ok", "abort", "error"}, Settle(result), UNCHANGED <<active, dirty, timer>>
    PROVE  Leaves
  BY DEF Settle, Leaves

\* Seen from the refresher, a step asks for a refresh, is a step of walletUpdates, locks the
\* wallet, or is none of its business.
LEMMA Steps ==
    ASSUME [Next]_vars
    PROVE  Asks \/ Leaves \/ UpdateTimerFires \/ RunEnds \/ Lock
<1> USE DEF sessionVars, eventVars, OnlyRead
<1>1. CASE Client
  <2>1. CASE \/ Connected \/ EnsureConnected \/ StaleEnds \/ RetryTimerFires \/ ReadBegins \/ Replay
    BY <2>1, WakeUps DEF Connected, EnsureConnected, StaleEnds, RetryTimerFires, ReadBegins,
                         Replay, Leaves
  <2>2. CASE BaseSubscribed
    BY <2>2, WakeUps DEF BaseSubscribed
  <2>3. CASE RegisterEnds \/ AddressTimerFires
    BY <2>3, WakeUps DEF RegisterEnds, AddressTimerFires, FlushAddresses, OnWalletChange, NoChange,
                         Asks, Leaves
  <2>4. CASE Publish
    BY <2>4, Settles DEF Publish
  <2>5. CASE RunAwaits \/ RunDecides
    BY <2>5 DEF RunAwaits, RunDecides, Leaves
  <2>6. ASSUME NEW a \in Addresses, Subscribe(a) \/ ServerSubscribes(a) \/ WatchAddress(a) \/ ReadAddress(a)
        PROVE  Leaves
    BY <2>6, WakeUps DEF Subscribe, ServerSubscribes, WatchAddress, ReadAddress, Leaves
  <2>7. ASSUME NEW a \in Addresses, Install(a) PROVE Asks \/ Leaves
    BY <2>7, WakeUps DEF Install, FlushAddresses, AddressChange, OnWalletChange, NoChange, Asks,
                         Leaves
  <2>8. ASSUME NEW a \in Addresses, WatchFails(a) PROVE Leaves
    BY <2>8, Settles DEF WatchFails
  <2>9. ASSUME NEW p \in pushes, Notify(p) PROVE Asks \/ Leaves
    BY <2>9, WakeUps DEF Notify, AddressChange, OnWalletChange, NoChange, Asks, Leaves
  <2>10. ASSUME NEW result \in {"abort", "error"}, RefreshVoided(result) PROVE Leaves
    BY <2>10, Settles DEF RefreshVoided
  <2>11. QED
    BY <1>1, <2>1, <2>2, <2>3, <2>4, <2>5, <2>6, <2>7, <2>8, <2>9, <2>10 DEF Client
<1>2. CASE Environment
  <2>1. ASSUME NEW a \in Addresses, NewAddress(a) \/ ExtendLookahead(a) PROVE Asks
    BY <2>1 DEF NewAddress, ExtendLookahead, Asks, Unfenced
  <2>2. ASSUME NEW a \in Addresses, NEW reset \in BOOLEAN, ServerChange(a, reset) PROVE Leaves
    BY <2>2 DEF ServerChange, Leaves
  <2>3. ASSUME NEW a \in Addresses, NEW why, ServerRefuses(a, why) PROVE Leaves
    BY <2>3, WakeUps DEF ServerRefuses
  <2>4. CASE Disconnected \/ EnsureFails \/ UserRefresh
    BY <2>4, WakeUps DEF Disconnected, EnsureFails, UserRefresh, Leaves
  <2>5. CASE ReplayBusy \/ RefreshFails
    BY <2>5, Settles DEF ReplayBusy, RefreshFails
  <2>6. CASE ReplayStale
    BY <2>6, Settles DEF ReplayStale, Leaves
  <2>7. QED
    BY <1>2, <2>1, <2>2, <2>3, <2>4, <2>5, <2>6 DEF Environment
<1>3. CASE UNCHANGED vars
  BY <1>3 DEF vars, Leaves
<1>4. QED
  BY <1>1, <1>2, <1>3 DEF Next

\* The refresher starts idle, and every step keeps it armed as it should be.
LEMMA ArmedInvariant == Spec => []Armed
<1>1. Init => Armed
  BY DEF Init, Armed
<1>2. Armed /\ [Next]_vars => Armed'
  <2> SUFFICES ASSUME Armed, [Next]_vars PROVE Armed'
    OBVIOUS
  <2>1. CASE Asks              BY <2>1 DEF Asks, RequestUpdate, Armed
  <2>2. CASE Leaves            BY <2>2 DEF Leaves, Armed
  <2>3. CASE UpdateTimerFires  BY <2>3 DEF UpdateTimerFires, Armed, sessionVars
  <2>4. CASE RunEnds           BY <2>4 DEF RunEnds, Armed, sessionVars
  <2>5. CASE Lock              BY <2>5 DEF Lock, Armed
  <2>6. QED                    BY <2>1, <2>2, <2>3, <2>4, <2>5, Steps
<1>3. QED
  BY <1>1, <1>2, PTL DEF Spec

\* Every step of the wallet is a step of EventRefresh or leaves it alone: a wake-up is a
\* request(), the timer a drain(), the end of run() a success or a failure, lock() a close().
LEMMA RefresherSteps ==
    ASSUME Armed, [Next]_vars
    PROVE  [Refresher!Next]_(Refresher!vars)
<1>1. CASE Asks
  BY <1>1 DEF Asks, RequestUpdate, Armed, Refresher!Next, Refresher!Request
<1>2. CASE Leaves
  BY <1>2 DEF Leaves, Refresher!vars
<1>3. CASE UpdateTimerFires
  BY <1>3 DEF UpdateTimerFires, Armed, sessionVars, Refresher!Next, Refresher!Drain
<1>4. CASE RunEnds
  <2>1. CASE active /\ step = "error"
    BY <1>4, <2>1 DEF RunEnds, Armed, sessionVars, Refresher!Next, Refresher!Fail
  <2>2. CASE ~(active /\ step = "error")
    BY <1>4, <2>2 DEF RunEnds, Armed, sessionVars, Refresher!Next, Refresher!Finish
  <2>3. QED
    BY <2>1, <2>2
<1>5. CASE Lock
  BY <1>5 DEF Lock, Armed, Refresher!Next, Refresher!Close
<1>6. QED
  BY <1>1, <1>2, <1>3, <1>4, <1>5, Steps

\* The wallet's refresher implements EventRefresh.
THEOREM RefreshesOnEvents == Spec => ImplementsEventRefresh
<1>1. Init => Refresher!Init
  BY DEF Init, Refresher!Init
<1>2. QED
  BY <1>1, ArmedInvariant, RefresherSteps, PTL DEF Spec, ImplementsEventRefresh, Refresher!Spec

\* What EventRefresh keeps: its two promises need each other, and that an owner that is not active
\* is owed nothing.
Promised ==
    /\ Refresher!TypeOK /\ Refresher!NoStrandedEvent /\ Refresher!NoPolling
    /\ ~active => ~dirty /\ ~timer

\* EventRefresh itself, for every owner and every timing of its reads: an invalidation that arrives
\* during a read, during its failure or just before its end still has a read or a timer that will
\* look at it, and success schedules no poll (request, drain and close of event-refresh.mjs).
THEOREM EventRefreshPromises == Refresher!Spec => [](Refresher!NoStrandedEvent /\ Refresher!NoPolling)
<1> USE DEF Promised, Refresher!TypeOK, Refresher!NoStrandedEvent, Refresher!NoPolling
<1>1. Refresher!Init => Promised
  BY DEF Refresher!Init
<1>2. Promised /\ [Refresher!Next]_(Refresher!vars) => Promised'
  <2> SUFFICES ASSUME Promised, [Refresher!Next]_(Refresher!vars) PROVE Promised'
    OBVIOUS
  <2>1. CASE Refresher!Activate                BY <2>1 DEF Refresher!Activate
  <2>2. CASE Refresher!Request                 BY <2>2 DEF Refresher!Request
  <2>3. CASE Refresher!Drain                   BY <2>3 DEF Refresher!Drain
  <2>4. CASE Refresher!Finish                  BY <2>4 DEF Refresher!Finish
  <2>5. CASE Refresher!Fail                    BY <2>5 DEF Refresher!Fail
  <2>6. CASE Refresher!Close                   BY <2>6 DEF Refresher!Close
  <2>7. CASE UNCHANGED (Refresher!vars)        BY <2>7 DEF Refresher!vars
  <2>8. QED  BY <2>1, <2>2, <2>3, <2>4, <2>5, <2>6, <2>7 DEF Refresher!Next
<1>3. Promised => Refresher!NoStrandedEvent /\ Refresher!NoPolling
  OBVIOUS
<1>4. QED
  <2> HIDE DEF Promised, Refresher!TypeOK, Refresher!NoStrandedEvent, Refresher!NoPolling
  <2>1. QED
    BY <1>1, <1>2, <1>3, PTL DEF Refresher!Spec

\* No wake-up of the wallet is stranded: what EventRefresh promises holds of its refresher.
THEOREM NoWakeUpStranded == Spec => []NoStrandedEvent
<1>1. Refresher!NoStrandedEvent => NoStrandedEvent
  BY DEF NoStrandedEvent
<1>2. QED
  BY <1>1, EventRefreshPromises, RefreshesOnEvents, PTL DEF ImplementsEventRefresh

-----------------------------------------------------------------------------
(* The subscriptions of one connection. *)

\* The addresses that use a subscription or are about to.
Subscriptions == registrations \cup asked \cup served

\* Only a worker that takes an address adds to the subscriptions of a connection.
LEMMA OnlySubscribeAdds ==
    ASSUME [Next]_vars
    PROVE  Subscriptions' \subseteq Subscriptions \/ \E a \in Addresses : Subscribe(a)
<1> USE DEF Subscriptions, regVars
<1>1. CASE Client
  <2>1. CASE Connected
    BY <2>1 DEF Connected, Invalidate
  <2>2. CASE EnsureConnected \/ BaseSubscribed \/ RegisterEnds \/ StaleEnds \/ AddressTimerFires \/ RetryTimerFires
    BY <2>2 DEF EnsureConnected, BaseSubscribed, RegisterEnds, StaleEnds, AddressTimerFires,
                RetryTimerFires
  <2>3. CASE ReadBegins \/ Replay \/ Publish
    BY <2>3 DEF ReadBegins, Replay, Publish, OnlyRead
  <2>4. CASE UpdateTimerFires \/ RunAwaits \/ RunDecides \/ RunEnds
    BY <2>4 DEF UpdateTimerFires, RunAwaits, RunDecides, RunEnds
  <2>5. ASSUME NEW a \in Addresses, ServerSubscribes(a) \/ Install(a) PROVE Subscriptions' \subseteq Subscriptions
    BY <2>5 DEF ServerSubscribes, Install
  <2>6. ASSUME NEW a \in Addresses, WatchAddress(a) \/ WatchFails(a) \/ ReadAddress(a)
        PROVE  Subscriptions' \subseteq Subscriptions
    BY <2>6 DEF WatchAddress, WatchFails, ReadAddress, OnlyRead
  <2>7. ASSUME NEW p \in pushes, Notify(p) PROVE Subscriptions' \subseteq Subscriptions
    BY <2>7 DEF Notify
  <2>8. ASSUME NEW result \in {"abort", "error"}, RefreshVoided(result) PROVE Subscriptions' \subseteq Subscriptions
    BY <2>8 DEF RefreshVoided, OnlyRead
  <2>9. QED
    BY <1>1, <2>1, <2>2, <2>3, <2>4, <2>5, <2>6, <2>7, <2>8 DEF Client
<1>2. CASE Environment
  <2>1. ASSUME NEW a \in Addresses, NEW reset \in BOOLEAN, NewAddress(a) \/ ExtendLookahead(a) \/ ServerChange(a, reset)
        PROVE  Subscriptions' \subseteq Subscriptions
    BY <2>1 DEF NewAddress, ExtendLookahead, ServerChange
  <2>2. ASSUME NEW a \in Addresses, NEW why, ServerRefuses(a, why) PROVE Subscriptions' \subseteq Subscriptions
    BY <2>2 DEF ServerRefuses
  <2>3. CASE Disconnected \/ Lock
    BY <2>3 DEF Disconnected, Lock, Invalidate
  <2>4. CASE EnsureFails
    BY <2>4 DEF EnsureFails
  <2>5. CASE ReplayBusy \/ ReplayStale \/ RefreshFails \/ UserRefresh
    BY <2>5 DEF ReplayBusy, ReplayStale, RefreshFails, UserRefresh, OnlyRead
  <2>6. QED
    BY <1>2, <2>1, <2>2, <2>3, <2>4, <2>5 DEF Environment
<1>3. CASE UNCHANGED vars
  BY <1>3 DEF vars
<1>4. QED
  BY <1>1, <1>2, <1>3 DEF Next

\* Two workers reserve slots side by side and never ask for more than the connection has.
THEOREM NeverOversubscribed == Spec => []SubscriptionBound
<1> DEFINE Bound == Subscriptions \subseteq Addresses /\ SubscriptionBound
<1> USE SyncBounds
<1>1. Init => Bound
  BY FS_EmptySet DEF Init, Subscriptions, SubscriptionBound
<1>2. Bound /\ [Next]_vars => Bound'
  <2> SUFFICES ASSUME Bound, [Next]_vars PROVE Bound'
    OBVIOUS
  <2>0. IsFiniteSet(Subscriptions) /\ Cardinality(Subscriptions) \in Nat
    BY FS_Subset, FS_CardinalityType
  <2>1. CASE Subscriptions' \subseteq Subscriptions
    <3>1. Cardinality(Subscriptions') <= Cardinality(Subscriptions) /\ Cardinality(Subscriptions') \in Nat
      BY <2>0, <2>1, FS_Subset, FS_CardinalityType
    <3>2. QED
      BY <2>0, <2>1, <3>1 DEF SubscriptionBound, Subscriptions
  <2>2. ASSUME NEW a \in Addresses, Subscribe(a) PROVE Bound'
    <3>1. CASE Occupied >= MaxWatched
      BY <2>2, <3>1 DEF Subscribe, Subscriptions, SubscriptionBound
    <3>2. CASE ~(Occupied >= MaxWatched)
      <4>1. IsFiniteSet(registrations) /\ IsFiniteSet(asked \cup served)
        BY <2>0, FS_Subset DEF Subscriptions
      <4>2. /\ Cardinality(registrations) \in Nat /\ Cardinality(asked \cup served) \in Nat
            /\ Cardinality(Subscriptions) <= Cardinality(registrations) + Cardinality(asked \cup served)
        <5>1. Subscriptions = registrations \cup (asked \cup served)
          BY DEF Subscriptions
        <5>2. IsFiniteSet(registrations \cap (asked \cup served))
          BY <4>1, FS_Subset
        <5>3. Cardinality(Subscriptions) = Cardinality(registrations) + Cardinality(asked \cup served)
                                            - Cardinality(registrations \cap (asked \cup served))
          BY <4>1, <5>1, FS_Union
        <5>4. /\ Cardinality(registrations) \in Nat /\ Cardinality(asked \cup served) \in Nat
              /\ Cardinality(registrations \cap (asked \cup served)) \in Nat
          BY <4>1, <5>2, FS_CardinalityType
        <5>5. QED
          BY <5>3, <5>4
      <4>3. Cardinality(Subscriptions) + 2 < MaxWatched
        BY <2>0, <3>2, <4>2 DEF Occupied
      <4>4. Subscriptions' = Subscriptions \cup {a}
        BY <2>2, <3>2 DEF Subscribe, Subscriptions
      <4>5. Cardinality(Subscriptions') <= Cardinality(Subscriptions) + 1 /\ Cardinality(Subscriptions') \in Nat
        <5>1. /\ IsFiniteSet(Subscriptions')
              /\ Cardinality(Subscriptions') \in {Cardinality(Subscriptions), Cardinality(Subscriptions) + 1}
          BY <2>0, <4>4, FS_AddElement
        <5>2. QED
          BY <2>0, <5>1
      <4>6. Subscriptions' \subseteq Addresses
        BY <4>4
      <4>7. QED
        BY <2>0, <4>3, <4>5, <4>6 DEF SubscriptionBound, Subscriptions
    <3>3. QED
      BY <3>1, <3>2
  <2>3. QED
    BY <2>1, <2>2, OnlySubscribeAdds
<1>3. QED
  BY <1>1, <1>2, PTL DEF Spec

-----------------------------------------------------------------------------
(* A wallet at rest shows what the server has. *)

\* The server tells nobody that subscriptions are unsupported after it has granted one on the same
\* connection: the two answers are of its build, not of an address.
SteadyServer == addressCapability = "yes" => addressCapability' # "no"

\* The server will not watch more addresses on this connection, and no worker is about.
Refused   == addressCapacity \/ addressCapability = "no"
NoWorkers == todo = {} /\ asked = {} /\ served = {}

\* An address waits, is asked for, is granted or is installed, one at a time.
Places ==
    /\ accounts # {} /\ accounts \subseteq Addresses
    /\ registrations \cup todo \cup asked \cup served \subseteq accounts
    /\ registrations \cap (todo \cup asked \cup served) = {}
    /\ todo \cap (asked \cup served) = {} /\ asked \cap served = {}
    /\ registrations \cup served \subseteq subscribed

\* Workers belong to the pass of this connection, one of them until the first grant; a refusal is
\* final, so no address is installed after it; and a pass that has not subscribed yet is due.
Passes ==
    /\ addressCapability \in {"unknown", "yes", "no"}
    /\ stale => work \in {"base", "register"}
    /\ work # "register" \/ stale \/ Refused => NoWorkers
    /\ work = "register" /\ ~stale => baseReady /\ ~addressCapacity
    /\ addressCapability = "unknown" => \A x, y \in asked \cup served : x = y
    /\ ~up => registrations = {} /\ NoWorkers /\ ~Refused /\ addressCapability = "unknown" /\ ~baseReady
    /\ up /\ ~baseReady => (work \in {"start", "base"} /\ ~stale) \/ retryTimer \/ requested

\* A revision that is unread, or that a read will leave unread, is owed a run or a first catch-up.
Owed ==
    /\ unread => dirty \/ step \in {"starting", "await", "decide", "joined", "error"} \/ ~baseReady
    /\ bumped => Reading /\ (dirty \/ step \in {"starting", "await"} \/ ~baseReady)
    /\ chainMoved => bumped

\* A read covers the accounts of its start and reads only what is watched; so does what it leaves
\* for the next one.
Sound ==
    /\ rphase \in {"none", "begin", "baseline", "replay", "pages", "publish"}
    /\ rphase = "begin" => rtodo = raccounts
    /\ Reading /\ ~bumped => raccounts = accounts
    /\ rtodo \subseteq raccounts
    /\ rphase \in {"baseline", "pages"} /\ ~chainMoved => \A a \in raccounts \ rtodo : Watched(a)
    /\ rphase \in {"replay", "publish"} /\ ~chainMoved => \A a \in raccounts : Watched(a)
    /\ ~unread => \A a \in accounts : Watched(a)
    /\ \A a \in syncKey \cup syncPending : Watched(a)
    /\ ~Journal => /\ syncKey = {} /\ syncPending = {} /\ rphase \notin {"baseline", "replay"}
                   /\ rphase \in {"pages", "publish"} => ~addressChangesSupported

\* The read under way will show the address as the server has it now.
Covers(a) ==
    \/ rphase \in {"begin", "baseline", "replay"}
    \/ rphase = "pages" /\ a \in rtodo
    \/ rphase \in {"pages", "publish"} /\ rread[a] = ver[a]

\* A push of the address is on its way, or in a batch that counts as one.
Told(a) == (\E p \in pushes : p.address = a) \/ (addressPending /\ ~addressCatchup)

\* A watched address is shown as it is, or a push or an unread revision will have it read; a read
\* that would acknowledge the revision contains it.
Follows(a) ==
    /\ shown[a] = ver[a] \/ Told(a) \/ unread
    /\ Reading /\ ~bumped => Told(a) \/ Covers(a)

Followed == \A a \in registrations : Follows(a)

Versions == {ver, shown, rread} \subseteq [Addresses -> Nat] /\ drops \in Nat

RestInv == active => Versions /\ Places /\ Passes /\ Owed /\ Sound /\ Followed

\* The families of steps.
PassStep ==
    \/ Connected \/ Disconnected \/ EnsureConnected \/ EnsureFails \/ BaseSubscribed \/ RegisterEnds
    \/ StaleEnds \/ RetryTimerFires
    \/ \E a \in Addresses :
         \/ Subscribe(a) \/ ServerSubscribes(a) \/ Install(a)
         \/ \E why \in {"capacity", "unsupported", "failure"} : ServerRefuses(a, why)
WakeStep == AddressTimerFires \/ \E p \in pushes : Notify(p)
ReadStep ==
    \/ ReadBegins \/ Replay \/ Publish \/ ReplayBusy \/ ReplayStale \/ RefreshFails \/ UserRefresh
    \/ \E a \in Addresses : WatchAddress(a) \/ WatchFails(a) \/ ReadAddress(a)
    \/ \E result \in {"abort", "error"} : RefreshVoided(result)
RunStep  == UpdateTimerFires \/ RunAwaits \/ RunDecides \/ RunEnds
GrowStep == \E a \in Addresses : NewAddress(a) \/ ExtendLookahead(a)
Change   == \E a \in Addresses, reset \in BOOLEAN : ServerChange(a, reset)

\* Every step of an unlocked wallet is of one of the families.
LEMMA Families ==
    ASSUME [Next]_vars, active'
    PROVE  active /\ (PassStep \/ WakeStep \/ ReadStep \/ RunStep \/ GrowStep \/ Change \/ UNCHANGED vars)
<1>1. ~Lock
  BY DEF Lock
<1>2. PassStep \/ WakeStep \/ ReadStep \/ RunStep \/ GrowStep \/ Change \/ UNCHANGED vars
  BY <1>1 DEF Next, Client, Environment, PassStep, WakeStep, ReadStep, RunStep, GrowStep, Change
<1>3. active
  BY <1>1, Steps DEF Asks, Leaves, UpdateTimerFires, RunEnds, sessionVars
<1>4. QED
  BY <1>2, <1>3

\* Only the passes touch the registrations and their connection.
LEMMA OnlyPassesRegister ==
    ASSUME WakeStep \/ ReadStep \/ RunStep \/ GrowStep \/ Change \/ UNCHANGED vars
    PROVE  UNCHANGED <<up, subscribed, regVars, stale, baseReady>>
<1> USE DEF serverVars, passVars, regVars
<1>1. CASE WakeStep
  BY <1>1 DEF WakeStep, AddressTimerFires, Notify
<1>2. CASE ReadStep
  <2>1. OnlyRead
    BY <1>2 DEF ReadStep, ReadBegins, Replay, Publish, ReplayBusy, ReplayStale, RefreshFails,
                UserRefresh,
                WatchAddress, WatchFails, ReadAddress, RefreshVoided
  <2>2. QED
    BY <2>1 DEF OnlyRead
<1>3. CASE RunStep
  BY <1>3 DEF RunStep, UpdateTimerFires, RunAwaits, RunDecides, RunEnds
<1>4. CASE GrowStep
  BY <1>4 DEF GrowStep, NewAddress, ExtendLookahead
<1>5. CASE Change
  BY <1>5 DEF Change, ServerChange
<1>6. CASE UNCHANGED vars
  BY <1>6 DEF vars
<1>7. QED
  BY <1>1, <1>2, <1>3, <1>4, <1>5, <1>6

\* An address moves from one place to the next.
LEMMA PlacesNext ==
    ASSUME active', [Next]_vars, Places, Passes
    PROVE  Places'
<1> USE DEF Places, sessionVars, serverVars, regVars
<1>1. CASE PassStep
  <2>1. CASE Connected \/ Disconnected
    BY <1>1, <2>1 DEF Connected, Disconnected, Invalidate
  <2>2. CASE EnsureConnected \/ EnsureFails \/ RegisterEnds \/ StaleEnds \/ RetryTimerFires
    BY <2>2 DEF EnsureConnected, EnsureFails, RegisterEnds, StaleEnds, RetryTimerFires
  <2>3. CASE BaseSubscribed
    BY <2>3 DEF BaseSubscribed, Passes, NoWorkers
  <2>4. ASSUME NEW a \in Addresses, Subscribe(a) PROVE Places'
    BY <2>4 DEF Subscribe
  <2>5. ASSUME NEW a \in Addresses, ServerSubscribes(a) PROVE Places'
    BY <2>5 DEF ServerSubscribes
  <2>6. ASSUME NEW a \in Addresses, Install(a) PROVE Places'
    BY <2>6 DEF Install
  <2>7. ASSUME NEW a \in Addresses, NEW why \in {"capacity", "unsupported", "failure"}, ServerRefuses(a, why)
        PROVE  Places'
    BY <2>7 DEF ServerRefuses
  <2>8. QED
    BY <1>1, <2>1, <2>2, <2>3, <2>4, <2>5, <2>6, <2>7 DEF PassStep
<1>2. CASE GrowStep
  <2>1. accounts \subseteq accounts' /\ accounts' \subseteq Addresses
    BY <1>2 DEF GrowStep, NewAddress, ExtendLookahead
  <2>2. UNCHANGED <<up, subscribed, regVars, stale, baseReady>>
    BY <1>2, OnlyPassesRegister
  <2>3. QED
    BY <2>1, <2>2
<1>3. CASE WakeStep \/ ReadStep \/ RunStep \/ Change \/ UNCHANGED vars
  <2>1. UNCHANGED accounts
    BY <1>3 DEF WakeStep, AddressTimerFires, Notify, ReadStep, ReadBegins, Replay, Publish,
                ReplayBusy,
                ReplayStale, RefreshFails, UserRefresh, WatchAddress, WatchFails, ReadAddress, RefreshVoided,
                OnlyRead, RunStep, UpdateTimerFires, RunAwaits, RunDecides, RunEnds, Change, ServerChange, vars
  <2>2. UNCHANGED <<up, subscribed, regVars, stale, baseReady>>
    BY <1>3, OnlyPassesRegister
  <2>3. QED
    BY <2>1, <2>2
<1>4. QED
  BY <1>1, <1>2, <1>3, Families

\* The first worker is alone until the server has granted an address.
LEMMA OneProbe ==
    ASSUME Places, Cardinality(asked \cup served) < 1
    PROVE  asked \cup served = {}
<1>1. IsFiniteSet(asked \cup served)
  BY SyncBounds, FS_Subset DEF Places
<1>2. Cardinality(asked \cup served) = 0
  BY <1>1, FS_CardinalityType
<1>3. QED
  BY <1>1, <1>2, FS_EmptySet

\* No step lets a worker outlive its pass or work after a refusal.
LEMMA PassesNext ==
    ASSUME active', [Next]_vars, [SteadyServer]_vars, Places, Passes
    PROVE  Passes'
<1> USE DEF Passes, NoWorkers, Refused, serverVars, passVars, regVars
<1>0. active
  BY Families
<1>1. CASE PassStep
  <2>1. CASE Connected
    BY <1>0, <2>1 DEF Connected, Invalidate, Kick
  <2>2. CASE Disconnected
    BY <2>2 DEF Disconnected, Invalidate
  <2>3. CASE EnsureConnected \/ EnsureFails \/ StaleEnds \/ RetryTimerFires
    <3>1. CASE EnsureConnected  BY <3>1 DEF EnsureConnected
    <3>2. CASE EnsureFails      BY <1>0, <3>2 DEF EnsureFails, Kick
    <3>3. CASE StaleEnds        BY <1>0, <3>3 DEF StaleEnds, Kick
    <3>4. CASE RetryTimerFires  BY <1>0, <3>4 DEF RetryTimerFires, Kick
    <3>5. QED                   BY <2>3, <3>1, <3>2, <3>3, <3>4
  <2>4. CASE BaseSubscribed
    BY <1>0, <2>4 DEF BaseSubscribed, Kick
  <2>5. CASE RegisterEnds
    BY <1>0, <2>5 DEF RegisterEnds, Kick
  <2>6. ASSUME NEW a \in Addresses, Subscribe(a) PROVE Passes'
    <3>1. addressCapability = "unknown" => asked \cup served = {}
      BY <2>6, OneProbe DEF Subscribe
    <3>2. ~Refused /\ up
      BY <2>6 DEF Subscribe
    <3>3. QED
      BY <2>6, <3>1, <3>2 DEF Subscribe
  <2>7. ASSUME NEW a \in Addresses, ServerSubscribes(a) PROVE Passes'
    BY <2>7 DEF ServerSubscribes
  <2>8. ASSUME NEW a \in Addresses, Install(a) PROVE Passes'
    BY <2>8 DEF Install
  <2>9. ASSUME NEW a \in Addresses, NEW why \in {"capacity", "unsupported", "failure"}, ServerRefuses(a, why)
        PROVE  Passes'
    <3>1. CASE why = "unsupported"
      <4>1. asked' # asked
        BY <2>9 DEF ServerRefuses
      <4>2. addressCapability # "yes"
        BY <2>9, <3>1, <4>1 DEF ServerRefuses, SteadyServer, vars
      <4>3. work = "register" /\ ~stale /\ up /\ addressCapability # "no"
        BY <2>9 DEF ServerRefuses
      <4>4. asked' = {} /\ served = {}
        BY <2>9, <4>2, <4>3 DEF ServerRefuses, Places
      <4>5. QED
        BY <2>9, <3>1, <4>3, <4>4 DEF ServerRefuses
    <3>2. CASE why # "unsupported"
      BY <2>9, <3>2 DEF ServerRefuses
    <3>3. QED
      BY <3>1, <3>2
  <2>10. QED
    BY <1>1, <2>1, <2>2, <2>3, <2>4, <2>5, <2>6, <2>7, <2>8, <2>9 DEF PassStep
<1>2. CASE ReadStep
  <2>1. UNCHANGED <<up, subscribed, regVars, stale, baseReady>>
    BY <1>2, OnlyPassesRegister
  <2>2. UNCHANGED <<work, requested, retryTimer>> \/ Kick(work, TRUE, retryTimer)
    BY <1>2 DEF ReadStep, ReadBegins, Replay, Publish, ReplayBusy, ReplayStale, RefreshFails,
                UserRefresh,
                WatchAddress, WatchFails, ReadAddress, RefreshVoided
  <2>3. QED
    BY <2>1, <2>2 DEF Kick
<1>3. CASE WakeStep \/ RunStep \/ GrowStep \/ Change \/ UNCHANGED vars
  <2>1. UNCHANGED <<work, requested, retryTimer>>
    BY <1>3 DEF WakeStep, AddressTimerFires, Notify, RunStep, UpdateTimerFires, RunAwaits,
                RunDecides, RunEnds,
                GrowStep, NewAddress, ExtendLookahead, Change, ServerChange, vars
  <2>2. UNCHANGED <<up, subscribed, regVars, stale, baseReady>>
    BY <1>3, OnlyPassesRegister
  <2>3. QED
    BY <2>1, <2>2
<1>4. QED
  BY <1>1, <1>2, <1>3, Families

\* An unread revision keeps what it is owed.
LEMMA OwedNext ==
    ASSUME active', [Next]_vars, Owed
    PROVE  Owed'
<1> USE DEF Owed, Reading, eventVars, revVars, passVars, readVars
<1>0. active
  BY Families
<1>1. CASE PassStep
  <2>1. CASE Connected \/ Disconnected
    <3>1. CASE Connected     BY <3>1 DEF Connected, Invalidate, NoChange
    <3>2. CASE Disconnected  BY <3>2 DEF Disconnected, Invalidate
    <3>3. QED                BY <2>1, <3>1, <3>2
  <2>2. CASE EnsureConnected \/ EnsureFails \/ StaleEnds \/ RetryTimerFires
    <3>1. UNCHANGED <<eventVars, revVars, chainMoved, readVars, step, baseReady>>
      BY <2>2 DEF EnsureConnected, EnsureFails, StaleEnds, RetryTimerFires, NoChange
    <3>2. QED
      BY <3>1
  <2>3. CASE BaseSubscribed
    BY <2>3 DEF BaseSubscribed, NoChange, OnWalletChange, RequestUpdate
  <2>4. CASE RegisterEnds
    BY <2>4 DEF RegisterEnds, FlushAddresses, NoChange, OnWalletChange, RequestUpdate
  <2>5. ASSUME NEW a \in Addresses, NEW why,
               Subscribe(a) \/ ServerSubscribes(a) \/ ServerRefuses(a, why)
        PROVE  Owed'
    BY <2>5 DEF Subscribe, ServerSubscribes, ServerRefuses, NoChange
  <2>6. ASSUME NEW a \in Addresses, Install(a) PROVE Owed'
    BY <2>6 DEF Install, FlushAddresses, AddressChange, NoChange, OnWalletChange, RequestUpdate
  <2>7. QED
    BY <1>1, <2>1, <2>2, <2>3, <2>4, <2>5, <2>6 DEF PassStep
<1>2. CASE WakeStep
  <2>1. CASE AddressTimerFires
    BY <2>1 DEF AddressTimerFires, FlushAddresses, NoChange, OnWalletChange, RequestUpdate
  <2>2. ASSUME NEW p \in pushes, Notify(p) PROVE Owed'
    BY <2>2 DEF Notify, AddressChange, NoChange, OnWalletChange, RequestUpdate
  <2>3. QED
    BY <1>2, <2>1, <2>2 DEF WakeStep
<1>3. CASE ReadStep
  <2>0. UNCHANGED <<dirty, baseReady>>
    BY <1>3 DEF ReadStep, ReadBegins, Replay, Publish, ReplayBusy, ReplayStale, RefreshFails,
                UserRefresh,
                WatchAddress, WatchFails, ReadAddress, RefreshVoided, OnlyRead
  <2>1. CASE ReadBegins \/ Replay \/ \E a \in Addresses : WatchAddress(a) \/ ReadAddress(a)
    <3>1. UNCHANGED <<unread, bumped, chainMoved, step>> /\ (Reading => Reading')
      BY <2>1 DEF ReadBegins, Replay, WatchAddress, ReadAddress
    <3>2. QED
      BY <2>0, <3>1
  <2>2. CASE \E a \in Addresses : WatchFails(a)
    BY <2>0, <2>2 DEF WatchFails, Settle
  <2>3. CASE ReplayBusy \/ RefreshFails
    BY <2>0, <2>3 DEF ReplayBusy, RefreshFails, Settle
  <2>4. CASE ReplayStale
    BY <2>0, <2>4 DEF ReplayStale, Settle
  <2>5. CASE Publish
    BY <2>0, <2>5 DEF Publish, Settle
  <2>6. CASE UserRefresh
    BY <2>0, <2>6 DEF UserRefresh, StartRefresh
  <2>7. ASSUME NEW result \in {"abort", "error"}, RefreshVoided(result) PROVE Owed'
    BY <2>0, <2>7 DEF RefreshVoided, Settle
  <2>8. QED
    BY <1>3, <2>1, <2>2, <2>3, <2>4, <2>5, <2>6, <2>7 DEF ReadStep
<1>4. CASE RunStep
  <2>1. CASE UpdateTimerFires
    BY <2>1 DEF UpdateTimerFires
  <2>2. CASE RunAwaits
    BY <2>2 DEF RunAwaits
  <2>3. CASE RunDecides
    BY <2>3 DEF RunDecides, StartRefresh
  <2>4. CASE RunEnds
    BY <1>0, <2>4 DEF RunEnds
  <2>5. QED
    BY <1>4, <2>1, <2>2, <2>3, <2>4 DEF RunStep
<1>5. CASE GrowStep
  BY <1>5 DEF GrowStep, NewAddress, ExtendLookahead, RequestUpdate
<1>6. CASE Change \/ UNCHANGED vars
  BY <1>6 DEF Change, ServerChange, vars
<1>7. QED
  BY <1>1, <1>2, <1>3, <1>4, <1>5, <1>6, Families

\* On one connection what is watched stays watched.
LEMMA WatchedKept ==
    ASSUME active', [Next]_vars, Places, Passes, ~Disconnected, NEW a, Watched(a)
    PROVE  Watched(a)'
<1> USE DEF Watched, regVars
<1>1. CASE PassStep
  <2>1. CASE Connected
    BY <2>1 DEF Connected, Passes, Refused
  <2>2. CASE EnsureConnected \/ EnsureFails \/ StaleEnds \/ RetryTimerFires \/ BaseSubscribed
    BY <2>2 DEF EnsureConnected, EnsureFails, StaleEnds, RetryTimerFires, BaseSubscribed
  <2>3. CASE RegisterEnds
    BY <2>3 DEF RegisterEnds, Passes
  <2>4. ASSUME NEW b \in Addresses, NEW why,
               Subscribe(b) \/ ServerSubscribes(b) \/ Install(b) \/ ServerRefuses(b, why)
        PROVE  Watched(a)'
    BY <2>4 DEF Subscribe, ServerSubscribes, Install, ServerRefuses
  <2>5. QED
    BY <1>1, <2>1, <2>2, <2>3, <2>4 DEF PassStep
<1>2. CASE ~PassStep
  BY <1>2, Families, OnlyPassesRegister
<1>3. QED
  BY <1>1, <1>2

\* A wake-up only adds to what is unread, and a reset drops what earlier reads left.
LEMMA WakesOnlyAdd ==
    ASSUME PassStep \/ WakeStep, Owed
    PROVE  /\ UNCHANGED <<accounts, ver, shown, readVars, addressChangesSupported>>
           /\ (unread => unread') /\ (bumped => bumped') /\ (chainMoved => chainMoved')
           /\ UNCHANGED <<syncKey, syncPending>> \/ (syncKey' = {} /\ syncPending' = {})
<1> USE DEF sessionVars, serverVars, revVars, cacheVars, NoChange, OnWalletChange
<1>1. CASE PassStep
  <2>1. CASE Connected \/ EnsureConnected \/ EnsureFails \/ StaleEnds \/ RetryTimerFires
    <3>1. CASE Connected        BY <3>1 DEF Connected
    <3>2. CASE EnsureConnected  BY <3>2 DEF EnsureConnected
    <3>3. CASE EnsureFails      BY <3>3 DEF EnsureFails
    <3>4. CASE StaleEnds        BY <3>4 DEF StaleEnds
    <3>5. CASE RetryTimerFires  BY <3>5 DEF RetryTimerFires
    <3>6. QED                   BY <2>1, <3>1, <3>2, <3>3, <3>4, <3>5
  <2>2. CASE Disconnected
    BY <2>2 DEF Disconnected, Owed
  <2>3. CASE BaseSubscribed
    BY <2>3 DEF BaseSubscribed
  <2>4. CASE RegisterEnds
    BY <2>4 DEF RegisterEnds, FlushAddresses
  <2>5. ASSUME NEW a \in Addresses, Install(a)
        PROVE  UNCHANGED <<accounts, ver, shown, readVars, cacheVars, chainMoved>> /\ (unread => unread') /\ (bumped => bumped')
    BY <2>5 DEF Install, FlushAddresses, AddressChange
  <2>6. ASSUME NEW a \in Addresses, NEW why, Subscribe(a) \/ ServerSubscribes(a) \/ ServerRefuses(a, why)
        PROVE  UNCHANGED <<accounts, ver, shown, readVars, cacheVars, chainMoved, unread, bumped>>
    BY <2>6 DEF Subscribe, ServerSubscribes, ServerRefuses
  <2>7. QED
    BY <1>1, <2>1, <2>2, <2>3, <2>4, <2>5, <2>6 DEF PassStep
<1>2. CASE AddressTimerFires
  BY <1>2 DEF AddressTimerFires, FlushAddresses
<1>3. ASSUME NEW p \in pushes, Notify(p)
      PROVE  /\ UNCHANGED <<accounts, ver, shown, readVars, addressChangesSupported>>
             /\ (unread => unread') /\ (bumped => bumped') /\ (chainMoved => chainMoved')
             /\ UNCHANGED <<syncKey, syncPending>> \/ (syncKey' = {} /\ syncPending' = {})
  BY <1>3 DEF Notify, AddressChange, Owed
<1>4. QED
  BY <1>1, <1>2, <1>3 DEF WakeStep

\* A read that starts covers every account, and replays only what was watched when it was read.
LEMMA StartsSound ==
    ASSUME Sound, Places, StartRefresh, UNCHANGED <<accounts, unread, syncKey, syncPending, addressChangesSupported>>,
           \A a : Watched(a) => Watched(a)'
    PROVE  Sound'
  BY SyncBounds DEF StartRefresh, Sound, Places, Reading

\* A read that settles without a result leaves what is unread.
LEMMA SettlesSound ==
    ASSUME Sound, NEW result, Settle(result), UNCHANGED <<accounts, unread>>,
           (\A a \in syncKey' \cup syncPending' : Watched(a)),
           ~Journal => syncKey' = {} /\ syncPending' = {},
           \A a : Watched(a) => Watched(a)'
    PROVE  Sound'
  BY DEF Settle, Sound, Reading

\* Reads stay sound, whatever drops the connection where the server has no journal.
LEMMA SoundNext ==
    ASSUME active', [Next]_vars, Versions, Places, Passes, Owed, Sound, MaxDrops = 0 \/ ~Journal
    PROVE  Sound'
<1> USE DEF sessionVars, readVars, cacheVars, revVars
<1>1. CASE Disconnected
  <2>1. ~Journal
    BY <1>1, SyncBounds DEF Disconnected, Versions
  <2>2. UNCHANGED <<accounts, readVars, cacheVars>> /\ unread' /\ bumped' = Reading /\ chainMoved' = Reading
    BY <1>1 DEF Disconnected
  <2>3. QED
    BY <2>1, <2>2 DEF Sound, Reading
<1>2. CASE ~Disconnected
  <2>0. \A a : Watched(a) => Watched(a)'
    BY <1>2, WatchedKept
  <2>1. CASE PassStep \/ WakeStep
    BY <2>0, <2>1, WakesOnlyAdd DEF Sound, Reading
  <2>2. CASE ReadStep
    <3>1. UNCHANGED accounts
      BY <2>2 DEF ReadStep, ReadBegins, Replay, Publish, ReplayBusy, ReplayStale, RefreshFails,
                  UserRefresh,
                  WatchAddress, WatchFails, ReadAddress, RefreshVoided, OnlyRead
    <3>2. CASE ReadBegins
      BY <3>1, <3>2, <2>0, SyncBounds DEF ReadBegins, Sound, Reading
    <3>3. CASE Replay
      BY <3>1, <3>3, <2>0 DEF Replay, Sound, Reading, Unfenced
    <3>4. CASE Publish
      BY <3>1, <3>4, <2>0 DEF Publish, Settle, Sound, Reading
    <3>5. CASE ReplayBusy
      <4>1. /\ UNCHANGED <<unread, syncKey>> /\ syncPending' = raccounts /\ rphase = "replay" /\ ~chainMoved
            /\ Settle("error")
        BY <3>5 DEF ReplayBusy, Unfenced
      <4>2. (\A a \in raccounts : Watched(a)) /\ Journal
        BY <4>1 DEF Sound
      <4>3. \A a \in syncKey' \cup syncPending' : Watched(a)
        BY <4>1, <4>2 DEF Sound
      <4>4. QED
        BY <3>1, <4>1, <4>2, <4>3, <2>0, SettlesSound
    <3>6. CASE ReplayStale
      <4>1. UNCHANGED unread /\ syncKey' = {} /\ syncPending' = {} /\ rphase = "replay"
        BY <3>6 DEF ReplayStale
      <4>2. CASE attempt = 1
        <5>1. /\ UNCHANGED <<raccounts, bumped, chainMoved>> /\ rphase' = "begin" /\ rtodo' = raccounts
          BY <3>6, <4>2 DEF ReplayStale
        <5>2. QED
          BY <3>1, <4>1, <5>1, <2>0 DEF Sound, Reading
      <4>3. CASE attempt # 1
        <5>1. Settle("error")
          BY <3>6, <4>3 DEF ReplayStale
        <5>2. QED
          BY <3>1, <4>1, <5>1, <2>0, SettlesSound
      <4>4. QED
        BY <4>2, <4>3
    <3>7. CASE RefreshFails
      BY <3>1, <3>7, <2>0, SettlesSound DEF RefreshFails, Sound
    <3>8. CASE UserRefresh
      BY <3>1, <3>8, <2>0, StartsSound DEF UserRefresh
    <3>9. ASSUME NEW a \in Addresses, WatchAddress(a) PROVE Sound'
      BY <3>1, <3>9, <2>0 DEF WatchAddress, Sound, Reading
    <3>10. ASSUME NEW a \in Addresses, WatchFails(a) PROVE Sound'
      BY <3>1, <3>10, <2>0, SettlesSound DEF WatchFails, Sound
    <3>11. ASSUME NEW a \in Addresses, ReadAddress(a) PROVE Sound'
      BY <3>1, <3>11, <2>0 DEF ReadAddress, Sound, Reading
    <3>12. ASSUME NEW result \in {"abort", "error"}, RefreshVoided(result) PROVE Sound'
      BY <3>1, <3>12, <2>0, SettlesSound DEF RefreshVoided, Sound
    <3>13. QED
      BY <2>2, <3>2, <3>3, <3>4, <3>5, <3>6, <3>7, <3>8, <3>9, <3>10, <3>11, <3>12 DEF ReadStep
  <2>3. CASE RunStep
    <3>1. CASE RunDecides /\ unread /\ ~Reading
      BY <3>1, <2>0, StartsSound DEF RunDecides
    <3>2. CASE ~(RunDecides /\ unread /\ ~Reading)
      <4>1. UNCHANGED <<accounts, revVars, chainMoved, readVars, cacheVars>>
        BY <2>3, <3>2 DEF RunStep, UpdateTimerFires, RunAwaits, RunDecides, RunEnds
      <4>2. QED
        BY <4>1, <2>0 DEF Sound, Reading
    <3>3. QED
      BY <3>1, <3>2
  <2>4. CASE GrowStep
    <3>1. ASSUME NEW a \in Addresses, NewAddress(a) PROVE Sound'
      BY <3>1, <2>0 DEF NewAddress, Sound, Reading, Places
    <3>2. ASSUME NEW a \in Addresses, ExtendLookahead(a) PROVE Sound'
      BY <3>2, <2>0 DEF ExtendLookahead, Sound, Reading
    <3>3. QED
      BY <2>4, <3>1, <3>2 DEF GrowStep
  <2>5. CASE Change \/ UNCHANGED vars
    <3>1. UNCHANGED <<accounts, revVars, chainMoved, readVars, cacheVars>>
      BY <2>5 DEF Change, ServerChange, vars
    <3>2. QED
      BY <3>1, <2>0 DEF Sound, Reading
  <2>6. QED
    BY <2>1, <2>2, <2>3, <2>4, <2>5, Families
<1>3. QED
  BY <1>1, <1>2

\* Versions stay numbers.
LEMMA VersionsNext ==
    ASSUME active', [Next]_vars, Versions, Owed
    PROVE  Versions'
<1> USE DEF Versions, serverVars, readVars, cacheVars
<1>0. drops' \in Nat
  <2>1. CASE Disconnected
    BY <2>1 DEF Disconnected
  <2>2. CASE PassStep /\ ~Disconnected
    BY <2>2 DEF PassStep, Connected, EnsureConnected, EnsureFails, BaseSubscribed, RegisterEnds,
                StaleEnds,
                RetryTimerFires, Subscribe, ServerSubscribes, Install, ServerRefuses
  <2>3. CASE WakeStep \/ RunStep \/ GrowStep \/ Change \/ UNCHANGED vars
    BY <2>3 DEF WakeStep, AddressTimerFires, Notify, RunStep, UpdateTimerFires, RunAwaits,
                RunDecides, RunEnds,
                GrowStep, NewAddress, ExtendLookahead, Change, ServerChange, vars
  <2>4. CASE ReadStep
    BY <2>4 DEF ReadStep, ReadBegins, Replay, Publish, ReplayBusy, ReplayStale, RefreshFails,
                UserRefresh,
                WatchAddress, WatchFails, ReadAddress, RefreshVoided, OnlyRead
  <2>5. QED
    BY <2>1, <2>2, <2>3, <2>4, Families
<1>1. CASE PassStep \/ WakeStep
  BY <1>0, <1>1, WakesOnlyAdd
<1>2. CASE ReadStep
  <2>0. UNCHANGED ver
    BY <1>2 DEF ReadStep, ReadBegins, Replay, Publish, ReplayBusy, ReplayStale, RefreshFails,
                UserRefresh,
                WatchAddress, WatchFails, ReadAddress, RefreshVoided, OnlyRead
  <2>1. CASE ReadBegins \/ \E a \in Addresses : WatchAddress(a)
    BY <1>0, <2>0, <2>1 DEF ReadBegins, WatchAddress
  <2>2. CASE Replay
    BY <1>0, <2>0, <2>2 DEF Replay
  <2>3. CASE Publish
    BY <1>0, <2>0, <2>3 DEF Publish, Settle
  <2>4. CASE ReplayBusy \/ RefreshFails \/ ReplayStale
    BY <1>0, <2>0, <2>4 DEF ReplayBusy, RefreshFails, ReplayStale, Settle
  <2>5. CASE UserRefresh
    BY <1>0, <2>0, <2>5 DEF UserRefresh, StartRefresh
  <2>6. ASSUME NEW a \in Addresses, WatchFails(a) \/ ReadAddress(a) PROVE Versions'
    BY <1>0, <2>0, <2>6 DEF WatchFails, ReadAddress, Settle
  <2>7. ASSUME NEW result \in {"abort", "error"}, RefreshVoided(result) PROVE Versions'
    BY <1>0, <2>0, <2>7 DEF RefreshVoided, Settle
  <2>8. QED
    BY <1>2, <2>1, <2>2, <2>3, <2>4, <2>5, <2>6, <2>7 DEF ReadStep
<1>3. CASE RunStep
  BY <1>0, <1>3 DEF RunStep, UpdateTimerFires, RunAwaits, RunDecides, RunEnds, StartRefresh
<1>4. CASE GrowStep
  BY <1>0, <1>4 DEF GrowStep, NewAddress, ExtendLookahead
<1>5. CASE Change
  BY <1>0, <1>5 DEF Change, ServerChange
<1>6. CASE UNCHANGED vars
  BY <1>0, <1>6 DEF vars
<1>7. QED
  BY <1>1, <1>2, <1>3, <1>4, <1>5, <1>6, Families

\* A push that leaves the connection, and a batch that is flushed, have their address read again.
LEMMA PushesTell ==
    ASSUME PassStep \/ WakeStep, registrations' # {}, NEW a \in registrations, Told(a)
    PROVE  Told(a)' \/ (unread' /\ (Reading => bumped'))
<1> USE DEF serverVars, batchVars, eventVars, revVars, NoChange, OnWalletChange
<1>1. CASE PassStep
  <2>1. CASE Connected \/ Disconnected
    BY <2>1 DEF Connected, Disconnected, Invalidate
  <2>2. CASE EnsureConnected \/ EnsureFails \/ StaleEnds \/ RetryTimerFires
    <3>1. UNCHANGED <<pushes, addressPending, addressCatchup>>
      BY <2>2 DEF EnsureConnected, EnsureFails, StaleEnds, RetryTimerFires
    <3>2. QED
      BY <3>1 DEF Told
  <2>3. CASE BaseSubscribed
    BY <2>3 DEF BaseSubscribed, Told
  <2>4. CASE RegisterEnds
    BY <2>4 DEF RegisterEnds, FlushAddresses, Told
  <2>5. ASSUME NEW b \in Addresses, Install(b) PROVE Told(a)' \/ (unread' /\ (Reading => bumped'))
    BY <2>5 DEF Install, FlushAddresses, AddressChange, Told
  <2>6. ASSUME NEW b \in Addresses, NEW why, Subscribe(b) \/ ServerSubscribes(b) \/ ServerRefuses(b, why)
        PROVE  Told(a)'
    <3>1. UNCHANGED <<pushes, addressPending, addressCatchup>>
      BY <2>6 DEF Subscribe, ServerSubscribes, ServerRefuses
    <3>2. QED
      BY <3>1 DEF Told
  <2>7. QED
    BY <1>1, <2>1, <2>2, <2>3, <2>4, <2>5, <2>6 DEF PassStep
<1>2. CASE AddressTimerFires
  BY <1>2 DEF AddressTimerFires, FlushAddresses, Told
<1>3. ASSUME NEW p \in pushes, Notify(p) PROVE Told(a)' \/ (unread' /\ (Reading => bumped'))
  <2>1. CASE p.address = a
    BY <1>3, <2>1 DEF Notify, AddressChange, Told
  <2>2. CASE p.address # a
    BY <1>3, <2>2 DEF Notify, AddressChange, Told
  <2>3. QED
    BY <2>1, <2>2
<1>4. QED
  BY <1>1, <1>2, <1>3 DEF WakeStep

\* What leaves the wallet and the server alone, and tells what it takes, keeps an address followed.
LEMMA FollowsKept ==
    ASSUME NEW a, Follows(a), UNCHANGED <<ver, shown, rphase, rtodo, rread>>,
           unread => unread', bumped => bumped',
           Told(a) => Told(a)' \/ (unread' /\ (Reading => bumped'))
    PROVE  Follows(a)'
  BY DEF Follows, Covers, Reading

\* A read that starts will show every account.
LEMMA StartsFollow ==
    ASSUME NEW a \in accounts, Follows(a), StartRefresh, UNCHANGED <<accounts, ver, shown, unread>>, Told(a) => Told(a)'
    PROVE  Follows(a)'
  BY DEF StartRefresh, Follows, Covers, Reading

\* An address that has just been installed is followed: nothing was read of it before, so the
\* revision is unread and the read under way, if any, still has it to read.
LEMMA InstallFollows ==
    ASSUME NEW a \in Addresses, Install(a), Places, Passes, Owed, Sound
    PROVE  Follows(a)'
<1>1. /\ UNCHANGED <<accounts, ver, shown, readVars, addressChangesSupported>>
      /\ (unread => unread') /\ (bumped => bumped')
  BY WakesOnlyAdd DEF PassStep
<1>2. a \in accounts /\ ~Watched(a)
  BY DEF Install, Places, Passes, NoWorkers, Refused, Watched
<1>3. unread
  BY <1>2 DEF Sound
<1>4. ASSUME Reading, ~bumped PROVE Covers(a)
  <2>1. raccounts = accounts /\ ~chainMoved
    BY <1>4 DEF Sound, Owed
  <2>2. rphase \notin {"replay", "publish"}
    BY <1>2, <2>1 DEF Sound
  <2>3. rphase = "pages" => a \in rtodo
    BY <1>2, <2>1 DEF Sound
  <2>4. QED
    BY <1>4, <2>2, <2>3 DEF Sound, Covers, Reading
<1>5. QED
  BY <1>1, <1>3, <1>4 DEF Follows, Covers, Reading, readVars

\* Every watched address stays followed.
LEMMA FollowedNext ==
    ASSUME active', [Next]_vars, Versions, Places, Passes, Owed, Sound, Followed
    PROVE  Followed'
<1> SUFFICES ASSUME NEW a \in registrations' PROVE Follows(a)'
  BY DEF Followed
<1> USE DEF readVars, cacheVars, revVars
<1>1. CASE PassStep \/ WakeStep
  <2>1. CASE a \in registrations
    <3>1. Follows(a) /\ (Told(a) => Told(a)' \/ (unread' /\ (Reading => bumped')))
      BY <1>1, <2>1, PushesTell DEF Followed
    <3>2. /\ UNCHANGED <<ver, shown, rphase, rtodo, rread>>
          /\ (unread => unread') /\ (bumped => bumped')
      BY <1>1, WakesOnlyAdd
    <3>3. QED
      BY <3>1, <3>2, FollowsKept
  <2>2. CASE a \notin registrations
    <3>1. CASE Install(a) /\ a \in Addresses
      BY <3>1, InstallFollows
    <3>2. CASE ~(Install(a) /\ a \in Addresses)
      <4>1. CASE WakeStep
        BY <4>1, <2>2, OnlyPassesRegister DEF regVars
      <4>2. CASE Connected \/ Disconnected
        BY <4>2 DEF Connected, Disconnected, Invalidate
      <4>3. CASE EnsureConnected \/ EnsureFails \/ BaseSubscribed \/ RegisterEnds \/ StaleEnds \/ RetryTimerFires
        BY <4>3, <2>2 DEF EnsureConnected, EnsureFails, BaseSubscribed, RegisterEnds, StaleEnds,
                          RetryTimerFires,
                          regVars
      <4>4. ASSUME NEW b \in Addresses, NEW why,
                   Subscribe(b) \/ ServerSubscribes(b) \/ Install(b) \/ ServerRefuses(b, why)
            PROVE  FALSE
        BY <4>4, <3>2, <2>2 DEF Subscribe, ServerSubscribes, Install, ServerRefuses
      <4>5. QED
        BY <1>1, <4>1, <4>2, <4>3, <4>4 DEF PassStep
    <3>3. QED
      BY <3>1, <3>2
  <2>3. QED
    BY <2>1, <2>2
<1>2. CASE ~(PassStep \/ WakeStep)
  <2>0. /\ ReadStep \/ RunStep \/ GrowStep \/ Change \/ UNCHANGED vars
        /\ UNCHANGED <<up, subscribed, regVars, stale, baseReady>>
    BY <1>2, Families, OnlyPassesRegister
  <2>1. a \in registrations /\ a \in accounts /\ a \in Addresses /\ a \in subscribed /\ Follows(a)
    BY <2>0 DEF Places, Followed, regVars
  <2>2. Reading /\ ~bumped => raccounts = accounts /\ ~chainMoved
    BY DEF Sound, Owed
  <2>3. CASE ReadStep
    <3>1. UNCHANGED <<accounts, ver>> /\ Told(a)' = Told(a)
      <4>1. UNCHANGED <<accounts, ver, pushes, addressPending, addressCatchup>>
        BY <2>3 DEF ReadStep, ReadBegins, Replay, Publish, ReplayBusy, ReplayStale, RefreshFails,
                    UserRefresh,
                    WatchAddress, WatchFails, ReadAddress, RefreshVoided, OnlyRead, sessionVars, batchVars
      <4>2. QED
        BY <4>1 DEF Told
    <3>2. CASE ReadBegins
      BY <2>1, <2>2, <3>1, <3>2 DEF ReadBegins, Sound, Follows, Covers, Reading
    <3>3. CASE Replay
      BY <2>1, <2>2, <3>1, <3>3 DEF Replay, Follows, Covers, Reading
    <3>4. CASE Publish
      <4>1. /\ rphase = "publish" /\ rphase' = "none" /\ unread' = bumped
            /\ shown'[a] = IF a \in raccounts THEN rread[a] ELSE shown[a]
        BY <2>1, <3>4 DEF Publish, Settle
      <4>2. ~bumped => Told(a) \/ shown'[a] = ver[a]
        BY <2>1, <2>2, <4>1 DEF Follows, Covers, Reading
      <4>3. QED
        BY <3>1, <4>1, <4>2 DEF Follows, Reading
    <3>5. CASE ReplayBusy \/ RefreshFails
      BY <2>1, <3>1, <3>5 DEF ReplayBusy, RefreshFails, Settle, Follows, Reading
    <3>6. CASE ReplayStale
      BY <2>1, <3>1, <3>6 DEF ReplayStale, Settle, Follows, Covers, Reading
    <3>7. CASE UserRefresh
      BY <2>1, <3>1, <3>7, StartsFollow DEF UserRefresh
    <3>8. ASSUME NEW b \in Addresses, WatchAddress(b) PROVE Follows(a)'
      BY <2>1, <3>1, <3>8, FollowsKept DEF WatchAddress
    <3>9. ASSUME NEW b \in Addresses, WatchFails(b) PROVE Follows(a)'
      BY <2>1, <3>1, <3>9 DEF WatchFails, Settle, Follows, Reading
    <3>10. ASSUME NEW b \in Addresses, ReadAddress(b) PROVE Follows(a)'
      <4>1. /\ UNCHANGED <<shown, unread, bumped>>
            /\ rphase \in {"baseline", "pages"} /\ rphase' # "none"
            /\ rphase = "baseline" => rphase' \in {"baseline", "replay"}
            /\ rphase = "pages" => rphase' \in {"pages", "publish"}
            /\ rphase' = "pages" \/ rphase = "baseline" \/ rtodo' = {}
            /\ rtodo' = rtodo \ {b}
        BY <3>10 DEF ReadAddress
      <4>2. rread'[a] = IF a = b THEN ver[a] ELSE rread[a]
        BY <2>1, <3>10 DEF ReadAddress, Versions
      <4>3. Covers(a) => Covers(a)'
        BY <3>1, <4>1, <4>2 DEF Covers
      <4>4. QED
        BY <2>1, <3>1, <4>1, <4>3 DEF Follows, Reading
    <3>11. ASSUME NEW result \in {"abort", "error"}, RefreshVoided(result) PROVE Follows(a)'
      BY <2>1, <3>1, <3>11 DEF RefreshVoided, Settle, Follows, Reading
    <3>12. QED
      BY <2>3, <3>2, <3>3, <3>4, <3>5, <3>6, <3>7, <3>8, <3>9, <3>10, <3>11 DEF ReadStep
  <2>4. CASE RunStep
    <3>1. UNCHANGED <<accounts, ver, shown, unread>> /\ Told(a)' = Told(a)
      <4>1. UNCHANGED <<accounts, ver, shown, unread, pushes, addressPending, addressCatchup>>
        BY <2>4 DEF RunStep, UpdateTimerFires, RunAwaits, RunDecides, RunEnds, sessionVars,
                    serverVars, batchVars
      <4>2. QED
        BY <4>1 DEF Told
    <3>2. CASE RunDecides /\ unread /\ ~Reading
      BY <2>1, <3>1, <3>2, StartsFollow DEF RunDecides
    <3>3. CASE ~(RunDecides /\ unread /\ ~Reading)
      <4>1. UNCHANGED <<readVars, bumped>>
        BY <2>4, <3>3 DEF RunStep, UpdateTimerFires, RunAwaits, RunDecides, RunEnds
      <4>2. QED
        BY <2>1, <3>1, <4>1, FollowsKept
    <3>4. QED
      BY <3>2, <3>3
  <2>5. CASE GrowStep
    <3>1. UNCHANGED <<ver, shown>> /\ unread' /\ a \in accounts' /\ (Reading => bumped')
      BY <2>1, <2>5 DEF GrowStep, NewAddress, ExtendLookahead, serverVars
    <3>2. ~Reading /\ Reading' => rphase' = "begin" \/ (rphase' = "pages" /\ rtodo' = accounts')
      BY <2>5 DEF GrowStep, NewAddress, ExtendLookahead, Reading
    <3>3. QED
      BY <3>1, <3>2 DEF Follows, Covers, Reading
  <2>6. CASE Change
    <3>1. PICK b \in Addresses, reset \in BOOLEAN : ServerChange(b, reset)
      BY <2>6 DEF Change
    <3>2. UNCHANGED <<shown, unread, bumped, readVars, addressPending, addressCatchup>> /\ pushes \subseteq pushes'
      BY <3>1 DEF ServerChange, batchVars
    <3>3. CASE b = a
      <4>1. [address |-> a, reset |-> reset] \in pushes'
        BY <2>1, <3>1, <3>3 DEF ServerChange
      <4>2. Told(a)'
        BY <4>1 DEF Told
      <4>3. QED
        BY <4>2 DEF Follows
    <3>4. CASE b # a
      <4>1. ver'[a] = ver[a]
        BY <2>1, <3>1, <3>4 DEF ServerChange, Versions
      <4>2. Told(a) => Told(a)'
        BY <3>2 DEF Told
      <4>3. QED
        BY <2>1, <3>2, <4>1, <4>2 DEF Follows, Covers, Reading
    <3>5. QED
      BY <3>3, <3>4
  <2>7. CASE UNCHANGED vars
    <3>1. UNCHANGED <<pushes, addressPending, addressCatchup, ver, shown, revVars, readVars>>
      BY <2>7 DEF vars, serverVars, batchVars
    <3>2. QED
      BY <2>1, <3>1, FollowsKept DEF Told
  <2>8. QED
    BY <2>0, <2>3, <2>4, <2>5, <2>6, <2>7
<1>3. QED
  BY <1>1, <1>2

\* A session starts with everything still to be read.
LEMMA RestInit == Init => RestInv
<1> SUFFICES ASSUME Init PROVE RestInv
  OBVIOUS
<1>1. Versions  BY DEF Init, Versions
<1>2. Places
  <2>1. accounts \in (SUBSET Addresses) \ {{}}
    BY DEF Init
  <2>2. accounts # {} /\ accounts \subseteq Addresses
    BY <2>1
  <2>3. QED
    BY <2>2 DEF Init, Places
<1>3. Passes    BY DEF Init, Passes, NoWorkers, Refused
<1>4. Owed      BY DEF Init, Owed
<1>5. Sound     BY DEF Init, Sound, Reading
<1>6. Followed  BY DEF Init, Followed
<1>7. QED       BY <1>1, <1>2, <1>3, <1>4, <1>5, <1>6 DEF RestInv

\* A resting wallet shows, for every address it watches, what the server has: no push, batch or
\* catch-up was swallowed by a read that does not contain it (applyChange and refresh of
\* wallet-service.mjs with ensure, notify and flushAddresses of live-updates.mjs).  It needs a server
\* that does not take back its support of subscriptions, and, where the server keeps a journal, a
\* connection that is not lost: a read resumed from the journal after a reconnect may contain an
\* address that was not watched at its point in time.
THEOREM RestShowsServer ==
    ASSUME MaxDrops = 0 \/ ~Journal
    PROVE  Spec /\ [][SteadyServer]_vars => []QuietIsFresh
<1>1. RestInv /\ [Next]_vars /\ [SteadyServer]_vars => RestInv'
  <2> SUFFICES ASSUME RestInv, [Next]_vars, [SteadyServer]_vars, active' PROVE RestInv'
    BY DEF RestInv
  <2>1. Versions /\ Places /\ Passes /\ Owed /\ Sound /\ Followed
    BY Families DEF RestInv
  <2>2. Versions' /\ Owed'
    BY <2>1, VersionsNext, OwedNext
  <2>3. Places' /\ Passes'
    BY <2>1, PlacesNext, PassesNext
  <2>4. Sound'
    BY <2>1, SoundNext
  <2>5. Followed'
    BY <2>1, FollowedNext
  <2>6. QED
    BY <2>2, <2>3, <2>4, <2>5 DEF RestInv
<1>2. RestInv => QuietIsFresh
  <2> SUFFICES ASSUME RestInv, Quiet, NEW a \in accounts \cap registrations PROVE Fresh(a)
    BY DEF QuietIsFresh
  <2>1. baseReady
    BY DEF RestInv, Passes, Quiet
  <2>2. ~unread
    BY <2>1 DEF RestInv, Owed, Quiet
  <2>3. ~Told(a)
    BY DEF Told, Quiet
  <2>4. QED
    BY <2>2, <2>3 DEF RestInv, Followed, Follows, Fresh, Quiet
<1>3. QED
  BY <1>1, <1>2, RestInit, PTL DEF Spec
=============================================================================
