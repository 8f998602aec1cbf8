----------------------------- MODULE WalletSync -----------------------------
(***************************************************************************)
(* How an unlocked wallet keeps its displayed history equal to the         *)
(* server's: LiveUpdates (src/core/live-updates.mjs) registers every       *)
(* address and turns pushes and registration catch-ups into wake-ups,      *)
(* walletUpdates (an EventRefresh) coalesces them, and refresh() and its   *)
(* revisions (src/core/wallet-service.mjs) decide what a finished read may *)
(* acknowledge.                                                            *)
(*                                                                         *)
(* One behaviour is one session on one RpcClient, from openSession() to    *)
(* lock().  An address's history is a version number: `ver' on the server, *)
(* `shown' in the wallet.  Revisions are only compared, never read, so     *)
(* they are kept as the comparisons:                                       *)
(*   unread      walletReadRevision < walletUpdateRevision                 *)
(*   bumped      walletUpdateRevision grew since the current read started  *)
(*   chainMoved  walletChainRevision grew since the current read started   *)
(*   stale       LiveUpdates.generation grew since the current pass of     *)
(*               ensure() took it                                          *)
(***************************************************************************)
EXTENDS Naturals, FiniteSets

CONSTANTS
    Addresses,
    Journal,      \* the server has getaddresschanges
    FlushEvery,   \* registrations per flush of a batch (8 in ensure)
    MaxWatched,   \* subscriptions one connection may hold, two of them tip and bounties (100)
    MaxVer,       \* bound: changes of one address
    MaxFaults,    \* bound: failed requests and refusals
    MaxDrops      \* bound: lost connections

ASSUME SyncBounds == /\ IsFiniteSet(Addresses) /\ Journal \in BOOLEAN
                     /\ FlushEvery \in Nat \ {0} /\ MaxWatched \in Nat \ {0, 1}
                     /\ MaxVer \in Nat /\ MaxFaults \in Nat /\ MaxDrops \in Nat

VARIABLES
    active, accounts,                                \* session: unlocked, derived addresses
    ver, subscribed, pushes, up, faults, drops,      \* server and connection
    work, stale, requested, retryTimer, baseReady,   \* LiveUpdates: the pass of ensure()
    registrations, todo, asked, served, registered, verdict,
    addressCapability, addressCapacity,
    addressBatch, addressPending, addressCatchup, addressTimer,
    dirty, timer, step,                              \* walletUpdates; step is where its run() is
    unread, bumped, chainMoved,                      \* revisions
    rphase, raccounts, rtodo, rread, attempt,        \* the read in this.refreshing
    syncKey, syncPending, addressChangesSupported,   \* addressSync, addressSyncPending
    shown

sessionVars == <<active, accounts>>
serverVars  == <<ver, subscribed, pushes, up, faults, drops>>
passVars    == <<work, stale, requested, retryTimer, baseReady>>
regVars     == <<registrations, todo, asked, served, registered, verdict, addressCapability, addressCapacity>>
batchVars   == <<addressBatch, addressPending, addressCatchup, addressTimer>>
eventVars   == <<dirty, timer>>
revVars     == <<unread, bumped>>
readVars    == <<rphase, raccounts, rtodo, rread, attempt>>
cacheVars   == <<syncKey, syncPending, addressChangesSupported, shown>>
vars == <<sessionVars, serverVars, passVars, regVars, batchVars, eventVars, step, revVars, chainMoved, readVars, cacheVars>>

\* openSession() has just called liveUpdates.start() and refresh().
Init ==
    /\ active = TRUE
    /\ accounts \in (SUBSET Addresses) \ {{}}
    /\ ver = [a \in Addresses |-> 0]
    /\ subscribed = {} /\ pushes = {} /\ up = FALSE /\ faults = 0 /\ drops = 0
    /\ work = "start" /\ stale = FALSE /\ requested = FALSE /\ retryTimer = FALSE /\ baseReady = FALSE
    /\ registrations = {} /\ todo = {} /\ asked = {} /\ served = {} /\ registered = 0 /\ verdict = "ok"
    /\ addressCapability = "unknown" /\ addressCapacity = FALSE
    /\ addressBatch = FALSE /\ addressPending = FALSE /\ addressCatchup = FALSE /\ addressTimer = FALSE
    /\ dirty = FALSE /\ timer = FALSE /\ step = "none"
    /\ unread = TRUE /\ bumped = FALSE /\ chainMoved = FALSE
    /\ rphase = "begin" /\ raccounts = accounts /\ rtodo = accounts /\ attempt = 1
    /\ rread = [a \in Addresses |-> 0]
    /\ syncKey = {} /\ syncPending = {} /\ addressChangesSupported = TRUE
    /\ shown = [a \in Addresses |-> 0]

Reading == rphase # "none"

----------------------------------------------------------------------------
(* The service's side of a wake-up *)

\* walletUpdates.request().
RequestUpdate ==
    /\ dirty' = TRUE
    /\ timer' = (timer \/ step = "none")

\* applyChange({wallet, catchup}): a catch-up during a read does not ask for another.
OnWalletChange(catchup) ==
    LET bump == ~(catchup /\ Reading)
    IN  /\ unread' = (unread \/ bump)
        /\ bumped' = (bumped \/ (bump /\ Reading))
        /\ RequestUpdate

NoChange == UNCHANGED <<eventVars, revVars>>

----------------------------------------------------------------------------
(* LiveUpdates: helpers *)

\* kick() with the pass w, the request flag req and the retry timer rt.
Kick(w, req, rt) ==
    LET go == active /\ w = "none" /\ ~rt /\ req
    IN  /\ work' = IF go THEN "start" ELSE w
        /\ requested' = (req /\ ~go)
        /\ retryTimer' = rt

\* Faulty variant: a batch with one catch-up in it counts as a catch-up.
AddressChange_CatchupWins(catchup) ==
    IF ~addressBatch
    THEN OnWalletChange(catchup) /\ UNCHANGED batchVars
    ELSE /\ addressCatchup' = (catchup \/ (addressPending /\ addressCatchup))
         /\ addressPending' = TRUE
         /\ addressTimer' = TRUE
         /\ UNCHANGED addressBatch
         /\ NoChange

\* addressChange(): at once, or into the batch; a real push makes a batch real.
AddressChange(catchup) ==
    IF ~addressBatch
    THEN OnWalletChange(catchup) /\ UNCHANGED batchVars
    ELSE /\ addressCatchup' = (catchup /\ (addressPending => addressCatchup))
         /\ addressPending' = TRUE
         /\ addressTimer' = TRUE
         /\ UNCHANGED addressBatch
         /\ NoChange

\* flushAddresses() of a batch that holds `pending', a catch-up or not.
FlushAddresses(pending, catchup) ==
    /\ addressPending' = FALSE /\ addressCatchup' = FALSE /\ addressTimer' = FALSE
    /\ IF pending THEN OnWalletChange(catchup) ELSE NoChange

\* Faulty variant: registrations outlive their connection.
Invalidate_KeepsRegistrations ==
    /\ todo' = {} /\ asked' = {} /\ served' = {}
    /\ registered' = 0 /\ verdict' = "ok"
    /\ addressCapability' = "unknown" /\ addressCapacity' = FALSE
    /\ addressBatch' = FALSE /\ addressPending' = FALSE /\ addressCatchup' = FALSE /\ addressTimer' = FALSE
    /\ baseReady' = FALSE
    /\ stale' = (work \in {"base", "register"})
    /\ UNCHANGED registrations

\* invalidate(): registrations and batches of the former connection are void.
Invalidate ==
    /\ registrations' = {} /\ todo' = {} /\ asked' = {} /\ served' = {}
    /\ registered' = 0 /\ verdict' = "ok"
    /\ addressCapability' = "unknown" /\ addressCapacity' = FALSE
    /\ addressBatch' = FALSE /\ addressPending' = FALSE /\ addressCatchup' = FALSE /\ addressTimer' = FALSE
    /\ baseReady' = FALSE
    /\ stale' = (work \in {"base", "register"})

----------------------------------------------------------------------------
(* Connection and server *)

\* A request of the pass or of the read opens the connection: 'connected'.
Connected ==
    /\ active /\ ~up
    /\ work = "start" \/ Reading
    /\ up' = TRUE
    /\ Invalidate
    /\ Kick(work, TRUE, FALSE)
    /\ NoChange
    /\ UNCHANGED <<sessionVars, ver, subscribed, pushes, faults, drops, step, chainMoved, readVars, cacheVars>>

\* Faulty variant: LiveUpdates does not retry after a lost connection.
Disconnected_NoRetry ==
    /\ active /\ up
    /\ drops < MaxDrops /\ drops' = drops + 1
    /\ up' = FALSE /\ subscribed' = {} /\ pushes' = {}
    /\ unread' = TRUE /\ bumped' = Reading /\ chainMoved' = Reading
    /\ Invalidate
    /\ requested' = FALSE /\ UNCHANGED <<retryTimer, work>>
    /\ UNCHANGED <<sessionVars, ver, faults, eventVars, step, readVars, cacheVars>>

\* 'disconnected': the service voids the read in progress but asks for no new one;
\* LiveUpdates voids its registrations and arms its retry timer.
Disconnected ==
    /\ active /\ up
    /\ drops < MaxDrops /\ drops' = drops + 1
    /\ up' = FALSE /\ subscribed' = {} /\ pushes' = {}
    /\ unread' = TRUE /\ bumped' = Reading /\ chainMoved' = Reading
    /\ Invalidate
    /\ requested' = FALSE /\ retryTimer' = TRUE /\ UNCHANGED work
    /\ UNCHANGED <<sessionVars, ver, faults, eventVars, step, readVars, cacheVars>>

\* The chain or the mempool changes an address; a subscriber is told, perhaps with
\* reorg or resync_required set.
ServerChange(a, reset) ==
    /\ ver[a] < MaxVer
    /\ ver' = [ver EXCEPT ![a] = @ + 1]
    /\ pushes' = IF a \in subscribed THEN pushes \cup {[address |-> a, reset |-> reset]} ELSE pushes
    /\ reset => a \in subscribed
    /\ UNCHANGED <<sessionVars, subscribed, up, faults, drops, passVars, regVars, batchVars, eventVars, step,
                   revVars, chainMoved, readVars, cacheVars>>

\* notify(): a push for an identifier that is not installed yet is dropped.
Notify(p) ==
    /\ active /\ p \in pushes
    /\ pushes' = pushes \ {p}
    /\ IF p.address \notin registrations
       THEN NoChange /\ UNCHANGED <<batchVars, chainMoved, syncKey, syncPending>>
       ELSE IF p.reset
       THEN /\ OnWalletChange(FALSE)
            /\ chainMoved' = Reading
            /\ syncKey' = {} /\ syncPending' = {}
            /\ UNCHANGED batchVars
       ELSE AddressChange(FALSE) /\ UNCHANGED <<chainMoved, syncKey, syncPending>>
    /\ UNCHANGED <<sessionVars, ver, subscribed, up, faults, drops, passVars, regVars, step, readVars,
                   addressChangesSupported, shown>>

----------------------------------------------------------------------------
(* LiveUpdates: ensure() *)

\* rpc.connect() resolved: the pass takes the current generation.
EnsureConnected ==
    /\ active /\ up
    /\ work = "start"
    /\ work' = "base" /\ stale' = FALSE
    /\ NoChange
    /\ UNCHANGED <<sessionVars, serverVars, requested, retryTimer, baseReady, regVars, batchVars, step, chainMoved, readVars, cacheVars>>

Fault == faults < MaxFaults /\ faults' = faults + 1

\* rpc.connect() or a base subscription fails: retry().
EnsureFails ==
    /\ active
    /\ \/ work = "start" /\ ~up
       \/ work = "base" /\ ~stale
    /\ Fault
    /\ Kick("none", requested, TRUE)
    /\ NoChange
    /\ UNCHANGED <<sessionVars, ver, subscribed, pushes, up, drops, stale, baseReady, regVars, batchVars, step, chainMoved, readVars, cacheVars>>

\* tip and bounties are subscribed; the first time on a connection is a catch-up.
\* Then the registration of the addresses starts, unless the server has refused it.
BaseSubscribed ==
    /\ active /\ up
    /\ work = "base" /\ ~stale
    /\ baseReady' = TRUE
    /\ IF baseReady THEN NoChange ELSE OnWalletChange(TRUE)
    /\ IF addressCapacity \/ addressCapability = "no"
       THEN /\ Kick("none", requested, retryTimer)
            /\ UNCHANGED <<todo, registered, verdict, addressBatch>>
       ELSE /\ work' = "register"
            /\ addressBatch' = TRUE
            /\ todo' = accounts \ registrations
            /\ registered' = 0 /\ verdict' = "ok"
            /\ UNCHANGED <<requested, retryTimer>>
    /\ UNCHANGED <<sessionVars, serverVars, stale, registrations, asked, served, addressCapability, addressCapacity,
                   addressPending, addressCatchup, addressTimer, step, chainMoved, readVars, cacheVars>>

\* Faulty variant: subscriptions in flight are not counted against the limit.
Occupied_Installed == Cardinality(registrations) + 2

\* Slots of the connection that are used or reserved.
Occupied == Cardinality(registrations) + 2 + Cardinality(asked \cup served)

\* A worker takes the next address: one probe first, then two workers.
Subscribe(a) ==
    /\ active /\ work = "register" /\ ~stale
    /\ a \in todo
    /\ Cardinality(asked \cup served) < IF addressCapability = "unknown" THEN 1 ELSE 2
    /\ IF Occupied >= MaxWatched
       THEN todo' = {} /\ verdict' = "capacity" /\ UNCHANGED asked
       ELSE todo' = todo \ {a} /\ asked' = asked \cup {a} /\ UNCHANGED verdict
    /\ NoChange
    /\ UNCHANGED <<sessionVars, serverVars, passVars, registrations, served, registered, addressCapability, addressCapacity,
                   batchVars, step, chainMoved, readVars, cacheVars>>

\* The server registers the address: from here on it pushes.
ServerSubscribes(a) ==
    /\ up /\ a \in asked
    /\ asked' = asked \ {a} /\ served' = served \cup {a}
    /\ subscribed' = subscribed \cup {a}
    /\ NoChange
    /\ UNCHANGED <<sessionVars, ver, pushes, up, faults, drops, passVars, registrations, todo, registered, verdict,
                   addressCapability, addressCapacity, batchVars, step, chainMoved, readVars, cacheVars>>

\* -32005, an unsupported subscription, or any other error: no more are taken.
ServerRefuses(a, why) ==
    /\ active /\ a \in asked
    /\ Fault
    /\ asked' = asked \ {a} /\ todo' = {}
    /\ verdict' = IF why = "unsupported" \/ verdict = "failure" THEN verdict ELSE why
    /\ addressCapability' = IF why = "unsupported" THEN "no" ELSE addressCapability
    /\ NoChange
    /\ UNCHANGED <<sessionVars, ver, subscribed, pushes, up, drops, passVars, registrations, served, registered,
                   addressCapacity, batchVars, step, chainMoved, readVars, cacheVars>>

\* The continuation of subscribe(): install the identifier, then catch up.
Install(a) ==
    LET flush == (registered + 1) % FlushEvery = 0
        catchup == addressPending => addressCatchup
    IN  /\ active /\ a \in served /\ ~stale
        /\ served' = served \ {a}
        /\ registrations' = registrations \cup {a}
        /\ registered' = (registered + 1) % FlushEvery
        /\ addressCapability' = IF addressCapability = "unknown" THEN "yes" ELSE addressCapability
        /\ IF flush THEN FlushAddresses(TRUE, catchup) /\ UNCHANGED addressBatch
                    ELSE AddressChange(TRUE)
        /\ UNCHANGED <<sessionVars, serverVars, passVars, todo, asked, verdict, addressCapacity, step, chainMoved, readVars, cacheVars>>

\* The workers are done: flush; then rest, retry or go again.
RegisterEnds ==
    /\ active /\ work = "register" /\ ~stale
    /\ todo = {} /\ asked = {} /\ served = {}
    /\ addressBatch' = FALSE
    /\ FlushAddresses(addressPending, addressCatchup)
    /\ addressCapacity' = (verdict = "capacity")
    /\ Kick("none", requested, verdict = "failure")
    /\ UNCHANGED <<sessionVars, serverVars, stale, baseReady, registrations, todo, asked, served, registered, verdict,
                   addressCapability, step, chainMoved, readVars, cacheVars>>

\* A pass of an old connection returns without effect; its finally kicks.
StaleEnds ==
    /\ active /\ stale
    /\ stale' = FALSE
    /\ Kick("none", requested, retryTimer)
    /\ NoChange
    /\ UNCHANGED <<sessionVars, serverVars, baseReady, regVars, batchVars, step, chainMoved, readVars, cacheVars>>

AddressTimerFires ==
    /\ active /\ addressTimer
    /\ FlushAddresses(addressPending, addressCatchup)
    /\ UNCHANGED <<sessionVars, serverVars, passVars, regVars, addressBatch, step, chainMoved, readVars, cacheVars>>

RetryTimerFires ==
    /\ active /\ retryTimer
    /\ Kick(work, TRUE, FALSE)
    /\ NoChange
    /\ UNCHANGED <<sessionVars, serverVars, stale, baseReady, regVars, batchVars, step, chainMoved, readVars, cacheVars>>

----------------------------------------------------------------------------
(* refresh() *)

\* refresh() with no read in progress: refreshInternal() up to its first await.
StartRefresh ==
    /\ rphase' = IF ~addressChangesSupported THEN "pages"
                 ELSE IF accounts \in {syncPending, syncKey} THEN "replay" ELSE "begin"
    /\ raccounts' = accounts /\ rtodo' = accounts /\ rread' = shown /\ attempt' = 1
    /\ bumped' = FALSE /\ chainMoved' = FALSE

\* The read settles; whoever awaits this.refreshing goes on.
Settle(result) ==
    /\ rphase' = "none"
    /\ step' = CASE step = "await" -> "decide" [] step = "joined" -> result [] OTHER -> step
    /\ raccounts' = {} /\ rtodo' = {} /\ rread' = [a \in Addresses |-> 0] /\ attempt' = 1
    /\ bumped' = FALSE /\ chainMoved' = FALSE

OnlyRead == UNCHANGED <<sessionVars, ver, subscribed, pushes, up, drops, stale, baseReady, regVars, batchVars, eventVars>>

\* A step of the journal path passes check(); the legacy path checks at its end.
Unfenced == active /\ (rphase = "pages" \/ ~chainMoved)

\* beginAddressSync() captures the watermark, or reports -32601.
ReadBegins ==
    /\ rphase = "begin" /\ up /\ Unfenced
    /\ rphase' = IF Journal THEN "baseline" ELSE "pages"
    /\ addressChangesSupported' = Journal
    /\ UNCHANGED <<faults, work, requested, retryTimer, step, revVars, chainMoved, raccounts, rtodo, rread, attempt,
                   syncKey, syncPending, shown>>
    /\ OnlyRead

\* watchAddress() may let the read of a go on.
Watched(a) == a \in registrations \/ addressCapacity \/ addressCapability = "no"

\* watchAddress() of an address that is not registered wakes LiveUpdates...
WatchAddress(a) ==
    /\ rphase \in {"baseline", "pages"} /\ Unfenced
    /\ a \in rtodo /\ ~Watched(a) /\ ~retryTimer
    /\ ~requested
    /\ Kick(work, TRUE, retryTimer)
    /\ UNCHANGED <<faults, step, revVars, chainMoved, readVars, cacheVars>>
    /\ OnlyRead

\* ... and gives up while LiveUpdates is reconnecting.
WatchFails(a) ==
    /\ rphase \in {"baseline", "pages"} /\ Unfenced
    /\ a \in rtodo /\ ~Watched(a) /\ retryTimer
    /\ Settle("error")
    /\ UNCHANGED <<faults, work, requested, retryTimer, unread, cacheVars>>
    /\ OnlyRead

\* page(): history and outputs of a watched address.
ReadAddress(a) ==
    /\ rphase \in {"baseline", "pages"} /\ up /\ Unfenced
    /\ a \in rtodo /\ Watched(a)
    /\ rread' = [rread EXCEPT ![a] = ver[a]]
    /\ rtodo' = rtodo \ {a}
    /\ rphase' = IF rtodo' # {} THEN rphase ELSE IF rphase = "pages" THEN "publish" ELSE "replay"
    /\ UNCHANGED <<faults, work, requested, retryTimer, step, revVars, chainMoved, raccounts, attempt, cacheVars>>
    /\ OnlyRead

\* updateAddressSync(): the journal brings every address to one point in time.
Replay ==
    /\ rphase = "replay" /\ up /\ Unfenced
    /\ rread' = [a \in Addresses |-> IF a \in raccounts THEN ver[a] ELSE rread[a]]
    /\ rphase' = "publish"
    /\ UNCHANGED <<faults, work, requested, retryTimer, step, revVars, chainMoved, raccounts, rtodo, attempt, cacheVars>>
    /\ OnlyRead

\* The journal keeps moving (ADDRESS_SYNC_BUSY): keep the candidate, fail.
ReplayBusy ==
    /\ rphase = "replay" /\ up /\ Unfenced /\ Fault
    /\ syncPending' = raccounts
    /\ Settle("error")
    /\ UNCHANGED <<work, requested, retryTimer, unread, syncKey, addressChangesSupported, shown>>
    /\ OnlyRead

\* The cursor is void (-32011): baseline again, once.
ReplayStale ==
    /\ rphase = "replay" /\ up /\ Unfenced /\ Fault
    /\ syncKey' = {} /\ syncPending' = {}
    /\ IF attempt = 1
       THEN /\ rphase' = "begin" /\ attempt' = 2 /\ rtodo' = raccounts
            /\ UNCHANGED <<step, raccounts, rread, bumped, chainMoved>>
       ELSE Settle("error")
    /\ UNCHANGED <<work, requested, retryTimer, unread, addressChangesSupported, shown>>
    /\ OnlyRead

\* The read found a newly used address: persist(), then buildAccounts() may extend
\* the lookahead, which this read does not cover.
ExtendLookahead(a) ==
    /\ rphase = "publish" /\ Unfenced /\ ~chainMoved
    /\ a \notin accounts
    /\ accounts' = accounts \cup {a}
    /\ unread' = TRUE /\ bumped' = TRUE
    /\ RequestUpdate
    /\ UNCHANGED <<active, serverVars, passVars, regVars, batchVars, step, chainMoved, readVars, cacheVars>>

\* Faulty variant: a finished read acknowledges every wake-up so far.
Publish_AcknowledgesAll ==
    /\ rphase = "publish" /\ active /\ ~chainMoved
    /\ shown' = [a \in Addresses |-> IF a \in raccounts THEN rread[a] ELSE shown[a]]
    /\ syncKey' = IF addressChangesSupported THEN raccounts ELSE syncKey
    /\ syncPending' = IF addressChangesSupported THEN {} ELSE syncPending
    /\ unread' = FALSE
    /\ Kick(work, TRUE, retryTimer)
    /\ Settle("ok")
    /\ UNCHANGED <<faults, addressChangesSupported>>
    /\ OnlyRead

\* The snapshot is installed and acknowledges the revision it started from.
Publish ==
    /\ rphase = "publish" /\ active /\ ~chainMoved
    /\ shown' = [a \in Addresses |-> IF a \in raccounts THEN rread[a] ELSE shown[a]]
    /\ syncKey' = IF addressChangesSupported THEN raccounts ELSE syncKey
    /\ syncPending' = IF addressChangesSupported THEN {} ELSE syncPending
    /\ unread' = bumped
    /\ Kick(work, TRUE, retryTimer)
    /\ Settle("ok")
    /\ UNCHANGED <<faults, addressChangesSupported>>
    /\ OnlyRead

\* A request of the read fails.
RefreshFails ==
    /\ Reading /\ active /\ ~chainMoved
    /\ Fault
    /\ Settle("error")
    /\ UNCHANGED <<work, requested, retryTimer, unread, cacheVars>>
    /\ OnlyRead

\* checkWalletChain() finds the chain moved (AbortError); on the legacy path the
\* lost request may surface first, as an ordinary failure.
RefreshVoided(result) ==
    /\ Reading /\ active /\ chainMoved
    /\ result = "abort" \/ ~addressChangesSupported
    /\ Settle(result)
    /\ UNCHANGED <<faults, work, requested, retryTimer, unread, cacheVars>>
    /\ OnlyRead

\* The user's Refresh.
UserRefresh ==
    /\ active /\ ~Reading
    /\ StartRefresh
    /\ UNCHANGED <<faults, work, requested, retryTimer, step, unread, cacheVars>>
    /\ OnlyRead

\* newAddress(), once the wallet is saved: the address list grows, the revision
\* with it, and a refresh starts or is joined.
NewAddress(a) ==
    /\ active /\ a \notin accounts
    /\ accounts' = accounts \cup {a}
    /\ unread' = TRUE
    /\ RequestUpdate
    /\ IF Reading THEN bumped' = TRUE /\ UNCHANGED <<chainMoved, readVars>>
       ELSE /\ rphase' = IF addressChangesSupported THEN "begin" ELSE "pages"
            /\ raccounts' = accounts' /\ rtodo' = accounts' /\ rread' = shown /\ attempt' = 1
            /\ bumped' = FALSE /\ chainMoved' = FALSE
    /\ UNCHANGED <<active, serverVars, passVars, regVars, batchVars, step, cacheVars>>

----------------------------------------------------------------------------
(* walletUpdates *)

\* Faulty variant: the flag is cleared when the read ends, not when it starts.
UpdateTimerFires_KeepsDirty ==
    /\ active /\ timer
    /\ timer' = FALSE
    /\ step' = IF dirty /\ step = "none" THEN "starting" ELSE step
    /\ UNCHANGED <<sessionVars, serverVars, passVars, regVars, batchVars, dirty, revVars, chainMoved, readVars, cacheVars>>

\* The timer fires: drain().
UpdateTimerFires ==
    /\ active /\ timer
    /\ timer' = FALSE
    /\ step' = IF dirty /\ step = "none" THEN "starting" ELSE step
    /\ dirty' = (dirty /\ step # "none")
    /\ UNCHANGED <<sessionVars, serverVars, passVars, regVars, batchVars, revVars, chainMoved, readVars, cacheVars>>

\* run() waits for a read in progress before it decides.
RunAwaits ==
    /\ active /\ step = "starting" /\ Reading
    /\ step' = "await"
    /\ UNCHANGED <<sessionVars, serverVars, passVars, regVars, batchVars, eventVars, revVars, chainMoved, readVars, cacheVars>>

\* run() starts or joins a read if a revision is unread, else it is done.
RunDecides ==
    /\ active
    /\ step = "decide" \/ (step = "starting" /\ ~Reading)
    /\ step' = IF unread THEN "joined" ELSE "ok"
    /\ IF unread /\ ~Reading THEN StartRefresh ELSE UNCHANGED <<readVars, bumped, chainMoved>>
    /\ UNCHANGED <<sessionVars, serverVars, passVars, regVars, batchVars, eventVars, unread, cacheVars>>

\* Faulty variant: drain() forgets to look at invalidations that came meanwhile.
RunEnds_NoReschedule ==
    /\ step \in {"ok", "abort", "error"} \/ (~active /\ step # "none")
    /\ step' = "none"
    /\ dirty' = (dirty \/ (active /\ step = "error"))
    /\ timer' = (active /\ step = "error")
    /\ UNCHANGED <<sessionVars, serverVars, passVars, regVars, batchVars, revVars, chainMoved, readVars, cacheVars>>

\* drain() after its await: a failure is owed again, an AbortError is not.
RunEnds ==
    /\ step \in {"ok", "abort", "error"} \/ (~active /\ step # "none")
    /\ step' = "none"
    /\ dirty' = (dirty \/ (active /\ step = "error"))
    /\ timer' = dirty'
    /\ UNCHANGED <<sessionVars, serverVars, passVars, regVars, batchVars, revVars, chainMoved, readVars, cacheVars>>

\* lock(): the session, its timers, registrations and read end; a run() in progress
\* settles later.
Lock ==
    /\ active /\ active' = FALSE
    /\ up' = FALSE /\ subscribed' = {} /\ pushes' = {}
    /\ Invalidate
    /\ requested' = FALSE /\ retryTimer' = FALSE /\ work' = "none"
    /\ dirty' = FALSE /\ timer' = FALSE
    /\ rphase' = "none" /\ raccounts' = {} /\ rtodo' = {} /\ rread' = [a \in Addresses |-> 0] /\ attempt' = 1
    /\ bumped' = FALSE /\ chainMoved' = FALSE
    /\ UNCHANGED <<accounts, step, ver, faults, drops, unread, cacheVars>>

----------------------------------------------------------------------------
Client ==
    \/ Connected \/ EnsureConnected \/ BaseSubscribed \/ RegisterEnds \/ StaleEnds
    \/ AddressTimerFires \/ RetryTimerFires
    \/ ReadBegins \/ Replay \/ Publish
    \/ UpdateTimerFires \/ RunAwaits \/ RunDecides \/ RunEnds
    \/ \E a \in Addresses :
         Subscribe(a) \/ ServerSubscribes(a) \/ Install(a) \/ WatchAddress(a) \/ WatchFails(a) \/ ReadAddress(a)
    \/ \E p \in pushes : Notify(p)
    \/ \E result \in {"abort", "error"} : RefreshVoided(result)

Environment ==
    \/ \E a \in Addresses : NewAddress(a) \/ ExtendLookahead(a) \/ \E reset \in BOOLEAN : ServerChange(a, reset)
    \/ \E a \in Addresses, why \in {"capacity", "unsupported", "failure"} : ServerRefuses(a, why)
    \/ Disconnected \/ EnsureFails \/ ReplayBusy \/ ReplayStale \/ RefreshFails
    \/ UserRefresh \/ Lock

Next == Client \/ Environment

Spec == Init /\ [][Next]_vars

\* Timers fire, promise continuations run, and requests on a live connection are
\* answered (one that is not is a lost connection, which MaxDrops bounds).
Fairness ==
    /\ WF_vars(Connected) /\ WF_vars(EnsureConnected) /\ WF_vars(BaseSubscribed)
    /\ WF_vars(RegisterEnds) /\ WF_vars(StaleEnds)
    /\ WF_vars(AddressTimerFires) /\ WF_vars(RetryTimerFires)
    /\ WF_vars(ReadBegins) /\ WF_vars(Replay) /\ WF_vars(Publish)
    /\ WF_vars(UpdateTimerFires) /\ WF_vars(RunAwaits) /\ WF_vars(RunDecides) /\ WF_vars(RunEnds)
    /\ \A a \in Addresses :
         /\ WF_vars(Subscribe(a)) /\ WF_vars(ServerSubscribes(a)) /\ WF_vars(Install(a))
         /\ WF_vars(WatchAddress(a)) /\ WF_vars(WatchFails(a)) /\ WF_vars(ReadAddress(a))
    /\ WF_vars(\E p \in pushes : Notify(p))
    /\ WF_vars(\E result \in {"abort", "error"} : RefreshVoided(result))

FairSpec == Spec /\ Fairness
----------------------------------------------------------------------------
(* Properties *)

TypeOK ==
    /\ active \in BOOLEAN /\ accounts \subseteq Addresses
    /\ ver \in [Addresses -> 0..MaxVer] /\ shown \in [Addresses -> 0..MaxVer] /\ rread \in [Addresses -> 0..MaxVer]
    /\ subscribed \subseteq Addresses /\ registrations \subseteq subscribed
    /\ pushes \subseteq [address : Addresses, reset : BOOLEAN]
    /\ work \in {"none", "start", "base", "register"}
    /\ todo \cup asked \cup served \subseteq Addresses
    /\ verdict \in {"ok", "capacity", "failure"} /\ addressCapability \in {"unknown", "yes", "no"}
    /\ step \in {"none", "starting", "await", "decide", "joined", "ok", "abort", "error"}
    /\ rphase \in {"none", "begin", "baseline", "replay", "pages", "publish"}

\* Nothing is in flight and nothing is scheduled: the wallet rests.
Quiet ==
    /\ active /\ up /\ pushes = {}
    /\ work = "none" /\ ~requested /\ ~retryTimer /\ ~addressPending
    /\ ~dirty /\ ~timer /\ step = "none" /\ ~Reading

Fresh(a) == shown[a] = ver[a]

\* When the wallet rests, it shows what the server has, for every address it
\* watches: no push, catch-up or change during a read was acknowledged by a read
\* that does not contain it.
QuietIsFresh == Quiet => \A a \in accounts \cap registrations : Fresh(a)

\* The client never holds or asks for more subscriptions than a connection allows,
\* although two workers reserve slots side by side.
SubscriptionBound == Cardinality(registrations \cup asked \cup served) + 2 <= MaxWatched

\* After the last fault the wallet catches up for good: all of its addresses are
\* watched and shown as the server has them, unless the server refused to watch
\* them or the wallet was locked.
Converges ==
    <>[](\/ ~active \/ addressCapacity \/ addressCapability = "no"
         \/ accounts \subseteq registrations /\ \A a \in accounts : Fresh(a))

\* walletUpdates, as this module runs it, is an EventRefresh.
Refresher == INSTANCE EventRefresh WITH running <- (step # "none"), closed <- ~active

\* Every step of this module is a step of EventRefresh or leaves it alone.
ImplementsEventRefresh == Refresher!Spec

\* No invalidation of the wallet is left without a read or a timer.
NoStrandedEvent == Refresher!NoStrandedEvent
=============================================================================
