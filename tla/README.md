# Verification of ConnectWallet

TLA+ models of ConnectWallet: the desktop core (`src/src/core`, `src/src/main.mjs`) and the parts of the
phone application that decide what it shows (`src/mobile/src`), the TLC configurations that check them on
small instances, and proofs that TLAPS checks. Paths below are relative to the repository's `src/`, so
`core/rpc.mjs` is `src/src/core/rpc.mjs` in `PROJECT.json` and `mobile/session.mjs` is
`src/mobile/src/session.mjs`.

## 1. The system

ConnectWallet is a light wallet. One Electron main process holds everything: an encrypted wallet file,
one TCP connection to a JSON-RPC server it trusts for chain state, and a helper process that makes the
TLS connections of Automatic Claims. The phone application has its own session over a native back end.
All of it is single-threaded JavaScript: concurrency comes from `await`, timers, socket events and
callbacks, so a model's action is one synchronous turn of the event loop and the actions interleave where
the code awaits.

| Component | State | Operations | Hard part | What makes it correct |
|---|---|---|---|---|
| RPC client, `core/rpc.mjs` | in-flight maps, slot queue, reservations, quota history, cooldowns, socket | `request`, `connect`, replies, streams, timeouts, abort, `close` | a slot, quota and connection are checked, then awaited, then used; losses at any point | slots bounded and never leaked; what a caller is told about transmission is true; every call settles |
| Event refresh, `core/event-refresh.mjs` | `dirty`, `running`, `timer` | `request`, `drain`, `close` | invalidations during and at the end of a read | no invalidation is stranded, no polling |
| Live updates, `core/live-updates.mjs` | registrations, generation, batch, retry timer | `ensure`, `subscribe`, `notify`, `watchAddress`, `invalidate` | pushes before their identifier is installed; reconnects during a pass; two workers | no change is missed, subscriptions bounded |
| Wallet refresh, `core/wallet-service.mjs`, `core/address-sync.mjs` | revisions, `addressSync`, snapshot, accounts | `refresh` on the journal or by pages, recovery, `buildAccounts`, `newAddress` | a read acknowledges only what it contains; builds shared across locks | a resting wallet shows what the server has; its addresses are its own and cover the gap |
| Payments, `core/wallet-service.mjs`, `core/transaction.mjs`, `main.mjs` | preview, reservations, `session.data`, chain of saves, parents | `previewSend`, `confirmSend`, `cancelSendPreview`, `paymentFunding`, `funding` | save before broadcast, unknown outcomes, roll-back, lock and kill; the plan and the bytes | sent payments are on record; no silent double spend; the reviewed plan is the one signed |
| Wallet file, `core/vault.mjs` | the file, its temporary and backup files | `createVault`, `updateVault`, `replaceVault` | power loss, failed steps, cancellation, other programs | never torn, replaced wallets recoverable, honest results |
| Wallet lifecycle, `core/wallet-service.mjs` | `session`, `epoch`, setup and replacement authorizations | setup, unlock, lock, replacement, close | authorizations that expire while encryption runs | what is open is what is in the file; only the latest request opens |
| Tip confirmation, `core/wallet-service.mjs` | notice and chain revisions | `tipUpdates`, `applyChange` | a confirmation answered after a newer notice | what is shown is of one chain, and settles on the server's |
| Bounty discovery, `core/bounty-discovery.mjs` | anchored window, journal cursor, catalog | block streams, journal replay, compact pages, reset | pages applied after they were voided | what is published is one server state; it catches up |
| Claim submission, `core/wallet-service.mjs` | reservations, receipts, confirmations, catalog gate | `submitAutomaticClaim`, receipts, snapshot commit | a late rejection after a confirmation, a lost answer | counted once, never lost, never sent blindly again |
| Claims engine, `core/claims-engine.mjs` | queue, tasks, pool, proofs, lookups | start, stop, suspend, attempts | draining tasks that wait for the stop | stop ends and is clean; every domain is looked up |
| Scheduler, `core/claim-scheduler.mjs`, `core/claim-priority.mjs` | groups, leaders, gates, deadlines, turn, rates | `rebuild`, `next`, `commit`, readiness | small updates of indexes, late commits | the best is picked, turns alternate |
| Helper connection, `core/claim-pool.mjs` | request table, admission gate, deadlines | attempt, resolve, admission, close | deadlines suspended and re-armed | every request is watched and settles once |
| Settings, `core/config.mjs`, `core/wallet-service.mjs` | saved and running configuration, review | settings queue, `applyConfig`, `setClaims` | stop awaited across a reconnect or lock | claims run only as allowed, consent is fresh, they resume |
| Local processes, `core/rsa-probe.mjs`, `core/claims.mjs`, `core/payment-builder.mjs` | child or worker, timer | probe, proof, signing | answer, exit, deadline, abort and kill race | an answer is earned; nobody waits for ever |
| State publication, `core/state-publisher.mjs` | timer, last publication | `request`, `close` | throttling | nothing is withheld beyond the interval |
| Phone, `mobile/session.mjs`, `live-balance.mjs`, `hd-session.mjs`, `hd-sync.mjs`, `app.mjs` | account, balance, history, hints, watch, journal, display cache | `refresh`, `observeTip`, `notify`, `flush`, baseline and replay, cache writes | answers late, for another account, on another chain; groups read at different times | what is shown is one moment of the selected account |

They interact by calls (service -> RPC client, vault, engine), by events (`connected`, `disconnected`,
`notification` from the RPC client to live updates and the service), by callbacks (live updates ->
service -> event refreshers -> `refresh`; engine -> service for preparation and submission) and through
shared state (`session.data`, `reserved`, `refreshing`, `persisting`, the catalog gate, the epoch and the
revisions). `PROJECT.json` lists every component, the ones that are not modelled too, and the hazards of
the code line by line.

## 2. Modules

| Module | Models | Run |
|---|---|---|
| `RpcClient`, `RpcClientProofs` | `core/rpc.mjs` | `rpc_slots`, `net_live` |
| `EventRefresh` | `core/event-refresh.mjs`: the abstract specification of an update loop | refinement target in `sync_journal`, proofs in `WalletSyncProofs` |
| `WalletSync`, `WalletSyncProofs` | `core/live-updates.mjs`, the refresh part of `core/wallet-service.mjs`, `core/address-sync.mjs` | `sync_journal`, `net_live`, `sync_reconnect` |
| `TipConfirmation`, `TipConfirmationProofs` | `connectClient` and `applyChange` of the service, `confirmTipChange` | `progress` |
| `AccountRange`, `Recovery` | `buildAccounts`, `newAddress`, `openSession`; `recoverAddresses` and the pass after it | `money` |
| `Vault`, `VaultProofs` | `core/vault.mjs` on a POSIX file system | `records` |
| `WalletLifecycle`, `WalletLifecycleProofs` | setup, replacement, unlock, lock, close; the second module also has the theorems about the displays: StatePublisher, MobileSession, DisplayCache | `wallet` |
| `PaymentSession`, `PaymentSessionProofs` | the payment part of the service, `persist`, lock and unlock, the action gate of `main.mjs` | `money` |
| `PaymentPlan` | `paymentFunding`, `paymentPlan`, `buildPayment`, sizes and fees of `core/transaction.mjs` | `money` |
| `FundingReads`, `FundingCache` | `funding`, `paymentParents` over `core/funding-cache.mjs`; `FundingTransactionCache` | `money` |
| `BountyDiscovery`, `CompactPage` | `core/bounty-discovery.mjs`, `syncBounties`, `resumeClaims`; what a loss and a lock do to them | `money`, `claims_engine` |
| `ClaimProofs` | submissions and receipts of the service, winners of `core/claims-engine.mjs` | `claims_engine` |
| `ClaimsLifecycle`, `ClaimDns` | coordinator, halt and lookups of `core/claims-engine.mjs` | `claims_engine`, `progress`, `dns_lookups` |
| `ClaimsEngine`, `ClaimsEngineProofs` | the engine's life cycle beside instances of `ClaimProofs` and `ClaimPool`, and the theorems about all three | `claims_engine` |
| `ClaimPool` | `core/claim-pool.mjs` | `claims_engine` |
| `ClaimScheduler`, `SchedulerIndex`, `ClaimPriority` | `core/claim-scheduler.mjs`, `core/claim-priority.mjs` | `claims_queue`, `claims_engine` |
| `ClaimSettings`, `ClaimSettingsProofs` | settings queue, `applyConfig`, `setClaims`, `resumeClaims` | `claims_queue`, `progress`, `settings_endpoint` |
| `LocalHelpers` | `core/rsa-probe.mjs`, `core/claims.mjs`, `core/payment-builder.mjs`, `core/payment-worker.mjs` | `net_live` |
| `StatePublisher` | `core/state-publisher.mjs` | `wallet` |
| `MobileSession` | `mobile/session.mjs`, `mobile/live-balance.mjs`, parts of `mobile/app.mjs` | `wallet` |
| `HdJournal`, `DisplayCache` | `mobile/hd-session.mjs`, `mobile/hd-sync.mjs`, `mobile/hd-display-cache.mjs` | `records`, `wallet` |

An `MC*` module is a suite: it extends one module, which the configuration gives its constants, and may
instantiate others with constants of its own; `inst` says which of them, or which part of the extended
module's environment, a behaviour is of, and the variables of the others stay at one initial value. A state of
the suite is therefore a state of one instance, and a property of the suite is the conjunction of what the
instances promise; the fairness conditions of a suite are those of the components, for their own behaviours.
The instances of `MCWallet` take its constants instead of values, so the theorems about them hold for every
value; the configuration gives the values TLC uses. Operators that a comment calls a mutant or a faulty
variant are plausible bugs of the definition that follows them; no specification uses them. They show, by
substitution, that every checked property fails when the code goes wrong.

**RpcClient.** A member of `Requests` is one call of `request()`; `pc` is the await it is suspended at.
`pending`, `streams`, `capacityWaiters`, `capacityReservations`, `history`, `cooldowns`, `socket`,
`connecting` and `closed` are the fields of the same name; `ahead` is the order of the waiters.
`Serve` is the loop of `drainCapacity()` stated as what it pops: a prefix of the queue in which dead
waiters fail and live ones take the free slots. Charges and cooldowns are kept as the ticks they have
left. `wire`, `age` and `announced` are ghosts: what was really written, when, and which events were
emitted. Framing and validation of a message are one action, `ProtocolFailure`.

**EventRefresh, WalletSync.** An address's history is a version number; `ver` is the server's, `shown`
the wallet's. Revisions and generations are only ever compared in the code, so the model keeps the
comparisons (`unread`, `bumped`, `chainMoved`, `stale`) and needs no bound on them. One behaviour is one
session on one client, from `openSession()` to `lock()`, which closes the client. The journal's batches
and rows are one `Replay` step; how batches, pages and rounds come to one moment is in HdJournal, from the
phone's copy of the algorithm. `walletUpdates` inside WalletSync is shown to implement EventRefresh
(`running <- step # "none"`, `closed <- ~active`).

**TipConfirmation.** The server's chain is a block of a tree with one fork. Notices carry the tip they
were sent for and a reorganization flag, which the server may leave out for a tip that is not higher. A
confirmation is three requests; `Fenced` is the test after each. Registration is atomic with the
reconnection: what happens between the two is WalletSync's.

**AccountRange, Recovery.** An address is the wallet it was derived from and its place in a chain. Every
derivation yields (the code yields at each 32nd), callers share a build and look again when it is done.
Recovery scans one chain of addresses; a tip names the set of addresses used on it.

**Vault.** Every encryption has a fresh salt and nonce, so ciphertexts are numbers. `live` is what a name
stands for, `maybe` everything a power loss may leave of it: names are durable only after a sync of
their directory, bytes only after a sync of the file. `Compare` and `PublishReplace` are two actions
although they are one JavaScript turn, because another program can come between them; the user's
`Cancel` cannot.

**WalletLifecycle.** One operation is a record that carries the epoch it began in and whether it was
cancelled; the steps of the vault are two, before and after publication. A cancellation may come too late
to prevent a publication, never too late to keep the wallet locked.

**PaymentSession.** `data` is `session.data`, `disk` the wallet file, `queue` the chain of saves in
`this.persisting`. A save is one step, which Vault justifies. `Busy` is `actionInProgress` of
`main.mjs`: only lock and cancellation run beside a user action, background refreshes always do. A lost
connection cancels the confirmation in progress, which is the action `CancelSendPreview` as well.

**PaymentPlan.** Sizes, weights, dust limits and rates are the code's numbers; amounts lie around the
thresholds of one payment to one recipient. Accounts are read in any order and a plan is tried after each;
the signer plans again from what was selected, and its serialized size is compared with the estimate.

**FundingReads, FundingCache.** A context is the session, the connection and the generation of the cache;
a read belongs to the one it began in. One review is followed with up to two workers (16 in the code);
claims ask for the same transactions and leave early. FundingCache keeps what each entry is charged, not
what it holds.

**BountyDiscovery, CompactPage.** A block is its height and fork with a fixed number of bounties. One
pass stages the blocks of the window, replays the journal and publishes; a truncation or reorganization
revokes cursors. The budget of a pass is its pages. A reset notice, a lost connection and a lock do not end
a running discovery: they void it (`live`), and it ends at its next `check()`, until when no other begins.
The engine is off, suspended until the next publication, or on; the connection keeps the hash anchor that a
loss drops while blocks and cursor stay. A failed request leaves a closed catalog closed and is repeated,
or stops the engine, to be resumed. CompactPage checks that versions 1 to 3 of a page are
read as the page that was meant, from the page itself or from the state the request named.

**ClaimProofs.** `st[k]` is everything engine and service keep about one outpoint; `chain[k]` what the
network knows. One key, one session on one server. `tally`, `unknown` and `verified` are history: how
often the claim was counted, whether a broadcast has an outcome nobody knows, whether a proof is owed.
The wait for the catalog gate is `WaitOver`. A confirmation is taken once the published window has its
block; a claim whose block is only older than the window keeps its confirmation in the code and is not
distinguished here.

**ClaimsLifecycle, ClaimDns, ClaimPool.** The engine's fields are one record and each method an operator
from a record to the next, so that an action is the whole handler. A task is work of any stage. ClaimDns
has the gate of a domain in its two places, the scheduler's table and the last rebuild's group.
`EarlyReturns` is whether a domain whose bounties left the catalog comes back while its gate is still closed
or its lookup still runs. With it the code breaks two of the module's promises: `AtMostLimit`, which the
finding `dns_lookups` shows, and `NoOrphanGate`, because `retainCatalog()` (line 305) takes a domain that left
out of `waitingDns` and leaves its closed gate to the next rebuild; a domain that is back before that rebuild
keeps the gate, and nothing opens it until the next suspension. What `progress` checks of lookups it checks
without such returns. In ClaimPool a deadline may fire at any time once it is armed; the helper answers in any order, stalls or
dies.

**ClaimScheduler, SchedulerIndex, ClaimPriority.** The scheduler answers from indexes that its caller's
reports update in small steps; the reference is the set of bounties that may be tried. SchedulerIndex has
the tree and the heap, checked against the set and the function they stand for; ClaimPriority the
one-hour ring of buckets, against the list of samples, and the budget, against its multiplied form.

**ClaimSettings.** Settings are merged and written in a queue. A microtask that is due (`Due`) runs before
any event. Locks, lost connections, uncertain broadcasts and clicks come between the steps.

**LocalHelpers.** A call's promise races output, exit, errors, deadline and abort. `late` is the clock,
which close handlers read before the timer's callback may have run.

**MobileSession.** Generations, epochs and revisions only grow, so a read carries whether it is still
current. The delay before the next read is left out. A reorganization to a chain that is not longer, while
the account's watch is not installed, is not followed by the phone until the next notice; the model's
server (`Reorganizes`) therefore reorganizes beside a watch.

**HdJournal, DisplayCache.** A row is the fact that a coin is held by an address; a payment is two journal
events. Groups are read, then replayed page by page until all stand at one sequence, at most `Rounds`
times (2 here). `renewed` is history: whether a refresh has begun since the watch last voided what was held.
`FundingIsVerified` says with it that nothing which a lost watch, a reset or a reload voided is verified or
funds a payment, and that a partial view shown during a refresh is of that refresh's own selection. DisplayCache is the writer that brings verified snapshots to native storage; its
heartbeat is a choice at each comparison, and storage may store and still refuse.

## 3. Runs

| Run | Instances and question | Result |
|---|---|---|
| `rpc_slots` | A broadcast, a read and a stream share one slot over two connections, with aborts, timeouts, protocol failures, drops and `close()`; or two reads share it under a quota of one per window and a cooldown. | Slots are owned exactly once and never idle; losses are announced before a replacement; outcomes are honest; writes pass every fence, in order, and are charged exactly. |
| `sync_journal` | Two addresses, a journal server, changes, pushes, resets, refusals, failures and lock at every point; three addresses and two free subscriptions. | A resting wallet is fresh; the workers never oversubscribe; no wake-up is stranded; the loop implements EventRefresh. |
| `net_live` | Calls whose server owes no answer; a paged wallet with a lost connection; two probes, a proof and a signing. | Every call settles; the wallet catches up for good, unless the server refuses to watch or the wallet is locked; helpers answer truthfully, in bounded number, and end. |
| `money` | Payments sharing `session.data` with a new address and refreshes, across locks and restarts; payments of a session competing for outputs; plans around dust and fee limits; parents shared by a review and claims across contexts; account builds; recovery across forks; bounties at servers with and without deltas over forks, truncations, a lost connection, a lock or a failed request. | What reached the network or the user is in the file and no output is silently spent twice; the plan that is reviewed is what is signed and paid for; a parent funds only the context it was read in, and the caches' charges are exact; accounts belong to the open session and cover the gap; recovery finds every used address; the bounties published are exactly what the server had at the published cursor, nothing void is published, and the catalog catches up. |
| `records` | The file with failures, cancellation, foreign writes, kills and power losses; the phone's two groups of addresses crossed by two payments, and single addresses with a restarted journal and failed requests. | The file is never torn, recoverable, honest, authorized; what the phone shows, early or complete, is one moment of the server; only verified outputs fund. |
| `claims_engine` | The engine with two tasks, two generations and faults; the helper's table; one bounty through captures, broadcasts with every answer, receipts, snapshots and reorganizations; rates; compact pages. | A stopped engine owns nothing and there is one helper at a time; counters and deadlines match; claims are counted once, kept, and not sent blindly; rates and pages are exact. |
| `claims_queue` | Settings with two servers, two clicks, a review, a lock and a fault; three bounties of two domains with deadlines; turns with late commits; the tree with six positions, the heap with six keys. | Claims run only as allowed, with a fresh consent, and the last click stands; the pick is the best of what may be tried; turns alternate; the indexes are what they stand for. |
| `progress` | Tip confirmations racing reorganizations and a lost connection; halts; lookups of two domains over one slot, and of three domains over two, of domains that do not return early; claims switched on across locks and failures. | What is shown is of one chain and settles; halts complete; domains resolve again and again; claims resume. |
| `wallet` | Creations, replacements, unlocks and saves; the phone with two accounts and faults, and with several server changes; the display cache; the window. | What is open is what the file has and was asked for last; what the phone shows is its own account's, of one moment, and true at rest; its storage holds what was verified; the window is not starved (`ShownIsTrue` at every state, `RestIsShown` at rest). |
| `sync_reconnect` | A journal server and a lost connection. | Violated; see below. |
| `settings_endpoint` | A change of the server while the engine drains and the wallet is locked and unlocked. | Violated; see below. |
| `dns_lookups` | Three domains, two lookups at a time, and domains that leave the catalog during their lookup and return. | Violated; see below. |

**Finding (`sync_reconnect`).** A comment in `core/wallet-service.mjs` (lines 175-176) says that a refresh
subscribes before it reads each address, so registration catch-ups during a read are covered by it. A
refresh that reuses a journal candidate (line 831) replays the journal without `watchAddress()`, and the
candidate survives a lost connection. After a reconnect the journal may be read before the address is
registered again. A change in between has no push; the registration's catch-up arrives while the read is
still publishing and is not counted; the wallet rests with the old state until the next event or a
manual refresh. `net_live` uses the paged path for this reason.

**Finding (`settings_endpoint`).** `applyConfig` saves a new endpoint, waits for the engine to stop and
gives up when the epoch moved meanwhile (line 1357). A comment there (lines 1376-1377) says that a newer
lifecycle reads the saved configuration. `lock()` builds the client of the next session before its engine
has drained. A change of the server made in the locked wallet during that drain waits for it; `unlock()`
moves the epoch without building a client, so an unlock before the drain has ended makes `applyConfig`
give up, and the client of the old server stays in use although the settings name the new one, until the
next lock or change of the server.

**Finding (`dns_lookups`).** The engine means to run two lookups at a time (`core/claims-engine.mjs` lines
95 and 782) and counts them by `resolving`, a set of domains. When the last bounty of a domain is spent
during its lookup, the bounty leaves the queue at once and the next rebuild prunes the domain's gate
(`core/claim-scheduler.mjs` line 163). A new bounty of the domain then starts a second lookup, the set has
one entry for both (line 592), and another domain may be looked up beside them: three run, and the first of
the two that ends deletes the entry of both (line 604).

**Bounds, and why they are enough.** `rpc_slots` has one slot and three different kinds of call: every
conflict over a slot is between a holder, the head of the queue and one behind it. Two connections suffice for
a loss, a late event of the old socket and a replacement. The quota needs one call that waits and one that is
charged; two calls granted at once under one quota are left to the proof. In WalletSync every property is
about one address at a time; the second address is there to hold a batch, a pass or a read open while
something happens to the first, the third to compete for the last subscription. One change per address
suffices because a stale address stays stale, and one fault and one drop because the model's comparisons start
afresh after each. `FlushEvery` is 2 for 8 and `MaxWatched` 4 for 100: both sides of each threshold occur.
Vault allows four ciphertexts (the first wallet, two calls, a foreign one), two faults (a failed step and a
failed cleanup) and two crashes (one during the recovery from the other). PaymentSession is split: some
behaviours have the saves, two locks or restarts, a receive address and two payments of one output, the others
three payments of two outputs with the reservations and no locks (reservations do not survive one); the gap of
2 is exhausted in both. PaymentPlan's coins lie at the exact amount, at the fee's and the dust limit's edges,
and one short. Two contexts, one cache entry and two reads make every late read meet a newer context and an
eviction. The engine's two generations are the one that stops and its successor; two tasks are one that ends
and one that does not. One key suffices for ClaimProofs, whose properties are about one outpoint: other keys
only delay it. Three bounties of two domains give the scheduler a leader to replace and a domain to compete
with. Discovery has three heights and two forks, pages of one row, a window of two blocks that is full at the
start, and three changes of the server, so that a page, a restart and a reorganization fall into every pass;
with deltas there is one lost connection, lock or failed request as well, because each brings the wallet back
to a state it may begin in. Lookups have two instances: two domains over one slot with four catalogs and a
suspension, which is the competition that liveness is about, and the code's own two slots with a third
domain to exceed them and three catalogs, one to come, one to leave and one to return. The phone has two accounts and one change with faults, or
one account and two changes without; a third change starts from a state the first two left. HdJournal has the
smallest groups a payment can cross. `MaxTime`, `MaxChanges`, `MaxClicks` and the other `Max` constants bound
the environment's steps, never the code's. Deadlock is not checked where the system rests when all work is
done.

**Fairness.** Everywhere: the event loop runs ready continuations and expired timers; nothing is assumed
of the user. RpcClient: a destroyed socket emits `close`, a connecting one connects or fails (it has a
timer); no answer is assumed of the server, reply timers settle the calls. WalletSync, ClaimSettings,
BountyDiscovery and TipConfirmation: requests on a live connection are answered or end in a lost
connection by the client's timeout, of which there are boundedly many; the event queue repeats a failed
discovery or resumption (WF on the whole of it). Nobody has to unlock the wallet: the catalog catches up if
the wallet stays unlocked from some time on. TipConfirmation needs strong fairness of its reads: a
notice may void one again and again, but notices end with the chain's moves. ClaimDns needs strong
fairness of `Resolve`: a domain's turn is interrupted by suspensions and by the other domain's lookups,
and the scheduler's alternating turns return to it. LocalHelpers: events are handled, clocks run, killed
processes end. ClaimsLifecycle: aborted tasks end, because every stage listens to its signal.

## 4. Proofs

TLAPS checks these for every value of the constants that satisfies the modules' `ASSUME`s, so for any
number of calls, payments, addresses, faults, locks and crashes. Every inductive invariant was checked
with TLC first. None of the properties is inductive as it stands; the list says what had to be added.

- `RpcClientProofs`: the five properties of `rpc_slots`, with `SlotsOwned` (a part of `QuotaKept`), `TypeOK`
  and `SlotBound`. The assumptions are
  a finite set of calls, positive slots, limits and window. *Slots and outcomes*: the invariant ties each
  call's `pc` to its place (`CallsOK`: written calls and only they are in flight or settled by an answer
  or a loss; `SlotsOK`: the queue is the waiting calls, the counter the granted ones). `ServeLemma` and
  `DrainLemma` state what `drainCapacity()` does to any queue, and every action that releases, takes or
  moves a slot cites them. *Quota*: a charge is what a write left of its window, which gives the bound
  because `Transmit` tests and charges in one turn. *Order*: `Serve` grants a prefix. *Idle slots and
  announcements*: every turn that touches the slots ends in a drain, after which a live head of the queue
  meets full slots (`Turn`); one socket is current, later ones are unused and earlier ones were announced
  as lost (`Current`), which needs that a call past `connect()` holds a socket that was open (`Reached`).
- `WalletSyncProofs`, *the refresher*: EventRefresh itself strands nothing and does not poll, each of
  which needs the other (a timer is only armed beside no read, so the end of a read may arm it) and that
  an inactive owner is owed nothing. The refresher inside WalletSync implements EventRefresh, for any
  addresses and bounds and whatever the workers, the server and the reads do; so no wake-up of the wallet
  is stranded. The refinement needs `Armed`: a locked wallet is owed nothing, and a timer waits only for
  an invalidation and never beside a read. *The workers*: they never hold more subscriptions than a
  connection allows, because only `Subscribe` adds to what is registered, asked for or served, and it
  counts all three. *A wallet at rest is fresh* (`QuietIsFresh`): an address is in one place of its
  registration (`Places`); workers belong to the pass of this connection and no address is installed
  after a refusal (`Passes`); an unread revision is owed a run or a first catch-up (`Owed`); a read covers
  the accounts of its start and contains only what was watched when it was read (`Sound`); and every
  watched address is shown as it is, or a push or an unread revision will have it read, and a read that
  would acknowledge the revision contains it (`Followed`). The heart is `InstallFollows`: when an address
  is installed nothing has been read of it, so the catch-up may be swallowed by the read under way.
  Two hypotheses remain, and neither can be dropped. One is the finding `sync_reconnect`: with a journal
  the connection is not lost. The other, `SteadyServer`, is that a server does not call subscriptions
  unsupported after it has granted one on the same connection. Without it, with three addresses, the
  refusal of one lets the read go on while the grant of another is still in flight; a change pushed then is
  dropped, and its catch-up is swallowed by the read that has already passed the address.
- `TipConfirmationProofs`: `ShownOnOneChain`, for any number of blocks, moves, notices and lost
  connections, if the server flags its reorganizations, and `GrowthKeepsReads` without that. Blocks of the
  tree and their ancestry have lemmas of their own (`AncTransitive`, `AncOneChain`). The invariant
  (`ShownInv`) says that the notices behind the last announced reorganization are of the server's chain
  (`NoticesOn`) and that, when none is on its way any more, so are the tips and rows the wallet holds and
  may still show, and those of a read or confirmation that is not void (`HeldOn`). That a chain which only
  grows voids nothing (`GrowthInv`) needs that every tip the wallet holds, or is being sent, is on that
  chain, and that a confirmation compares blocks in the order in which the chain reached them.
- `VaultProofs`: the type invariant and the four properties of Vault in `records`, for any number of
  calls, faults, foreign writes and crashes. The inductive invariant adds what must be true at each step
  of a call: `Fresh` (no name stands for the new ciphertext before it exists), `Staged` (what is about to
  be renamed is whole and synced), `Backed` (from the backup's directory sync to the end of the call the
  backup is durable) and `Installed` (what the flags say about publication holds for every state a power
  loss may leave).
- `WalletLifecycleProofs`: what is open is what the file has, and only the latest request opens a wallet.
  The session is tied to the file through the saves that are queued (`SavesContinue`: each continues the
  one before it, the first the file); a creation under way excludes a session, and once it has waited no
  save is left (`WriteAlone`); no operation carries an epoch to come (`EpochsPast`), and one that nothing
  has overtaken is the latest request, an unlock having read what the file still holds
  (`UnlocksCurrent`, `WriteCurrent`).
- `WalletLifecycleProofs`, *the displays*: `ShownIsTrue`, for any accounts, pages, faults and changes of the
  server, if the value standing for `undefined` is none of the records and the interval of the window is a
  natural number. *The phone* (`PhoneInv`): what it shows is of the selected account, and its history of one
  moment, because a read that is still current was begun for that account and what it has collected is of it
  (`ReadsAreOwn`), which a change of the account keeps by making every read stale. A hint that is not served
  has its timer or its flush, since every step that may let the scheduler read again asks it to (`Serves`), a
  flush lasts as long as its one read (`OneFlush`), and without an account there is no hint (`Forgot`). There
  is a lemma for each method that several handlers call: taking notice of a tip (`Observed`, `Accepted`),
  waking and asking the scheduler (`Woken`, `Requested`), showing a balance or a history (`BalanceShown`,
  `HistoryShown`), the end of a read (`Settled`) and its start (`Refreshing`). *The cache* (`CacheInv`): the
  last verified read waits, is being written, or is stored (`Followed`), and each stage holds only what was
  read of its own wallet (`Owned`, `Marked`). *The window* (`WindowInv`): what is withheld has a timer that is
  due within the interval of the last publication.
- `PaymentSessionProofs`: `SentIsRecorded` and `NoSilentDoubleSpend`. Nothing is assumed of the bounds.
  *On record*: everything that may become the file has every sent payment: the file, the session's data,
  every queued save, and the data a failed save rolls back to (`Recorded`). A payment about to be sent is
  saved already and no queued save undoes it (`Ready`); the save its confirmation waits for, and all after
  it, contain it (`Saving`); the same for a receive address (`Adding`, `Issued`). *Spent once*: a review
  knows of every payment sent before it (`Reviewed`), which survives because one user action runs at a
  time, and a cancellation gives back only what its own payment reserved (`Reserved`).
- `ClaimSettingsProofs`: `SettingsHold`. A write that leaves the engine running writes the settings in
  force, or a review has stopped the engine since (`Harmless`); no click queued before the newest review
  can dismiss it (`Consent`); and the last queued change of each setting, or the write under way, or the
  settings themselves hold the value asked for last (`HostStands`, `SwitchStands`).
- `ClaimsEngineProofs`, the engine: `StopsClean`, and that the warning of an unknown broadcast stays until the
  user starts again (`UnknownStays`). The methods are operators from record to record, so there is one lemma
  for each method, that it keeps `Good`, and the actions cite them. `Fit` relates the engine's generation to
  its coordinator's and to the one pool that may live; `Warned` says that an unknown outcome has stopped the
  engine with a reason that no later halt replaces. The wake-up holds under a lock as well (`Wake`), which the
  run's property does not ask for and the induction needs.
- `ClaimsEngineProofs`, the proofs it finds: `ProofsAreKept`, for any number of outpoints and submissions,
  from the assumption that the value standing for `undefined` is none of the records. What the four
  promises say of a key is not inductive, because it depends on who remembers what. A key in order
  (`KeyGood`) has one place for everything: `Acts` (capture, winner, acceptance and submission exclude
  each other as the code's guards intend), `Reserves` (why a key is reserved: its claim is on its way,
  of unknown outcome, accepted or confirmed), `Confirms` (a confirmed claim is over, but for the return
  of the submission that its receipt has overtaken), `Counts` (the acceptance, the running submission or
  `#countedClaimConfirmations` remembers that the claim was counted) and `Keeps`. `Side` ties the key to
  the network and to the running discovery: a claim the network has is reserved and its submission
  answered (`Sends`); what a snapshot read may be older than what the key knows, in one direction only
  (`Reads`); and when receipts are read nothing of a claim in the window is half done (`Reached`). Without
  `Reads` a snapshot read before the broadcast could free the key after it. `ReceiptInv` says that a
  receipt which is still current is of an acceptance that is kept, and that "missing" can be out of date
  only while the submission is not over. Each operation on a key has a lemma, each action cites them, and
  a step about one key leaves the invariant of the others (`OneKey`).
- `ClaimsEngineProofs`, the helper's connection: `PoolIsWatched`, for any number of requests and faults
  and any capacity, from the assumption that the requests are numbered by naturals. That a request which
  waits out a pause is watched by the resume (`Watched`) is not inductive: an acknowledgement may end the
  pause's record or take away the resume that watched it. `Pauses` says that a pause which goes on was
  asked for or has its resume open and timed, and `Lives` that nothing is open before the helper is ready
  or after a failure. `Pipe` is what makes an acknowledgement the right one: every control the helper has
  not read is open under its own identity and asks for what was recorded, the last one asks for the
  target, and a gate that differs from the target has a control on its way. From `Pipe` also follows that
  nothing starts while the gate is closed. One lemma says what `finish()` does to the table
  (`FinishTable`), one what `fail()` does (`FailInv`), one what `request()` does (`EnterTable`), and four
  what writing and reading do to the pipe; the actions cite them.

Only model-checked:

- everything about liveness and fairness, which the prover does not handle: `EveryCallSettles`,
  `WalletConverges`, `HaltCompletes`, `DomainsResolve`, `WalletSettles`, `EveryCatalogCatchesUp`,
  `HelpersAnswer`;
- what is computed by searching or folding over data, where a proof needs induction over it:
  `PlanIsRight`, `BestIsPicked`, the rates and pages, recovery, the journal's replay in HdJournal;
- `RestIsShown`, what the phone shows when it is at rest: it depends on which of the server's notices and
  answers are still on their way, which `PhoneInv` does not follow;
- the modules no theorem is about: BountyDiscovery, FundingReads, FundingCache, AccountRange, LocalHelpers.

`ProofsAreKept`, checked and proved, inherits one assumption that ClaimProofs makes about its environment:
a claim the network has forgotten comes back only by being sent again.

## 5. Not modelled

- Windows, where `vault.mjs` syncs no directories; encryption and key derivation (external).
- Unsubscription: an unlocked session's address list only grows.
- Several recipients of one payment, and a change of the server's address in the settings during one.
- Inside the engine: the admission that keeps the best bounties within `maxQueue`, recovery probes with
  `core/claim-connection-policy.mjs`, counters and diagnostics. The score of a bounty is a number.
- The validation of fields in replies, pages, receipts and settings: a reply is valid, refused or a
  protocol failure.
- Transaction bytes, keys, signatures, payment links: computations on byte strings, with unit tests.
- Diagnostics, windows, renderer and the screens of `mobile/app.mjs`: they show what the modelled parts
  decide. The Kotlin and Swift back ends and the C++ and Python helpers: the external side of
  MobileSession and ClaimPool.

## 6. Plan

1. **Proofs**: `FundingIsOwn` of FundingReads and the charges of FundingCache; `RestIsShown` of the phone.
2. **Refinement**: an abstract atomic wallet file and Vault's refinement of it; HdJournal as the
   refinement of WalletSync's `Replay`.
3. **Engine**: admission within `maxQueue` and recovery probes; ClaimsLifecycle and ClaimPool composed.
