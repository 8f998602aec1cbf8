------------------------------ MODULE MCWalletSync ---------------------------
(***************************************************************************)
(* Live updates and address reads on two instances: a journal server whose *)
(* requests fail, and more addresses than the connection has subscriptions *)
(* left.                                                                   *)
(***************************************************************************)
EXTENDS WalletSync

VARIABLES inst,   \* the component this behaviour is of
          cActive, cAccounts, cVer, cSubscribed, cPushes, cUp, cFaults, cDrops, cWork, cStale,
          cRequested, cRetryTimer, cBaseReady, cRegistrations, cTodo, cAsked, cServed,
          cRegistered, cVerdict, cAddressCapability, cAddressCapacity, cAddressBatch,
          cAddressPending, cAddressCatchup, cAddressTimer, cDirty, cTimer, cStep, cUnread,
          cBumped, cChainMoved, cRphase, cRaccounts, cRtodo, cRread, cAttempt, cSyncKey,
          cSyncPending, cAddressChangesSupported, cShown

C == INSTANCE WalletSync WITH
    Addresses <- {"a1", "a2", "a3"}, Journal <- TRUE, FlushEvery <- 2, MaxWatched <- 4,
    MaxVer <- 0, MaxFaults <- 0, MaxDrops <- 0, active <- cActive, accounts <- cAccounts,
    ver <- cVer, subscribed <- cSubscribed, pushes <- cPushes, up <- cUp, faults <- cFaults,
    drops <- cDrops, work <- cWork, stale <- cStale, requested <- cRequested,
    retryTimer <- cRetryTimer, baseReady <- cBaseReady, registrations <- cRegistrations,
    todo <- cTodo, asked <- cAsked, served <- cServed, registered <- cRegistered,
    verdict <- cVerdict, addressCapability <- cAddressCapability,
    addressCapacity <- cAddressCapacity, addressBatch <- cAddressBatch,
    addressPending <- cAddressPending, addressCatchup <- cAddressCatchup,
    addressTimer <- cAddressTimer, dirty <- cDirty, timer <- cTimer, step <- cStep,
    unread <- cUnread, bumped <- cBumped, chainMoved <- cChainMoved, rphase <- cRphase,
    raccounts <- cRaccounts, rtodo <- cRtodo, rread <- cRread, attempt <- cAttempt,
    syncKey <- cSyncKey, syncPending <- cSyncPending,
    addressChangesSupported <- cAddressChangesSupported, shown <- cShown

capacityVars == <<cActive, cAccounts, cVer, cSubscribed, cPushes, cUp, cFaults, cDrops, cWork,
                  cStale, cRequested, cRetryTimer, cBaseReady, cRegistrations, cTodo, cAsked,
                  cServed, cRegistered, cVerdict, cAddressCapability, cAddressCapacity,
                  cAddressBatch, cAddressPending, cAddressCatchup, cAddressTimer, cDirty,
                  cTimer, cStep, cUnread, cBumped, cChainMoved, cRphase, cRaccounts, cRtodo,
                  cRread, cAttempt, cSyncKey, cSyncPending, cAddressChangesSupported, cShown>>

AnyInit ==
    /\ inst \in {"journal", "capacity"}
    /\ Init
    /\ C!Init
    /\ inst # "journal" => accounts = {"a1"}
    /\ inst # "capacity" => cAccounts = {"a1"}

AnyNext ==
    \/ inst = "journal" /\ Next /\ UNCHANGED <<inst, capacityVars>>
    \/ inst = "capacity" /\ C!Next /\ UNCHANGED <<inst, vars>>

all == <<inst, vars, capacityVars>>
AnySpec == AnyInit /\ [][AnyNext]_all

\* The workers that register addresses side by side never ask a connection for more
\* subscriptions than it has.
SubscriptionsFit == C!SubscriptionBound
=============================================================================
