------------------------------- MODULE MCNetLive -----------------------------
(***************************************************************************)
(* What must eventually happen on the network side: every call of the      *)
(* client settles, the wallet's view converges to the server's, and the    *)
(* processes the wallet starts end.                                        *)
(***************************************************************************)
EXTENDS RpcClient

VARIABLES inst,   \* the component this behaviour is of
          calls, hOutcome, child, said, attempts, failure, clean, killed, hAborted, late,
          tokens, active, accounts, ver, subscribed, pushes, up, faults, drops, work, stale,
          requested, retryTimer, baseReady, registrations, todo, asked, served, registered,
          verdict, addressCapability, addressCapacity, addressBatch, addressPending,
          addressCatchup, addressTimer, dirty, timer, step, unread, bumped, chainMoved, rphase,
          raccounts, rtodo, rread, attempt, syncKey, syncPending, addressChangesSupported, shown

H == INSTANCE LocalHelpers WITH
    Probes <- {"p1", "p2"}, Proofs <- {"f1"}, Signings <- {"s1"},
    Together <- {{"p1", "p2"}, {"f1"}, {"s1"}}, MaxProcesses <- 1, MaxAttempts <- 2,
    outcome <- hOutcome, aborted <- hAborted
Y == INSTANCE WalletSync WITH
    Addresses <- {"a1"}, Journal <- FALSE, FlushEvery <- 2, MaxWatched <- 100, MaxVer <- 1,
    MaxFaults <- 1, MaxDrops <- 1

helpersVars == <<calls, hOutcome, child, said, attempts, failure, clean, killed, hAborted, late,
                 tokens>>
syncVars == <<active, accounts, ver, subscribed, pushes, up, faults, drops, work, stale,
              requested, retryTimer, baseReady, registrations, todo, asked, served, registered,
              verdict, addressCapability, addressCapacity, addressBatch, addressPending,
              addressCatchup, addressTimer, dirty, timer, step, unread, bumped, chainMoved,
              rphase, raccounts, rtodo, rread, attempt, syncKey, syncPending,
              addressChangesSupported, shown>>

AnyInit ==
    /\ inst \in {"rpc", "helpers", "sync"}
    /\ Init
    /\ H!Init
    /\ Y!Init
    /\ inst # "helpers" => calls = {"s1"}

AnyNext ==
    \/ inst = "rpc" /\ Next /\ UNCHANGED <<inst, helpersVars, syncVars>>
    \/ inst = "helpers" /\ H!Next /\ UNCHANGED <<inst, vars, syncVars>>
    \/ inst = "sync" /\ Y!Next /\ UNCHANGED <<inst, vars, helpersVars>>

all == <<inst, vars, helpersVars, syncVars>>
AnySpec == AnyInit /\ [][AnyNext]_all

PairRequests == {"send1", "stream1"}
PairMethodOf == [send1 |-> "send", stream1 |-> "stream"]
OnePerWindow == [m \in Methods |-> 1]

CallFairness ==
    /\ \A r \in Requests : WF_vars(inst = "rpc" /\ Continue(r)) /\ WF_vars(inst = "rpc" /\ RequestTimeout(r))
    /\ \A s \in Sockets :
         /\ WF_vars(inst = "rpc" /\ SocketClosed(s))
         /\ WF_vars(inst = "rpc" /\ sstate[s] = "connecting" /\ (SocketConnected(s) \/ SocketDropped(s)))
    /\ WF_vars(inst = "rpc" /\ Tick)

SyncFairness ==
    /\ WF_syncVars(inst = "sync" /\ Y!Connected)
    /\ WF_syncVars(inst = "sync" /\ Y!EnsureConnected)
    /\ WF_syncVars(inst = "sync" /\ Y!BaseSubscribed)
    /\ WF_syncVars(inst = "sync" /\ Y!RegisterEnds) /\ WF_syncVars(inst = "sync" /\ Y!StaleEnds)
    /\ WF_syncVars(inst = "sync" /\ Y!AddressTimerFires)
    /\ WF_syncVars(inst = "sync" /\ Y!RetryTimerFires)
    /\ WF_syncVars(inst = "sync" /\ Y!ReadBegins) /\ WF_syncVars(inst = "sync" /\ Y!Replay)
    /\ WF_syncVars(inst = "sync" /\ Y!Publish) /\ WF_syncVars(inst = "sync" /\ Y!UpdateTimerFires)
    /\ WF_syncVars(inst = "sync" /\ Y!RunAwaits) /\ WF_syncVars(inst = "sync" /\ Y!RunDecides)
    /\ WF_syncVars(inst = "sync" /\ Y!RunEnds) /\ WF_syncVars(inst = "sync" /\ Y!Subscribe("a1"))
    /\ WF_syncVars(inst = "sync" /\ Y!ServerSubscribes("a1"))
    /\ WF_syncVars(inst = "sync" /\ Y!Install("a1"))
    /\ WF_syncVars(inst = "sync" /\ Y!WatchAddress("a1"))
    /\ WF_syncVars(inst = "sync" /\ Y!WatchFails("a1"))
    /\ WF_syncVars(inst = "sync" /\ Y!ReadAddress("a1"))
    /\ WF_syncVars(inst = "sync" /\ \E p \in pushes : Y!Notify(p))
    /\ WF_syncVars(inst = "sync" /\ \E result \in {"abort", "error"} : Y!RefreshVoided(result))

HelperFairness ==
    \A c \in {"p1", "p2", "f1", "s1"} : WF_helpersVars(inst = "helpers" /\ c \in calls /\ H!Handled(c) /\ UNCHANGED calls)

LiveSpec == AnySpec /\ CallFairness /\ SyncFairness /\ HelperFairness

\* With a server that only serves pages, over a connection that is lost: at rest the wallet shows
\* what the server has, and after the last fault it catches up for good.
WalletConverges == [](inst = "sync" => Y!QuietIsFresh) /\ (inst = "sync" => Y!Converges)

\* A helper answers, and truthfully: a yes is earned, no more probes are alive than MAX_PROCESSES,
\* however slowly a killed one ends, no caller waits for ever for a probe, a proof or a signature,
\* and no process is abandoned.
HelpersAnswer ==
    /\ [](inst = "helpers" => H!ProbesAreBounded)
    /\ [][\A c \in {"p1", "p2", "f1", "s1"} : H!YesIsEarned(c)]_helpersVars
    /\ H!HelpersEnd
=============================================================================
