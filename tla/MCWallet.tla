-------------------------------- MODULE MCWallet -----------------------------
(***************************************************************************)
(* What the wallet shows and runs, on an instance of each: the desktop's   *)
(* open wallet, the phone's session, with changes of account and faults,   *)
(* and with several changes of the server, its display cache, and the      *)
(* desktop's window.                                                       *)
(***************************************************************************)
EXTENDS WalletLifecycle

CONSTANTS
    Accounts, Pages, MaxReads, MaxHeight, MaxMoves, MaxUser, MaxFaults,   \* of the phone
    Wallets, Contents, Oversized, CacheReads, CacheMoves,                 \* of its cache
    Interval, MaxTime, MaxChanges,                                        \* of the window
    Nothing

VARIABLES inst,   \* the component this behaviour is of
          chain, ver, moves, s,
          lb, reads, loading, idle, watch, native, events, user, faults, nChain, nVer, nMoves,
          nS, nLb, nReads, nLoading, nIdle, nWatch, nNative, nEvents, nUser, nFaults, server,
          wallet, projection, reading, verified, refused, pending, writing, job, dSaved, store,
          dReads, dMoves, dUser, version, priority, statePriority, shown, lastPublished, timer,
          wClosed, now

M == INSTANCE MobileSession WITH None <- Nothing
N == INSTANCE MobileSession WITH
    Accounts <- {"a1"}, MaxMoves <- 2, MaxFaults <- 0, None <- Nothing,
    chain <- nChain, ver <- nVer, moves <- nMoves, s <- nS,
    lb <- nLb, reads <- nReads, loading <- nLoading, idle <- nIdle, watch <- nWatch,
    native <- nNative, events <- nEvents, user <- nUser, faults <- nFaults
D == INSTANCE DisplayCache WITH
    MaxReads <- CacheReads, MaxMoves <- CacheMoves, None <- Nothing, saved <- dSaved,
    reads <- dReads, moves <- dMoves, user <- dUser
W == INSTANCE StatePublisher WITH None <- Nothing, closed <- wClosed

\* undefined is none of the values it stands for, and an interval has a length.
ASSUME DisplayConstants ==
    /\ Nothing \notin M!Data \cup M!Tips \cup M!Flushes \cup M!Reads \cup M!Calls
    /\ Nothing \notin D!Snapshot \cup D!Job \cup D!Marker
    /\ Nothing \notin W!Shown \cup Int
    /\ Interval \in Nat

phoneVars == <<chain, ver, moves, s, lb, reads, loading, idle, watch, native, events, user,
               faults>>
hintsVars == <<nChain, nVer, nMoves, nS, nLb, nReads, nLoading, nIdle, nWatch, nNative, nEvents,
               nUser, nFaults>>
cacheVars == <<server, wallet, projection, reading, verified, refused, pending, writing, job,
               dSaved, store, dReads, dMoves, dUser>>
windowVars == <<version, priority, statePriority, shown, lastPublished, timer, wClosed, now>>

AnyInit ==
    /\ inst \in {"life", "phone", "hints", "cache", "window"}
    /\ Init
    /\ M!Init
    /\ N!Init
    /\ D!Init
    /\ W!Init
    /\ inst # "life" => ~walletExists
    /\ inst # "cache" => server = [w \in Wallets |-> CHOOSE c \in Contents : TRUE]
                           /\ wallet = CHOOSE w \in Wallets : TRUE

AnyNext ==
    \/ inst = "life" /\ Next /\ UNCHANGED <<inst, phoneVars, hintsVars, cacheVars, windowVars>>
    \/ inst = "phone" /\ M!Next /\ UNCHANGED <<inst, vars, hintsVars, cacheVars, windowVars>>
    \/ inst = "hints" /\ N!Next /\ UNCHANGED <<inst, vars, phoneVars, cacheVars, windowVars>>
    \/ inst = "cache" /\ D!Next /\ UNCHANGED <<inst, vars, phoneVars, hintsVars, windowVars>>
    \/ inst = "window" /\ W!Next /\ UNCHANGED <<inst, vars, phoneVars, hintsVars, cacheVars>>

all == <<inst, vars, phoneVars, hintsVars, cacheVars, windowVars>>
AnySpec == AnyInit /\ [][AnyNext]_all

\* What is displayed is never of another account, of two moments, or older than what was asked
\* for: no late answer of the phone's reads restores another account, the pages of its history
\* are of one moment, no hint of a change is forgotten, its storage is what its marker says and
\* at rest what was verified, and the desktop's window is behind its wallet by an interval at
\* most.
ShownIsTrue ==
    /\ M!ShownIsOwn /\ M!HistoryIsOneMoment /\ M!HintIsPending
    /\ D!CacheIsTrue /\ W!NothingWithheld

\* At rest the phone shows what the server has; with several changes of the server, too, each
\* hint has led to the reads that it needs.
RestIsShown == M!RestIsTrue /\ N!RestIsTrue /\ N!HistoryIsOneMoment /\ N!HintIsPending
=============================================================================
