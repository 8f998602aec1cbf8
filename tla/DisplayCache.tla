---------------------------- MODULE DisplayCache ----------------------------
(***************************************************************************)
(* The display cache of the phone's HD wallet (mobile/src/hd-session.mjs   *)
(* and hd-display-cache.mjs): every verified read queues its snapshot, one *)
(* writer at a time brings the newest one to the native storage, and a     *)
(* marker of what was saved last spares writes of the same content.  The   *)
(* storage may be slow, may refuse, and may store and still refuse.        *)
(*                                                                         *)
(* A job carries cur and ctx: whether the generation and the cache context *)
(* of its making are still the session's.  The heartbeat of the marker is  *)
(* a choice at each comparison, since any time may have passed.            *)
(***************************************************************************)
EXTENDS Integers

CONSTANTS
    Wallets,      \* wallets the phone may show
    Contents,     \* what a wallet may have at the server
    Oversized,    \* contents the cache has no room for
    MaxReads,     \* bound: verified reads
    MaxMoves,     \* bound: changes at the server
    MaxUser,      \* bound: changes of context, pages, restarts
    None

VARIABLES
    server,       \* the content of each wallet
    wallet,       \* the wallet shown
    projection,   \* the last snapshot: its content and its identity
    reading,      \* a refresh is under way
    verified,     \* the content read last, while no other read or page follows it
    refused,      \* its write was refused
    pending,      \* cachePending
    writing,      \* cacheWriting: "idle", "loop" between two jobs, "write" in one
    job,          \* the job being written
    saved,        \* cacheSaved
    store,        \* the native storage
    reads, moves, user

\* The records of the variables.
Snapshot == [of : Contents, id : Int]
Job      == [snap : Snapshot, wallet : Wallets, cur : BOOLEAN, ctx : BOOLEAN]
Marker   == [snap : Snapshot, of : Contents]

counts == <<reads, moves, user>>
view == <<wallet, projection, reading, verified, refused>>
cache == <<pending, writing, job, saved, store>>
vars == <<server, wallet, projection, reading, verified, refused, pending, writing, job, saved,
          store, reads, moves, user>>

Init ==
    /\ server \in [Wallets -> Contents] /\ wallet \in Wallets
    /\ projection = None /\ reading = FALSE /\ verified = None /\ refused = FALSE
    /\ pending = None /\ writing = "idle" /\ job = None /\ saved = None
    /\ store = [w \in Wallets |-> None]
    /\ reads = 0 /\ moves = 0 /\ user = 0

ServerMoves ==
    /\ moves < MaxMoves /\ moves' = moves + 1
    /\ \E c \in Contents : server' = [server EXCEPT ![wallet] = c]
    /\ UNCHANGED <<view, cache, reads, user>>

----------------------------------------------------------------------------
(* The session *)

\* A new generation: what was queued before it is not current any more.
Superseded(j) == IF j = None THEN None ELSE [j EXCEPT !.cur = FALSE]

ReadBegins ==
    /\ ~reading /\ reads < MaxReads
    /\ reading' = TRUE /\ verified' = None /\ pending' = Superseded(pending)
    /\ UNCHANGED <<server, wallet, projection, refused, writing, job, saved, store, counts>>

\* More rows of the history: a generation of its own.
ShowMore ==
    /\ ~reading /\ user < MaxUser /\ user' = user + 1
    /\ verified' = None /\ pending' = Superseded(pending)
    /\ UNCHANGED <<server, wallet, projection, reading, refused, writing, job, saved, store, reads, moves>>

ReadFails ==
    /\ reading /\ reading' = FALSE
    /\ UNCHANGED <<server, wallet, projection, verified, refused, cache, counts>>

\* project: the last snapshot stands while no row of it was replaced.
Projections(c) ==
    {[of |-> c, id |-> reads + 1]}
    \cup (IF projection # None /\ projection.of = c THEN {projection} ELSE {})

\* The end of refresh, queueDisplayCache and flushDisplayCache.
ReadCommits ==
    /\ reading /\ reading' = FALSE /\ reads' = reads + 1
    /\ \E snapshot \in Projections(server[wallet]) :
         /\ projection' = snapshot
         /\ pending' = [snap |-> snapshot, wallet |-> wallet, cur |-> TRUE, ctx |-> TRUE]
    /\ verified' = server[wallet] /\ refused' = FALSE
    /\ writing' = IF writing = "idle" THEN "loop" ELSE writing
    /\ UNCHANGED <<server, wallet, job, saved, store, moves, user>>

\* invalidate: another server, account set or wallet.  A read under way ends without effect; a
\* write that began is not cancelled.
Invalidates ==
    /\ user < MaxUser /\ user' = user + 1
    /\ wallet' \in Wallets
    /\ projection' = None /\ reading' = FALSE /\ verified' = None /\ refused' = FALSE
    /\ pending' = None /\ saved' = None
    /\ job' = IF job = None THEN None ELSE [job EXCEPT !.ctx = FALSE, !.cur = FALSE]
    /\ UNCHANGED <<server, writing, store, reads, moves>>

----------------------------------------------------------------------------
(* flushDisplayCache *)

\* createDisplayCache
Cacheable(c) == c \notin Oversized

\* A job that was superseded is dropped, and content that was saved already is not saved again.
\* The marker follows the snapshot it stands for.
JobSkipped ==
    /\ writing = "loop" /\ pending # None /\ pending' = None
    /\ \/ (~pending.ctx \/ ~pending.cur \/ ~Cacheable(pending.snap.of)) /\ saved' = saved
       \/ /\ pending.ctx /\ pending.cur
          /\ saved # None /\ saved.snap = pending.snap /\ saved' = saved
       \/ /\ pending.ctx /\ pending.cur /\ Cacheable(pending.snap.of)
          /\ saved # None /\ saved.of = pending.snap.of
          /\ saved' = [saved EXCEPT !.snap = pending.snap]
    /\ UNCHANGED <<server, view, writing, job, store, counts>>

\* The write of content that is new, or whose marker is older than the heartbeat.
WriteBegins ==
    /\ writing = "loop" /\ pending # None /\ pending' = None
    /\ pending.ctx /\ pending.cur /\ Cacheable(pending.snap.of)
    /\ writing' = "write" /\ job' = pending
    /\ UNCHANGED <<server, view, saved, store, counts>>

Stored == [store EXCEPT ![job.wallet] = job.snap.of]

WriteAcknowledged ==
    /\ writing = "write" /\ writing' = "loop" /\ job' = None
    /\ store' = Stored
    /\ saved' = IF job.ctx THEN [snap |-> job.snap, of |-> job.snap.of] ELSE saved
    /\ UNCHANGED <<server, view, pending, counts>>

\* The marker after a refusal: what the storage holds is not known.
Forgets(j, m) == IF j.ctx THEN None ELSE m

\* Faulty variant: the last success still counts.
Forgets_Never(j, m) == m

WriteRefused ==
    /\ writing = "write" /\ writing' = "loop" /\ job' = None
    /\ store' \in {store, Stored}
    /\ saved' = Forgets(job, saved)
    /\ refused' = (refused \/ (job.ctx /\ pending = None))
    /\ UNCHANGED <<server, wallet, projection, reading, verified, pending, counts>>

\* The loop has drained and its promise settles.
WriterRests ==
    /\ writing = "loop" /\ pending = None /\ writing' = "idle"
    /\ UNCHANGED <<server, view, pending, job, saved, store, counts>>

\* The process is killed; a write it began may have reached the storage.
Restart ==
    /\ user < MaxUser /\ user' = user + 1
    /\ store' \in IF writing = "write" THEN {store, Stored} ELSE {store}
    /\ projection' = None /\ reading' = FALSE /\ verified' = None /\ refused' = FALSE
    /\ pending' = None /\ writing' = "idle" /\ job' = None /\ saved' = None
    /\ UNCHANGED <<server, wallet, reads, moves>>

Next ==
    \/ ServerMoves \/ ReadBegins \/ ShowMore \/ ReadFails \/ ReadCommits \/ Invalidates
    \/ JobSkipped \/ WriteBegins \/ WriteAcknowledged \/ WriteRefused \/ WriterRests \/ Restart

Spec == Init /\ [][Next]_vars

----------------------------------------------------------------------------
\* The marker never claims what the storage does not hold, whatever earlier wallets' writes do.
MarkerIsHonest == saved # None /\ writing # "write" => store[wallet] = saved.of

\* No snapshot is left behind by a writer that has ended.
NoneStranded == pending # None => writing # "idle"

\* At rest the storage holds the last verified read, unless it refused it or has no room for it.
RestIsStored ==
    (writing = "idle" /\ verified # None /\ ~refused /\ Cacheable(verified)) => store[wallet] = verified

CacheIsTrue == MarkerIsHonest /\ NoneStranded /\ RestIsStored
=============================================================================
