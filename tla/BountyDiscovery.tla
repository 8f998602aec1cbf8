--------------------------- MODULE BountyDiscovery ---------------------------
(***************************************************************************)
(* bounty-discovery.mjs: the wallet stages the bounties of the newest      *)
(* blocks from block streams, replays every page of the server's journal   *)
(* over them, and publishes blocks, cursor and window together; with the   *)
(* reset and retry handling of syncBounties() and applyChange(), and what  *)
(* a lost connection, a lock and resumeClaims() do to a discovery.         *)
(*                                                                         *)
(* The server is external: a chain of blocks (a block is <<height, fork>>) *)
(* with a fixed number of bounties each, a status per bounty, and a        *)
(* journal that a cursor (a position) is read from.  A reorganization or a *)
(* truncation revokes the cursors before it.  A server with deltas sends   *)
(* rows in its events and counts with its blocks; one without sends bare   *)
(* events, and the block is read again.  The wire forms of a page          *)
(* (compact 1 to 3) carry the same content and are not told apart.         *)
(***************************************************************************)
EXTENDS Naturals, Sequences, SequencesExt, FiniteSets, TLC

CONSTANTS
  Forks,         \* names of the blocks of one height
  Counts,        \* Counts[h]: the bounties of a block of height h
  Lookback,      \* newest blocks that are searched
  Deltas,        \* the server sends rows and counts
  PageSize,      \* events per page
  MaxPages,      \* pages per attempt (MAX_JOURNAL_PAGES)
  MaxRestarts,   \* attempts per discovery (4)
  MaxDelta,      \* blocks a page may add to the known window (5)
  MaxChanges,    \* bound: changes of the server
  MaxDrops,      \* bound: lost connections, locks and failed requests
  None

VARIABLES
  chain, status, journal, floor, changes,  \* the server
  notice,     \* a reset notice is on its way to the wallet
  run,        \* the running discovery, or None
  pub,        \* the published snapshot, or None
  cursor,     \* claimCursor
  anchor,     \* claimWindow, the hash anchor
  gate,       \* the claim catalog is closed
  engine,     \* the claims engine: "off", "paused" (enabled, suspended) or "on"
  link,       \* "locked", "offline" (unlocked, not connected) or "online"
  drops

server == <<chain, status, journal, floor, changes>>
catalog == <<pub, cursor, anchor, gate>>
life == <<engine, link, drops>>
vars == <<server, notice, run, catalog, life>>

Statuses == {"available", "pending_spend"}

Outpoints(b) == {<<b[1], b[2], i>> : i \in 1..Counts[b[1]]}
BlockOf(op) == <<op[1], op[2]>>
Newest(c) == {<<h, c[h]>> : h \in {x \in 1..Len(c) : x > Len(c) - Lookback}}
RowsOf(blocks) == UNION {Outpoints(b) : b \in blocks}
Keep(rows, ops) == [op \in DOMAIN rows \cap ops |-> rows[op]]

\* The wallet is open and its claims are about to be resumed.
Init ==
  /\ \E n \in 1..Lookback, f \in Forks : chain = [h \in 1..n |-> f]
  /\ status = [op \in RowsOf(Newest(chain)) |-> "available"]
  /\ journal = <<>> /\ floor = 0 /\ changes = 0 /\ notice = FALSE
  /\ run = None /\ pub = None /\ cursor = None /\ anchor = None /\ gate = FALSE
  /\ engine = "off" /\ link = "online" /\ drops = 0

-----------------------------------------------------------------------------
(* The server.                                                             *)

Event(op, st, c) == [op |-> op, status |-> st, tip |-> c]

ServerChanges(c, st, events) ==
  /\ changes < MaxChanges /\ changes' = changes + 1
  /\ chain' = c /\ status' = st
  /\ journal' = journal \o events
  /\ UNCHANGED <<run, catalog, life>>

NewBlock ==
  /\ Len(chain) < Len(Counts)
  /\ \E f \in Forks :
       LET c == Append(chain, f)
           ops == SetToSeq(Outpoints(<<Len(c), f>>))
       IN ServerChanges(c, [op \in ToSet(ops) |-> "available"] @@ status,
                        [i \in 1..Len(ops) |-> Event(ops[i], "available", c)])
  /\ UNCHANGED <<floor, notice>>

StatusChanges ==
  /\ \E op \in DOMAIN status : \E st \in Statuses \ {status[op]} :
       ServerChanges(chain, [status EXCEPT ![op] = st], <<Event(op, st, chain)>>)
  /\ UNCHANGED <<floor, notice>>

\* The tip block is replaced; earlier cursors are revoked and a notice is sent to a
\* connected wallet.
Reorganizes ==
  LET h == Len(chain) IN
  /\ h > 1
  /\ \E f \in Forks \ {chain[h]} :
       LET c == [chain EXCEPT ![h] = f] IN
       ServerChanges(c, [op \in Outpoints(<<h, f>>) |-> "available"]
                        @@ Keep(status, {op \in DOMAIN status : op[1] < h}),
                     <<Event(None, "resync", c)>>)
  /\ floor' = Len(journal) + 1
  /\ notice' = (link = "online")

Truncates ==
  /\ floor < Len(journal) /\ changes < MaxChanges
  /\ changes' = changes + 1
  /\ floor' = Len(journal)
  /\ UNCHANGED <<chain, status, journal, notice, run, catalog, life>>

-----------------------------------------------------------------------------
(* One discovery.  run.rows holds the rows of complete blocks (staged) and *)
(* of blocks that the journal has only partly delivered (candidates).      *)

Attempt(from, blocks, rows, window, restart) ==
  [phase |-> "page", live |-> TRUE, cursor |-> from, staged |-> blocks, rows |-> rows,
   window |-> window, dirty |-> {}, page |-> None, pages |-> 0, reads |-> TRUE,
   fence |-> None, restart |-> restart]

At(phase) == run # None /\ run.live /\ run.phase = phase

\* Mutant: a reset or a loss leaves the running discovery as it is.
Voided_Never == run

\* A discovery that check() will not let go on does nothing but end.
Voided == IF run = None THEN None ELSE [live |-> FALSE]

\* syncBounties: a cursor continues the published snapshot, without its hash anchor if
\* the connection was lost; no cursor starts from nothing behind the closed gate.
Begin ==
  /\ engine # "off" /\ run = None
  /\ \/ engine = "paused" \/ gate \/ cursor = None
     \/ cursor # Len(journal) \/ anchor # chain
  /\ run' = IF cursor = None THEN Attempt(None, {}, <<>>, None, 1)
            ELSE Attempt(cursor, Newest(pub.window), pub.rows, anchor, 1)
  /\ gate' = (gate \/ cursor = None)
  /\ UNCHANGED <<server, notice, pub, cursor, anchor, life>>

\* A reset error: the catalog closes and the attempt starts over without cursor,
\* rows or counts; the last attempt ends as BountyDiscoveryBusy.
Restarted ==
  /\ gate' = TRUE
  /\ IF run.restart < MaxRestarts
     THEN /\ run' = Attempt(None, {}, <<>>, None, run.restart + 1)
          /\ UNCHANGED cursor
     ELSE run' = None /\ cursor' = None
  /\ UNCHANGED <<server, notice, pub, anchor, life>>

Revoked(from) == from # None /\ from < floor

\* The answer to getbountychanges: events after the cursor, the tip they end
\* at, and whether the tip reaches the caller with the blocks in between.
PageFrom(from, window) ==
  LET first == IF from = None THEN Len(journal) ELSE from
      last == IF first + PageSize < Len(journal) THEN first + PageSize ELSE Len(journal)
  IN [events |-> SubSeq(journal, first + 1, last), next |-> last, tip |-> chain,
      more |-> last < Len(journal),
      inline |-> /\ Deltas /\ window # None
                 /\ IsPrefix(window, chain) /\ Len(chain) - Len(window) <= MaxDelta]

Changes ==
  /\ At("page")
  /\ IF run.pages >= MaxPages \/ Revoked(run.cursor) THEN Restarted
     ELSE LET page == PageFrom(run.cursor, run.window) IN
          /\ run' = [run EXCEPT !.phase = "window", !.page = page, !.cursor = page.next,
                       !.pages = @ + 1, !.reads = FALSE,
                       !.fence = [window |-> chain, status |-> status]]
          /\ UNCHANGED <<server, notice, catalog, life>>

\* readWindow for window c: blocks that left it are dropped, and a block whose
\* count is zero needs no stream.
Windowed(r, c) ==
  LET wanted == Newest(c) IN
  [r EXCEPT !.window = c, !.rows = Keep(@, RowsOf(wanted)), !.dirty = @ \cap wanted,
            !.staged = (@ \cap wanted) \cup
                       (IF Deltas THEN {b \in wanted : Counts[b[1]] = 0} ELSE {})]

ReadWindow ==
  /\ At("window")
  /\ run' = [(IF run.window = run.page.tip THEN run
              ELSE IF run.window # None /\ run.page.inline THEN Windowed(run, run.page.tip)
              ELSE [Windowed(run, chain) EXCEPT !.reads = TRUE]) EXCEPT !.phase = "apply"]
  /\ UNCHANGED <<server, notice, catalog, life>>

Canonical(c, h, f) == h <= Len(c) /\ c[h] = f

Rescan(r, e) ==
  \/ ~Canonical(r.window, Len(e.tip), Last(e.tip))
  \/ ~Canonical(r.window, e.op[1], e.op[2])

\* One event: with deltas its row goes into its block, else the block is read again.
Patched(r, e) ==
  LET b == BlockOf(e.op) IN
  IF b \notin Newest(r.window) THEN r
  ELSE IF ~Deltas THEN [r EXCEPT !.dirty = @ \cup {b}]
  ELSE [r EXCEPT !.rows = (e.op :> e.status) @@ @]

Apply ==
  /\ At("apply")
  /\ IF Deltas /\ \E i \in 1..Len(run.page.events) : Rescan(run, run.page.events[i])
     THEN Restarted
     ELSE /\ run' = [FoldLeft(Patched, run, run.page.events) EXCEPT
                       !.phase = IF run.page.more THEN "page" ELSE "decide"]
          /\ UNCHANGED <<server, notice, catalog, life>>

\* A block that the journal delivered completely needs no stream.
Complete(r) ==
  {b \in Newest(r.window) :
     \/ b \in r.staged
     \/ Deltas /\ Outpoints(b) \subseteq DOMAIN r.rows}

Unread(r) == (Newest(r.window) \ Complete(r)) \cup r.dirty

\* loadDirty: the missing blocks, the oldest first; up to four at a time, each
\* a complete stream of its own.
LoadBlock ==
  /\ At("load") /\ Unread(run) # {}
  /\ \E b \in Unread(run) :
       /\ \A x \in Unread(run) : b[1] <= x[1]
       /\ IF ~Canonical(chain, b[1], b[2]) THEN Restarted
          ELSE /\ run' = [run EXCEPT !.staged = @ \cup {b}, !.dirty = @ \ {b}, !.reads = TRUE,
                            !.rows = Keep(status, Outpoints(b)) @@ @]
               /\ UNCHANGED <<server, notice, catalog, life>>

Loaded ==
  /\ At("load") /\ Unread(run) = {}
  /\ run' = [run EXCEPT !.staged = Complete(run),
                        !.phase = IF run.reads THEN "page" ELSE "decide"]
  /\ UNCHANGED <<server, notice, catalog, life>>

\* Only a page that was answered after every other read closes the snapshot.
Settled(r) == r.dirty = {} /\ ~r.reads /\ Newest(r.window) \subseteq r.staged

Decide ==
  /\ At("decide")
  /\ IF ~Settled(run)
     THEN /\ run' = [run EXCEPT !.phase = "load"]
          /\ UNCHANGED <<server, notice, catalog, life>>
     ELSE IF run.window # run.page.tip THEN Restarted
     ELSE /\ pub' = [window |-> run.window, rows |-> run.rows, fence |-> run.fence]
          /\ cursor' = run.cursor /\ anchor' = run.window
          /\ gate' = FALSE /\ engine' = "on"
          /\ run' = None
          /\ UNCHANGED <<server, notice, link, drops>>

\* A request fails for a passing reason.  Behind the closed gate the event queue repeats
\* the discovery; otherwise the engine stops, to be resumed.
RequestFails ==
  /\ run # None /\ run.live /\ drops < MaxDrops /\ drops' = drops + 1
  /\ run' = None
  /\ engine' = IF gate THEN engine ELSE "off"
  /\ UNCHANGED <<server, notice, catalog, link>>

\* Mutant: a cancelled discovery stays in bountySync.
Stopped_Kept == run # None /\ ~run.live /\ UNCHANGED vars

\* The next check() of a void discovery ends it.
Stopped ==
  /\ run # None /\ ~run.live
  /\ run' = None
  /\ UNCHANGED <<server, notice, catalog, life>>

-----------------------------------------------------------------------------
(* What voids a discovery, and what starts the next one.                   *)

\* A reset notice voids the running discovery and its cursor; work that is already
\* admitted goes on behind the closed gate.
ResetNotice ==
  /\ notice /\ notice' = FALSE
  /\ run' = Voided /\ cursor' = None /\ gate' = TRUE
  /\ UNCHANGED <<server, pub, anchor, life>>

Drops(to) ==
  /\ drops < MaxDrops /\ drops' = drops + 1
  /\ link' = to /\ engine' = "off" /\ gate' = FALSE /\ anchor' = None
  /\ run' = Voided /\ notice' = FALSE
  /\ UNCHANGED server

\* The connection is lost: blocks and cursor stay, the hash anchor does not.
Disconnected == link = "online" /\ Drops("offline") /\ UNCHANGED <<pub, cursor>>

Lock == link # "locked" /\ Drops("locked") /\ pub' = None /\ cursor' = None

Unlock ==
  /\ link = "locked" /\ link' = "offline"
  /\ UNCHANGED <<server, notice, run, catalog, engine, drops>>

Connects ==
  /\ link = "offline" /\ link' = "online"
  /\ UNCHANGED <<server, notice, run, catalog, engine, drops>>

\* resumeClaims: only when the former discovery has ended, and suspended until the next
\* one publishes.
ResumeClaims ==
  /\ engine = "off" /\ link = "online" /\ run = None
  /\ engine' = "paused"
  /\ UNCHANGED <<server, notice, run, catalog, link, drops>>

-----------------------------------------------------------------------------
Discovery ==
  Begin \/ Changes \/ ReadWindow \/ Apply \/ LoadBlock \/ Loaded \/ Decide

\* What the wallet does on its own.
Proceeds == Discovery \/ Stopped \/ Connects \/ ResumeClaims

Next ==
  \/ NewBlock \/ StatusChanges \/ Reorganizes \/ Truncates
  \/ Proceeds \/ ResetNotice
  \/ RequestFails \/ Disconnected \/ Lock \/ Unlock

Spec == Init /\ [][Next]_vars

\* The event queue repeats a discovery until one succeeds, the client reconnects; nobody
\* has to unlock the wallet.
FairSpec == Spec /\ WF_vars(Proceeds) /\ WF_vars(ResetNotice)

-----------------------------------------------------------------------------
\* What is published is exactly what the server had when it answered the page
\* whose cursor is published: no row of a displaced block, no change that
\* happened during a transfer lost or undone, no block missing.
PublishedIsExact ==
  pub # None =>
    /\ pub.window = pub.fence.window
    /\ pub.rows = Keep(pub.fence.status, RowsOf(Newest(pub.window)))

\* Bounties are attempted only in an open and connected session and on a snapshot of the
\* server's chain, unless a reset notice is still on its way: a rebuild keeps the catalog
\* closed from its first step to its commit, and a discovery that a reset, a lost
\* connection or a lock made void never commits.
OpenIsCurrent ==
  engine = "on" /\ ~gate =>
    /\ link = "online" /\ pub # None /\ cursor # None /\ anchor = pub.window
    /\ notice \/ IsPrefix(pub.window, chain)
    /\ run # None /\ run.live => run.cursor # None /\ run.restart = 1

\* When the server comes to rest and the wallet stays unlocked, its catalog catches up
\* and opens, whatever was lost before.
CatchesUp ==
  <>[](link # "locked") =>
    <>[](/\ engine = "on" /\ ~gate /\ pub # None /\ pub.window = chain
         /\ pub.rows = Keep(status, RowsOf(Newest(chain))))
=============================================================================
