----------------------------- MODULE HdJournal -----------------------------
(***************************************************************************)
(* The mobile HD wallet's refresh (mobile/src/hd-session.mjs) over the     *)
(* address journal (mobile/src/hd-sync.mjs).  The wallet's addresses are   *)
(* read in groups; no read is atomic with another, and payments move coins *)
(* between groups all the while.  A checkpoint of every group is taken     *)
(* before its addresses are read; the journal is then replayed, group by   *)
(* group and page by page, until all groups stand at one sequence.         *)
(* Addresses that are ready are published early, from a private replay.    *)
(*                                                                         *)
(* A row is the fact that a coin is held by an address: a payment removes  *)
(* it at one address and inserts it at another, two journal events.        *)
(***************************************************************************)
EXTENDS Integers, Sequences, FiniteSets, FiniteSetsExt, SequencesExt

CONSTANTS Groups,     \* the cursor-bound groups: a sequence of sets of addresses
          NCoins,     \* coins, read page by page in the order 1..NCoins
          Out,        \* an address of somebody else
          PageSize,   \* journal events per page
          Rounds,     \* rounds of updateAddressSync before it gives up
          MaxMoves, MaxBlocks, MaxResets, MaxFaults,
          None

Coins == 1..NCoins
Addr == UNION {Groups[g] : g \in DOMAIN Groups}
Group(a) == CHOOSE g \in DOMAIN Groups : a \in Groups[g]

VARIABLES
    hist,      \* the server: who holds each coin after 0, 1, 2... payments of this epoch
    epoch,     \* its journal epoch
    tip,       \* its chain tip
    known,     \* the groups 1..known are the wallet's accounts
    seeds,     \* groups whose recovery snapshot the native layer still offers
    consumed,  \* recoveryConsumed
    run,       \* the refresh in progress
    cand,      \* its baseline: checkpoints, rows, pages read
    part,      \* previousPartial and previouslyReady
    replay,    \* the updateAddressSync in progress
    journal,   \* the cached journal
    shown,     \* what the session displays
    faults,    \* invalidations and failed requests so far
    renewed    \* history: a refresh began since the last invalidation

server == <<hist, epoch, tip>>
work == <<run, cand, part, replay>>
vars == <<hist, epoch, tip, known, seeds, consumed, run, cand, part, replay, journal, shown, faults, renewed>>

Accounts == UNION {Groups[g] : g \in 1..known}

----------------------------------------------------------------------------
(* The server.                                                             *)

Now == 2 * (Len(hist) - 1)
\* The rows of an address when n events of this epoch have happened.
HeldAt(a, n) == {c \in Coins : hist[(n \div 2) + 1][c] = a}

\* Event k of the journal: odd, a coin leaves; even, it arrives.
Event(k) ==
    LET t == (k + 1) \div 2
        c == CHOOSE x \in Coins : hist[t][x] # hist[t + 1][x]
    IN  [seq |-> k, coin |-> c, upsert |-> k % 2 = 0,
         addr |-> IF k % 2 = 0 THEN hist[t + 1][c] ELSE hist[t][c]]

Events(g, from, through) ==
    SelectSeq([i \in 1..(through - from) |-> Event(from + i)], LAMBDA e : e.addr \in Groups[g])

\* A payment moves a coin.
Move(c, to) ==
    /\ Len(hist) <= MaxMoves
    /\ Last(hist)[c] # to
    /\ hist' = Append(hist, [Last(hist) EXCEPT ![c] = to])
    /\ UNCHANGED <<epoch, tip, known, seeds, consumed, work, journal, shown, faults, renewed>>

Block ==
    /\ tip < MaxBlocks
    /\ tip' = tip + 1
    /\ UNCHANGED <<hist, epoch, known, seeds, consumed, work, journal, shown, faults, renewed>>

\* A reorganization starts a new epoch of the journal.
Reset(loc) ==
    /\ epoch < MaxResets
    /\ epoch' = epoch + 1 /\ hist' = <<loc>>
    /\ UNCHANGED <<tip, known, seeds, consumed, work, journal, shown, faults, renewed>>

----------------------------------------------------------------------------
(* Updating a set of groups from the journal.                              *)

Checkpoint == [cursor |-> Now, through |-> Now, epoch |-> epoch, tip |-> tip]

Begin(b, rows, first, sel) ==
    [b |-> b, rows |-> rows, todo |-> first, round |-> 1, frozen |-> None, sel |-> sel]

Behind_TipOnly(b, last) == {g \in DOMAIN b : b[g].tip # b[last].tip}
\* Every group whose state is not the one the last group was read at.
Behind(b, last) ==
    {g \in DOMAIN b : \/ b[g].tip # b[last].tip
                      \/ b[g].through # b[last].through
                      \/ b[g].epoch # b[last].epoch}

Ordered(S) == SetToSortSeq(S, <)

Applied_KeepsRows(rows, page) ==
    [a \in DOMAIN rows |-> rows[a] \cup {page[i].coin : i \in {j \in DOMAIN page : page[j].addr = a /\ page[j].upsert}}]
\* The rows after the events of a page.
Applied(rows, page) ==
    [a \in DOMAIN rows |->
        {c \in Coins :
            LET mine == {i \in DOMAIN page : page[i].addr = a /\ page[i].coin = c}
            IN  IF mine = {} THEN c \in rows[a] ELSE page[Max(mine)].upsert}]

\* One page of the group at hand. The cursor freezes the sequence and the tip
\* of the first page; a server may instead answer a later page afresh.
PageAnswer(w, afresh) ==
    LET g == Head(w.todo)
        at == w.b[g]
        f == IF w.frozen = None THEN [through |-> Now, tip |-> tip] ELSE w.frozen
        new == Events(g, at.cursor, f.through)
        page == SubSeq(new, 1, Min({PageSize, Len(new)}))
        more == Len(new) > PageSize
        end == [at EXCEPT !.cursor = IF more THEN Last(page).seq ELSE f.through,
                          !.through = IF more THEN @ ELSE f.through,
                          !.tip = IF more THEN @ ELSE f.tip]
        b == [w.b EXCEPT ![g] = end]
        left == IF more THEN w.todo ELSE Tail(w.todo)
        behind == IF left = <<>> THEN Behind(b, g) ELSE {}
        next == [w EXCEPT !.b = b, !.rows = Applied(@, page), !.frozen = IF more THEN f ELSE None,
                          !.todo = IF left # <<>> THEN left ELSE Ordered(behind),
                          !.round = IF left # <<>> THEN @ ELSE @ + 1]
    IN  CASE at.epoch # epoch -> [end |-> "stale"]
          [] at.epoch = epoch /\ afresh /\ w.frozen # None /\ f # [through |-> Now, tip |-> tip] -> [end |-> "stale"]
          [] OTHER -> [end |-> IF next.todo = <<>> THEN "done"
                               ELSE IF next.round > Rounds THEN "busy" ELSE "more", w |-> next]

----------------------------------------------------------------------------
(* What the session displays.                                              *)

\* hdSnapshot over the selected accounts, published as a partial or complete view.
Publish(w, partial) ==
    LET some == CHOOSE g \in DOMAIN w.b : TRUE
    IN  shown' = [rows |-> [a \in w.sel |-> w.rows[a]], verified |-> w.sel,
                  funding |-> {a \in w.sel : w.rows[a] # {}}, partial |-> partial, stale |-> FALSE,
                  through |-> w.b[some].through, epoch |-> w.b[some].epoch]

NothingShown == [rows |-> <<>>, verified |-> {}, funding |-> {}, partial |-> FALSE,
                 stale |-> FALSE, through |-> 0, epoch |-> 0]

Stale(s) == [s EXCEPT !.stale = TRUE]
\* discardPartial: a partial view that will be replaced funds nothing.
Discarded(s) == IF s.partial THEN [s EXCEPT !.stale = TRUE, !.verified = {}, !.funding = {}] ELSE s

Idle ==
    /\ run' = None /\ cand' = None /\ part' = None /\ replay' = None

Baseline_FreshCursor(reuse) ==
    LET used == IF reuse THEN {g \in 1..known : seeds[g] # None} ELSE {}
    IN  /\ run' = [phase |-> "checkpoints", live |-> TRUE, used |-> used, full |-> FALSE]
        /\ cand' = [b |-> [g \in used |-> Checkpoint], rows |-> [a \in Accounts |-> {}],
                    scan |-> [a \in Accounts |-> 0], got |-> [a \in Accounts |-> {}], ready |-> {}]
        /\ part' = None /\ replay' = None
\* baseline(): the recovery snapshots that may be reused, then the checkpoints.
Baseline(reuse) ==
    LET used == IF reuse THEN {g \in 1..known : seeds[g] # None} ELSE {}
    IN  /\ run' = [phase |-> "checkpoints", live |-> TRUE, used |-> used, full |-> FALSE]
        /\ cand' = [b |-> [g \in used |-> seeds[g].at], rows |-> [a \in Accounts |-> {}],
                    scan |-> [a \in Accounts |-> 0], got |-> [a \in Accounts |-> {}], ready |-> {}]
        /\ part' = None /\ replay' = None

\* The refresh ends in an error: a cursor that expired voids the journal.
Fails(stale) ==
    /\ shown' = Stale(shown)
    /\ journal' = IF stale THEN None ELSE journal
    /\ Idle

Retained_AnyGroup == IF part = None THEN {} ELSE DOMAIN part.b
\* The groups of the published partial whose addresses were all ready then.
Retained ==
    IF part = None THEN {} ELSE {g \in DOMAIN part.b : Groups[g] \subseteq part.sel}

----------------------------------------------------------------------------
(* The refresh.                                                            *)

Init ==
    /\ \E loc \in [Coins -> Addr \cup {Out}], used \in SUBSET DOMAIN Groups :
          /\ hist = <<loc>>
          /\ seeds = [g \in DOMAIN Groups |->
                        IF g \in used
                        THEN [at |-> [cursor |-> 0, through |-> 0, epoch |-> 0, tip |-> 0],
                              empty |-> {a \in Groups[g] : \A c \in Coins : loc[c] # a}]
                        ELSE None]
    /\ epoch = 0 /\ tip = 0
    /\ known \in 1..Len(Groups)
    /\ consumed = FALSE
    /\ run = None /\ cand = None /\ part = None /\ replay = None /\ journal = None
    /\ shown = NothingShown
    /\ faults = 0 /\ renewed = FALSE

Refresh ==
    /\ run = None
    /\ IF journal = None
       THEN Baseline(~consumed)
       ELSE /\ run' = [phase |-> "changes", live |-> TRUE, used |-> {}, full |-> TRUE]
            /\ replay' = Begin(journal.b, journal.rows, Ordered(DOMAIN journal.b), Accounts)
            /\ UNCHANGED <<cand, part>>
    /\ renewed' = TRUE
    /\ UNCHANGED <<server, known, seeds, consumed, journal, shown, faults>>

\* check(): the generation, the accounts and the connection the refresh began with.
Current == run # None /\ run.live

Live(phase) == Current /\ run.phase = phase

TakeCheckpoint(g) ==
    /\ Live("checkpoints")
    /\ g \in 1..known \ DOMAIN cand.b
    /\ \A h \in 1..(g - 1) : h \in DOMAIN cand.b
    /\ cand' = [cand EXCEPT !.b = [h \in DOMAIN @ \cup {g} |-> IF h = g THEN Checkpoint ELSE @[h]]]
    /\ UNCHANGED <<server, known, seeds, consumed, run, part, replay, journal, shown, faults, renewed>>

Snapshot ==
    /\ Live("checkpoints") /\ DOMAIN cand.b = 1..known
    /\ run' = [run EXCEPT !.phase = "snapshot"]
    /\ UNCHANGED <<server, known, seeds, consumed, cand, part, replay, journal, shown, faults, renewed>>

\* publishReady starts unless a publisher is at work or nothing is left to wait for.
MaybePublish(ready) ==
    part' = IF ready = Accounts \/ (part # None /\ part.on) THEN part
            ELSE IF part = None THEN [on |-> TRUE, b |-> <<>>, rows |-> <<>>, sel |-> {}]
            ELSE [part EXCEPT !.on = TRUE]

SetBaseline(a, held) ==
    /\ cand' = [cand EXCEPT !.rows[a] = held, !.scan[a] = NCoins, !.ready = @ \cup {a}, !.got[a] = {}]
    /\ MaybePublish(cand.ready \cup {a})

\* The next page of an address's outputs: one coin, as it is now.
ReadPage(a) ==
    LET c == cand.scan[a] + 1
        held == cand.got[a] \cup (IF Last(hist)[c] = a THEN {c} ELSE {})
    IN  /\ Live("snapshot") /\ a \in Accounts \ cand.ready
        /\ ~(Group(a) \in run.used /\ a \in seeds[Group(a)].empty)
        /\ IF c = NCoins
           THEN SetBaseline(a, held)
           ELSE cand' = [cand EXCEPT !.scan[a] = c, !.got[a] = held] /\ UNCHANGED part
        /\ UNCHANGED <<server, known, seeds, consumed, run, replay, journal, shown, faults, renewed>>

\* An address whose recovered history was empty has no outputs to read.
SkipEmpty(a) ==
    /\ Live("snapshot") /\ a \in Accounts \ cand.ready
    /\ Group(a) \in run.used /\ a \in seeds[Group(a)].empty
    /\ SetBaseline(a, {})
    /\ UNCHANGED <<server, known, seeds, consumed, run, replay, journal, shown, faults, renewed>>

\* One publication: the groups with a ready address, replayed privately; a
\* group whose ready addresses are those of the last one goes on from there.
PublishReady ==
    LET some == {g \in 1..known : Groups[g] \cap cand.ready # {}}
        same == {g \in some : g \in DOMAIN part.b /\ Groups[g] \cap cand.ready = Groups[g] \cap part.sel}
    IN  /\ Live("snapshot") /\ part # None /\ part.on /\ replay = None
        /\ IF cand.ready = Accounts
           THEN part' = [part EXCEPT !.on = FALSE] /\ UNCHANGED replay
           ELSE /\ replay' = Begin([g \in some |-> IF g \in same THEN part.b[g] ELSE cand.b[g]],
                                   [a \in UNION {Groups[g] : g \in some} |->
                                       IF Group(a) \in same THEN part.rows[a] ELSE cand.rows[a]],
                                   Ordered(some \ same), cand.ready)
                /\ UNCHANGED part
    /\ UNCHANGED <<server, known, seeds, consumed, run, cand, journal, shown, faults, renewed>>

PartialDone(w) ==
    /\ Publish(w, TRUE)
    /\ part' = [on |-> w.sel # cand.ready /\ cand.ready # Accounts, b |-> w.b, rows |-> w.rows, sel |-> w.sel]
    /\ replay' = None
    /\ UNCHANGED <<consumed, run, cand, journal>>

PartialBusy ==
    /\ part' = [part EXCEPT !.on = FALSE]
    /\ replay' = None
    /\ UNCHANGED <<consumed, run, cand, journal, shown>>

\* An expired cursor: once more without the recovery snapshots, or the end.
Expired ==
    IF run.used # {}
    THEN /\ consumed' = TRUE /\ shown' = Discarded(shown)
         /\ Baseline(FALSE)
         /\ UNCHANGED journal
    ELSE Fails(TRUE) /\ UNCHANGED consumed

CompleteDone(w) ==
    /\ Publish(w, FALSE)
    /\ journal' = [b |-> w.b, rows |-> w.rows]
    /\ consumed' = TRUE
    /\ Idle

CompleteBusy(w) ==
    /\ journal' = [b |-> w.b, rows |-> w.rows]
    /\ shown' = Stale(shown)
    /\ Idle
    /\ UNCHANGED consumed

ReplayPage(afresh) ==
    LET r == PageAnswer(replay, afresh)
    IN  /\ Current /\ replay # None
        /\ CASE r.end = "more" -> replay' = r.w /\ UNCHANGED <<consumed, run, cand, part, journal, shown>>
             [] r.end = "stale" -> Expired
             [] r.end = "done" /\ ~run.full -> PartialDone(r.w)
             [] r.end = "busy" /\ ~run.full -> PartialBusy
             [] r.end = "done" /\ run.full -> CompleteDone(r.w)
             [] r.end = "busy" /\ run.full -> CompleteBusy(r.w)
        /\ UNCHANGED <<server, known, seeds, faults, renewed>>

\* All baselines are in: the last replay covers every group.
Changes ==
    /\ Live("snapshot") /\ cand.ready = Accounts /\ replay = None
    /\ part # None => ~part.on
    /\ run' = [run EXCEPT !.phase = "changes", !.full = TRUE]
    /\ replay' = Begin([g \in 1..known |-> IF g \in Retained THEN part.b[g] ELSE cand.b[g]],
                       [a \in Accounts |-> IF Group(a) \in Retained THEN part.rows[a] ELSE cand.rows[a]],
                       Ordered(1..known), Accounts)
    /\ UNCHANGED <<server, known, seeds, consumed, cand, part, journal, shown, faults, renewed>>

\* A request fails for another reason.
RequestFails ==
    /\ Current /\ faults < MaxFaults
    /\ faults' = faults + 1
    /\ Fails(FALSE)
    /\ UNCHANGED <<server, known, seeds, consumed, renewed>>

Invalidated_KeepsVerified(s) == [s EXCEPT !.stale = s.rows # <<>>]
\* invalidate(): what was verified no longer funds a payment.
Invalidated(s) == [s EXCEPT !.stale = s.rows # <<>>, !.verified = {}, !.funding = {}]
Voided == IF run = None THEN None ELSE [run EXCEPT !.live = FALSE]

\* The watch is lost, or the application leaves the foreground.
Void ==
    /\ faults < MaxFaults
    /\ faults' = faults + 1
    /\ shown' = Invalidated(shown) /\ run' = Voided /\ renewed' = FALSE
    /\ UNCHANGED <<server, known, seeds, consumed, cand, part, replay, journal>>

\* The reset is announced: observeTip.
ObserveReset ==
    /\ epoch > 0 /\ faults < MaxFaults
    /\ faults' = faults + 1
    /\ shown' = Invalidated(shown) /\ run' = Voided /\ renewed' = FALSE
    /\ journal' = None /\ consumed' = TRUE
    /\ UNCHANGED <<server, known, seeds, cand, part, replay>>

\* loadWallet with more accounts.
LoadWallet ==
    /\ known < Len(Groups)
    /\ known' = known + 1
    /\ shown' = Invalidated(shown) /\ run' = Voided /\ renewed' = FALSE /\ journal' = None
    /\ UNCHANGED <<server, seeds, consumed, cand, part, replay, faults>>

\* The next check() of a void refresh ends it.
VoidEnds ==
    /\ run # None /\ ~run.live
    /\ Idle
    /\ UNCHANGED <<server, known, seeds, consumed, journal, shown, faults, renewed>>

Step ==
    \/ \E g \in DOMAIN Groups : TakeCheckpoint(g)
    \/ Snapshot
    \/ \E a \in Addr : (a \in Accounts) /\ (ReadPage(a) \/ SkipEmpty(a))
    \/ PublishReady
    \/ \E afresh \in BOOLEAN : ReplayPage(afresh)
    \/ Changes
    \/ VoidEnds

Next ==
    \/ \E c \in Coins, to \in Addr \cup {Out} : Move(c, to)
    \/ Block
    \/ \E loc \in [Coins -> Addr \cup {Out}] : Reset(loc)
    \/ Refresh \/ Step
    \/ RequestFails \/ Void \/ ObserveReset \/ LoadWallet

Spec == Init /\ [][Next]_vars

----------------------------------------------------------------------------
\* What the wallet displays, partial or complete, is what its addresses held
\* at one moment of the server: a payment between two of them is never
\* counted twice and never lost (hdSnapshot over updateAddressSync).
ShownIsOneMoment ==
    shown.epoch = epoch =>
        \A a \in DOMAIN shown.rows : shown.rows[a] = HeldAt(a, shown.through)

\* The cached journal, from a finished or a busy replay, holds for each group
\* exactly what the group held at its own sequence: replaying from it is safe.
JournalIsExact ==
    journal # None => \A g \in DOMAIN journal.b : journal.b[g].epoch = epoch =>
        \A a \in Groups[g] : journal.rows[a] = HeldAt(a, journal.b[g].through)

\* What may fund a payment was verified and belongs to the wallet; a complete view
\* verified all of it.  After a lost watch, a reset or a change of the accounts nothing
\* is verified until a refresh that began later publishes it: neither the remains of
\* the void refresh nor its late end.  A partial view funds payments only while the
\* refresh that published it goes on from it; when that fails or starts over, it does not.
FundingIsVerified ==
    /\ shown.funding \subseteq shown.verified
    /\ shown.verified \subseteq Accounts
    /\ shown.verified # {} /\ ~shown.partial => shown.verified = Accounts
    /\ shown.verified # {} => renewed
    /\ shown.partial /\ ~shown.stale /\ shown.verified # {} =>
           Current /\ part # None /\ part.sel = shown.verified

\* The display never goes back to an earlier sequence of the same epoch.
Onwards == shown'.epoch = shown.epoch => shown'.through >= shown.through
NeverBackwards == [][Onwards]_vars
=============================================================================
