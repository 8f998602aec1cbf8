--------------------------- MODULE MobileSession ---------------------------
(***************************************************************************)
(* The phone's view of one account (mobile/src/session.mjs), the scheduler *)
(* that keeps it up to date from the hints of the native watch             *)
(* (mobile/src/live-balance.mjs) and the parts of mobile/src/app.mjs that  *)
(* connect the two.  A hint carries no data; every datum comes from reads  *)
(* that may be answered late, in another foreground, for another account   *)
(* or on another chain.                                                    *)
(*                                                                         *)
(* A read belongs to one generation.  The generation only grows, so a read *)
(* carries cur: whether it has not grown since.  Epochs of the scheduler   *)
(* and revisions of the watch are kept in the same way.                    *)
(***************************************************************************)
EXTENDS Integers, Sequences, FiniteSets

CONSTANTS
    Accounts,     \* addresses the native wallet may select
    Pages,        \* pages of an account's history
    MaxReads,     \* bound: refreshes outstanding at a time
    MaxHeight,    \* bound: heights
    MaxMoves,     \* bound: what happens at the server
    MaxUser,      \* bound: what the user does
    MaxFaults,    \* bound: failed reads and lost watches
    None

VARIABLES
    chain,    \* the server's tip
    ver,      \* the server's data of each account
    moves,
    s,        \* WalletSession
    lb,       \* LiveBalance
    reads,    \* the refreshes under way, current or not
    loading,  \* loadAccount between its cancellation and its refresh
    idle,     \* not nativeBusy, the condition of allowed() that changes
    watch,    \* watchedAccount, and the call of watchAccount under way
    native,   \* the native watch
    events,   \* its hints on their way
    user, faults

server == <<chain, ver, moves>>
counts == <<user, faults>>
vars == <<chain, ver, moves, s, lb, reads, loading, idle, watch, native, events, user, faults>>

\* A tip, data read on a tip, and the records of the variables.
Tips      == [h : Int, b : Int]
Data      == [of : Accounts, tip : Tips, ver : Int]
Sessions  == [up : BOOLEAN, acct : Accounts \cup {None}, balance : Data \cup {None},
              tip : Tips \cup {None}, history : Seq(Data), cursor : BOOLEAN,
              historyStale : BOOLEAN, busy : BOOLEAN, stale : BOOLEAN, updated : BOOLEAN,
              displayTip : Tips \cup {None}, confirmationsStale : BOOLEAN, error : BOOLEAN]
Flushes   == [full : BOOLEAN, cur : BOOLEAN]
Scheduler == [dirty : BOOLEAN, full : BOOLEAN, running : Flushes \cup {None}, timer : BOOLEAN,
              connected : BOOLEAN]
Reads     == [by : {"load", "user", "live"}, kind : {"full", "balance", "more", "reload"},
              of : Accounts, tip : Tips \cup {None}, balance : Data \cup {None},
              pages : Seq(Data), cur : BOOLEAN, failed : BOOLEAN, want : Nat]
Hints     == [of : Accounts \cup {None}, reason : {"tip", "address", "connected", "disconnected"},
              tip : Tips \cup {None}, reset : BOOLEAN]
Calls     == [of : Accounts, cur : BOOLEAN]

Slots == 1..MaxReads
Outstanding == {i \in Slots : reads[i] # None}      \* pendingRefreshes

Blank(up, acct) ==
    [up |-> up, acct |-> acct, balance |-> None, tip |-> None, history |-> <<>>, cursor |-> FALSE,
     historyStale |-> FALSE, busy |-> FALSE, stale |-> FALSE, updated |-> FALSE,
     displayTip |-> None, confirmationsStale |-> TRUE, error |-> FALSE]

Init ==
    /\ chain = [h |-> 1, b |-> 0] /\ ver = [a \in Accounts |-> 0] /\ moves = 0
    /\ s = Blank(TRUE, None)
    /\ lb = [dirty |-> FALSE, full |-> FALSE, running |-> None, timer |-> FALSE, connected |-> FALSE]
    /\ reads = [i \in Slots |-> None] /\ loading = None /\ idle = TRUE
    /\ watch = [of |-> None, asking |-> None] /\ native = [of |-> None, on |-> FALSE]
    /\ events = <<>> /\ user = 0 /\ faults = 0

----------------------------------------------------------------------------
(* LiveBalance *)

\* sync(), which every render calls: the scheduler forgets another account's hints.
Sync(l) ==
    [l EXCEPT !.connected = FALSE, !.dirty = FALSE, !.full = FALSE, !.timer = FALSE,
              !.running = IF @ = None THEN None ELSE [@ EXCEPT !.cur = FALSE]]

Wake(l, t, allowed) ==
    IF ~l.dirty \/ ~allowed \/ ~t.up THEN [l EXCEPT !.timer = FALSE]
    ELSE [l EXCEPT !.timer = @ \/ l.running = None]

Request(l, t, allowed, full) ==
    IF t.acct = None THEN l ELSE Wake([l EXCEPT !.dirty = TRUE, !.full = @ \/ full], t, allowed)

----------------------------------------------------------------------------
(* WalletSession *)

Void(rs) == [i \in Slots |-> IF rs[i] = None THEN None ELSE [rs[i] EXCEPT !.cur = FALSE]]

\* Faulty variant: reads of the last generation stay good.
Invalidates_None == reads
\* What invalidate() does to the reads under way.
Invalidates == Void(reads)

Invalidate(t) ==
    [t EXCEPT !.confirmationsStale = TRUE, !.displayTip = None, !.busy = FALSE, !.stale = t.updated]
DisconnectWatch(t) == [Invalidate(t) EXCEPT !.historyStale = TRUE]

First(x, y, z) == IF x # None THEN x ELSE IF y # None THEN y ELSE z
KnownTip(t) == First(t.displayTip, IF t.balance = None THEN None ELSE t.balance.tip, t.tip)
Replaces(new, old) == old # None /\ (new.h < old.h \/ (new.h = old.h /\ new # old))

\* observeTip: the session, whether it asks for reads, and whether it voided those under way.
ObserveTip(t, tip, reset) ==
    LET again == reset \/ Replaces(tip, KnownTip(t))
        known == t.confirmationsStale /\ t.historyStale /\ t.displayTip = tip
        base  == IF again /\ ~known THEN [DisconnectWatch(t) EXCEPT !.cursor = FALSE] ELSE t
    IN  IF ~reset /\ t.displayTip = tip THEN [t |-> t, reset |-> FALSE, void |-> FALSE]
        ELSE [t |-> [base EXCEPT !.displayTip = tip], reset |-> again, void |-> again /\ ~known]

AcceptReadTip(t, tip, history) ==
    [t EXCEPT !.displayTip = IF @ = None \/ tip.h > @.h THEN tip ELSE @,
              !.confirmationsStale = @ /\ ~history]

NeedsBaseline(t) == t.confirmationsStale /\ t.historyStale

\* hasVerifiedWalletSnapshot: the first read needs no other.
Verified(t) ==
    /\ t.updated /\ ~t.busy /\ ~t.stale /\ ~t.historyStale /\ ~t.error /\ ~t.confirmationsStale
    /\ t.balance.tip = t.tip

\* The guard and the first steps of refresh().
MayRefresh(t, kind) ==
    /\ t.up /\ t.acct # None /\ ~t.busy /\ (kind = "more" => t.cursor)
    /\ \E i \in Slots : reads[i] = None
Refresh(t, kind, by) ==
    LET i == CHOOSE i \in Slots : reads[i] = None
    IN  /\ s' = [t EXCEPT !.busy = TRUE, !.error = FALSE]
        /\ loading' = IF loading = None \/ by = "load" THEN None ELSE [loading EXCEPT !.cur = FALSE]
        /\ reads' = [reads EXCEPT ![i] =
              [by |-> by, kind |-> kind, of |-> t.acct, tip |-> None, balance |-> None, pages |-> <<>>, cur |-> TRUE,
               failed |-> FALSE, want |-> IF kind = "reload" THEN Len(t.history) ELSE 0]]

\* The requests of a refresh, answered one by one; those of an ended generation matter to nobody.
WantsPage(r) ==
    /\ r.kind # "balance" /\ (r.pages = <<>> \/ (Len(r.pages) < r.want /\ Len(r.pages) < Pages))
    /\ r.pages # <<>> => r.balance # None
Passed(r) == r.kind = "more" => r.tip # None /\ r.tip = s.tip
Complete(r) == r.failed \/ (~Passed(r) /\ r.tip # None) \/ (Passed(r) /\ r.balance # None /\ ~WantsPage(r))

Answered(i, r) ==
    /\ reads' = [reads EXCEPT ![i] = r]
    /\ UNCHANGED <<server, s, lb, loading, idle, watch, native, events, counts>>

TipAnswered(i) ==
    /\ reads[i] # None /\ reads[i].cur /\ reads[i].kind = "more" /\ reads[i].tip = None
    /\ Answered(i, [reads[i] EXCEPT !.tip = chain])

BalanceAnswered(i) ==
    /\ reads[i] # None /\ reads[i].cur /\ Passed(reads[i]) /\ reads[i].balance = None
    /\ Answered(i, [reads[i] EXCEPT !.balance = [of |-> reads[i].of, tip |-> chain, ver |-> ver[reads[i].of]]])

PageAnswered(i) ==
    /\ reads[i] # None /\ reads[i].cur /\ Passed(reads[i]) /\ WantsPage(reads[i])
    /\ Answered(i, [reads[i] EXCEPT !.pages = Append(@, [of |-> reads[i].of, tip |-> chain, ver |-> ver[reads[i].of]])])

AnswerFails(i) ==
    /\ reads[i] # None /\ reads[i].cur /\ ~Complete(reads[i]) /\ faults < MaxFaults
    /\ reads' = [reads EXCEPT ![i].failed = TRUE] /\ faults' = faults + 1
    /\ UNCHANGED <<server, s, lb, loading, idle, watch, native, events, user>>

\* Faulty variant: the tips of the two reads are not compared.
OneTip_Balance(r, tip) == r.balance.tip = tip
\* Balance and pages were read on one tip.
OneTip(r, tip) == r.balance.tip = tip /\ \A k \in 1..Len(r.pages) : r.pages[k].tip = tip

\* The catch of refresh(); -32011 also gives the history up.
Refused(t, changed) ==
    [t EXCEPT !.error = TRUE, !.stale = t.updated, !.historyStale = @ \/ changed, !.cursor = @ /\ ~changed]

\* What a complete read publishes: the light one keeps the history's own anchor.
BalancePublished(t, b) ==
    LET replaced == \/ t.balance # None /\ Replaces(b.tip, t.balance.tip)
                    \/ Replaces(b.tip, t.tip)
                    \/ t.displayTip # None /\ b.tip.h = t.displayTip.h /\ b.tip # t.displayTip
        u == IF replaced
             THEN [t EXCEPT !.confirmationsStale = TRUE, !.displayTip = b.tip, !.historyStale = TRUE, !.cursor = FALSE]
             ELSE t
    IN  AcceptReadTip([u EXCEPT !.balance = b, !.updated = TRUE, !.stale = FALSE, !.error = FALSE,
                                !.historyStale = @ \/ u.tip # b.tip], b.tip, FALSE)

HistoryPublished(t, r, tip) ==
    LET rows == (IF r.kind = "more" THEN t.history ELSE <<>>) \o r.pages
    IN  AcceptReadTip([t EXCEPT !.balance = r.balance, !.tip = tip, !.history = rows, !.cursor = Len(rows) < Pages,
                                !.historyStale = @ /\ r.kind = "more", !.updated = TRUE, !.stale = FALSE,
                                !.error = FALSE], tip, TRUE)

Publishes(r) == /\ ~r.failed /\ Passed(r)
                /\ r.kind # "balance" => OneTip(r, IF r.kind = "more" THEN r.tip ELSE r.balance.tip)
Published(t, r) ==
    IF ~Publishes(r) THEN Refused(t, ~r.failed)
    ELSE IF r.kind = "balance" THEN BalancePublished(t, r.balance)
    ELSE HistoryPublished(t, r, r.balance.tip)

\* Faulty variant: what a read that failed or was voided was to serve counts as served.
Unserved_Forgotten(ok, l, t) == l.running.cur /\ ok /\ NeedsBaseline(t)
\* Whether the hints that flush() took must be asked for again: its read failed or was voided,
\* or it left the history without a baseline.
Unserved(ok, l, t) == l.running.cur /\ (~ok \/ NeedsBaseline(t))

\* The end of a refresh, and of the flush(), refreshAccount or loadAccount that waited for it.
Settle(i) ==
    LET r  == reads[i]
        ok == r.cur /\ Publishes(r)
        t  == IF r.cur THEN [Published(s, r) EXCEPT !.busy = FALSE] ELSE s
        l  == [lb EXCEPT !.running = None]
    IN  /\ reads[i] # None /\ (~r.cur \/ Complete(r))
        /\ reads' = [reads EXCEPT ![i] = None] /\ s' = t
        /\ lb' = CASE r.by = "live" ->
                        Wake(IF Unserved(ok, lb, t)
                             THEN [l EXCEPT !.dirty = TRUE, !.full = @ \/ lb.running.full \/ ok]
                             ELSE l, t, idle)
                   [] r.by = "user" ->
                        IF ok /\ r.kind = "balance" /\ NeedsBaseline(t) THEN Request(lb, t, idle, TRUE)
                        ELSE IF r.cur /\ ~ok THEN Request(lb, t, idle, FALSE) ELSE Wake(lb, t, idle)
                   [] OTHER ->
                        IF t.acct = r.of /\ ~Verified(t) THEN Request(lb, t, idle, FALSE) ELSE lb
        /\ UNCHANGED <<server, loading, idle, watch, native, events, counts>>

\* The timer's flush().
Flush ==
    /\ lb.timer
    /\ IF ~lb.dirty \/ ~idle \/ ~s.up
       THEN lb' = [lb EXCEPT !.timer = FALSE] /\ UNCHANGED <<s, reads, loading>>
       ELSE /\ lb.running = None /\ Outstanding = {} /\ ~s.busy
            /\ lb' = [lb EXCEPT !.timer = FALSE, !.dirty = FALSE, !.full = FALSE,
                                !.running = [full |-> lb.full, cur |-> TRUE]]
            /\ Refresh(s, IF lb.full THEN "reload" ELSE "balance", "live")
    /\ UNCHANGED <<server, idle, watch, native, events, counts>>

----------------------------------------------------------------------------
(* The native watch *)

Push(reason, tip, reset) ==
    IF native.on THEN Append(events, [of |-> native.of, reason |-> reason, tip |-> tip, reset |-> reset]) ELSE events

NewBlock ==
    /\ moves < MaxMoves /\ chain.h < MaxHeight
    /\ chain' = [chain EXCEPT !.h = @ + 1] /\ moves' = moves + 1
    /\ events' = Push("tip", chain', FALSE)
    /\ UNCHANGED <<ver, s, lb, reads, loading, idle, watch, native, counts>>

\* A rollback to a chain that is not longer happens only under the watch: nobody else tells of it.
Reorganizes(h) ==
    /\ moves < MaxMoves /\ (h > chain.h \/ native = [of |-> s.acct, on |-> TRUE])
    /\ chain' = [h |-> h, b |-> chain.b + 1] /\ moves' = moves + 1
    /\ events' = Push("tip", chain', TRUE)
    /\ UNCHANGED <<ver, s, lb, reads, loading, idle, watch, native, counts>>

Changes(a) ==
    /\ moves < MaxMoves /\ moves' = moves + 1 /\ ver' = [ver EXCEPT ![a] = @ + 1]
    /\ events' = IF native.of = a THEN Push("address", None, FALSE) ELSE events
    /\ UNCHANGED <<chain, s, lb, reads, loading, idle, watch, native, counts>>

NativeConnects ==
    /\ native.of # None /\ ~native.on /\ native' = [native EXCEPT !.on = TRUE]
    /\ events' = Append(events, [of |-> native.of, reason |-> "connected", tip |-> chain, reset |-> FALSE])
    /\ UNCHANGED <<server, s, lb, reads, loading, idle, watch, counts>>

NativeLost ==
    /\ native.on /\ faults < MaxFaults /\ faults' = faults + 1
    /\ native' = [native EXCEPT !.on = FALSE] /\ events' = Push("disconnected", None, FALSE)
    /\ UNCHANGED <<server, s, lb, reads, loading, idle, watch, user>>

\* notify(), for a hint that is for this account and arrives in the foreground.
Notified(e) ==
    LET older == e.reason = "connected" /\ ~e.reset /\ KnownTip(s) # None /\ e.tip # None /\ e.tip.h < KnownTip(s).h
        seen  == IF e.tip # None /\ ~older THEN ObserveTip(s, e.tip, e.reset)
                 ELSE [t |-> s, reset |-> e.reset, void |-> FALSE]
        lost  == e.reason = "disconnected" /\ lb.connected
        t     == IF lost THEN DisconnectWatch(s) ELSE seen.t
        l     == [lb EXCEPT !.connected = IF e.reason = "tip" THEN @ ELSE e.reason # "disconnected"]
        asks  == CASE e.reason = "tip" -> seen.reset [] e.reason = "disconnected" -> lost [] OTHER -> TRUE
        void  == seen.void \/ lost
    IN  /\ s' = t /\ reads' = IF void THEN Invalidates ELSE reads
        /\ loading' = IF void /\ loading # None THEN [loading EXCEPT !.cur = FALSE] ELSE loading
        /\ lb' = IF asks THEN Request(l, t, idle, TRUE) ELSE l

\* A walletChanged event.
Notify ==
    /\ events # <<>> /\ events' = Tail(events)
    /\ IF s.up /\ Head(events).of = s.acct THEN Notified(Head(events)) ELSE UNCHANGED <<s, reads, loading, lb>>
    /\ UNCHANGED <<server, idle, watch, native, counts>>

\* ensureAccountWatch up to its await.
Ensure(w, t) ==
    IF t.acct = None \/ ~t.up \/ w.of = t.acct \/ w.asking # None THEN w
    ELSE [w EXCEPT !.asking = [of |-> t.acct, cur |-> TRUE]]
\* ++watchRevision with watchedAccount = ''.
Unwatched(w) == [of |-> None, asking |-> IF w.asking = None THEN None ELSE [w.asking EXCEPT !.cur = FALSE]]

Poll ==
    /\ Ensure(watch, s) # watch /\ watch' = Ensure(watch, s)
    /\ UNCHANGED <<server, s, lb, reads, loading, idle, native, events, counts>>

\* watchAccount() watches the account of the native wallet, and answers, or fails.
WatchAnswered(ok) ==
    LET n    == IF native.of = s.acct THEN native ELSE [of |-> s.acct, on |-> FALSE]
        good == ok /\ watch.asking.cur /\ s.up /\ s.acct = watch.asking.of
        done == [of |-> IF good THEN s.acct ELSE watch.of, asking |-> None]
    IN  /\ watch.asking # None /\ (ok \/ faults < MaxFaults)
        /\ faults' = IF ok THEN faults ELSE faults + 1
        /\ native' = IF ok /\ s.acct # None THEN n ELSE native
        /\ watch' = IF watch.asking.cur THEN done ELSE Ensure(done, s)
        /\ lb' = IF good /\ n.on THEN Request([lb EXCEPT !.connected = TRUE], s, idle, TRUE) ELSE lb
        /\ UNCHANGED <<server, s, reads, loading, idle, events, user>>

----------------------------------------------------------------------------
(* The user *)

Acts == user < MaxUser /\ user' = user + 1

\* adoptNativeAccount with another account, or none.
Adopt(a) ==
    LET t == Blank(s.up, a)
    IN  /\ Acts /\ a # s.acct
        /\ s' = t /\ reads' = Invalidates /\ lb' = Sync(lb)
        /\ loading' = IF a = None THEN None ELSE [of |-> a, cur |-> TRUE]
        /\ watch' = Ensure(Unwatched(watch), t)
        /\ UNCHANGED <<server, idle, native, events, faults>>

\* loadAccount after its await.
LoadContinues ==
    /\ loading # None
    /\ IF loading.cur /\ MayRefresh(s, "full")
       THEN Refresh(s, "full", "load") /\ UNCHANGED lb
       ELSE /\ loading' = None /\ UNCHANGED <<s, reads>>
            /\ lb' = IF s.acct = loading.of /\ ~Verified(s) THEN Request(lb, s, idle, FALSE) ELSE lb
    /\ UNCHANGED <<server, idle, watch, native, events, counts>>

RefreshAccount(kind) ==
    /\ Acts /\ MayRefresh(s, kind) /\ Refresh(s, kind, "user")
    /\ UNCHANGED <<server, lb, idle, watch, native, events, faults>>

\* updateEnvironment: background or offline, and back.
UpdateEnvironment ==
    LET t == [Invalidate(s) EXCEPT !.up = ~@]
        w == Unwatched(watch)
        l == [lb EXCEPT !.timer = FALSE, !.connected = FALSE]
    IN  /\ Acts /\ s' = t /\ reads' = Invalidates
        /\ loading' = IF loading = None THEN None ELSE [loading EXCEPT !.cur = FALSE]
        /\ watch' = Ensure(w, t)
        /\ lb' = IF t.up THEN Request(lb, t, idle, TRUE) ELSE l
        /\ UNCHANGED <<server, idle, native, events, faults>>

\* nativeAction: a dialog of the native wallet; a payment voids what is shown.
ActionBegins ==
    /\ Acts /\ idle /\ idle' = FALSE
    /\ UNCHANGED <<server, s, lb, reads, loading, watch, native, events, faults>>

ActionEnds(how) ==
    LET t == IF how = "paid" THEN Invalidate(s) ELSE s
    IN  /\ ~idle /\ idle' = TRUE /\ s' = t
        /\ reads' = IF how = "paid" THEN Invalidates ELSE reads
        /\ loading' = IF how = "paid" /\ loading # None THEN [loading EXCEPT !.cur = FALSE] ELSE loading
        /\ lb' = IF how = "other" THEN Wake(lb, t, TRUE) ELSE Request(lb, t, TRUE, TRUE)
        /\ UNCHANGED <<server, watch, native, events, counts>>

Next ==
    \/ NewBlock \/ (\E h \in 0..MaxHeight : Reorganizes(h)) \/ (\E a \in Accounts : Changes(a))
    \/ NativeConnects \/ NativeLost \/ Notify \/ Poll \/ \E ok \in BOOLEAN : WatchAnswered(ok)
    \/ \E i \in Slots : TipAnswered(i) \/ BalanceAnswered(i) \/ PageAnswered(i) \/ AnswerFails(i) \/ Settle(i)
    \/ Flush \/ LoadContinues
    \/ \E a \in Accounts \cup {None} : Adopt(a)
    \/ \E kind \in {"full", "balance", "more"} : RefreshAccount(kind)
    \/ UpdateEnvironment \/ ActionBegins \/ \E how \in {"paid", "review", "other"} : ActionEnds(how)

Spec == Init /\ [][Next]_vars

----------------------------------------------------------------------------
(* Properties *)

\* What is displayed belongs to the account that is selected: no late answer restores another one.
ShownIsOwn ==
    /\ s.balance # None => s.balance.of = s.acct
    /\ \A k \in 1..Len(s.history) : s.history[k].of = s.acct

\* The pages of the history were all read on the tip that is shown beside them: a block, a light
\* refresh or "load more" between two pages mixes no two moments.
HistoryIsOneMoment == \A k \in 1..Len(s.history) : s.history[k].tip = s.tip

\* A hint is not forgotten: while the scheduler may read, one that is not served has its timer or its flush.
HintIsPending == lb.dirty /\ idle /\ s.up => lb.timer \/ lb.running # None

\* The session, its watch and its scheduler rest.
Rests ==
    /\ s.up /\ s.acct # None /\ idle /\ ~lb.dirty /\ Outstanding = {} /\ loading = None /\ events = <<>>
    /\ watch.of = s.acct /\ watch.asking = None /\ native = [of |-> s.acct, on |-> TRUE]

\* At rest the phone shows what the server has: balance, every loaded page of the history and
\* the tip its confirmations are counted to, whatever hints, reads, losses and dialogs crossed.
RestIsTrue ==
    Rests =>
        /\ s.balance # None /\ s.balance.ver = ver[s.acct] /\ s.balance.tip.b = chain.b
        /\ \A k \in 1..Len(s.history) : s.history[k].ver = ver[s.acct] /\ s.history[k].tip.b = chain.b
        /\ s.displayTip = chain /\ ~NeedsBaseline(s)
=============================================================================
