--------------------------- MODULE TipConfirmation ---------------------------
(***************************************************************************)
(* How the wallet follows the best block (connectClient in                 *)
(* wallet-service.mjs, confirmTipChange in live-updates.mjs).              *)
(*                                                                         *)
(* Three sources tell the wallet about the chain: pushed notices, the      *)
(* wallet's own reads, and the confirmation it asks for when a notice      *)
(* names a tip that is not above the one it knows.  A notice may be older  *)
(* than what a read already saw, and a confirmation takes three requests   *)
(* during which the chain and the notices go on.                           *)
(*                                                                         *)
(* The server is external: its chain is a block of a tree with one fork,   *)
(* and it flags a notice as a reorganization when the new tip does not     *)
(* extend the one before it.  For a tip that is not higher it may          *)
(* leave the flag out, at the moves UnflaggedAt names.                     *)
(***************************************************************************)
EXTENDS Integers, Sequences

CONSTANTS
    MaxHeight,   \* heights are 0..MaxHeight
    Fork,        \* the blocks up to this height are on both branches
    Window,      \* the most hashes getrecentblockhashes returns (600)
    MaxMoves,    \* bound: how often the server's best block changes
    UnflaggedAt, \* the moves at which a rollback may go unflagged
    MaxDrops     \* bound: how often the connection is lost

\* The heights and the number of hashes asked for are counts.
ASSUME HeightAssumption == MaxHeight \in Nat /\ Fork \in Nat /\ Window \in Nat

None == [none |-> TRUE]

VARIABLES
    chain,    \* the server's best block
    moves,    \* how often it changed
    left,     \* it has left a branch
    net,      \* the notices under way, oldest first
    conn,     \* the connection and its subscriptions are up
    drops,
    tip,      \* this.tip
    confTip,  \* this.confirmationTip, the height shown
    stale,    \* this.confirmationsStale
    rows,     \* the tip at which the history shown was read
    chainRev, \* this.walletChainRevision
    noticeRev,
    pending,  \* tipCheckPending
    check,    \* the run of tipUpdates: None or its captured values
    dirty,    \* tipUpdates is asked to run
    read,     \* the refresh under way: None or its captured values
    want      \* walletUpdates is asked to run

serverVars == <<chain, moves, left>>
checkVars  == <<pending, check, dirty, noticeRev>>
readVars   == <<read, want, rows>>
vars == <<serverVars, net, conn, drops, tip, confTip, stale, chainRev, checkVars, readVars>>

-----------------------------------------------------------------------------
(* The tree of blocks. *)

Block   == {k \in [h : 0..MaxHeight, b : {"a", "b"}] : k.h <= Fork => k.b = "a"}
Genesis == [h |-> 0, b |-> "a"]

\* Block x is y or below it on y's chain.
Anc(x, y) == x.h <= y.h /\ (x.h <= Fork \/ x.b = y.b)

Init ==
    /\ chain = Genesis /\ moves = 0 /\ left = FALSE
    /\ net = <<>> /\ conn = TRUE /\ drops = 0
    /\ tip = None /\ confTip = None /\ stale = FALSE /\ rows = None
    /\ chainRev = 0 /\ noticeRev = 0
    /\ pending = FALSE /\ check = None /\ dirty = FALSE
    /\ read = None /\ want = TRUE

-----------------------------------------------------------------------------
(* The server. *)

MayFlag(old, new, n) ==
    IF Anc(old, new) THEN {FALSE}
    ELSE IF new.h <= old.h /\ n \in UnflaggedAt THEN {TRUE, FALSE} ELSE {TRUE}

\* A bounties or address notice may ask for a new synchronization ahead of the
\* tip's own notice; it names no tip.
Resync == [tip |-> None, reorg |-> TRUE]

Moves ==
    /\ moves < MaxMoves
    /\ \E new \in Block \ {chain} :
        /\ chain' = new /\ moves' = moves + 1
        /\ left' = (left \/ ~Anc(chain, new))
        /\ IF conn
           THEN \E flag \in MayFlag(chain, new, moves + 1), first \in BOOLEAN :
                   /\ first => flag
                   /\ net' = net \o (IF first THEN <<Resync>> ELSE <<>>)
                                 \o <<[tip |-> new, reorg |-> flag]>>
           ELSE UNCHANGED net
    /\ UNCHANGED <<conn, drops, tip, confTip, stale, chainRev, checkVars, readVars>>

-----------------------------------------------------------------------------
(* Notices: onChange and applyChange. *)

Known == IF confTip # None THEN confTip ELSE tip

\* observeConfirmationTip
Observed(t) ==
    IF confTip = None THEN t
    ELSE IF t.h > confTip.h \/ t = confTip THEN t ELSE confTip

\* Mutant: a reset that asks for no new read.
ApplyResetSilently(t) ==
    /\ chainRev' = chainRev + 1
    /\ confTip' = t /\ tip' = t /\ stale' = TRUE
    /\ UNCHANGED want

\* applyChange: a reset drops what was read, a tip is only looked at.
ApplyReset(t) ==
    /\ chainRev' = chainRev + 1
    /\ confTip' = t /\ tip' = t /\ stale' = TRUE
    /\ want' = TRUE

ApplyTip(t) ==
    /\ confTip' = IF t = None THEN confTip ELSE Observed(t)
    /\ UNCHANGED <<chainRev, tip, stale, want>>

\* A tip that is not above the known one is confirmed before it is believed.
NotAbove(t) ==
    t # None /\ Known # None /\ (t.h < Known.h \/ (t.h = Known.h /\ t # Known))

OnReset(n) ==
    /\ pending' = FALSE /\ UNCHANGED dirty
    /\ ApplyReset(n.tip)

OnLowerTip(n) ==
    /\ pending' = TRUE /\ dirty' = TRUE
    /\ ApplyTip(None)

OnTip(n) ==
    /\ ApplyTip(n.tip)
    /\ dirty' = (dirty \/ (pending /\ n.tip # None))
    /\ UNCHANGED pending

OnChange ==
    /\ conn /\ net # <<>>
    /\ LET n == Head(net) IN
        /\ net' = Tail(net)
        /\ noticeRev' = noticeRev + 1
        /\ IF n.reorg THEN OnReset(n)
           ELSE IF NotAbove(n.tip) THEN OnLowerTip(n)
           ELSE OnTip(n)
    /\ UNCHANGED <<serverVars, conn, drops, check, read, rows>>

-----------------------------------------------------------------------------
(* The confirmation: the run of tipUpdates. *)

CheckStarts ==
    /\ dirty /\ check = None
    /\ dirty' = FALSE
    /\ IF pending /\ Known # None
       THEN /\ check' = [previous |-> Known, notice |-> noticeRev, chainRev |-> chainRev,
                         tip |-> None, snap |-> None]
            /\ UNCHANGED pending
       ELSE pending' = FALSE /\ UNCHANGED check
    /\ UNCHANGED <<serverVars, net, conn, drops, tip, confTip, stale, chainRev, noticeRev, readVars>>

\* getchaintip, then the recent hashes: each is answered from the chain of its time.
CheckReadsTip ==
    /\ conn /\ check # None /\ check.tip = None
    /\ check' = [check EXCEPT !.tip = chain]
    /\ UNCHANGED <<serverVars, net, conn, drops, tip, confTip, stale, chainRev,
                   pending, dirty, noticeRev, readVars>>

Settled(c) == c.tip = c.previous \/ c.tip.h <= c.previous.h

CheckReadsHashes ==
    /\ conn /\ check # None /\ check.tip # None /\ check.snap = None
    /\ ~Settled(check)
    /\ check' = [check EXCEPT !.snap = chain]
    /\ UNCHANGED <<serverVars, net, conn, drops, tip, confTip, stale, chainRev,
                   pending, dirty, noticeRev, readVars>>

\* The previous tip is among the hashes: the count is capped by the window.
InWindow(c) == c.snap.h - c.previous.h < Window /\ Anc(c.previous, c.snap)

\* What confirmTipChange returns once its last request is answered: the request
\* is needed only when the tip is above the previous one.
Answered(c) == c.tip # None /\ (Settled(c) \/ c.snap # None)
Coherent(c) == Settled(c) \/ (c.tip = c.snap /\ c.snap = chain)
\* Mutant: an equal or lower answer is always a rollback.
IsResetLower(c) == IF Settled(c) THEN TRUE ELSE ~InWindow(c)

IsReset(c)  == IF Settled(c) THEN c.tip # c.previous ELSE ~InWindow(c)

\* Nothing was announced or found out while the confirmation ran.
Unmoved(c) == c.notice = noticeRev /\ c.chainRev = chainRev /\ Known = c.previous

CheckEnds ==
    /\ conn /\ check # None /\ Answered(check)
    /\ check' = None
    /\ IF ~Coherent(check) \/ ~Unmoved(check)
       THEN /\ dirty' = TRUE   \* thrown and retried, or asked for again
            /\ UNCHANGED <<pending, chainRev, confTip, tip, stale, want>>
       ELSE /\ pending' = FALSE /\ UNCHANGED dirty
            /\ IF IsReset(check) THEN ApplyReset(check.tip) ELSE ApplyTip(check.tip)
    /\ UNCHANGED <<serverVars, net, conn, drops, noticeRev, read, rows>>

-----------------------------------------------------------------------------
(* The wallet's reads, and bounty discovery's. *)

ReadStarts ==
    /\ conn /\ read = None
    /\ read' = [chainRev |-> chainRev, tip |-> None]
    /\ want' = FALSE
    /\ UNCHANGED <<serverVars, net, conn, drops, tip, confTip, stale, chainRev, checkVars, rows>>

ReadAnswered ==
    /\ conn /\ read # None /\ read.tip = None
    /\ read' = [read EXCEPT !.tip = chain]
    /\ UNCHANGED <<serverVars, net, conn, drops, tip, confTip, stale, chainRev, checkVars, want, rows>>

\* Mutant: a read is published whatever was announced since it began.
FencedNever(r) == FALSE

\* checkWalletChain
Fenced(r) == r.chainRev # chainRev

ReadEnds ==
    /\ conn /\ read # None /\ read.tip # None
    /\ read' = None
    /\ IF Fenced(read)
       THEN UNCHANGED <<tip, confTip, stale, rows>>
       ELSE /\ tip' = read.tip /\ rows' = read.tip
            /\ confTip' = Observed(read.tip) /\ stale' = FALSE
    /\ UNCHANGED <<serverVars, net, conn, drops, chainRev, checkVars, want>>

\* A read that fails is retried by its queue.
ReadFails ==
    /\ read # None /\ ~want
    /\ read' = None /\ want' = TRUE
    /\ UNCHANGED <<serverVars, net, conn, drops, tip, confTip, stale, chainRev, checkVars, rows>>

DiscoveryPublishes ==
    /\ conn /\ tip' = chain /\ tip' # tip
    /\ UNCHANGED <<serverVars, net, conn, drops, confTip, stale, chainRev, checkVars, readVars>>

-----------------------------------------------------------------------------
(* The connection. *)

\* The generation of the watch changes: a confirmation under way is cancelled
\* without a retry, and a read of the old connection fails its fence.
Disconnected ==
    /\ conn /\ drops < MaxDrops
    /\ conn' = FALSE /\ drops' = drops + 1 /\ net' = <<>>
    /\ chainRev' = chainRev + 1 /\ stale' = TRUE /\ tip' = None /\ confTip' = None
    /\ check' = None /\ read' = None /\ want' = TRUE
    /\ UNCHANGED <<serverVars, pending, dirty, noticeRev, rows>>

Connected ==
    /\ ~conn
    /\ conn' = TRUE /\ want' = TRUE
    /\ UNCHANGED <<serverVars, net, drops, tip, confTip, stale, chainRev, checkVars, read, rows>>

-----------------------------------------------------------------------------
Next ==
    \/ Moves \/ OnChange
    \/ CheckStarts \/ CheckReadsTip \/ CheckReadsHashes \/ CheckEnds
    \/ ReadStarts \/ ReadAnswered \/ ReadEnds \/ ReadFails \/ DiscoveryPublishes
    \/ Disconnected \/ Connected

Spec == Init /\ [][Next]_vars

\* Notices are delivered, requests are answered, queued runs start, and a
\* read does not fail for ever.
FairSpec ==
    /\ Spec
    /\ WF_vars(OnChange) /\ WF_vars(Connected)
    /\ WF_vars(CheckStarts) /\ WF_vars(CheckReadsTip)
    /\ WF_vars(CheckReadsHashes) /\ WF_vars(CheckEnds)
    /\ WF_vars(want /\ ReadStarts) /\ SF_vars(ReadAnswered) /\ SF_vars(ReadEnds)

-----------------------------------------------------------------------------
(* Properties. *)

OneChain(x, y) == Anc(x, y) \/ Anc(y, x)

\* Nothing the server announced, or a confirmation asked for, is outstanding.
Caught == net = <<>> /\ check = None /\ ~dirty

\* Confirmations are counted from the height shown down to the rows shown
\* (getState): when the wallet has heard everything and shows them as current,
\* the two are blocks of one chain, whatever the order in which notices,
\* confirmations and reads arrived.
RowsUnderHeight ==
    (conn /\ Caught /\ ~stale /\ confTip # None /\ rows # None) => OneChain(rows, confTip)

\* A late notice is not a rollback: while the server's chain only grows, no
\* notice and no confirmation throws away what the wallet has read.
GrowthKeepsReads == (~left /\ MaxHeight < Window) => chainRev = drops

\* What is shown is of one chain (getState), and a chain that only grew keeps
\* the reads (applyChange, confirmTipChange).
ShownOnOneChain == RowsUnderHeight /\ GrowthKeepsReads

\* A chain that rests is shown: the height becomes the server's and
\* confirmations are current again.
ShowsTheChain ==
    <>[](conn => /\ confTip = chain /\ ~stale
                 /\ rows # None /\ (rows # None => OneChain(rows, confTip)))
=============================================================================
