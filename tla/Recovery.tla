------------------------------ MODULE Recovery ------------------------------
(***************************************************************************)
(* Recovery of a restored wallet: recoverAddresses(), page() and the       *)
(* address-by-address pass of refreshInternal() in                         *)
(* src/core/wallet-service.mjs, for one chain of addresses.                *)
(*                                                                         *)
(* The scan asks for the history of one address after another until        *)
(* ADDRESS_GAP of them in a row have none; addresses found empty are not   *)
(* read again by the pass that follows, as long as every reply names the   *)
(* tip the recovery began at.  Meanwhile the chain grows and forks: a tip  *)
(* names the set of addresses used on it.  Indices are counted from 1.     *)
(***************************************************************************)
EXTENDS Naturals, FiniteSets, FiniteSetsExt

CONSTANTS
    Addresses,    \* 1..n
    Gap,          \* ADDRESS_GAP (20)
    MaxTips       \* bound: tips

VARIABLES
    chain,        \* tip -> the addresses used on that chain
    tip,          \* the server's tip
    known,        \* this.tip
    pc,           \* where the refresh is
    begun,        \* tipHash, recoveryTipHash
    at, gap, last,\* the scan: index, gap and lastUsed
    empty,        \* emptyAddresses
    stable,       \* stableTip of the scan, then stableRecoveryTip
    reused,       \* addresses the pass took for empty without reading them
    read,         \* addresses the pass read, with a history
    needs         \* needsRecovery

vars == <<chain, tip, known, pc, begun, at, gap, last, empty, stable, reused, read, needs>>

Init ==
    /\ chain \in [{1} -> SUBSET Addresses] /\ tip = 1 /\ known = 1
    /\ pc = "idle" /\ begun = 0 /\ at = 1 /\ gap = 0 /\ last = 0
    /\ empty = {} /\ stable = TRUE /\ reused = {} /\ read = {} /\ needs = TRUE

\* The server's chain: a block, or a fork, with any addresses used on it.
ServerMoves(uses) ==
    /\ Cardinality(DOMAIN chain) < MaxTips
    /\ tip' = Cardinality(DOMAIN chain) + 1
    /\ chain' = [t \in 1..tip' |-> IF t = tip' THEN uses ELSE chain[t]]
    /\ UNCHANGED <<known, pc, begun, at, gap, last, empty, stable, reused, read, needs>>

\* The earlier branch wins after all.
ServerReturns(t) ==
    /\ t \in DOMAIN chain \ {tip}
    /\ tip' = t
    /\ UNCHANGED <<chain, known, pc, begun, at, gap, last, empty, stable, reused, read, needs>>

\* A block event or another reader moves this.tip.
TipKnown ==
    /\ known # tip
    /\ known' = tip
    /\ UNCHANGED <<chain, tip, pc, begun, at, gap, last, empty, stable, reused, read, needs>>

\* Faulty variant: the tip of a reply is not looked at.
SameTip_Known(t) == known = begun

\* onTip(): the reply and the wallet are still at the tip the recovery began at.
SameTip(t) == t = begun /\ known = begun

\* refreshInternal(): ensureNetwork(), then the scan or the pass.
Begins ==
    /\ pc = "idle"
    /\ known' = tip /\ begun' = tip
    /\ pc' = IF needs THEN "scan" ELSE "pass"
    /\ at' = 1 /\ gap' = 0 /\ last' = IF needs THEN 0 ELSE last
    /\ empty' = {} /\ stable' = TRUE /\ reused' = {} /\ read' = {}
    /\ UNCHANGED <<chain, tip, needs>>

\* page() of one address: all the history there is on the server's chain.
Scans ==
    LET used == at \in chain[tip]
        same == stable /\ SameTip(tip)
    IN  /\ pc = "scan" /\ gap < Gap /\ at \in Addresses
        /\ stable' = same
        /\ empty' = IF ~same THEN {} ELSE IF used THEN empty ELSE empty \cup {at}
        /\ last' = IF used THEN at ELSE last
        /\ gap' = IF used THEN 0 ELSE gap + 1
        /\ at' = at + 1
        /\ UNCHANGED <<chain, tip, known, pc, begun, reused, read, needs>>

\* The indices are saved and the accounts rebuilt; the tip is asked for once more if
\* anything may be reused.  stableRecoveryTip starts anew.
ScanEnds ==
    /\ pc = "scan" /\ (gap >= Gap \/ at \notin Addresses)
    /\ needs' = FALSE /\ at' = 1 /\ pc' = "pass"
    /\ known' = IF empty # {} THEN tip ELSE known
    /\ stable' = (empty # {} => tip = begun)
    /\ UNCHANGED <<chain, tip, begun, gap, last, empty, reused, read>>

\* reuseEmpty, after a look at this.tip.
MayReuse == at \in empty /\ stable /\ known = begun

\* The accounts of the pass: up to the lookahead.
InRange(a) == a \in Addresses /\ a <= last + Gap

Passes ==
    /\ pc = "pass" /\ InRange(at)
    /\ IF MayReuse
       THEN reused' = reused \cup {at} /\ UNCHANGED <<read, stable>>
       ELSE /\ read' = IF at \in chain[tip] THEN read \cup {at} ELSE read
            /\ stable' = (stable /\ SameTip(tip))
            /\ UNCHANGED reused
    /\ at' = at + 1
    /\ UNCHANGED <<chain, tip, known, pc, begun, gap, last, empty, needs>>

\* After the last account: when something was reused the tip is asked for again, and
\* everything is read again if it moved.
PassEnds ==
    /\ pc = "pass" /\ ~InRange(at)
    /\ known' = IF reused # {} THEN tip ELSE known
    /\ stable' = (stable /\ (reused # {} => tip = begun))
    /\ pc' = IF reused # {} /\ ~stable' THEN "idle" ELSE "shown"
    /\ last' = IF pc' = "shown" THEN Max({last} \cup read) ELSE last
    /\ UNCHANGED <<chain, tip, begun, at, gap, empty, reused, read, needs>>

\* An event asks for another refresh.
Again ==
    /\ pc = "shown" /\ pc' = "idle"
    /\ UNCHANGED <<chain, tip, known, begun, at, gap, last, empty, stable, reused, read, needs>>

Next ==
    \/ \E uses \in SUBSET Addresses : ServerMoves(uses)
    \/ \E t \in DOMAIN chain : ServerReturns(t)
    \/ TipKnown \/ Begins \/ Scans \/ ScanEnds \/ Passes \/ PassEnds \/ Again

Spec == Init /\ [][Next]_vars
----------------------------------------------------------------------------
(* Properties *)

\* The addresses a wallet with this history must find: no Gap unused ones in a row
\* come before them.
Found(used) ==
    {u \in used : \A k \in Addresses : k + Gap <= u => \E j \in k..(k + Gap - 1) : j \in used}

\* An address that was not read again really is unused on the chain the balance is
\* shown for, though blocks and forks came between the scan and the pass.
ReuseIsSafe == pc = "shown" => reused \cap chain[begun] = {}

\* A recovery during which the chain stood still has found every address within the
\* gap, and the pass has read all of them.
RecoveryIsComplete ==
    pc = "shown" /\ DOMAIN chain = {1} => Found(chain[1]) = read

RecoveryIsRight == ReuseIsSafe /\ RecoveryIsComplete
=============================================================================
