-------------------------------- MODULE MCMoney ------------------------------
(***************************************************************************)
(* Payments: those of one output with locks, restarts, receive addresses   *)
(* and saves that fail, those of one session that compete for two outputs, *)
(* the plan a payment is reviewed by, and the parents read, parsed and     *)
(* kept to fund it.  With them what there is to pay from and to claim: the *)
(* accounts the wallet derives, those a recovery finds in use, and the     *)
(* bounties it discovers, at a server that sends rows and counts with its  *)
(* pages and at one that does not.                                         *)
(***************************************************************************)
EXTENDS PaymentSession

CONSTANT Nothing   \* no run, snapshot or cursor of a discovery

BlockCounts == <<1, 0, 2>>

\* Coins around the amounts of a payment and of its fee, in the states the wallet tells apart.
PlanRows ==
    {[amount |-> a, kind |-> "free"] : a \in {131300, 600000, 1130908, 1180447}}
    \cup {[amount |-> a, kind |-> "pending"] : a \in {131300, 1180446}}
    \cup {[amount |-> 1180447, kind |-> k] : k \in {"reserved", "immature"}}
PlanContents == {<<>>} \cup {<<r>> : r \in PlanRows}
    \cup {<<r, [amount |-> 600000, kind |-> k]>> : r \in PlanRows, k \in {"free", "pending"}}

VARIABLES inst,   \* the component this behaviour is of
          wallet, options, left, utxos, pending, over, insufficient, pResult, built, context,
          cache, reads, fPending, rawFunding, batches, waits, review, entries, bytes, calls,
          aEpoch, aWallet, aIssued, used, derivation, accounts, builds, build, aCalls, qr,
          chain, tip, known, rPc, begun, at, gap, last, empty, stable, reused, read, needs,
          bChain, status, journal, floor, changes, notice, run, pub, cursor, anchor, gate, engine,
          link, drops

P == INSTANCE PaymentPlan WITH
    Contents <- PlanContents, Amounts <- {131300, 1000000}, Rate <- 1201, DomainLength <- 11,
    MaxInputs <- 2, MaxWeight <- 800, MaxFee <- 220000, result <- pResult
F == INSTANCE FundingReads WITH
    Tx <- {"a", "b"}, Selections <- {<<"a", "b", "a">>}, Oversized <- {}, MaxEntries <- 1,
    MaxPending <- 2, BatchSize <- 2, MaxReads <- 2, MaxContexts <- 2, pending <- fPending
L == INSTANCE FundingCache WITH
    Charge <- <<2, 3, 4, 7>>, MaxEntries <- 2, MaxBytes <- 6, MaxCalls <- 6

A == INSTANCE AccountRange WITH
    Gap <- 1, MaxIssued <- 1, MaxEpochs <- 5, MaxBuilds <- 4,
    epoch <- aEpoch, wallet <- aWallet, issued <- aIssued, calls <- aCalls
V == INSTANCE Recovery WITH
    Addresses <- {1, 2, 3}, Gap <- 2, MaxTips <- 2, pc <- rPc

B == INSTANCE BountyDiscovery WITH
    Forks <- {"f1", "f2"}, Counts <- BlockCounts, Lookback <- 2, Deltas <- TRUE, PageSize <- 1,
    MaxPages <- 4, MaxRestarts <- 2, MaxDelta <- 1, MaxChanges <- 3, MaxDrops <- 1,
    None <- Nothing, chain <- bChain
D == INSTANCE BountyDiscovery WITH
    Forks <- {"f1", "f2"}, Counts <- BlockCounts, Lookback <- 2, Deltas <- FALSE, PageSize <- 1,
    MaxPages <- 4, MaxRestarts <- 2, MaxDelta <- 1, MaxChanges <- 3, MaxDrops <- 0,
    None <- Nothing, chain <- bChain

planVars == <<wallet, options, left, utxos, pending, over, insufficient, pResult, built>>
parentsVars == <<context, cache, reads, fPending, rawFunding, batches, waits, review>>
parsedVars == <<entries, bytes, calls>>
rangeVars == <<aEpoch, aWallet, aIssued, used, derivation, accounts, builds, build, aCalls, qr>>
recoveryVars == <<chain, tip, known, rPc, begun, at, gap, last, empty, stable, reused, read,
                  needs>>
addressVars == <<rangeVars, recoveryVars>>
bountyVars == <<bChain, status, journal, floor, changes, notice, run, pub, cursor, anchor, gate,
                engine, link, drops>>
paymentVars == <<vars, planVars, parentsVars, parsedVars>>

\* A discovery starts with as many blocks as are searched; their names are interchangeable.
AnyInit ==
    /\ inst \in {"record", "inputs", "plan", "parents", "parsed", "range", "recovery", "deltas",
                "legacy"}
    /\ inst # "plan" =>
         /\ wallet = [a \in P!Accounts |-> <<>>]
         /\ options = [amount |-> 131300, type |-> 1, deduct |-> FALSE, allowPending |-> FALSE]
    /\ inst # "recovery" => chain = [t \in {1} |-> {}]
    /\ bChain = <<"f1", "f1">>
    /\ Init
    /\ P!Init
    /\ F!Init
    /\ L!Init
    /\ A!Init
    /\ V!Init
    /\ B!Init

AnyNext ==
    \/ /\ inst = "record" /\ Next /\ UNCHANGED <<inst, planVars, parentsVars, parsedVars, addressVars, bountyVars>>
       /\ made' < MaxPayments /\ (preview' # NoPayment => preview'.inputs = {"u1"})
    \/ /\ inst = "inputs" /\ Next /\ UNCHANGED <<inst, planVars, parentsVars, parsedVars, addressVars, bountyVars>>
       /\ epoch' = 0 /\ data'.receive = 0
    \/ inst = "plan" /\ P!Next /\ UNCHANGED <<inst, vars, parentsVars, parsedVars, addressVars, bountyVars>>
    \/ inst = "parents" /\ F!Next /\ UNCHANGED <<inst, vars, planVars, parsedVars, addressVars, bountyVars>>
    \/ inst = "parsed" /\ L!Next /\ UNCHANGED <<inst, vars, planVars, parentsVars, addressVars, bountyVars>>
    \/ inst = "range" /\ A!Next /\ UNCHANGED <<inst, paymentVars, recoveryVars, bountyVars>>
    \/ inst = "recovery" /\ V!Next /\ UNCHANGED <<inst, paymentVars, rangeVars, bountyVars>>
    \/ inst = "deltas" /\ B!Next /\ UNCHANGED <<inst, paymentVars, addressVars>>
    \/ inst = "legacy" /\ D!Next /\ UNCHANGED <<inst, paymentVars, addressVars>>

all == <<inst, paymentVars, addressVars, bountyVars>>
AnySpec == AnyInit /\ [][AnyNext]_all

\* The event queue repeats a discovery until one succeeds, and the client reconnects.
MoneySpec ==
    /\ AnySpec
    /\ WF_bountyVars(inst = "deltas" /\ B!Proceeds) /\ WF_bountyVars(inst = "deltas" /\ B!ResetNotice)
    /\ WF_bountyVars(inst = "legacy" /\ D!Proceeds) /\ WF_bountyVars(inst = "legacy" /\ D!ResetNotice)

\* What is signed is what was reviewed, and a payment is refused only when no choice of coins
\* the search may make pays for it.
PlanIsRight == P!PlanIsRight

\* Parents are read once, kept for the session that read them only, and a review goes on only with
\* all of them; what is kept of parsed ones is counted exactly.
FundingIsOwn == F!FundingIsOwn /\ L!ChargesAreExact

\* The accounts the wallet holds are derived for the session that is open, once all builds ended
\* they cover every address that was issued with its gap; a recovery reuses an empty page only
\* on the chain it was read on, and ends with every used address found.
AddressesAreRight == A!RangeIsRight /\ V!RecoveryIsRight

\* With either kind of server, what is published is exactly what the server had when it answered
\* the page whose cursor is published, and bounties are attempted only on a snapshot of its chain,
\* unless a reset notice is still on its way: nothing that a reset, a lost connection or a lock
\* made void is published.
EveryPublicationExact == B!PublishedIsExact /\ B!OpenIsCurrent

\* When the server comes to rest and the wallet stays unlocked, its catalog catches up and opens.
EveryCatalogCatchesUp == inst \in {"deltas", "legacy"} => B!CatchesUp
=============================================================================
