------------------------------- MODULE MCRecords -----------------------------
(***************************************************************************)
(* What the wallet keeps: its file, under crashes and foreign writers; and *)
(* the phone's journal of addresses, with groups of different sizes that   *)
(* two payments cross, and with single addresses, a journal that restarts  *)
(* and requests that fail.                                                 *)
(***************************************************************************)
EXTENDS Vault

CONSTANTS Out, Nothing   \* an address of somebody else; no refresh, no snapshot

TwoGroups == <<{"a", "b"}, {"c"}>>
Singles == <<{"a"}, {"b"}>>

VARIABLES inst,   \* the component this behaviour is of
          hist, hEpoch, tip, known, seeds, consumed, run, cand, part, replay, journal, shown,
          hFaults, renewed, jHist, jEpoch, jTip, jKnown, jSeeds, jConsumed, jRun, jCand, jPart, jReplay,
          jJournal, jShown, jFaults, jRenewed

H == INSTANCE HdJournal WITH
    Groups <- TwoGroups, NCoins <- 1, PageSize <- 1, Rounds <- 2, MaxMoves <- 2, MaxBlocks <- 0,
    MaxResets <- 0, MaxFaults <- 0, None <- Nothing, epoch <- hEpoch, faults <- hFaults
J == INSTANCE HdJournal WITH
    Groups <- Singles, NCoins <- 1, PageSize <- 1, Rounds <- 2, MaxMoves <- 1, MaxBlocks <- 0,
    MaxResets <- 1, MaxFaults <- 1, None <- Nothing, hist <- jHist, epoch <- jEpoch, tip <- jTip,
    known <- jKnown, seeds <- jSeeds, consumed <- jConsumed, run <- jRun, cand <- jCand,
    part <- jPart, replay <- jReplay, journal <- jJournal, shown <- jShown, faults <- jFaults,
    renewed <- jRenewed

momentsVars == <<hist, hEpoch, tip, known, seeds, consumed, run, cand, part, replay, journal,
                 shown, hFaults, renewed>>
faultyVars == <<jHist, jEpoch, jTip, jKnown, jSeeds, jConsumed, jRun, jCand, jPart, jReplay,
                jJournal, jShown, jFaults, jRenewed>>

AnyInit ==
    /\ inst \in {"file", "moments", "faulty"}
    /\ Init
    /\ H!Init
    /\ J!Init
    /\ inst # "file" => live["wallet"] = None
    /\ inst # "moments" => hist[1] = <<Out>> /\ known = 1 /\ seeds = <<Nothing, Nothing>>
    /\ inst # "faulty" => jHist[1] = <<Out>> /\ jKnown = 1 /\ jSeeds = <<Nothing, Nothing>>

AnyNext ==
    \/ inst = "file" /\ Next /\ UNCHANGED <<inst, momentsVars, faultyVars>>
    \/ inst = "moments" /\ H!Next /\ UNCHANGED <<inst, vars, faultyVars>>
    \/ inst = "faulty" /\ J!Next /\ UNCHANGED <<inst, vars, momentsVars>>

all == <<inst, vars, momentsVars, faultyVars>>
AnySpec == AnyInit /\ [][AnyNext]_all

\* Before and after faults: what is shown, partial or complete, is what the addresses held at one
\* moment of the server, and what the cached journal holds of a group it held at the group's own.
ShownIsOneMomentEverywhere == H!ShownIsOneMoment /\ H!JournalIsExact /\ J!ShownIsOneMoment

\* What may fund a payment was verified and belongs to the wallet.  After a lost watch, a reset or
\* a change of the accounts nothing is verified until a refresh that began later publishes it, and
\* a partial view funds payments only while the refresh that published it goes on from it.
FundingIsVerifiedEverywhere == H!FundingIsVerified /\ J!FundingIsVerified
=============================================================================
