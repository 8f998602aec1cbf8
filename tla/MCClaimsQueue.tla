----------------------------- MODULE MCClaimsQueue ---------------------------
(***************************************************************************)
(* What the claims work on, and whether they do: the settings they obey;   *)
(* and the order in which bounties are tried, on four instances, the       *)
(* scheduler's indexes with deadlines, its turns with selections that are  *)
(* committed late, and the tree and the heap the indexes are made of.      *)
(***************************************************************************)
EXTENDS ClaimSettings

VARIABLES inst,   \* the component this behaviour is of
          job, entry, leader, preparedLeader, waiting, groups, domainGates, domainAfter,
          preferReward, tokens, now, tJob, tEntry, tLeader, tPreparedLeader, tWaiting, tGroups,
          tDomainGates, tDomainAfter, tPreferReward, tTokens, tNow, tree, total, ready, items,
          indices, held, hTree, hTotal, hReady, hItems, hIndices, hHeld

\* Two bounties of one domain and one of another, two of them equally good.
P == INSTANCE ClaimScheduler WITH
    Score <- <<1, 2, 2>>, DomainOf <- <<1, 1, 2>>, Timed <- {2}, MaxTime <- 1, MaxTokens <- 0
T == INSTANCE ClaimScheduler WITH
    Score <- <<1, 2>>, DomainOf <- <<1, 2>>, Timed <- {}, MaxTime <- 0, MaxTokens <- 2,
    job <- tJob, entry <- tEntry, leader <- tLeader, preparedLeader <- tPreparedLeader,
    waiting <- tWaiting, groups <- tGroups, domainGates <- tDomainGates,
    domainAfter <- tDomainAfter, preferReward <- tPreferReward, tokens <- tTokens, now <- tNow
I == INSTANCE SchedulerIndex WITH
    N <- 6, Keys <- {"k1"}, Values <- {0}
H == INSTANCE SchedulerIndex WITH
    N <- 1, Keys <- {"k1", "k2", "k3", "k4", "k5", "k6"}, Values <- {0, 1}, tree <- hTree,
    total <- hTotal, ready <- hReady, items <- hItems, indices <- hIndices, held <- hHeld

pickVars == <<job, entry, leader, preparedLeader, waiting, groups, domainGates, domainAfter,
              preferReward, tokens, now>>
turnsVars == <<tJob, tEntry, tLeader, tPreparedLeader, tWaiting, tGroups, tDomainGates,
               tDomainAfter, tPreferReward, tTokens, tNow>>
treeVars == <<tree, total, ready, items, indices, held>>
heapVars == <<hTree, hTotal, hReady, hItems, hIndices, hHeld>>

AnyInit ==
    /\ inst \in {"settings", "pick", "turns", "tree", "heap"}
    /\ Init
    /\ P!Init
    /\ T!Init
    /\ I!Init
    /\ H!Init
    /\ inst # "settings" => config = [host |-> "h1", enabled |-> TRUE]
    /\ inst # "tree" => ready = {}
    /\ inst # "heap" => hReady = {}

AnyNext ==
    \/ inst = "settings" /\ Next /\ UNCHANGED <<inst, pickVars, turnsVars, treeVars, heapVars>>
    \/ inst = "pick" /\ P!Next /\ UNCHANGED <<inst, vars, turnsVars, treeVars, heapVars>>
    \/ inst = "turns" /\ T!Next /\ UNCHANGED <<inst, vars, pickVars, treeVars, heapVars>>
    \/ inst = "tree" /\ I!Next /\ UNCHANGED <<inst, vars, pickVars, turnsVars, heapVars>>
    \/ inst = "heap" /\ H!Next /\ UNCHANGED <<inst, vars, pickVars, turnsVars, treeVars>>

all == <<inst, vars, pickVars, turnsVars, treeVars, heapVars>>
AnySpec == AnyInit /\ [][AnyNext]_all

\* Fair and economic turns alternate: a connection never spends a turn of the other
\* kind, or one that was already spent, however late it is committed.
TurnsInOrder == [][inst = "turns" => T!TurnIsSpent]_all

\* The pick is the best of what may be tried, whatever was updated before; after any sequence of
\* updates the tree counts and finds the ready positions, and the heap answers its least value and
\* knows the place of every key.
BestIsPicked == P!PickIsBest /\ I!CountsMatch /\ I!KthIsFound /\ H!PeekIsLeast /\ H!PlacesMatch
=============================================================================
