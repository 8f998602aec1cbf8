------------------------------ MODULE ClaimDns ------------------------------
(***************************************************************************)
(* Name lookups of the claims engine (src/core/claims-engine.mjs): a       *)
(* domain needs a recent lookup before its bounties are attempted.  While  *)
(* two lookups run the other domains wait.  While a domain is looked up or *)
(* waits, its gate in the scheduler is closed.                             *)
(*                                                                         *)
(* The gate is kept in two places: in the scheduler's domainGates, pruned  *)
(* by rebuilds, and in the group of the last rebuild.  Catalogs come and   *)
(* go between rebuilds, because the pump selects nothing while its         *)
(* connections are at their limit.  The bounties of a domain are one: out  *)
(* of the queue, in it, or retired and only waiting for a lookup to end.   *)
(*                                                                         *)
(* The lookups in flight are counted by a set of domains, and a rebuild    *)
(* forgets the gates of domains that are gone, so a domain that leaves the *)
(* catalog and comes back before its lookup ended is looked up a second    *)
(* time, and one that leaves while it waits and comes back before a        *)
(* rebuild finds its gate closed by nothing.  EarlyReturns says whether    *)
(* domains come back that early: with it AtMostLimit and NoOrphanGate do   *)
(* not hold.                                                               *)
(***************************************************************************)
EXTENDS Naturals, FiniteSets, FiniteSetsExt

CONSTANTS
    Domains,
    Limit,          \* lookups at a time: 2 in the code
    MaxCatalogs,    \* bound: catalogs published
    MaxHalts,       \* bound: suspensions
    EarlyReturns    \* a domain may come back while its gate is closed or its lookup runs

VARIABLES
    queue,          \* what this.queue has of each domain
    dirty,
    listed,         \* domains with an entry in the scheduler
    groups,         \* gates of the last rebuild's groups: "open", "closed", "none"
    domainGates,    \* remembered gates
    waitingDns, resolving,
    lookups,        \* lookups in flight, by domain
    dns,            \* cached answer: "none", "ok", "failed"
    halting,
    catalogs, halts

schedVars == <<listed, groups, domainGates>>
vars == <<queue, dirty, schedVars, waitingDns, resolving, lookups, dns, halting, catalogs, halts>>

Init ==
    /\ queue = [d \in Domains |-> "out"] /\ dirty = TRUE
    /\ listed = {} /\ groups = [d \in Domains |-> "none"] /\ domainGates = [d \in Domains |-> "none"]
    /\ waitingDns = {} /\ resolving = {} /\ lookups = [d \in Domains |-> 0]
    /\ dns = [d \in Domains |-> "none"] /\ halting = FALSE
    /\ catalogs = 0 /\ halts = 0

Running == FoldSet(LAMBDA d, n : lookups[d] + n, 0, Domains)

----------------------------------------------------------------------------
(* The scheduler's side *)

\* setDomainReady(): nothing for a domain that is not known at all.
Known(d) == groups[d] # "none" \/ domainGates[d] # "none"

\* setDomainReady(d, false), for a domain that was just selected.
Close(d) == domainGates' = [domainGates EXCEPT ![d] = "closed"] /\ groups' = [groups EXCEPT ![d] = "closed"]

\* The domains whose gates a rebuild keeps.
Tracked == {d \in Domains : queue[d] # "out"}

\* rebuild(): the domains S have a bounty that is worth an attempt.
Rebuild(S) ==
    /\ dirty /\ ~halting
    /\ S \subseteq {d \in Domains : queue[d] = "in"}
    /\ listed' = S /\ dirty' = FALSE
    /\ domainGates' = [d \in Domains |-> IF d \in Tracked THEN domainGates[d] ELSE "none"]
    /\ groups' = [d \in Domains |-> IF d \notin S THEN "none"
                                   ELSE IF domainGates[d] = "none" THEN "open" ELSE domainGates[d]]
    /\ UNCHANGED <<queue, waitingDns, resolving, lookups, dns, halting, catalogs, halts>>

\* The interval of start().
Refresh == ~dirty /\ ~halting /\ dirty' = TRUE
           /\ UNCHANGED <<queue, schedVars, waitingDns, resolving, lookups, dns, halting, catalogs, halts>>

----------------------------------------------------------------------------
(* The pump and the lookups *)

\* Faulty variant: one lookup too many.
Free_OffByOne == Cardinality(resolving) <= Limit

Free == Cardinality(resolving) < Limit

Selectable(d) == ~halting /\ ~dirty /\ d \in listed /\ groups[d] = "open"

\* No recent answer and no free lookup.
WaitForLookup(d) ==
    /\ Selectable(d) /\ dns[d] = "none" /\ ~Free
    /\ waitingDns' = waitingDns \cup {d}
    /\ Close(d)
    /\ UNCHANGED <<queue, dirty, listed, resolving, lookups, dns, halting, catalogs, halts>>

\* resolveJob().
Resolve(d) ==
    /\ Selectable(d) /\ dns[d] = "none" /\ Free
    /\ resolving' = resolving \cup {d} /\ lookups' = [lookups EXCEPT ![d] = @ + 1]
    /\ Close(d)
    /\ UNCHANGED <<queue, dirty, listed, waitingDns, dns, halting, catalogs, halts>>

\* Faulty variant: the slot that became free opens the gate of one domain, and the others wait on.
Woken_One(rest) == IF Cardinality(rest) >= Limit \/ waitingDns = {} THEN {} ELSE {CHOOSE d \in waitingDns : TRUE}

\* refreshDnsReadiness(): the domains that are woken when these are resolving.  The pump
\* calls it too, and finds nothing to do: NoIdleLookup.
Woken(rest) == IF Cardinality(rest) >= Limit THEN {} ELSE waitingDns \ rest

\* The gates after these domains were woken: forgotten, then opened.
Opened(awake) == [d \in Domains |-> IF d \notin awake THEN domainGates[d]
                                   ELSE IF groups[d] # "none" THEN "open" ELSE "none"]

\* The lookup of d ends.  Its answer counts unless it was cancelled; its slot and the
\* waiting domains are released either way, and a retired bounty leaves.
LookupEnds(d, ok) ==
    LET rest   == resolving \ {d}
        awake  == Woken(rest)
        opened == awake \cup IF halting THEN {} ELSE {d}
    IN  /\ lookups[d] > 0
        /\ lookups' = [lookups EXCEPT ![d] = @ - 1] /\ resolving' = rest
        /\ dns' = IF halting THEN dns ELSE [dns EXCEPT ![d] = IF ok THEN "ok" ELSE "failed"]
        /\ waitingDns' = waitingDns \ awake
        /\ domainGates' = IF d \in opened \ awake /\ Known(d) THEN [Opened(awake) EXCEPT ![d] = "open"] ELSE Opened(awake)
        /\ groups' = [e \in Domains |-> IF e \in opened /\ groups[e] # "none" THEN "open" ELSE groups[e]]
        /\ queue' = [queue EXCEPT ![d] = IF @ = "retired" /\ lookups[d] = 1 THEN "out" ELSE @]
        /\ UNCHANGED <<dirty, listed, halting, catalogs, halts>>

\* The cached answer is too old.
Expire(d) ==
    /\ dns[d] # "none" /\ dns' = [dns EXCEPT ![d] = "none"]
    /\ UNCHANGED <<queue, dirty, schedVars, waitingDns, resolving, lookups, halting, catalogs, halts>>

----------------------------------------------------------------------------
(* Catalogs and suspensions *)

\* A catalog with the domains S: bounties that left are removed, or retired while a
\* lookup of theirs is in flight; then retainCatalog() and enqueue().
Catalog(S, kept) ==
    LET stays == S \cup kept
    IN  /\ ~halting /\ catalogs < MaxCatalogs /\ catalogs' = catalogs + 1
        \* A bound on what the server does, not a guard of the code.
        /\ EarlyReturns \/ \A d \in S : queue[d] = "out" => domainGates[d] # "closed" /\ lookups[d] = 0
        /\ kept \subseteq {d \in Domains \ S : queue[d] # "out" /\ lookups[d] > 0}
        /\ queue' = [d \in Domains |-> IF d \in S THEN "in" ELSE IF d \in kept THEN "retired" ELSE "out"]
        /\ listed' = listed \cap S
        /\ waitingDns' = waitingDns \cap stays
        /\ dns' = [d \in Domains |-> IF d \in stays THEN dns[d] ELSE "none"]
        /\ dirty' = TRUE
        /\ UNCHANGED <<groups, domainGates, resolving, lookups, halting, halts>>

\* halt(): every lookup is cancelled.
Halt ==
    /\ ~halting /\ halts < MaxHalts
    /\ halting' = TRUE /\ halts' = halts + 1
    /\ UNCHANGED <<queue, dirty, schedVars, waitingDns, resolving, lookups, dns, catalogs>>

\* Faulty variant: the remembered gates survive the suspension.
Forgotten_Kept == domainGates

Forgotten == [d \in Domains |-> "none"]

\* The suspension is complete when every lookup has ended; resume() follows.
Drained ==
    /\ halting /\ Running = 0
    /\ halting' = FALSE /\ dirty' = TRUE
    /\ dns' = [d \in Domains |-> "none"] /\ domainGates' = Forgotten /\ waitingDns' = {}
    /\ UNCHANGED <<queue, listed, groups, resolving, lookups, catalogs, halts>>

Next ==
    \/ \E S \in SUBSET Domains : Rebuild(S)
    \/ \E S, kept \in SUBSET Domains : Catalog(S, kept)
    \/ \E d \in Domains : WaitForLookup(d) \/ Resolve(d) \/ Expire(d)
    \/ \E d \in Domains, ok \in BOOLEAN : LookupEnds(d, ok)
    \/ Refresh \/ Halt \/ Drained

Spec == Init /\ [][Next]_vars

\* The pump runs on and reaches every domain it may select; the helper answers.
FairSpec ==
    /\ Spec /\ WF_vars(Drained) /\ WF_vars(\E S \in SUBSET Domains : Rebuild(S))
    /\ \A d \in Domains : /\ WF_vars(\E ok \in BOOLEAN : LookupEnds(d, ok))
                          /\ SF_vars(Resolve(d))

----------------------------------------------------------------------------
(* Properties *)

\* A closed gate that is remembered is one that something will open: its domain is looked up or
\* waits for a lookup.  Otherwise new bounties of the domain would inherit a permanent pause.
\* Without early returns only.
NoOrphanGate ==
    ~halting => \A d \in Domains : domainGates[d] = "closed" /\ queue[d] = "in" => d \in waitingDns \/ lookups[d] > 0

\* No domain waits beside a free lookup: the end of one wakes them all, also those whose
\* bounties a rebuild left out.
NoIdleLookup == Woken(resolving) = {}

\* The engine's limit bounds the lookups that really run, not only the domains it counts.
\* Without early returns only.
AtMostLimit == Running <= Limit

\* A domain whose bounties stay in the catalog and worth an attempt is looked up again and
\* again, although others compete for the lookups and every suspension forgets the answers.
EveryDomainResolves ==
    \A d \in Domains : <>[](queue[d] = "in" /\ (d \in listed \/ dirty)) => []<>(dns[d] # "none")
=============================================================================
