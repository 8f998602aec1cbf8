------------------------------- MODULE MCProgress ----------------------------
(***************************************************************************)
(* What must eventually happen in the wallet and its claims engine, on a   *)
(* small instance of each component: the fairness of each is that of its   *)
(* own module, for its own behaviours.  The name lookups have a second     *)
(* instance with the code's own limit.                                     *)
(***************************************************************************)
EXTENDS TipConfirmation

VARIABLES inst,   \* the component this behaviour is of
          e, pools, unlocked, fresh, faults,
          queue, dDirty, listed, groups, domainGates, waitingDns, resolving, lookups, dns,
          halting, catalogs, halts, config, disk, sQueue, op, session, unlocking, epoch,
          rpc, engine, gen, resume, resumePending, sWant, review, reviewGen, warned, asked,
          count

E == INSTANCE ClaimsLifecycle WITH MaxTasks <- 1, MaxGen <- 2, MaxFaults <- 1
D == INSTANCE ClaimDns WITH
    Domains <- {"d1", "d2"}, Limit <- 1, MaxCatalogs <- 4, MaxHalts <- 1,
    EarlyReturns <- FALSE, dirty <- dDirty
D2 == INSTANCE ClaimDns WITH
    Domains <- {"d1", "d2", "d3"}, Limit <- 2, MaxCatalogs <- 3, MaxHalts <- 0,
    EarlyReturns <- FALSE, dirty <- dDirty
S == INSTANCE ClaimSettings WITH
    Hosts <- {"h1"}, MaxClicks <- 1, MaxReviews <- 0, MaxLocks <- 1, MaxFaults <- 2,
    queue <- sQueue, want <- sWant

engineVars == <<e, pools, unlocked, fresh, faults>>
dnsVars == <<queue, dDirty, listed, groups, domainGates, waitingDns, resolving, lookups, dns,
             halting, catalogs, halts>>
settingsVars == <<config, disk, sQueue, op, session, unlocking, epoch, rpc, engine, gen, resume,
                  resumePending, sWant, review, reviewGen, warned, asked, count>>

AnyInit ==
    /\ inst \in {"engine", "dns", "limit", "settings", "tip"}
    /\ Init
    /\ E!Init
    /\ IF inst = "limit" THEN D2!Init ELSE D!Init
    /\ S!Init
    /\ inst # "settings" => config.enabled

AnyNext ==
    \/ inst = "engine" /\ E!Next /\ UNCHANGED <<inst, vars, dnsVars, settingsVars>>
    \/ inst = "dns" /\ D!Next /\ UNCHANGED <<inst, vars, engineVars, settingsVars>>
    \/ inst = "limit" /\ D2!Next /\ UNCHANGED <<inst, vars, engineVars, settingsVars>>
    \/ inst = "settings" /\ S!Next /\ UNCHANGED <<inst, vars, engineVars, dnsVars>>
    \/ inst = "tip" /\ Next /\ UNCHANGED <<inst, engineVars, dnsVars, settingsVars>>

all == <<inst, vars, engineVars, dnsVars, settingsVars>>
AnySpec == AnyInit /\ [][AnyNext]_all

EngineFairness ==
    /\ WF_engineVars(inst = "engine" /\ E!Coordinate) /\ WF_engineVars(inst = "engine" /\ E!RefreshFires)
    /\ WF_engineVars(inst = "engine" /\ E!PoolCloses) /\ WF_engineVars(inst = "engine" /\ E!Drains)
    /\ WF_engineVars(inst = "engine" /\ E!HaltEnds)
    /\ \A g \in E!Gens : WF_engineVars(inst = "engine" /\ E!PoolStarts(g))
    /\ \A i \in E!Slots : WF_engineVars(inst = "engine" /\ e.tasks[i].aborted /\ E!TaskEnds(i, "ok"))

LookupFairness ==
    /\ WF_dnsVars(inst = "dns" /\ D!Drained)
    /\ WF_dnsVars(inst = "dns" /\ \E new \in SUBSET {"d1", "d2"} : D!Rebuild(new))
    /\ \A d \in {"d1", "d2"} :
         /\ WF_dnsVars(inst = "dns" /\ \E ok \in BOOLEAN : D!LookupEnds(d, ok))
         /\ SF_dnsVars(inst = "dns" /\ D!Resolve(d))

SettingsFairness ==
    /\ WF_settingsVars(inst = "settings" /\ S!Drained) /\ WF_settingsVars(inst = "settings" /\ S!ApplyConfig)
    /\ WF_settingsVars(inst = "settings" /\ S!WriteConfig) /\ WF_settingsVars(inst = "settings" /\ S!AfterStop)
    /\ WF_settingsVars(inst = "settings" /\ S!OpEnds) /\ WF_settingsVars(inst = "settings" /\ S!ResumeWaits)
    /\ WF_settingsVars(inst = "settings" /\ S!ResumeStarts) /\ WF_settingsVars(inst = "settings" /\ S!BountyRun)

TipFairness ==
    /\ WF_vars(inst = "tip" /\ OnChange) /\ WF_vars(inst = "tip" /\ Connected)
    /\ WF_vars(inst = "tip" /\ CheckStarts) /\ WF_vars(inst = "tip" /\ CheckReadsTip)
    /\ WF_vars(inst = "tip" /\ CheckReadsHashes) /\ WF_vars(inst = "tip" /\ CheckEnds)
    /\ WF_vars(inst = "tip" /\ want /\ ReadStarts) /\ SF_vars(inst = "tip" /\ ReadAnswered)
    /\ SF_vars(inst = "tip" /\ ReadEnds)

ProgressSpec ==
    AnySpec /\ EngineFairness /\ LookupFairness /\ SettingsFairness /\ TipFairness

\* Every halt ends: the drain of a stop never waits for a pool or a task that nothing ends.
HaltCompletes == E!HaltCompletes

\* While no domain comes back to the catalog before its gate is open and its lookup has ended: a
\* closed gate always has a lookup that will open it, no domain waits beside a free lookup, no
\* more of them run than the engine allows, and a domain that stays worth an attempt is looked up
\* again and again, although others compete for the lookups and every suspension forgets the
\* answers.
DomainsResolve ==
    /\ [](/\ inst = "dns" => D!NoOrphanGate /\ D!NoIdleLookup /\ D!AtMostLimit
          /\ inst = "limit" => D2!NoOrphanGate /\ D2!NoIdleLookup /\ D2!AtMostLimit)
    /\ inst = "dns" => D!EveryDomainResolves

\* Claims that are switched on run again once the wallet is open and connected, whatever was
\* locked, lost or failed before; what is shown settles on the server's chain, with the reads
\* the change made necessary.
WalletSettles == (inst = "settings" => S!ClaimsResume) /\ (inst = "tip" => ShowsTheChain)
=============================================================================
