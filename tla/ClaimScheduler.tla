--------------------------- MODULE ClaimScheduler ---------------------------
(***************************************************************************)
(* The order of connection attempts (ClaimScheduler of                     *)
(* src/core/claim-scheduler.mjs): fair turns over the domains alternate    *)
(* with economic ones, each on the best ready bounty.                      *)
(*                                                                         *)
(* The scheduler answers from what it has indexed: the ready bounties, the *)
(* leader of each domain and a heap of deadlines, all updated in small     *)
(* steps as its caller reports changes.  The caller may report anything in *)
(* any order.  A bounty's score is a number, its domain's name too; ties   *)
(* go to the smaller bounty.  Module SchedulerIndex has the trees and the  *)
(* heap.                                                                   *)
(***************************************************************************)
EXTENDS Naturals, FiniteSets

CONSTANTS
    Score,         \* domainPriority of each bounty, a number; the bounties are its domain
    DomainOf,      \* the domain of each bounty, a number above 0
    Timed,         \* bound: the bounties that are given deadlines
    MaxTime,       \* bound: the clock
    MaxTokens      \* bound: selections not yet committed

Jobs    == DOMAIN Score
Domains == {DomainOf[j] : j \in Jobs}
Times   == 0..MaxTime

VARIABLES
    job,                     \* the caller's jobs: prepared, due
    entry,                   \* this.entries: what was indexed of them
    leader, preparedLeader,  \* group.leader, group.preparedLeader; 0 if there is none
    waiting,                 \* this.waiting, the heap of deadlines
    groups,                  \* domains of the last rebuild's entries
    domainGates,
    domainAfter, preferReward,
    tokens,                  \* selections handed out
    now

indexVars == <<entry, leader, preparedLeader, waiting>>
gateVars  == <<groups, domainGates>>
turnVars  == <<domainAfter, preferReward, tokens>>
vars      == <<job, indexVars, gateVars, turnVars, now>>

NoEntry == [on |-> FALSE, allowed |-> FALSE, due |-> 0, active |-> FALSE, prepared |-> FALSE]
Entry   == [on : BOOLEAN, allowed : BOOLEAN, due : Times, active : BOOLEAN, prepared : BOOLEAN]
NoGate  == [set |-> FALSE, ready |-> TRUE, due |-> 0]
Token   == [job : Jobs, domain : Domains, economic : BOOLEAN, fresh : BOOLEAN]

Init ==
    /\ job = [j \in Jobs |-> [prepared |-> FALSE, due |-> 0]]
    /\ entry = [j \in Jobs |-> NoEntry]
    /\ leader = [d \in Domains |-> 0] /\ preparedLeader = [d \in Domains |-> 0]
    /\ waiting = {} /\ groups = {} /\ domainGates = [d \in Domains |-> NoGate]
    /\ domainAfter = 0 /\ preferReward = FALSE /\ tokens = {}
    /\ now = 0

----------------------------------------------------------------------------
(* The index *)

\* compareClaimPriority after the score.
Better(a, b) == Score[a] > Score[b] \/ (Score[a] = Score[b] /\ a < b)
Best(S) == IF S = {} THEN 0 ELSE CHOOSE j \in S : \A k \in S \ {j} : Better(j, k)

GateOpen(g) == g.ready /\ g.due <= now

\* refreshGroup(): the leaders of these domains, from the flags that were indexed.
Lead(old, ds, S, gates) ==
    [d \in Domains |-> IF d \notin ds THEN old[d]
                       ELSE IF GateOpen(gates[d]) THEN Best({j \in S : DomainOf[j] = d}) ELSE 0]
RefreshGroups(ds, e, gates) ==
    /\ leader' = Lead(leader, ds, {j \in Jobs : e[j].active}, gates)
    /\ preparedLeader' = Lead(preparedLeader, ds, {j \in Jobs : e[j].prepared}, gates)

JobTimer(j, due)    == [kind |-> "job", of |-> j, due |-> due]
DomainTimer(d, due) == [kind |-> "domain", of |-> d, due |-> due]

\* waiting.set() or waiting.remove() for one bounty or domain.
Rearm(w, timer, on) == {t \in w : <<t.kind, t.of>> # <<timer.kind, timer.of>>} \cup (IF on THEN {timer} ELSE {})

\* Faulty variant: a change of the cached proposal alone is not looked at.
Changed_ActiveOnly(old, new) == old.active # new.active

\* setActive(): the group is refreshed only if a flag changed.
Changed(old, new) == old.active # new.active \/ old.prepared # new.prepared

\* The index after these entries were set active or not.
SetActive(e) ==
    /\ entry' = e
    /\ RefreshGroups({DomainOf[j] : j \in {k \in Jobs : Changed(entry[k], e[k])}}, e, domainGates)

\* Faulty variant: a bounty that waits is indexed as prepared.
Flags_Loose(en, active, prepared) == [en EXCEPT !.active = active, !.prepared = prepared]

Flags(en, active, prepared) == [en EXCEPT !.active = active, !.prepared = active /\ prepared]

----------------------------------------------------------------------------
(* Reports of the caller *)

\* rebuild() from a queue with bounties of the tracked domains: the listed ones are
\* eligible and worth an attempt, ready or not.
Rebuild(listed, ready, tracked) ==
    LET e == [j \in Jobs |->
                IF j \in listed
                THEN Flags([NoEntry EXCEPT !.on = TRUE, !.allowed = (j \in ready), !.due = job[j].due],
                           j \in ready /\ job[j].due <= now, job[j].prepared)
                ELSE NoEntry]
        inGroup == {DomainOf[j] : j \in listed}
        gates == [d \in Domains |-> IF d \in tracked THEN domainGates[d] ELSE NoGate]
    IN  /\ inGroup \subseteq tracked
        /\ entry' = e /\ groups' = inGroup /\ domainGates' = gates
        /\ RefreshGroups(Domains, e, gates)
        /\ waiting' = {JobTimer(j, e[j].due) : j \in {k \in listed : e[k].allowed /\ e[k].due > now}}
                      \cup {DomainTimer(d, gates[d].due) : d \in {g \in inGroup : gates[g].ready /\ gates[g].due > now}}
        /\ UNCHANGED <<job, turnVars, now>>

\* setReady().
SetReady(j, ready, due) ==
    LET e == Flags([entry[j] EXCEPT !.allowed = ready, !.due = due], ready /\ due <= now, job[j].prepared)
    IN  /\ entry[j].on
        /\ job' = [job EXCEPT ![j].due = due]
        /\ SetActive([entry EXCEPT ![j] = e])
        /\ waiting' = Rearm(waiting, JobTimer(j, due), ready /\ due > now)
        /\ UNCHANGED <<gateVars, turnVars, now>>

\* The proposal of a job is cached or dropped; refreshPrepared().
RefreshPrepared(j) ==
    /\ job' = [job EXCEPT ![j].prepared = ~@]
    /\ IF entry[j].on
       THEN SetActive([entry EXCEPT ![j] = Flags(@, @.active, job'[j].prepared)]) /\ UNCHANGED waiting
       ELSE UNCHANGED indexVars
    /\ UNCHANGED <<gateVars, turnVars, now>>

\* remove().
Remove(j) ==
    /\ entry[j].on
    /\ SetActive([entry EXCEPT ![j] = NoEntry])
    /\ waiting' = Rearm(waiting, JobTimer(j, 0), FALSE)
    /\ UNCHANGED <<job, gateVars, turnVars, now>>

\* setDomainReady() and armDomain(); a gate is remembered without a group.
SetDomainReady(d, ready, due) ==
    LET g == [domainGates EXCEPT ![d] = [set |-> TRUE, ready |-> ready, due |-> due]]
    IN  /\ d \in groups \/ domainGates[d].set
        /\ domainGates' = g
        /\ RefreshGroups({d} \cap groups, entry, g)
        /\ waiting' = IF d \in groups THEN Rearm(waiting, DomainTimer(d, due), ready /\ due > now) ELSE waiting
        /\ UNCHANGED <<job, entry, groups, turnVars, now>>

----------------------------------------------------------------------------
(* Selection *)

\* Faulty variant: only the timers of bounties are promoted.
Elapsed_Jobs == {t \in waiting : t.kind = "job" /\ t.due <= now}

\* The timers promote() takes off the heap.
Elapsed == {t \in waiting : t.due <= now}

\* promote(): bounties whose time has come are active, domains are looked at again.
Promoted ==
    [j \in Jobs |-> IF \E t \in Elapsed : t.kind = "job" /\ t.of = j
                    THEN Flags(entry[j], entry[j].allowed, job[j].prepared) ELSE entry[j]]
Touched == {DomainOf[j] : j \in {k \in Jobs : Changed(entry[k], Promoted[k])}}
           \cup {t.of : t \in {u \in Elapsed : u.kind = "domain"}}

\* Faulty variant: the fair turn stays with the domain that had the last one.
After_Same(ds, after) == {d \in ds : d >= after}

\* upperBound(names, domainAfter).
After(ds, after) == {d \in ds : d > after}

First(ds) == CHOOSE d \in ds : \A f \in ds : d <= f

\* What next() finds in the index, in a turn of this kind after this domain; 0 for
\* nothing.  Without room for preparations it uses the leaders that are prepared.
Found(allowPreparation, economic, after) ==
    LET lead  == IF allowPreparation THEN Lead(leader, Touched, {j \in Jobs : Promoted[j].active}, domainGates)
                 ELSE Lead(preparedLeader, Touched, {j \in Jobs : Promoted[j].prepared}, domainGates)
        ready == {d \in Domains : lead[d] # 0}
        later == After(ready, after)
    IN  IF ready = {} THEN 0
        ELSE IF economic THEN Best({lead[d] : d \in ready})
        ELSE lead[First(IF later # {} THEN later ELSE ready)]

\* next(): deadlines are promoted and a selection is handed out.
NextReady(allowPreparation) ==
    LET top == Found(allowPreparation, preferReward, domainAfter)
    IN  /\ top = 0 \/ Cardinality(tokens) < MaxTokens
        /\ entry' = Promoted /\ waiting' = waiting \ Elapsed
        /\ RefreshGroups(Touched, Promoted, domainGates)
        /\ tokens' = IF top = 0 THEN tokens
                     ELSE tokens \cup {[job |-> top, domain |-> DomainOf[top], economic |-> preferReward, fresh |-> TRUE]}
        /\ UNCHANGED <<job, gateVars, domainAfter, preferReward, now>>

\* Faulty variant: a selection that was overtaken takes a turn too.
Commits_Stale(t) == TRUE

\* A selection of an earlier turn is void.
Commits(t) == t.fresh

\* commit(): the turn is consumed once.
Commit(t) ==
    /\ IF Commits(t)
       THEN /\ domainAfter' = IF t.economic THEN domainAfter ELSE t.domain
            /\ preferReward' = ~t.economic
            /\ tokens' = {[u EXCEPT !.fresh = FALSE] : u \in tokens \ {t}}
       ELSE tokens' = tokens \ {t} /\ UNCHANGED <<domainAfter, preferReward>>
    /\ UNCHANGED <<job, indexVars, gateVars, now>>

\* A selection is dropped before its connection is dispatched.
Drop(t) ==
    /\ tokens' = tokens \ {t}
    /\ UNCHANGED <<job, indexVars, gateVars, domainAfter, preferReward, now>>

\* clear({ preserveSelection: false }).
Clear ==
    /\ entry' = [j \in Jobs |-> NoEntry] /\ waiting' = {}
    /\ leader' = [d \in Domains |-> 0] /\ preparedLeader' = [d \in Domains |-> 0]
    /\ groups' = {} /\ domainGates' = [d \in Domains |-> NoGate]
    /\ domainAfter' = 0 /\ preferReward' = FALSE
    /\ tokens' = {[t EXCEPT !.fresh = FALSE] : t \in tokens}
    /\ UNCHANGED <<job, now>>

Tick == now < MaxTime /\ now' = now + 1 /\ UNCHANGED <<job, indexVars, gateVars, turnVars>>

Next ==
    \/ \E listed \in SUBSET Jobs, tracked \in SUBSET Domains : \E ready \in SUBSET listed : Rebuild(listed, ready, tracked)
    \/ \E j \in Jobs : RefreshPrepared(j) \/ Remove(j)
    \/ \E j \in Jobs, ready \in BOOLEAN, due \in Times : 
            (ready \/ due = job[j].due) /\ (j \in Timed \/ due = 0) /\ SetReady(j, ready, due)
    \/ \E d \in Domains, due \in Times : SetDomainReady(d, TRUE, due)
    \/ \E d \in Domains : SetDomainReady(d, FALSE, 0)
    \/ \E allowPreparation \in BOOLEAN : NextReady(allowPreparation)
    \/ \E t \in tokens : Commit(t) \/ Drop(t)
    \/ Clear \/ Tick

Spec == Init /\ [][Next]_vars

\* The engine keeps selecting, and dispatches what it selected.
FairSpec ==
    /\ Spec /\ WF_vars(NextReady(TRUE))
    /\ \A fresh \in BOOLEAN : SF_vars(\E t \in tokens : t.fresh = fresh /\ Commit(t))
----------------------------------------------------------------------------
(* Properties *)

\* Types; a bounty is indexed as prepared only if it is active, and has one deadline.
TypeOK ==
    /\ job \in [Jobs -> [prepared : BOOLEAN, due : Times]] /\ entry \in [Jobs -> Entry]
    /\ leader \in [Domains -> Jobs \cup {0}] /\ preparedLeader \in [Domains -> Jobs \cup {0}]
    /\ groups \subseteq Domains /\ domainGates \in [Domains -> [set : BOOLEAN, ready : BOOLEAN, due : Times]]
    /\ domainAfter \in Domains \cup {0} /\ preferReward \in BOOLEAN
    /\ tokens \subseteq Token /\ now \in Times
    /\ \A j \in Jobs : entry[j].prepared => entry[j].active
    /\ \A t, u \in waiting : t.kind = u.kind /\ t.of = u.of => t = u

\* What the reports so far say of a bounty, without any index.
IsReady(j, allowPreparation) ==
    /\ entry[j].on /\ entry[j].allowed /\ entry[j].due <= now
    /\ domainGates[DomainOf[j]].ready /\ domainGates[DomainOf[j]].due <= now
    /\ allowPreparation \/ job[j].prepared

\* The choice of a scheduler that looks at every bounty.
DirectChoice(allowPreparation, economic, after) ==
    LET ready == {j \in Jobs : IsReady(j, allowPreparation)}
        ds    == {DomainOf[j] : j \in ready}
        later == {d \in ds : d > after}
        turn  == First(IF later # {} THEN later ELSE ds)
    IN  IF ready = {} THEN 0
        ELSE IF economic THEN Best(ready) ELSE Best({j \in ready : DomainOf[j] = turn})

\* next() returns what a scan of all bounties would, whatever was indexed, in which
\* order changes were reported and whichever deadlines passed in between.
PickIsBest ==
    \A allow, economic \in BOOLEAN, after \in Domains \cup {0} :
        Found(allow, economic, after) = DirectChoice(allow, economic, after)

\* Fair and economic turns alternate: a connection never spends a turn of the other
\* kind, or one that was already spent, however late it is committed.
TurnIsSpent ==
    \A t \in tokens : Commit(t) /\ <<domainAfter', preferReward'>> # <<domainAfter, preferReward>>
          => t.economic = preferReward /\ preferReward' = ~preferReward
TurnsAlternate == [][TurnIsSpent]_vars

DomainReady(d) == \E j \in Jobs : DomainOf[j] = d /\ IsReady(j, FALSE)

\* A domain with a prepared bounty that stays ready is given fair turns for ever: no richer domain starves it.
NoDomainStarves ==
    \A d \in Domains :
        <>[]DomainReady(d) => []<><<\E t \in tokens : t.domain = d /\ ~t.economic /\ t.fresh /\ Commit(t)>>_vars
=============================================================================
