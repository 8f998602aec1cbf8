---------------------------- MODULE ClaimSettings ----------------------------
(***************************************************************************)
(* Settings and the switch of Automatic Claims (queueSettings, applyConfig,*)
(* setClaims, resumeClaims and stopClaimsForReview in wallet-service.mjs). *)
(*                                                                         *)
(* Settings are merged and written one after the other in a queue.  An     *)
(* operation writes the file, waits for the claims engine to stop and then *)
(* reconnects or starts the engine again; meanwhile the wallet may be      *)
(* locked and unlocked, the connection lost, and an uncertain broadcast may*)
(* demand a review that only a later click dismisses.                      *)
(***************************************************************************)
EXTENDS Integers, Sequences

CONSTANTS
    Hosts,       \* RPC endpoints
    MaxClicks,   \* bound: settings changed by the user
    MaxReviews,  \* bound: uncertain broadcasts
    MaxLocks,    \* bound: locks
    MaxFaults    \* bound: lost connections, failed reads and failed writes

None == [none |-> TRUE]

VARIABLES
    config,     \* this.config: host and claims.enabled
    disk,       \* the settings file
    queue,      \* settings operations not started
    op,         \* the operation under way
    session,    \* a wallet is open
    unlocking,  \* None or the epoch an unlock captured
    epoch,
    rpc,        \* the client: its endpoint and identity
    engine,     \* on, and draining after a stop
    gen,        \* claimToggleGeneration
    resume,     \* the newest resumeClaims under way
    resumePending,
    want,       \* bountyUpdates is asked to run
    review, reviewGen,
    warned,     \* history: a review no later click has answered
    asked,      \* history: the newest value asked for each setting
    count       \* what the bounds count

claimVars == <<engine, gen, resume, resumePending, want>>
vars == <<config, disk, queue, op, session, unlocking, epoch, rpc, claimVars,
          review, reviewGen, warned, asked, count>>

Init ==
    /\ config \in [host : Hosts, enabled : BOOLEAN] /\ disk = config
    /\ queue = <<>> /\ op = None
    /\ session = FALSE /\ unlocking = None /\ epoch = 0
    /\ rpc = [host |-> config.host, id |-> 0]
    /\ engine = [on |-> FALSE, draining |-> FALSE]
    /\ gen = 0 /\ resume = None /\ resumePending = FALSE /\ want = FALSE
    /\ review = FALSE /\ reviewGen = 0 /\ warned = FALSE
    /\ asked = config
    /\ count = [clicks |-> 0, reviews |-> 0, locks |-> 0, faults |-> 0, lost |-> 0, bad |-> 0]

Counts(k) == count' = [count EXCEPT ![k] = @ + 1]

-----------------------------------------------------------------------------
(* The engine. *)

Stopped == [on |-> FALSE, draining |-> engine.on \/ engine.draining]

Drained ==
    /\ engine.draining
    /\ engine' = [engine EXCEPT !.draining = FALSE]
    /\ UNCHANGED <<config, disk, queue, op, session, unlocking, epoch, rpc, gen, resume,
                   resumePending, want, review, reviewGen, warned, asked, count>>

\* resumeClaims up to its first await, with g the generation before it.
MayResume(s, cfg, rev) == s /\ cfg.enabled /\ ~rev

Resuming(g, e, r) == [gen |-> g + 1, epoch |-> e, rpc |-> r, pc |-> "stop"]

-----------------------------------------------------------------------------
(* Requests. *)

\* saveConfig and setClaims: the change is queued, not applied.
Click ==
    /\ count.clicks < MaxClicks /\ Counts("clicks")
    /\ \/ \E h \in Hosts :
            /\ queue' = Append(queue, [kind |-> "host", host |-> h])
            /\ asked' = [asked EXCEPT !.host = h] /\ UNCHANGED warned
       \/ \E b \in BOOLEAN :
            /\ queue' = Append(queue, [kind |-> "claims", enabled |-> b, review |-> reviewGen])
            /\ asked' = [asked EXCEPT !.enabled = b]
            /\ warned' = (warned /\ ~b)
    /\ UNCHANGED <<config, disk, op, session, unlocking, epoch, rpc, claimVars, review, reviewGen>>

\* Mutant: the stop is not written to the file.
StopClaimsUnsaved ==
    /\ count.reviews < MaxReviews /\ Counts("reviews")
    /\ engine.on \/ engine.draining
    /\ reviewGen' = reviewGen + 1 /\ review' = TRUE /\ warned' = TRUE
    /\ resumePending' = FALSE /\ gen' = gen + 1
    /\ config' = [config EXCEPT !.enabled = FALSE]
    /\ asked' = [asked EXCEPT !.enabled = FALSE]
    /\ engine' = Stopped
    /\ UNCHANGED <<disk, queue, op, session, unlocking, epoch, rpc, resume, want>>

\* stopClaimsForReview: a sent claim's outcome is unknown.  The worker that
\* reports it belongs to a run that is on or still draining.
StopClaimsForReview ==
    /\ count.reviews < MaxReviews /\ Counts("reviews")
    /\ engine.on \/ engine.draining
    /\ reviewGen' = reviewGen + 1 /\ review' = TRUE /\ warned' = TRUE
    /\ resumePending' = FALSE /\ gen' = gen + 1
    /\ config' = [config EXCEPT !.enabled = FALSE]
    /\ asked' = [asked EXCEPT !.enabled = FALSE]
    /\ engine' = Stopped
    /\ queue' = Append(queue, [kind |-> "safety", enabled |-> FALSE])
    /\ UNCHANGED <<disk, op, session, unlocking, epoch, rpc, resume, want>>

-----------------------------------------------------------------------------
(* One settings operation. *)

\* Mutant: any enabling click dismisses every review.
DismissesAny(q) == q.kind = "claims" /\ q.enabled

\* An enabling click dismisses the reviews its author had seen.
Dismisses(q) == q.kind = "claims" /\ q.enabled /\ q.review = reviewGen

\* Mutant: the endpoint is that of the client in use, not that of the settings.
MergedStale(q, rev) ==
    [host |-> IF q.kind = "host" THEN q.host ELSE rpc.host,
     enabled |-> ~rev /\ (IF q.kind = "host" THEN config.enabled ELSE q.enabled)]

\* The merge is made of the settings of now, and a review keeps claims off.
Merged(q, rev) ==
    LET merged == IF q.kind = "host" THEN [config EXCEPT !.host = q.host]
                                     ELSE [config EXCEPT !.enabled = q.enabled]
    IN  [merged EXCEPT !.enabled = @ /\ ~rev]

ApplyConfig ==
    /\ op = None /\ queue # <<>>
    /\ LET q == Head(queue)
           rev == review /\ ~Dismisses(q)
           new == Merged(q, rev)
       IN /\ review' = rev
          /\ op' = [pc |-> "write", new |-> new, reconnect |-> new.host # config.host,
                    stops |-> \/ new # config
                              \/ (q.kind = "claims" /\ q.enabled /\ ~engine.on)]
    /\ queue' = Tail(queue)
    /\ UNCHANGED <<config, disk, session, unlocking, epoch, rpc, claimVars, reviewGen,
                   warned, asked, count>>

Captured(o) == [pc |-> "stop", new |-> o.new, reconnect |-> o.reconnect,
                epoch |-> epoch, rpc |-> rpc.id, session |-> session, gen |-> gen + 1]

WriteConfig ==
    /\ op # None /\ op.pc = "write"
    /\ disk' = op.new /\ config' = op.new
    /\ IF op.stops
       THEN /\ op' = Captured(op) /\ gen' = gen + 1
            /\ resumePending' = FALSE /\ engine' = Stopped
       ELSE op' = None /\ UNCHANGED <<gen, resumePending, engine>>
    /\ UNCHANGED <<queue, session, unlocking, epoch, rpc, resume, want, review, reviewGen,
                   warned, asked, count>>

WriteFails ==
    /\ op # None /\ op.pc = "write"
    /\ count.faults < MaxFaults
    /\ count' = [count EXCEPT !.faults = @ + 1, !.lost = @ + 1]
    /\ op' = None
    /\ UNCHANGED <<config, disk, queue, session, unlocking, epoch, rpc, claimVars, review,
                   reviewGen, warned, asked>>

\* The stop is over.  The operation goes on only in the session, connection and
\* generation it began in (a review may have moved the generation).
StillMine(o) == /\ o.epoch = epoch /\ o.rpc = rpc.id /\ o.session = session
                /\ (o.gen = gen \/ review)

AfterStop ==
    /\ op # None /\ op.pc = "stop" /\ ~engine.draining
    /\ LET goes   == StillMine(op)
           recon  == goes /\ op.reconnect
           starts == goes /\ op.gen = gen /\ op.new.enabled /\ MayResume(session, config, review)
           e == IF recon THEN epoch + 1 ELSE epoch
           r == IF recon THEN [host |-> config.host, id |-> rpc.id + 1] ELSE rpc
       IN /\ epoch' = e /\ rpc' = r
          /\ want' = IF recon THEN session ELSE want
          /\ IF starts
             THEN /\ resume' = Resuming(gen, e, r.id) /\ gen' = gen + 1
                  /\ resumePending' = FALSE /\ engine' = Stopped
                  /\ op' = [pc |-> "resume", gen |-> gen + 1]
             ELSE op' = None /\ UNCHANGED <<resume, gen, resumePending, engine>>
    /\ UNCHANGED <<config, disk, queue, session, unlocking, review, reviewGen, warned, asked, count>>

\* applyConfig awaits the resumeClaims it called.
OpEnds ==
    /\ op # None /\ op.pc = "resume"
    /\ resume # None => resume.gen # op.gen
    /\ op' = None
    /\ UNCHANGED <<config, disk, queue, session, unlocking, epoch, rpc, claimVars, review,
                   reviewGen, warned, asked, count>>

-----------------------------------------------------------------------------
(* resumeClaims after its first await. *)

\* Mutant: the start goes on in its session whatever the settings became.
CurrentSession(r) == session /\ r.epoch = epoch /\ r.rpc = rpc.id

Current(r) ==
    /\ MayResume(session, config, review)
    /\ r.epoch = epoch /\ r.rpc = rpc.id /\ r.gen = gen

\* The old run and its scan have ended.
ResumeWaits ==
    /\ resume # None /\ resume.pc = "stop" /\ ~engine.draining
    /\ resume' = IF Current(resume) THEN [resume EXCEPT !.pc = "network"] ELSE None
    /\ UNCHANGED <<config, disk, queue, op, session, unlocking, epoch, rpc, engine, gen,
                   resumePending, want, review, reviewGen, warned, asked, count>>

\* The network was checked, and the engine starts.
ResumeStarts ==
    /\ resume # None /\ resume.pc = "network"
    /\ resume' = None
    /\ engine' = IF Current(resume) THEN [engine EXCEPT !.on = TRUE] ELSE engine
    /\ UNCHANGED <<config, disk, queue, op, session, unlocking, epoch, rpc, gen,
                   resumePending, want, review, reviewGen, warned, asked, count>>

\* Mutant: the failed start is remembered, but nobody is asked to repeat it.
ResumeGivesUp ==
    /\ resume # None /\ resume.pc = "network"
    /\ count.faults < MaxFaults /\ Counts("faults")
    /\ resume' = None
    /\ resumePending' = (resumePending \/ Current(resume))
    /\ UNCHANGED <<config, disk, queue, op, session, unlocking, epoch, rpc, engine, gen, want,
                   review, reviewGen, warned, asked>>

\* It could not be checked: the event queue tries again.
ResumeFails ==
    /\ resume # None /\ resume.pc = "network"
    /\ count.faults < MaxFaults /\ Counts("faults")
    /\ resume' = None
    /\ IF Current(resume) THEN resumePending' = TRUE /\ want' = TRUE
                          ELSE UNCHANGED <<resumePending, want>>
    /\ UNCHANGED <<config, disk, queue, op, session, unlocking, epoch, rpc, engine, gen,
                   review, reviewGen, warned, asked>>

\* bountyUpdates: a start that is pending is made, once the suspended engine rests.
BountyRun ==
    /\ want /\ session /\ resume = None /\ ~engine.draining
    /\ want' = FALSE
    /\ IF ~engine.on /\ resumePending /\ MayResume(session, config, review)
       THEN /\ resume' = Resuming(gen, epoch, rpc.id) /\ gen' = gen + 1
            /\ resumePending' = FALSE
       ELSE UNCHANGED <<resume, gen, resumePending>>
    /\ UNCHANGED <<config, disk, queue, op, session, unlocking, epoch, rpc, engine, review,
                   reviewGen, warned, asked, count>>

\* syncBounties fails.  Behind a closed catalog gate a read that may be tried
\* again leaves the engine on; otherwise it is stopped and started again; a
\* malformed catalog stops it for good.
SyncFails ==
    /\ engine.on /\ count.faults < MaxFaults
    /\ \E kind \in {"gated", "transient", "malformed"} :
        /\ count' = [count EXCEPT !.faults = @ + 1, !.bad = @ + (IF kind = "malformed" THEN 1 ELSE 0)]
        /\ engine' = IF kind = "gated" THEN engine ELSE Stopped
        /\ resumePending' = (kind = "transient")
        /\ want' = (want \/ kind # "malformed")
    /\ UNCHANGED <<config, disk, queue, op, session, unlocking, epoch, rpc, gen, resume,
                   review, reviewGen, warned, asked>>

\* The connection is lost; its successor's subscriptions ask for a scan.
Disconnected ==
    /\ count.faults < MaxFaults /\ Counts("faults")
    /\ resumePending' = MayResume(session, config, review)
    /\ gen' = gen + 1 /\ engine' = Stopped /\ want' = session
    /\ UNCHANGED <<config, disk, queue, op, session, unlocking, epoch, rpc, resume, review,
                   reviewGen, warned, asked>>

-----------------------------------------------------------------------------
(* The wallet is locked and unlocked. *)

Lock ==
    /\ session /\ count.locks < MaxLocks /\ Counts("locks")
    /\ session' = FALSE /\ epoch' = epoch + 1 /\ gen' = gen + 1 /\ resumePending' = FALSE
    /\ rpc' = [host |-> config.host, id |-> rpc.id + 1] /\ want' = FALSE
    /\ engine' = Stopped
    /\ UNCHANGED <<config, disk, queue, op, unlocking, resume, review, reviewGen, warned, asked>>

Unlock ==
    /\ ~session /\ unlocking = None
    /\ epoch' = epoch + 1 /\ unlocking' = [epoch |-> epoch + 1]
    /\ UNCHANGED <<config, disk, queue, op, session, rpc, claimVars, review, reviewGen,
                   warned, asked, count>>

\* The password is checked, and openSession starts what is enabled.
OpenSession ==
    /\ unlocking # None /\ unlocking' = None
    /\ IF unlocking.epoch = epoch
       THEN /\ session' = TRUE /\ epoch' = epoch + 1 /\ want' = TRUE
            /\ IF MayResume(TRUE, config, review)
               THEN /\ resume' = Resuming(gen, epoch + 1, rpc.id) /\ gen' = gen + 1
                    /\ resumePending' = FALSE /\ engine' = Stopped
               ELSE UNCHANGED <<resume, gen, resumePending, engine>>
       ELSE UNCHANGED <<session, epoch, claimVars>>
    /\ UNCHANGED <<config, disk, queue, op, rpc, review, reviewGen, warned, asked, count>>

-----------------------------------------------------------------------------
\* A stop that is over continues its operation before any event is handled.
Due == op # None /\ op.pc = "stop" /\ ~engine.draining

Next ==
    \/ AfterStop
    \/ /\ ~Due
       /\ \/ Drained \/ Click \/ StopClaimsForReview
          \/ ApplyConfig \/ WriteConfig \/ WriteFails \/ OpEnds
          \/ ResumeWaits \/ ResumeStarts \/ ResumeFails \/ BountyRun \/ SyncFails
          \/ Disconnected \/ Lock \/ Unlock \/ OpenSession

Spec == Init /\ [][Next]_vars

\* What is queued runs, what is awaited ends, and a file is written unless it fails.
FairSpec ==
    /\ Spec
    /\ WF_vars(Drained) /\ WF_vars(ApplyConfig) /\ WF_vars(WriteConfig)
    /\ WF_vars(AfterStop) /\ WF_vars(OpEnds)
    /\ WF_vars(ResumeWaits) /\ WF_vars(ResumeStarts) /\ WF_vars(BountyRun)

-----------------------------------------------------------------------------
(* Properties. *)

Idle == queue = <<>> /\ op = None

\* The engine runs only in an open session, with claims enabled in the settings
\* in force and no review pending, whichever of a write, a start, a lock, a lost
\* connection and an uncertain broadcast came last.
RunsOnlyWhenAllowed == engine.on => MayResume(session, config, review)

\* An enabling click made before an uncertain broadcast does not dismiss its
\* warning: the engine runs again only after a later one.
ConsentIsFresh == engine.on => ~warned

\* Settings are merged when they are written: once the queue is empty, and no
\* write failed, every setting has the value asked for last.
LastClickStands == (Idle /\ count.lost = 0) => config = asked /\ disk = asked

\* The engine runs only where the settings in force, the session and a consent given after the
\* last warning allow it, and the settings end up as they were asked for last.
SettingsHold == RunsOnlyWhenAllowed /\ ConsentIsFresh /\ LastClickStands

\* The stop demanded by an uncertain broadcast reaches the file, so that a
\* restart does not resume what must be reviewed.
SafetyIsSaved == (review /\ MaxFaults = 0) ~> (~disk.enabled \/ ~review)

\* Claims that are enabled in an open session do start again after every
\* failure but a malformed catalog, every lost connection and change of settings.
ClaimsResume ==
    <>[](MayResume(session, config, review) /\ Idle /\ count.bad = 0) => <>[]engine.on

\* "That lifecycle reads the already-saved config": the client in use is the
\* saved endpoint's once no change is under way.
EndpointIsSaved == Idle => rpc.host = config.host
=============================================================================
