---------------------------- MODULE LocalHelpers ----------------------------
(***************************************************************************)
(* Work handed to a local process or thread and awaited: the RSA probe of  *)
(* a bounty's domain (src/core/rsa-probe.mjs), the one-shot proof runner   *)
(* (src/core/claims.mjs) and the signing of a payment in a worker          *)
(* (src/core/payment-builder.mjs, payment-worker.mjs).                     *)
(*                                                                         *)
(* Each promise races the child's answer, its exit, its errors, a deadline *)
(* and the caller's abort.  abort() runs its listener at once; everything  *)
(* else is an event of its own.  `late' is the clock, which close handlers *)
(* read before the timer's callback may have run.                          *)
(***************************************************************************)
EXTENDS Naturals, FiniteSets

CONSTANTS
    Probes, Proofs, Signings,   \* the calls of each kind
    Together,                   \* the sets of calls made together (kinds share nothing)
    MaxProcesses,               \* MAX_PROCESSES of the probe
    MaxAttempts                 \* bound: TLS attempts a proof helper reports

VARIABLES
    calls,       \* the calls of this behaviour
    outcome,     \* call -> "none" until its promise settles
    child,       \* call -> none, live, unborn (spawn failed, error event due), exited, closed
    said,        \* call -> what its child has answered
    attempts,    \* proof call -> completedAttempts
    failure,     \* proof calls with a failure to report
    clean,       \* calls whose child exited with code 0 by itself
    killed,      \* calls whose child was sent SIGKILL or terminate()
    aborted,     \* calls whose signal is aborted
    late,        \* calls whose deadline has passed
    tokens       \* activeProcesses

vars == <<calls, outcome, child, said, attempts, failure, clean, killed, aborted, late, tokens>>
Calls == Probes \cup Proofs \cup Signings

Init ==
    /\ calls \in Together
    /\ outcome = [c \in Calls |-> "none"] /\ child = [c \in Calls |-> "none"]
    /\ said = [c \in Calls |-> "nothing"] /\ attempts = [c \in Calls |-> 0]
    /\ failure = {} /\ clean = {} /\ killed = {} /\ aborted = {} /\ late = {} /\ tokens = {}

Running(c) == outcome[c] = "none" /\ child[c] # "none"
Finish(c, o) == outcome' = IF outcome[c] = "none" THEN [outcome EXCEPT ![c] = o] ELSE outcome
Kill(c) == killed' = IF child[c] = "live" THEN killed \cup {c} ELSE killed

----------------------------------------------------------------------------
(* The RSA probe *)

\* Faulty variant: the slot is given back with the answer.
Stop_Releases(c, o) == Finish(c, o) /\ Kill(c) /\ tokens' = tokens \ {c}

\* finish() first: a slow kill must not delay the answer.  The token is kept until the
\* process is gone.
Stop(c, o) == Finish(c, o) /\ Kill(c) /\ UNCHANGED tokens

ProbeStarts(c) ==
    /\ c \in Probes /\ outcome[c] = "none" /\ child[c] = "none"
    /\ IF c \in aborted THEN Finish(c, "aborted") /\ UNCHANGED <<child, tokens, killed>>
       ELSE \/ /\ Cardinality(tokens) >= MaxProcesses
               /\ Finish(c, "busy") /\ UNCHANGED <<child, tokens, killed>>
            \/ c \in late /\ Finish(c, "timeout") /\ UNCHANGED <<child, tokens, killed>>
            \/ \* no helper, or spawn throws
               /\ Cardinality(tokens) < MaxProcesses
               /\ Finish(c, "failed") /\ UNCHANGED <<child, tokens, killed>>
            \/ /\ Cardinality(tokens) < MaxProcesses
               /\ \E born \in {"live", "unborn"} : child' = [child EXCEPT ![c] = born]
               /\ tokens' = tokens \cup {c}
               /\ IF c \in late THEN Finish(c, "timeout") /\ killed' = killed \cup {c}
                  ELSE UNCHANGED <<outcome, killed>>
    /\ UNCHANGED <<said, attempts, failure, clean, aborted, late>>

\* The error event of a spawn that failed: there is no process.
SpawnFailed(c) ==
    /\ c \in Probes \cup Proofs /\ child[c] = "unborn"
    /\ child' = [child EXCEPT ![c] = "closed"]
    /\ tokens' = tokens \ {c}
    /\ Finish(c, "failed") /\ UNCHANGED killed
    /\ UNCHANGED <<said, attempts, failure, clean, aborted, late>>

\* stdout of the probe; more than the limit is an error.
ProbeSays(c, w) ==
    /\ c \in Probes /\ child[c] = "live" /\ said[c] = "nothing"
    /\ said' = [said EXCEPT ![c] = w]
    /\ IF w = "toomuch" THEN Stop(c, "failed") ELSE UNCHANGED <<outcome, killed, tokens>>
    /\ UNCHANGED <<child, attempts, failure, clean, aborted, late>>

\* stderr over its limit, a stream error, or a process that cannot be killed.
ProbeTrouble(c) ==
    /\ c \in Probes /\ child[c] = "live" /\ Running(c)
    /\ Stop(c, "failed")
    /\ UNCHANGED <<child, said, attempts, failure, clean, aborted, late>>

\* Faulty variant: the exit code is enough.
ProbeResult_ExitOnly(c) ==
    IF c \in aborted THEN "aborted" ELSE IF c \in late THEN "timeout"
    ELSE IF c \in clean THEN "verified" ELSE "failed"

ProbeResult(c) ==
    IF c \in aborted THEN "aborted" ELSE IF c \in late THEN "timeout"
    ELSE IF c \in clean /\ said[c] = "yes" THEN "verified" ELSE "failed"

ProbeCloses(c) ==
    /\ c \in Probes /\ child[c] = "exited"
    /\ child' = [child EXCEPT ![c] = "closed"]
    /\ Finish(c, ProbeResult(c))
    /\ UNCHANGED <<said, attempts, failure, clean, killed, aborted, late, tokens>>

----------------------------------------------------------------------------
(* The proof runner *)

\* Faulty variant: the child is left to itself.
Fail_Unkilled(c) == failure' = failure \cup {c} /\ UNCHANGED killed

\* stop(): the promise settles when the child is closed.
Fail(c) == failure' = failure \cup {c} /\ Kill(c)

ProofStarts(c) ==
    /\ c \in Proofs /\ outcome[c] = "none" /\ child[c] = "none"
    /\ IF c \in aborted THEN Finish(c, "aborted") /\ UNCHANGED child
       ELSE \/ Finish(c, "failed") /\ UNCHANGED child   \* no helper, or spawn throws
            \/ \E born \in {"live", "unborn"} : child' = [child EXCEPT ![c] = born] /\ UNCHANGED outcome
    /\ UNCHANGED <<said, attempts, failure, clean, killed, aborted, late, tokens>>

Reads(c) == child[c] = "live" /\ c \notin failure /\ outcome[c] = "none"

\* A progress line: the count never goes back, and nothing follows the result.
ProofProgress(c, n) ==
    /\ c \in Proofs /\ Reads(c)
    /\ IF said[c] = "nothing" /\ n >= attempts[c]
       THEN attempts' = [attempts EXCEPT ![c] = n] /\ UNCHANGED <<failure, killed>>
       ELSE Fail(c) /\ UNCHANGED attempts
    /\ UNCHANGED <<outcome, child, said, clean, aborted, late, tokens>>

\* A result line: the proof of this claim, after as many attempts as were reported.
ProofResult(c, n, matches) ==
    /\ c \in Proofs /\ Reads(c)
    /\ IF said[c] = "nothing" /\ attempts[c] > 0 /\ n = attempts[c] /\ matches
       THEN said' = [said EXCEPT ![c] = "yes"] /\ UNCHANGED <<failure, killed>>
       ELSE Fail(c) /\ UNCHANGED said
    /\ UNCHANGED <<outcome, child, attempts, clean, aborted, late, tokens>>

\* An error line, a malformed or oversized one, a stream that fails, or a last line
\* without its end ("half").
ProofTrouble(c) ==
    /\ c \in Proofs /\ Reads(c)
    /\ Fail(c)
    /\ UNCHANGED <<outcome, child, said, attempts, clean, aborted, late, tokens>>

\* The child cannot be killed: its error event ends the wait.
KillFails(c) ==
    /\ c \in Proofs /\ child[c] = "live" /\ c \in killed
    /\ Finish(c, "failed")
    /\ UNCHANGED <<child, said, attempts, failure, clean, killed, aborted, late, tokens>>

\* Faulty variant: a proof that was received is good whatever happened later.
Proven_Anyhow(c) == said[c] = "yes"

Proven(c) == said[c] = "yes" /\ c \in clean /\ c \notin failure /\ c \notin aborted

ProofCloses(c) ==
    /\ c \in Proofs /\ child[c] = "exited"
    /\ child' = [child EXCEPT ![c] = "closed"]
    /\ Finish(c, IF Proven(c) THEN "verified" ELSE IF c \in aborted THEN "aborted" ELSE "failed")
    /\ UNCHANGED <<said, attempts, failure, clean, killed, aborted, late, tokens>>

----------------------------------------------------------------------------
(* The signing worker *)

\* finish(): the worker is terminated with every end.
Settle(c, o) == Finish(c, o) /\ Kill(c)

\* The funding payload is checked first; postMessage() may throw.
SigningStarts(c) ==
    /\ c \in Signings /\ outcome[c] = "none" /\ child[c] = "none"
    /\ IF c \in aborted THEN Finish(c, "aborted") /\ UNCHANGED <<child, killed>>
       ELSE \/ Finish(c, "failed") /\ UNCHANGED <<child, killed>>
            \/ /\ child' = [child EXCEPT ![c] = "live"]
               /\ \/ UNCHANGED <<outcome, killed>>
                  \/ Finish(c, "failed") /\ killed' = killed \cup {c}
    /\ UNCHANGED <<said, attempts, failure, clean, aborted, late, tokens>>

\* The worker posts its payment or its error, once, ...
WorkerPosts(c, w) ==
    /\ c \in Signings /\ child[c] = "live" /\ said[c] = "nothing"
    /\ said' = [said EXCEPT ![c] = w]
    /\ UNCHANGED <<outcome, child, attempts, failure, clean, killed, aborted, late, tokens>>

\* ... and the message arrives.
MessageArrives(c) ==
    /\ c \in Signings /\ said[c] \in {"yes", "no"} /\ outcome[c] = "none"
    /\ Settle(c, IF c \in aborted THEN "aborted" ELSE IF said[c] = "yes" THEN "verified" ELSE "failed")
    /\ UNCHANGED <<child, said, attempts, failure, clean, aborted, late, tokens>>

\* The error or exit event of the worker: exit comes after the messages it posted.
WorkerStops(c) ==
    /\ c \in Signings /\ child[c] = "exited" /\ (said[c] = "nothing" \/ outcome[c] # "none")
    /\ child' = [child EXCEPT ![c] = "closed"]
    /\ Finish(c, "failed")
    /\ UNCHANGED <<said, attempts, failure, clean, killed, aborted, late, tokens>>

----------------------------------------------------------------------------
(* Deadlines, aborts, and processes *)

Abort(c) ==
    /\ c \notin aborted /\ outcome[c] = "none"
    /\ aborted' = aborted \cup {c}
    /\ \/ child[c] = "none" /\ UNCHANGED <<outcome, failure, killed, tokens>>
       \/ child[c] # "none" /\ c \in Probes /\ Stop(c, "aborted") /\ UNCHANGED failure
       \/ child[c] # "none" /\ c \in Proofs /\ Fail(c) /\ UNCHANGED <<outcome, tokens>>
       \/ child[c] # "none" /\ c \in Signings /\ Settle(c, "aborted") /\ UNCHANGED <<failure, tokens>>
    /\ UNCHANGED <<child, said, attempts, clean, late>>

TimePasses(c) ==
    /\ outcome[c] = "none" /\ c \notin late
    /\ late' = late \cup {c}
    /\ UNCHANGED <<outcome, child, said, attempts, failure, clean, killed, aborted, tokens>>

TimerFires(c) ==
    /\ Running(c) /\ c \in late
    /\ \/ c \in Probes /\ Stop(c, "timeout") /\ UNCHANGED failure
       \/ c \in Proofs \ failure /\ Fail(c) /\ UNCHANGED <<outcome, tokens>>
       \/ c \in Signings /\ Settle(c, "timeout") /\ UNCHANGED <<failure, tokens>>
    /\ UNCHANGED <<child, said, attempts, clean, aborted, late>>

\* The process ends: killed, by itself, or crashed.
Exits(c) ==
    /\ child[c] = "live"
    /\ child' = [child EXCEPT ![c] = "exited"]
    /\ clean' \in {clean} \cup IF c \in killed THEN {} ELSE {clean \cup {c}}
    /\ tokens' = tokens \ {c}
    /\ UNCHANGED <<outcome, said, attempts, failure, killed, aborted, late>>

Closes(c) == ProbeCloses(c) \/ ProofCloses(c) \/ WorkerStops(c)

Next ==
    /\ UNCHANGED calls
    /\ \E c \in calls :
          \/ ProbeStarts(c) \/ SpawnFailed(c) \/ ProbeTrouble(c)
          \/ \E w \in {"yes", "no", "toomuch"} : ProbeSays(c, w)
          \/ ProofStarts(c) \/ ProofTrouble(c) \/ KillFails(c)
          \/ \E n \in 0..MaxAttempts : ProofProgress(c, n)
          \/ \E n \in 1..MaxAttempts, matches \in BOOLEAN : ProofResult(c, n, matches)
          \/ SigningStarts(c) \/ MessageArrives(c)
          \/ \E w \in {"yes", "no"} : WorkerPosts(c, w)
          \/ Abort(c) \/ TimePasses(c) \/ TimerFires(c) \/ Exits(c) \/ Closes(c)

\* Events that happened are handled, clocks run, and a killed process ends.
Handled(c) ==
    \/ SpawnFailed(c) \/ MessageArrives(c) \/ TimePasses(c) \/ TimerFires(c) \/ Closes(c)
    \/ (c \in killed /\ Exits(c))

Spec == Init /\ [][Next]_vars
Fairness == \A c \in Calls : WF_vars(c \in calls /\ Handled(c) /\ UNCHANGED calls)
----------------------------------------------------------------------------
(* Properties *)

\* A promise settles once, and says yes only to an answer the child completed before
\* it ended well, that nobody had aborted, and (the probe, whose yes relaxes the
\* signature policy of a bounty) that came in time.
YesIsEarned(c) ==
    outcome'[c] # outcome[c] =>
        /\ outcome[c] = "none"
        /\ outcome'[c] = "verified" =>
             /\ c \notin aborted' /\ said[c] = "yes"
             /\ c \in Probes \cup Proofs => c \in clean /\ c \notin killed
             /\ c \in Probes => c \notin late
             /\ c \in Proofs => attempts[c] > 0
AnswersAreEarned == [][\A c \in Calls : YesIsEarned(c)]_vars

\* However slowly killed processes die, no more than MAX_PROCESSES probes are alive,
\* and every slot belongs to a process that is.
ProbesAreBounded ==
    LET alive == {c \in Probes : child[c] \in {"live", "unborn"}}
    IN  tokens = alive /\ Cardinality(alive) <= MaxProcesses

\* No caller waits for ever, and no abandoned process is left running.
HelpersEnd ==
    <>[](\A c \in Calls : child[c] # "none" => outcome[c] # "none" /\ child[c] = "closed")
=============================================================================
