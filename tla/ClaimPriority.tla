--------------------------- MODULE ClaimPriority ---------------------------
(***************************************************************************)
(* What one TLS policy's past says of its next attempt                     *)
(* (src/core/claim-priority.mjs): P2CDomainStats keeps the samples of the  *)
(* last hour in a ring of one-minute buckets with running totals, and the  *)
(* budget of a bounty is a count of captures derived from its target.      *)
(* `samples' is a history variable: every sample with the minute it was    *)
(* recorded in.  The clock may jump by any number of minutes and may read  *)
(* backwards.  Seconds and counters are small; the target has Bits bits    *)
(* and the counter of captures saturates at MaxCount.                      *)
(***************************************************************************)
EXTENDS Integers, Sequences, FiniteSets, FiniteSetsExt

CONSTANTS
    Buckets,      \* 60 in the code
    Bits,         \* 256 in the code
    MaxCount,     \* 2^64 - 1 in the code
    MaxMinute, MaxSamples, Seconds   \* bounds

VARIABLES clock, minute, counts, valid, seconds, totals, samples

vars == <<clock, minute, counts, valid, seconds, totals, samples>>

Ring  == 0..Buckets - 1
Empty == [i \in Ring |-> 0]
None  == -1   \* #minute before the first use

Total(f) == FoldSet(LAMBDA i, s : f[i] + s, 0, Ring)

Init ==
    /\ clock = 0 /\ minute = None /\ samples = <<>>
    /\ counts = Empty /\ valid = Empty /\ seconds = Empty
    /\ totals = [attempts |-> 0, connections |-> 0, time |-> 0]

----------------------------------------------------------------------------
(* #advance() *)

\* Faulty variant: only the bucket that is used next is cleared.
Expired_Current(from, to) == {to % Buckets}

\* The buckets that are cleared when the minute goes from one to another.
Expired(from, to) == IF to - from >= Buckets THEN Ring ELSE {c % Buckets : c \in from + 1..to}

\* A clock that reads backwards never brings back an earlier minute.
Current == IF minute = None \/ clock > minute THEN clock ELSE minute

Cleared(f) ==
    IF minute = None THEN f
    ELSE [i \in Ring |-> IF Current # minute /\ i \in Expired(minute, Current) THEN 0 ELSE f[i]]

\* The totals, added up again when the minute changes.
Totals ==
    IF minute = None \/ Current = minute THEN totals
    ELSE [attempts |-> Total(Cleared(counts)), connections |-> Total(Cleared(valid)), time |-> Total(Cleared(seconds))]

\* record(success, seconds).
Record(success, s) ==
    LET i  == Current % Buckets
        ok == IF success THEN 1 ELSE 0
    IN  /\ Len(samples) < MaxSamples
        /\ minute' = Current
        /\ counts' = [Cleared(counts) EXCEPT ![i] = @ + 1]
        /\ valid' = [Cleared(valid) EXCEPT ![i] = @ + ok]
        /\ seconds' = [Cleared(seconds) EXCEPT ![i] = @ + s]
        /\ totals' = [attempts |-> Totals.attempts + 1, connections |-> Totals.connections + ok, time |-> Totals.time + s]
        /\ samples' = Append(samples, [at |-> Current, ok |-> ok, seconds |-> s])
        /\ UNCHANGED clock

\* connectionRate() and snapshot().
Read ==
    /\ minute' = Current
    /\ counts' = Cleared(counts) /\ valid' = Cleared(valid) /\ seconds' = Cleared(seconds)
    /\ totals' = Totals
    /\ UNCHANGED <<clock, samples>>

\* performance.now(), or the clock that was injected.
ClockReads(t) == clock' = t /\ UNCHANGED <<minute, counts, valid, seconds, totals, samples>>

Next ==
    \/ \E success \in BOOLEAN, s \in Seconds : Record(success, s)
    \/ Read
    \/ \E t \in 0..MaxMinute : ClockReads(t)

Spec == Init /\ [][Next]_vars

----------------------------------------------------------------------------
(* The budget of a bounty *)

Targets == 0..2^Bits - 1

\* Faulty variant: the count at which two expected successes are reached is forbidden.
StopCount_Early(target) == LET first == (2^(Bits + 1)) \div (target + 1) IN IF first < MaxCount THEN first ELSE MaxCount

\* claimConnectionStopCount(): the first count that is forbidden.
StopCount(target) == LET first == (2^(Bits + 1)) \div (target + 1) + 1 IN IF first < MaxCount THEN first ELSE MaxCount

\* isP2CClaimConnectionLimitExceeded().
LimitExceeded(target, successes) == successes >= MaxCount \/ successes * (target + 1) > 2^(Bits + 1)

----------------------------------------------------------------------------
(* Properties *)

\* The samples of the last Buckets minutes.
Recent == {i \in 1..Len(samples) : samples[i].at > Current - Buckets}

\* Whenever the rate is read it counts exactly the samples of the last hour: none is lost
\* or counted twice, and none comes back however far the clock jumped.
RateIsOfTheLastHour ==
    Totals = [attempts    |-> Cardinality(Recent),
              connections |-> FoldSet(LAMBDA i, s : samples[i].ok + s, 0, Recent),
              time        |-> FoldSet(LAMBDA i, s : samples[i].seconds + s, 0, Recent)]

\* The engine's stop count, computed once for a target, forbids exactly the captures the
\* multiplied form forbids, the saturated counter included.
StopIsTheLimit ==
    \A t \in Targets, n \in 0..MaxCount : (n >= StopCount(t)) <=> LimitExceeded(t, n)
=============================================================================
