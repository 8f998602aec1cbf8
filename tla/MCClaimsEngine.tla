----------------------------- MODULE MCClaimsEngine --------------------------
(***************************************************************************)
(* The claims side of the wallet, each part on an instance of its own: the *)
(* engine's life cycle, the helper process it owns, the proofs it found    *)
(* with the rates that order them, and the compact pages its bounties come *)
(* from.                                                                   *)
(***************************************************************************)
EXTENDS ClaimsEngine

CONSTANTS Refused, Unknown

VARIABLES inst,   \* the component this behaviour is of
          clock, minute, counts, valid, seconds, totals, samples,
          sent, state, rows, version, wire, got

R == INSTANCE ClaimPriority WITH
    Buckets <- 3, Bits <- 4, MaxCount <- 20, MaxMinute <- 6, MaxSamples <- 3, Seconds <- {0, 2}
G == INSTANCE CompactPage WITH
    Ops <- {"o1", "o2"}, Statuses <- {"available"}, Tips <- {0, 1}, Cursors <- {0, 1},
    Versions <- {1, 2, 3}, MaxEvents <- 2, None <- Nothing

poolVars == <<child, started, closing, failure, drainFailed, killed, req, sequence,
              pendingStarts, admissionControls, admissionTarget, admissionPaused, stdin, helper,
              pFaults>>
proofsVars == <<st, chain, engine, gate, sync, receipt>>
ratesVars == <<clock, minute, counts, valid, seconds, totals, samples>>
pageVars == <<sent, state, rows, version, wire, got>>

AnyInit ==
    /\ inst \in {"engine", "pool", "proofs", "rates", "page"}
    /\ inst # "page" => state = Nothing /\ version = 1 /\ rows = {} /\ sent = CHOOSE p \in G!Pages(0) : TRUE
    /\ Init
    /\ P!Init
    /\ F!Init
    /\ R!Init
    /\ G!Init

AnyNext ==
    \/ inst = "engine" /\ Next /\ UNCHANGED <<inst, poolVars, proofsVars, ratesVars, pageVars>>
    \/ inst = "pool" /\ P!Next /\ UNCHANGED <<inst, vars, proofsVars, ratesVars, pageVars>>
    \/ inst = "proofs" /\ F!Next /\ UNCHANGED <<inst, vars, poolVars, ratesVars, pageVars>>
    \/ inst = "rates" /\ R!Next /\ UNCHANGED <<inst, vars, poolVars, proofsVars, pageVars>>
    \/ inst = "page" /\ G!Next /\ UNCHANGED <<inst, vars, poolVars, proofsVars, ratesVars>>

all == <<inst, vars, poolVars, proofsVars, ratesVars, pageVars>>
AnySpec == AnyInit /\ [][AnyNext]_all

\* The rate counts exactly the samples of the last hour, the stop count forbids exactly the
\* captures that the multiplied form forbids; and a page is read as the one that was meant, asked
\* for again, or refused, never as another.
RatesAndPagesAreExact ==
    /\ R!RateIsOfTheLastHour /\ R!StopIsTheLimit
    /\ G!ReadAsMeant /\ G!NothingBorrowed
=============================================================================
