---------------------------- MODULE ClaimsEngine ----------------------------
(***************************************************************************)
(* The claims engine with the proofs it finds and the helper it asks: its  *)
(* life cycle, what engine and wallet service keep about each outpoint,    *)
(* and the connection to the helper process.                               *)
(***************************************************************************)
EXTENDS ClaimsLifecycle

CONSTANTS Keys, MaxSubmitting, Nothing, MaxRequests, Capacity, ControlCapacity, PoolFaults

VARIABLES st, chain, engine, gate, sync, receipt,
          child, started, closing, failure, drainFailed, killed, req, sequence, pendingStarts,
          admissionControls, admissionTarget, admissionPaused, stdin, helper, pFaults

F == INSTANCE ClaimProofs WITH None <- Nothing
P == INSTANCE ClaimPool WITH MaxFaults <- PoolFaults, faults <- pFaults

\* undefined is none of the records it stands for.
ASSUME NothingIsNone == Nothing \notin F!SubType \cup F!Acceptance \cup F!Confirmation \cup F!Preparation

\* The identities of requests count up from one.
ASSUME PoolConstants == MaxRequests \in Nat

\* An acceptance is counted once however its answers and its receipt race, a proof is kept until
\* it is confirmed or worthless, a confirmed one stays reserved, and a proof whose broadcast has
\* an unknown outcome is not sent again before it is looked up.
ProofsAreKept == [](F!CountedOnce /\ F!ProofKept /\ F!ConfirmedIsReserved) /\ F!NoBlindResend
\* What the pool's counters and deadlines promise together: the counters match the table, no
\* request waits on a stalled helper unnoticed, and a pause is not taken for a failure. After
\* close() no request delivers a result, a cancelled attempt never a proof, and while admission
\* is paused nothing starts.
PoolIsWatched ==
    /\ [](P!CountersMatch /\ P!Watched /\ P!PauseIsNotTimed)
    /\ [][P!AnsweredInTime /\ P!StartsInTurn]_(P!vars)
=============================================================================
