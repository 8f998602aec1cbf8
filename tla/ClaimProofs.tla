----------------------------- MODULE ClaimProofs -----------------------------
(***************************************************************************)
(* The life of a verified claim proof: claims-engine.mjs (admission,       *)
(* winner, submission, retained acceptances) together with the claim       *)
(* operations of wallet-service.mjs (the discovery snapshot's commit, the  *)
(* submission and its reservation, the receipts that confirm or reopen).   *)
(*                                                                         *)
(* st[k] is everything the two keep about outpoint k.  A key has at most   *)
(* one job, one proposal and one submission at a time (enqueue and         *)
(* reopenAccepted refuse a key with active work), so the pending record    *)
(* that pendingProofs and the running submission share is one flag,        *)
(* counted.  chain[k] is what the network knows: the claim is the tx       *)
(* prepared for k, a rival any other spend.  One wallet session on one     *)
(* server; what a lock clears is in WalletLifecycle.                       *)
(***************************************************************************)
EXTENDS Naturals, FiniteSets

CONSTANTS
  Keys,            \* outpoints with a bounty
  MaxSubmitting,   \* submissions at a time (4 in the engine)
  None

VARIABLES
  st,        \* per key, a KeyType
  chain,     \* per key: "open", "mempool", "mined" (ours), "rival", "spent"
  engine,    \* "off"; "paused" until the first snapshot; "on"
  gate,      \* the catalog gate is closed (catalogBlocked)
  sync,      \* the running discovery: its phase, its view, whether it is void
  receipt    \* the receipt being read

vars == <<st, chain, engine, gate, sync, receipt>>

Idle == [phase |-> "idle", view |-> None, void |-> FALSE]

Rows == {"available", "own", "rival", "gone", "aged", "retired"}

SubType == [phase : {"check", "gate", "queued", "written"}, aborted : BOOLEAN,
            unavailable : BOOLEAN, invalid : {"unset", "yes", "no"},
            reply : {"none", "ack", "rejected", "refused", "unknown"}]

Acceptance == [counted : BOOLEAN, invalidated : BOOLEAN]
Confirmation == [orphaned : BOOLEAN, reopened : BOOLEAN]
Preparation == [counted : BOOLEAN, confirmed : BOOLEAN, revalidate : BOOLEAN]

KeyType ==
  [row : Rows,                          \* claimOutpoints and retiredClaims
   job : {"none", "queued", "won"},     \* engine.queue, job.winner
   capturing : BOOLEAN,                 \* a connection of the job is running
   pending : BOOLEAN,                   \* pendingProofs has the key
   counted : BOOLEAN,                   \* the pending record's counted flag
   sub : SubType \cup {None},           \* the job while engine.submitting has it
   accepted : Acceptance \cup {None},
   completed : BOOLEAN, reserved : BOOLEAN,
   confirmation : Confirmation \cup {None},
   prepared : Preparation \cup {None},
   proposed : BOOLEAN,                  \* proposals has the prepared claim
   everCounted : BOOLEAN,               \* #countedClaimConfirmations
   inWindow : BOOLEAN,                  \* the published window has our confirming block
   tally : Nat,                         \* history: times this claim was counted
   unknown : BOOLEAN,                   \* history: a broadcast whose outcome nobody knows
   verified : BOOLEAN]                  \* history: a proof whose bounty was never reported lost

Init ==
  /\ st = [k \in Keys |->
       [row |-> "gone", job |-> "none", capturing |-> FALSE, pending |-> FALSE,
        counted |-> FALSE, sub |-> None, accepted |-> None, completed |-> FALSE,
        reserved |-> FALSE, confirmation |-> None, prepared |-> None,
        proposed |-> FALSE, everCounted |-> FALSE, inWindow |-> FALSE, tally |-> 0, unknown |-> FALSE,
        verified |-> FALSE]]
  /\ chain = [k \in Keys |-> "open"]
  /\ engine = "off"
  /\ gate = FALSE
  /\ sync = Idle
  /\ receipt = None

Enabled == engine # "off"
HasActive(s) == s.capturing \/ s.sub # None
Usable(s) == s.row \in {"available", "retired"}
\* waitForClaimCatalog returns, or throws because the claim was stopped.
WaitOver(s) == s.sub.aborted \/ ~Enabled \/ ~gate
Submitting == {k \in Keys : st[k].sub # None}

-----------------------------------------------------------------------------
(* The engine's operations on a key.                                       *)

Aborted(sub) == IF sub = None THEN None ELSE [sub EXCEPT !.aborted = TRUE]

Tidied(s) ==
  IF s.row = "retired" /\ ~HasActive(s) /\ ~s.pending
  THEN [s EXCEPT !.row = "aged", !.job = "none"] ELSE s

Removed(s) ==
  [s EXCEPT !.job = "none", !.pending = FALSE,
            !.sub = IF @ = None THEN None
                    ELSE [@ EXCEPT !.aborted = TRUE, !.unavailable = TRUE]]

\* Mutant: leaving the window drops the job of a proof that waits to be sent.
Retired_Pending(s) ==
  IF s.job # "none" /\ HasActive(s)
  THEN [s EXCEPT !.row = "retired"]
  ELSE [s EXCEPT !.row = "aged", !.job = "none", !.pending = FALSE]

Retired(s) ==
  IF s.job # "none" /\ (HasActive(s) \/ s.pending)
  THEN [s EXCEPT !.row = "retired"]
  ELSE [s EXCEPT !.row = "aged", !.job = "none"]

Preserved(s) ==
  IF s.pending /\ s.job = "won" /\ s.accepted = None
  THEN [s EXCEPT !.accepted = [counted |-> s.counted, invalidated |-> FALSE]]
  ELSE s

Invalidated(s) ==
  [s EXCEPT !.accepted = IF @ = None THEN None ELSE [@ EXCEPT !.invalidated = TRUE],
            !.sub = IF @ = None THEN None ELSE [@ EXCEPT !.invalid = "yes"],
            !.verified = FALSE]

Enqueued(s) ==
  IF \/ s.job # "none" \/ s.completed \/ HasActive(s)
     \/ s.accepted # None /\ ~s.pending
  THEN s ELSE [s EXCEPT !.job = IF s.pending THEN "won" ELSE "queued",
                         !.prepared = IF s.proposed THEN @ ELSE None]

Reopened(s) ==
  [s EXCEPT !.job = "won", !.pending = TRUE, !.counted = s.accepted.counted,
            !.proposed = TRUE, !.prepared = [s.prepared EXCEPT !.revalidate = TRUE]]

CountedNow(s, first) == IF first THEN [s EXCEPT !.tally = @ + 1] ELSE s

\* Mutant: the running submission does not learn of the confirmation.
Confirmed_Silent(s) ==
  LET c == CountedNow(s, ~s.accepted.counted) IN
  [c EXCEPT !.accepted = None, !.completed = TRUE]

Confirmed(s) ==
  LET c == CountedNow(s, ~s.accepted.counted) IN
  [c EXCEPT !.counted = TRUE, !.accepted = None, !.completed = TRUE]

-----------------------------------------------------------------------------
(* Captures and submissions, dispatch() to submitVerified().               *)

Prepare(k) ==
  LET s == st[k] IN
  /\ engine = "on" /\ ~gate
  /\ s.job = "queued" /\ s.prepared = None /\ ~HasActive(s)
  /\ s.row = "available" /\ ~s.reserved
  /\ st' = [st EXCEPT ![k].proposed = TRUE, ![k].prepared =
              [counted |-> s.everCounted, confirmed |-> FALSE, revalidate |-> FALSE]]
  /\ UNCHANGED <<chain, engine, gate, sync, receipt>>

Dispatch(k) ==
  LET s == st[k] IN
  /\ engine = "on"
  /\ s.job = "queued" /\ s.prepared # None /\ ~s.capturing /\ s.row = "available"
  /\ st' = [st EXCEPT ![k].capturing = TRUE]
  /\ UNCHANGED <<chain, engine, gate, sync, receipt>>

\* A capture ends; found: with a verified proof.  A job that was removed, or an
\* engine that stopped, has no use for it.
CaptureEnds(k, found) ==
  LET s == [st[k] EXCEPT !.capturing = FALSE] IN
  /\ st[k].capturing
  /\ st' = [st EXCEPT ![k] =
       IF found /\ engine = "on" /\ s.job = "queued"
       THEN [s EXCEPT !.job = "won", !.pending = TRUE, !.counted = s.prepared.counted,
                      !.verified = TRUE]
       ELSE Tidied(s)]
  /\ UNCHANGED <<chain, engine, gate, sync, receipt>>

\* submitVerified, for a fresh winner or from retrySubmissions.
SubmitVerified(k) ==
  LET s == st[k] IN
  /\ ~gate /\ engine = "on"
  /\ s.sub = None /\ s.pending /\ s.job = "won"
  /\ Cardinality(Submitting) < MaxSubmitting
  /\ st' = [st EXCEPT ![k].sub =
       [phase |-> IF s.prepared.revalidate THEN "check" ELSE "gate", aborted |-> FALSE,
        unavailable |-> FALSE, invalid |-> "unset", reply |-> "none"]]
  /\ UNCHANGED <<chain, engine, gate, sync, receipt>>

OldEvidence(s) ==
  IF s.accepted # None THEN s.accepted.invalidated
  ELSE IF s.sub.invalid # "unset" THEN s.sub.invalid = "yes" ELSE s.sub.unavailable

Kept(s, counted) ==
  [s EXCEPT !.accepted = [counted |-> counted, invalidated |-> OldEvidence(s)]]

\* The submission returned: acceptance, kept until a receipt confirms it.
SubmitAccepted(s, retain) ==
  LET c == CountedNow(s, ~s.counted)
      r == IF retain THEN Kept(c, TRUE) ELSE [c EXCEPT !.accepted = None]
  IN Tidied([r EXCEPT !.completed = TRUE, !.job = "none", !.pending = FALSE,
                      !.sub = None, !.proposed = FALSE])

\* The submission threw; the proof stays pending unless its job is gone.
SubmitFailed(s, rejected) ==
  LET r == IF rejected THEN Kept(s, s.counted) ELSE s IN
  Tidied([r EXCEPT !.sub = None, !.pending = @ /\ ~s.sub.unavailable])

\* An outcome replaces the accepted record that a receipt may be reading.
Superseded(k, replaced) ==
  IF replaced /\ receipt # None /\ receipt.key = k
  THEN [receipt EXCEPT !.current = FALSE] ELSE receipt

Stopped ==
  [k \in Keys |-> [st[k] EXCEPT !.sub = Aborted(@)]]

\* revalidation of a reopened claim, then the wait for the catalog: every check
\* of submitAutomaticClaim up to the reservation.
CheckClaim(k) ==
  LET s == st[k] IN
  /\ s.sub # None /\ s.sub.phase = "check"
  /\ WaitOver(s)
  /\ st' = [st EXCEPT ![k] =
       IF s.sub.aborted \/ ~Enabled \/ ~Usable(s) THEN SubmitFailed(s, FALSE)
       ELSE [s EXCEPT !.sub.phase = "gate", !.prepared.revalidate = FALSE]]
  /\ UNCHANGED <<chain, engine, gate, sync, receipt>>

ReserveClaim(k) ==
  LET s == st[k] IN
  /\ s.sub # None /\ s.sub.phase = "gate"
  /\ WaitOver(s)
  /\ st' = [st EXCEPT ![k] =
       IF s.sub.aborted \/ ~Enabled \/ ~Usable(s) \/ s.reserved
       THEN SubmitFailed(s, FALSE)
       ELSE [s EXCEPT !.sub.phase = "queued", !.reserved = TRUE]]
  /\ UNCHANGED <<chain, engine, gate, sync, receipt>>

MayWrite(s) == ~s.sub.aborted /\ Enabled /\ ~gate /\ Usable(s)

\* beforeSend refuses, or the transport never wrote.
NotSent(k) ==
  LET s == st[k] IN
  /\ s.sub # None /\ s.sub.phase = "queued"
  /\ st' = [st EXCEPT ![k] =
       IF s.prepared.confirmed THEN SubmitAccepted(s, FALSE)
       ELSE SubmitFailed([s EXCEPT !.reserved = FALSE], FALSE)]
  /\ receipt' = Superseded(k, s.prepared.confirmed)
  /\ UNCHANGED <<chain, engine, gate, sync>>

WriteClaim(k) ==
  /\ st[k].sub # None /\ st[k].sub.phase = "queued" /\ MayWrite(st[k])
  /\ st' = [st EXCEPT ![k].sub.phase = "written"]
  /\ UNCHANGED <<chain, engine, gate, sync, receipt>>

\* The server: accepts, rejects, refuses before forwarding, or its answer is lost.
ServerHandles(k, reply) ==
  /\ st[k].sub # None /\ st[k].sub.phase = "written" /\ st[k].sub.reply = "none"
  /\ CASE reply = "ack" -> chain[k] = "open"
       [] reply = "rejected" -> chain[k] \in {"rival", "spent"}
       [] OTHER -> TRUE
  /\ st' = [st EXCEPT ![k].sub.reply = reply]
  /\ \/ reply \in {"ack", "unknown"} /\ chain[k] = "open"
        /\ chain' = [chain EXCEPT ![k] = "mempool"]
     \/ reply # "ack" /\ UNCHANGED chain
  /\ UNCHANGED <<engine, gate, sync, receipt>>

\* The error branches of submitAutomaticClaim: a confirmed claim beats them all;
\* a refusal or a rejection frees the outpoint again.
Freed(s) == [s EXCEPT !.reserved = FALSE]

SubmitReturns(k) ==
  LET s == st[k] r == s.sub.reply IN
  /\ s.sub # None /\ r # "none"
  /\ r = "ack" \/ s.prepared.confirmed \/ r # "unknown"
  /\ st' = [st EXCEPT ![k] =
       IF r = "ack" \/ s.prepared.confirmed
       THEN SubmitAccepted(s, ~s.prepared.confirmed)
       ELSE SubmitFailed(Freed(s), r = "rejected")]
  /\ receipt' = Superseded(k, r # "refused" \/ s.prepared.confirmed)
  /\ UNCHANGED <<chain, engine, gate, sync>>

\* Mutant: an unknown outcome frees the outpoint like a rejection.
OutcomeUnknown_Frees(k) ==
  /\ st[k].sub # None /\ st[k].sub.reply = "unknown" /\ ~st[k].prepared.confirmed
  /\ st' = [Stopped EXCEPT ![k].sub = None, ![k].unknown = TRUE, ![k].reserved = FALSE]
  /\ engine' = "off"
  /\ sync' = [sync EXCEPT !.void = (sync.phase # "idle")]
  /\ UNCHANGED <<chain, gate, receipt>>

\* stopClaimsForReview, then fatal(): the proof and the reservation stay.
OutcomeUnknown(k) ==
  /\ st[k].sub # None /\ st[k].sub.reply = "unknown" /\ ~st[k].prepared.confirmed
  /\ st' = [Stopped EXCEPT ![k].sub = None, ![k].unknown = TRUE]
  /\ engine' = "off"
  /\ sync' = [sync EXCEPT !.void = (sync.phase # "idle")]
  /\ UNCHANGED <<chain, gate, receipt>>

-----------------------------------------------------------------------------
(* The engine's switch, the connection, the chain.                         *)

\* resumeClaims: the old work has drained and the old discovery has settled.
Start ==
  /\ engine = "off" /\ sync = Idle /\ receipt = None
  /\ \A k \in Keys : ~HasActive(st[k])
  /\ engine' = "paused"
  /\ UNCHANGED <<st, chain, gate, sync, receipt>>

StopClaims ==
  /\ Enabled
  /\ engine' = "off"
  /\ st' = Stopped
  /\ sync' = [sync EXCEPT !.void = (sync.phase # "idle")]
  /\ UNCHANGED <<chain, gate, receipt>>

Disconnected ==
  /\ engine' = "off"
  /\ gate' = FALSE
  /\ st' = [k \in Keys |-> [Stopped[k] EXCEPT !.inWindow = FALSE]]
  /\ sync' = [sync EXCEPT !.void = (sync.phase # "idle")]
  /\ Enabled \/ gate
  /\ UNCHANGED <<chain, receipt>>

\* A reset notice voids the running discovery and closes the catalog.
ResetNotice ==
  /\ Enabled /\ ~gate
  /\ gate' = TRUE
  /\ sync' = [sync EXCEPT !.void = (sync.phase # "idle")]
  /\ UNCHANGED <<st, chain, engine, receipt>>

Moves == [open |-> {"rival"}, rival |-> {"open", "spent"}, spent |-> {"open"},
          mempool |-> {"mined", "open", "rival"}, mined |-> {"open", "mempool"}]

ChainMoves(k) ==
  /\ \E c \in Moves[chain[k]] : chain' = [chain EXCEPT ![k] = c]
  /\ UNCHANGED <<st, engine, gate, sync, receipt>>

-----------------------------------------------------------------------------
(* Discovery and receipts, syncBountiesInternal().                         *)

\* The catalog's row for a key; an open bounty may have left the window.
Views(k) ==
  CASE chain[k] = "open" -> {"available", "aged"}
    [] chain[k] = "mempool" -> {"own"}
    [] chain[k] = "rival" -> {"rival"}
    [] OTHER -> {"gone"}

SyncReads ==
  /\ Enabled /\ ~sync.void
  /\ sync.phase = "idle"
  /\ \E view \in [Keys -> Rows] :
       /\ \A k \in Keys : view[k] \in Views(k)
       /\ sync' = [phase |-> "reading", void |-> FALSE,
                   view |-> [k \in Keys |->
                     [row |-> view[k], mined |-> chain[k] = "mined"]]]
  /\ UNCHANGED <<st, chain, engine, gate, receipt>>

\* onInvalidate: a journal event about one row, before the snapshot commits.
InvalidateClaim(s, row) ==
  CASE row = "own" -> Removed(Preserved(s))
    [] row = "rival" -> Removed(Invalidated(Preserved(s)))
    [] row = "gone" -> Removed(Invalidated(s))
    [] row = "aged" -> Retired(s)
    [] OTHER -> s

SyncInvalidates(k) ==
  LET s == st[k] v == sync.view[k] IN
  /\ sync.phase = "reading" /\ ~sync.void
  /\ v.row # "available" /\ s.row = "available"
  /\ st' = [st EXCEPT ![k] = [InvalidateClaim(s, v.row) EXCEPT
                                !.row = IF v.row = "aged" THEN @ ELSE s.row]]
  /\ st' # st
  /\ UNCHANGED <<chain, engine, gate, sync, receipt>>

SyncResets ==
  /\ sync.phase = "reading" /\ ~sync.void /\ ~gate
  /\ gate' = TRUE
  /\ UNCHANGED <<st, chain, engine, sync, receipt>>

Evidence(s, row) ==
  LET bad == row \notin {"available", "own"} IN
  [s EXCEPT !.accepted = IF @ = None THEN None ELSE [@ EXCEPT !.invalidated = bad],
            !.sub = IF @ = None THEN None
                    ELSE [@ EXCEPT !.invalid = IF bad THEN "yes" ELSE "no"],
            !.verified = @ /\ ~bad]

\* A confirming block that left the chain opens its bounty to a fresh capture.
Orphaned(s) ==
  IF s.confirmation # None /\ s.confirmation.orphaned /\ ~s.confirmation.reopened
     /\ s.accepted = None /\ ~HasActive(s) /\ ~s.pending
  THEN [s EXCEPT !.reserved = FALSE, !.completed = FALSE,
                 !.confirmation.reopened = TRUE, !.verified = FALSE]
  ELSE s

\* The automatic submission's own reservation is not a foreign spend.
OwnReservation(s) == s.job # "none" /\ s.sub # None /\ s.pending

AppliedRow(s, row) ==
  CASE row = "available" ->
         LET o == Orphaned([Evidence(s, row) EXCEPT !.row = row]) IN
         IF ~o.reserved THEN Enqueued(o)
         ELSE IF OwnReservation(o) THEN o ELSE Removed(o)
    [] row = "own" -> [Removed(Evidence(Preserved(s), row)) EXCEPT !.row = row]
    [] row = "rival" -> [Removed(Evidence(Preserved(s), row)) EXCEPT !.row = row]
    [] row = "gone" -> [Removed(s) EXCEPT !.row = row, !.verified = FALSE]
    [] row = "aged" -> IF Usable(s) THEN LET r == Retired(s) IN
                         IF r.row = "retired" THEN r
                         ELSE [Removed(r) EXCEPT !.row = "aged"]
                       ELSE [Removed(s) EXCEPT !.row = "aged"]

\* retainCatalog drops the proposal of a key that is neither listed nor owned.
RetainedProposal(s) ==
  IF s.row \in {"gone", "aged"} /\ ~HasActive(s) /\ ~s.pending
  THEN [s EXCEPT !.proposed = FALSE] ELSE s

Applied(s, v) ==
  LET c == IF s.confirmation = None THEN s
           ELSE [s EXCEPT !.confirmation.orphaned = ~v.mined]
  IN RetainedProposal([AppliedRow(c, v.row) EXCEPT !.inWindow = v.mined])

SyncApplies ==
  /\ sync.phase = "reading" /\ ~sync.void
  /\ st' = [k \in Keys |-> Applied(st[k], sync.view[k])]
  /\ gate' = FALSE
  /\ engine' = "on"
  /\ sync' = [Idle EXCEPT !.phase = "receipts"]
  /\ UNCHANGED <<chain, receipt>>

\* A void discovery settles; a transient failure keeps the gate and is retried.
SyncAborts ==
  /\ sync.phase = "reading" \/ (sync.phase # "idle" /\ sync.void)
  /\ sync' = Idle
  /\ receipt' = None
  /\ UNCHANGED <<st, chain, engine, gate>>

\* The receipt of one retained claim is read; scheduleClaimReceipts and the due
\* times only delay it.
ReadReceipt(k) ==
  /\ sync.phase = "receipts" /\ ~sync.void /\ receipt = None
  /\ st[k].accepted # None
  /\ receipt' = [key |-> k, answer |-> "none", current |-> TRUE]
  /\ UNCHANGED <<st, chain, engine, gate, sync>>

\* readClaimReceipt checks the answer against the kept transaction.
ReceiptOf(c) ==
  CASE c = "mined" -> "confirmed" [] c = "mempool" -> "pending" [] OTHER -> "missing"

ServerAnswers ==
  /\ receipt # None /\ receipt.answer = "none"
  /\ receipt' = [receipt EXCEPT !.answer = ReceiptOf(chain[receipt.key])]
  /\ UNCHANGED <<st, chain, engine, gate, sync>>

\* Mutant: only the retained proposal is marked confirmed, not the running one.
ConfirmClaim_Unmarked(s) ==
  LET c == Confirmed(s)
      p == [c EXCEPT !.confirmation = [orphaned |-> FALSE, reopened |-> FALSE],
                     !.reserved = TRUE, !.everCounted = TRUE, !.unknown = FALSE]
  IN IF s.job # "none" THEN Removed(p) ELSE p

\* A confirmation is taken once the published window has reached its block.
ConfirmClaim(s) ==
  LET c == Confirmed(s)
      p == [c EXCEPT !.confirmation = [orphaned |-> FALSE, reopened |-> FALSE],
                     !.reserved = TRUE, !.everCounted = TRUE, !.unknown = FALSE,
                     !.prepared.confirmed = TRUE]
  IN IF s.job # "none" THEN Removed(p) ELSE p

\* The node does not know the transaction: its bounty may be claimed again.
ReopenClaim(s) ==
  LET r == [Reopened(s) EXCEPT !.reserved = FALSE, !.unknown = FALSE] IN
  IF s.row = "aged" THEN [r EXCEPT !.row = "retired"] ELSE r

MayReopen(s) ==
  /\ s.row \in {"available", "retired", "aged"} /\ ~s.accepted.invalidated
  /\ ~HasActive(s) /\ s.job = "none"

ReceiptArrives ==
  LET k == receipt.key s == st[receipt.key] IN
  /\ receipt # None /\ receipt.answer # "none" /\ ~sync.void
  /\ st' = [st EXCEPT ![k] =
       CASE receipt.current /\ receipt.answer = "confirmed" /\ s.inWindow -> ConfirmClaim(s)
         [] receipt.current /\ receipt.answer = "missing" /\ MayReopen(s) -> ReopenClaim(s)
         [] OTHER -> s]
  /\ receipt' = None
  /\ UNCHANGED <<chain, engine, gate, sync>>

SyncEnds ==
  /\ sync.phase = "receipts" /\ ~sync.void /\ receipt = None
  /\ sync' = Idle
  /\ UNCHANGED <<st, chain, engine, gate, receipt>>

-----------------------------------------------------------------------------
Next ==
  \/ \E k \in Keys :
       \/ Prepare(k) \/ Dispatch(k) \/ \E found \in BOOLEAN : CaptureEnds(k, found)
       \/ SubmitVerified(k) \/ CheckClaim(k) \/ ReserveClaim(k)
       \/ NotSent(k) \/ WriteClaim(k) \/ SubmitReturns(k) \/ OutcomeUnknown(k)
       \/ \E r \in {"ack", "rejected", "refused", "unknown"} : ServerHandles(k, r)
       \/ ChainMoves(k) \/ SyncInvalidates(k) \/ ReadReceipt(k)
  \/ Start \/ StopClaims \/ Disconnected \/ ResetNotice
  \/ SyncReads \/ SyncResets \/ SyncApplies \/ SyncAborts \/ SyncEnds
  \/ ServerAnswers \/ ReceiptArrives

Spec == Init /\ [][Next]_vars

-----------------------------------------------------------------------------
\* A claim is counted once, however its acceptance is learnt: from the answer of
\* its broadcast, from a receipt that overtook the answer, or again after a
\* replay or a reorganization (submitVerified, confirmAccepted).
CountedOnce == \A k \in Keys : st[k].tally <= 1

\* A verified proof is never lost while its bounty may still be claimed: until
\* the catalog reports the bounty spent, the claim is confirmed or its broadcast
\* is left for review, somebody still owns the proof.
ProofKept ==
  \A k \in Keys :
    st[k].verified => \/ st[k].pending /\ st[k].job = "won"
                      \/ st[k].accepted # None \/ st[k].sub # None
                      \/ st[k].unknown \/ st[k].confirmation # None

\* A confirmed claim keeps its reservation until a reorganization removes the
\* confirming block: no late rejection, timeout or refusal of an older broadcast
\* frees the outpoint.
ConfirmedIsReserved ==
  \A k \in Keys :
    LET c == st[k].confirmation IN
    c # None /\ ~c.reopened => st[k].reserved

\* A broadcast whose outcome is unknown is not repeated, whatever is stopped and
\* started, until a receipt settles it.
SentOnlyIfKnown == \A k \in Keys : WriteClaim(k) => ~st[k].unknown
NoBlindResend == [][SentOnlyIfKnown]_vars
=============================================================================
