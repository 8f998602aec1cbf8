---------------------------- MODULE FundingReads ----------------------------
(***************************************************************************)
(* The raw transactions that fund payments and claims: funding(),          *)
(* paymentParents() and clearFundingCache() of src/core/wallet-service.mjs *)
(* over FundingBytesCache.  Reads are shared by transaction, survive their *)
(* consumers' aborts, and belong to a context: the session, the connection *)
(* and the cache's generation, of which any change is a new context here.  *)
(* A review reads its parents in batches, falls back on single reads when  *)
(* the server has no batches or one parent is too large for a batch, and   *)
(* checks context and abort signal after every wait.  One review is        *)
(* followed; another starts from what it left in the cache and the reads.  *)
(***************************************************************************)
EXTENDS Naturals, FiniteSets, Sequences, SequencesExt, FiniteSetsExt

CONSTANTS
    Tx,            \* transactions
    Selections,    \* the inputs reviews may select: sequences of parents
    Oversized,     \* parents too large to retain
    MaxEntries,    \* of the cache (256 in the code)
    MaxPending,    \* reads at a time (256)
    BatchSize,     \* parents in one batch (32)
    MaxReads,      \* bound: reads
    MaxContexts    \* bound: changes of context

VARIABLES
    context,
    cache,         \* fundingCache, least recently used first: transaction and context
    reads,         \* the reads begun: transaction, context, phase
    pending,       \* fundingPending: transaction -> read, 0 if none
    rawFunding,    \* capabilities.rawFunding
    batches,       \* batchFundingSupported
    waits,         \* consumer -> the read it waits for, or what it got
    review         \* the call of paymentParents()

vars == <<context, cache, reads, pending, rawFunding, batches, waits, review>>

Workers   == {"w1", "w2"}           \* four in the code
Consumers == Workers \cup {"claim"}
Idle      == [st |-> "idle"]
NoReview  == [st |-> "none"]

Init ==
    /\ context = 1 /\ cache = <<>> /\ reads = <<>> /\ pending = [t \in Tx |-> 0]
    /\ rawFunding = TRUE /\ batches = "unknown"
    /\ waits = [c \in Consumers |-> Idle] /\ review = NoReview

----------------------------------------------------------------------------
(* FundingBytesCache *)

Cached == {cache[i].tx : i \in DOMAIN cache}
Without(q, t) == SelectSeq(q, LAMBDA e : e.tx # t)

\* get(): most recently used again.
Touched(t) == Without(cache, t) \o SelectSeq(cache, LAMBDA e : e.tx = t)

\* set(): the least recently used entries make room; an oversized one is not kept.
Stored(q, t, of) ==
    LET rest == Without(q, t)
        keep == IF Len(rest) >= MaxEntries THEN SubSeq(rest, Len(rest) - MaxEntries + 2, Len(rest)) ELSE rest
    IN  IF t \in Oversized THEN rest ELSE Append(keep, [tx |-> t, of |-> of])

----------------------------------------------------------------------------
(* funding() *)

\* A cached, shared or new read for consumer c.
Consult(c, t) ==
    IF t \in Cached
    THEN /\ cache' = Touched(t) /\ waits' = [waits EXCEPT ![c] = [st |-> "got", tx |-> t]]
         /\ UNCHANGED <<reads, pending>>
    ELSE IF pending[t] # 0 /\ reads[pending[t]].of = context
    THEN waits' = [waits EXCEPT ![c] = [st |-> "waits", tx |-> t, read |-> pending[t]]]
         /\ UNCHANGED <<cache, reads, pending>>
    ELSE IF Cardinality({u \in Tx : pending[u] # 0}) >= MaxPending
    THEN waits' = [waits EXCEPT ![c] = [st |-> "failed", tx |-> t]] /\ UNCHANGED <<cache, reads, pending>>
    ELSE /\ Len(reads) < MaxReads
         /\ reads' = Append(reads, [tx |-> t, of |-> context, st |-> "new"])
         /\ pending' = [pending EXCEPT ![t] = Len(reads')]
         /\ waits' = [waits EXCEPT ![c] = [st |-> "waits", tx |-> t, read |-> Len(reads')]]
         /\ UNCHANGED cache

\* Faulty variant: whatever read is pending goes.
Leaves_Any(r) == pending' = [pending EXCEPT ![reads[r].tx] = 0]

\* finally: the entry goes, unless another read has taken its place.
Leaves(r) == pending' = IF pending[reads[r].tx] = r THEN [pending EXCEPT ![reads[r].tx] = 0] ELSE pending

ReadEnds(r, st) == reads' = [reads EXCEPT ![r].st = st] /\ Leaves(r)

\* Faulty variant: the context of a read is not checked again.
Fresh_Always(r) == TRUE

\* check()
Fresh(r) == reads[r].of = context

ReadBegins(r) ==
    /\ reads[r].st = "new"
    /\ IF Fresh(r) THEN reads' = [reads EXCEPT ![r].st = IF rawFunding THEN "raw" ELSE "full"] /\ UNCHANGED pending
       ELSE ReadEnds(r, "failed")
    /\ UNCHANGED <<context, cache, rawFunding, batches, waits, review>>

\* The server does not know raw_only: asked again in full, once and for all.
ReadUnsupported(r) ==
    /\ reads[r].st = "raw"
    /\ IF Fresh(r) THEN rawFunding' = FALSE /\ reads' = [reads EXCEPT ![r].st = "full"] /\ UNCHANGED pending
       ELSE ReadEnds(r, "failed") /\ UNCHANGED rawFunding
    /\ UNCHANGED <<context, cache, batches, waits, review>>

\* The bytes arrive, and hash to the transaction's ID or not.
ReadAnswered(r, right) ==
    /\ reads[r].st \in {"raw", "full"}
    /\ IF Fresh(r) /\ right THEN cache' = Stored(cache, reads[r].tx, reads[r].of) /\ ReadEnds(r, "done")
       ELSE ReadEnds(r, "failed") /\ UNCHANGED cache
    /\ UNCHANGED <<context, rawFunding, batches, waits, review>>

\* A consumer's wait follows the shared promise.
WaitEnds(c) ==
    /\ waits[c].st = "waits" /\ reads[waits[c].read].st \in {"done", "failed"}
    /\ waits' = [waits EXCEPT ![c] = [st |-> IF reads[waits[c].read].st = "done" THEN "got" ELSE "failed", tx |-> waits[c].tx]]
    /\ UNCHANGED <<context, cache, reads, pending, rawFunding, batches, review>>

\* A claim prepares its funding, and may be aborted.
ClaimAsks(t) ==
    /\ waits["claim"].st = "idle"
    /\ Consult("claim", t)
    /\ UNCHANGED <<context, rawFunding, batches, review>>

ClaimLeaves ==
    /\ waits["claim"].st # "idle"
    /\ waits' = [waits EXCEPT !["claim"] = Idle]
    /\ UNCHANGED <<context, cache, reads, pending, rawFunding, batches, review>>

----------------------------------------------------------------------------
(* paymentParents() *)

Live == review.st \notin {"none", "done", "failed"}
Current == review.of = context /\ ~review.aborted
Counts(t) == Cardinality({i \in DOMAIN review.selected : review.selected[i] = t})

\* retain(): a parent and the inputs it funds are counted once.
Retain(rv, t) == IF t \in rv.parents THEN rv
                 ELSE [rv EXCEPT !.parents = @ \cup {t}, !.completed = @ + Counts(t)]

\* The review ends; previewSend aborts its signal, and with it its workers' waits.
Ends(st) ==
    /\ review' = [review EXCEPT !.st = st]
    /\ waits' = [c \in Consumers |-> IF c \in Workers THEN Idle ELSE waits[c]]

ReviewBegins(selected) ==
    /\ review = NoReview
    /\ LET distinct == SetToSeq(ToSet(selected))
           known == SelectSeq(distinct, LAMBDA t : t \in Cached)
       IN  /\ review' = [st |-> "next", of |-> context, aborted |-> FALSE, selected |-> selected,
                         parents |-> ToSet(known),
                         completed |-> Cardinality({i \in DOMAIN selected : selected[i] \in Cached}),
                         missing |-> SelectSeq(distinct, LAMBDA t : t \notin Cached),
                         asked |-> 0, rows |-> 0]
           /\ cache' = SelectSeq(cache, LAMBDA e : e.tx \notin ToSet(known))
                       \o SelectSeq(cache, LAMBDA e : e.tx \in ToSet(known))
    /\ UNCHANGED <<context, reads, pending, rawFunding, batches, waits>>

\* The head of the loop.
ReviewGoesOn ==
    /\ review.st = "next" /\ Current
    /\ IF review.missing = <<>> THEN Ends("done")
       ELSE /\ review' = [review EXCEPT !.st = IF batches = "no" THEN "workers" ELSE "batch",
                                        !.asked = IF batches = "no" THEN 0
                                                  ELSE Min({BatchSize, Len(review.missing)})]
            /\ UNCHANGED waits
    /\ UNCHANGED <<context, cache, reads, pending, rawFunding, batches>>

\* check() fails after any wait, or a request does.
ReviewFails ==
    /\ Live
    /\ Current => review.st \in {"batch", "rows"}
    /\ Ends("failed")
    /\ UNCHANGED <<context, cache, reads, pending, rawFunding, batches>>

NoBatches ==
    /\ review.st = "batch" /\ Current
    /\ batches' = "no"
    /\ review' = [review EXCEPT !.st = "next"]
    /\ UNCHANGED <<context, cache, reads, pending, rawFunding, waits>>

\* The first parent does not fit a batch: read by itself.
TooLarge ==
    /\ review.st = "batch" /\ Current /\ waits["w1"] = Idle
    /\ Consult("w1", review.missing[1])
    /\ review' = [review EXCEPT !.st = "single"]
    /\ UNCHANGED <<context, rawFunding, batches>>

SingleEnds ==
    /\ review.st = "single" /\ Current /\ waits["w1"].st \in {"got", "failed"}
    /\ IF waits["w1"].st = "failed" THEN Ends("failed")
       ELSE /\ review' = [Retain(review, review.missing[1]) EXCEPT !.st = "next", !.missing = Tail(@)]
            /\ waits' = [waits EXCEPT !["w1"] = Idle]
    /\ UNCHANGED <<context, cache, reads, pending, rawFunding, batches>>

\* A batch of the first n, the rest named as remaining...
BatchAnswered(n) ==
    /\ review.st = "batch" /\ Current /\ n \in 1..review.asked
    /\ review' = [review EXCEPT !.st = "rows", !.rows = n, !.asked = n]
    /\ UNCHANGED <<context, cache, reads, pending, rawFunding, batches, waits>>

\* ... verified and remembered one by one, with a yield and a check between them.
RowRemembered ==
    /\ review.st = "rows" /\ Current
    /\ LET t == review.missing[review.asked - review.rows + 1]
           last == review.rows = 1
           kept == Retain(review, t)
       IN  /\ cache' = Stored(cache, t, review.of)
           /\ review' = IF last THEN [kept EXCEPT !.st = "next", !.rows = 0,
                                          !.missing = SubSeq(@, review.asked + 1, Len(@))]
                        ELSE [kept EXCEPT !.rows = @ - 1]
           /\ batches' = IF last THEN "yes" ELSE batches
    /\ UNCHANGED <<context, reads, pending, rawFunding, waits>>

\* Without batches, workers take the missing parents in turn (asked counts them).
WorkerTakes(w) ==
    /\ review.st = "workers" /\ Current /\ waits[w] = Idle
    /\ review.asked < Len(review.missing)
    /\ review' = [review EXCEPT !.asked = @ + 1]
    /\ Consult(w, review.missing[review.asked + 1])
    /\ UNCHANGED <<context, rawFunding, batches>>

WorkerGets(w) ==
    /\ review.st = "workers" /\ Current /\ waits[w].st \in {"got", "failed"}
    /\ IF waits[w].st = "failed" THEN Ends("failed")
       ELSE /\ review' = Retain(review, waits[w].tx)
            /\ waits' = [waits EXCEPT ![w] = Idle]
    /\ UNCHANGED <<context, cache, reads, pending, rawFunding, batches>>

WorkersEnd ==
    /\ review.st = "workers" /\ Current
    /\ review.asked = Len(review.missing) /\ \A w \in Workers : waits[w] = Idle
    /\ Ends("done")
    /\ UNCHANGED <<context, cache, reads, pending, rawFunding, batches>>

\* cancelSendPreview()
ReviewAborted ==
    /\ Live /\ ~review.aborted
    /\ review' = [review EXCEPT !.aborted = TRUE]
    /\ UNCHANGED <<context, cache, reads, pending, rawFunding, batches, waits>>

----------------------------------------------------------------------------
\* clearFundingCache(), alone or with a new session or connection (whose capabilities
\* are unknown).  Reads in flight go on.
ContextChanges(connection) ==
    /\ context < MaxContexts
    /\ context' = context + 1
    /\ cache' = <<>> /\ pending' = [t \in Tx |-> 0]
    /\ IF connection THEN rawFunding' = TRUE /\ batches' = "unknown" ELSE UNCHANGED <<rawFunding, batches>>
    /\ UNCHANGED <<reads, waits, review>>

ReadMoves(r) == ReadBegins(r) \/ \E right \in BOOLEAN : ReadAnswered(r, right)
ReviewMoves ==
    \/ ReviewGoesOn \/ ReviewFails \/ NoBatches \/ TooLarge \/ SingleEnds \/ RowRemembered \/ WorkersEnd
    \/ \E n \in 1..BatchSize : BatchAnswered(n)
    \/ \E w \in Workers : WorkerTakes(w) \/ WorkerGets(w)

Next ==
    \/ \E r \in DOMAIN reads : ReadMoves(r) \/ ReadUnsupported(r)
    \/ \E c \in Consumers : WaitEnds(c)
    \/ (\E t \in Tx : ClaimAsks(t)) \/ ClaimLeaves
    \/ \E selected \in Selections : ReviewBegins(selected)
    \/ ReviewMoves \/ ReviewAborted
    \/ \E connection \in BOOLEAN : ContextChanges(connection)

Spec == Init /\ [][Next]_vars
----------------------------------------------------------------------------
(* Properties *)

\* The cache holds only what the present session and connection supplied, once each
\* and within its limit, whatever reads of an earlier context answer later.
CacheIsOwn ==
    /\ \A i \in DOMAIN cache : cache[i].of = context
    /\ Cardinality(Cached) = Len(cache) /\ Len(cache) <= MaxEntries

\* A pending entry is a running read of the present context, and every such read is
\* the pending one of its transaction: later consumers join it.
ReadsAreShared ==
    \A t \in Tx, r \in DOMAIN reads :
        pending[t] = r <=> reads[r].tx = t /\ reads[r].of = context /\ reads[r].st \notin {"done", "failed"}

\* Progress counts the inputs whose parents are at hand, however they came; a review
\* that returns has every parent, in the context it began in.
ParentsAreComplete ==
    review # NoReview =>
        /\ review.completed = Cardinality({i \in DOMAIN review.selected : review.selected[i] \in review.parents})
        /\ review.st = "done" => review.parents = ToSet(review.selected)

FundingIsOwn == CacheIsOwn /\ ReadsAreShared /\ ParentsAreComplete
=============================================================================
