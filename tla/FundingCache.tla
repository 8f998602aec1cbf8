---------------------------- MODULE FundingCache ----------------------------
(***************************************************************************)
(* FundingTransactionCache of src/core/transaction.mjs: the outputs of     *)
(* transactions whose bytes were parsed completely, the least recently     *)
(* used given up first, within a number of entries and of bytes.  What an  *)
(* entry holds follows from its bytes alone; it is left out.               *)
(***************************************************************************)
EXTENDS Integers, Sequences, SequencesExt, FiniteSetsExt

CONSTANTS
    Charge,       \* of each well-formed transaction, what its entry is charged
    MaxEntries, MaxBytes,
    MaxCalls      \* bound

VARIABLES
    entries,      \* the transactions kept, least recently used first
    bytes,        \* what they are charged
    calls

vars == <<entries, bytes, calls>>

Init == entries = <<>> /\ bytes = 0 /\ calls = 0

\* What the n entries used longest ago are charged.
Oldest(n) == MapThenSumSet(LAMBDA i : Charge[entries[i]], 1..n)

\* How many of them are given up to make room for raw.
Evictions(raw) ==
    Min({n \in 0..Len(entries) :
            Len(entries) - n < MaxEntries /\ bytes - Oldest(n) + Charge[raw] <= MaxBytes})

\* Bytes that are used again become the most recently used.
Touch(raw) == entries' = Append(SelectSeq(entries, LAMBDA r : r # raw), raw) /\ bytes' = bytes

\* Faulty variant: and are charged again.
Touch_Charged(raw) ==
    entries' = Append(SelectSeq(entries, LAMBDA r : r # raw), raw) /\ bytes' = bytes + Charge[raw]

Insert(raw) ==
    LET n == Evictions(raw)
    IN /\ entries' = Append(SubSeq(entries, n + 1, Len(entries)), raw)
       /\ bytes' = bytes - Oldest(n) + Charge[raw]

\* #validated, for transactionId, verifyFunding and prepareClaim.  Bytes that do not parse throw
\* before anything is kept, and an entry larger than the cache is used but not kept.
Validated ==
    /\ calls < MaxCalls /\ calls' = calls + 1
    /\ \E raw \in DOMAIN Charge :
         \/ raw \in ToSet(entries) /\ Touch(raw)
         \/ raw \notin ToSet(entries) /\ Charge[raw] <= MaxBytes /\ Insert(raw)
         \/ raw \notin ToSet(entries) /\ Charge[raw] > MaxBytes /\ UNCHANGED <<entries, bytes>>

\* clear, at the end of a session or a connection.
Clear ==
    /\ calls < MaxCalls /\ calls' = calls + 1
    /\ entries' = <<>> /\ bytes' = 0

Next == Validated \/ Clear

Spec == Init /\ [][Next]_vars

----------------------------------------------------------------------------
\* The count of bytes is that of the entries kept, each kept once, and within the limits, over
\* every sequence of uses: else room is given up for nothing, or the search for room finds none.
ChargesAreExact ==
    /\ bytes = Oldest(Len(entries)) /\ bytes <= MaxBytes
    /\ Len(entries) <= MaxEntries /\ IsInjective(entries)
=============================================================================
