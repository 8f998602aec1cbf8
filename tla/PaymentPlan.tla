----------------------------- MODULE PaymentPlan -----------------------------
(***************************************************************************)
(* What a payment spends: paymentFunding() of src/core/wallet-service.mjs  *)
(* reads the wallet's outputs one account at a time and asks paymentPlan() *)
(* of src/core/transaction.mjs for a plan after each; the signing worker   *)
(* plans again from the outputs that were selected (buildPayment), and the *)
(* bytes it signs are what the fee is really paid for.                     *)
(*                                                                         *)
(* Sizes, dust limits and fee rates are the code's own numbers.  A wallet  *)
(* sends to one recipient.  An account's rows were validated; the order of *)
(* the accounts comes from cached amounts, so it is any order.             *)
(***************************************************************************)
EXTENDS Integers, FiniteSets, Sequences, FiniteSetsExt, SequencesExt

CONSTANTS
    Contents,    \* what an account's address may hold: sequences of rows
    Amounts,     \* amounts asked for
    Rate,        \* connects per virtual byte
    DomainLength,
    MaxInputs,   \* MAX_PAYMENT_INPUTS
    MaxWeight,   \* MAX_PAYMENT_WEIGHT
    MaxFee

VARIABLES
    wallet,      \* account -> its rows
    options,     \* the payment asked for
    left,        \* accounts not read yet
    utxos,       \* free candidates
    pending,     \* pendingCandidates
    over,        \* exceedsInputLimit
    insufficient,\* the last recoverable error
    result,      \* paymentFunding()'s selected inputs or error
    built        \* the signed payment

vars == <<wallet, options, left, utxos, pending, over, insufficient, result, built>>

Accounts == 1..2
Failed(e) == [error |-> e]
Open   == Failed("")

----------------------------------------------------------------------------
(* Sizes: transaction.mjs *)

CompactSize(n) == IF n < 253 THEN 1 ELSE IF n <= 65535 THEN 3 ELSE 5

\* serializeOutput(): amount, type, and a key or a domain, target, root version and mask.
OutputBytes(type) == 8 + (IF type = 1 THEN 1 + 32 ELSE 2 + DomainLength + 32 + 4 + 1)
ChangeBytes == OutputBytes(1)

Ceil(a, b) == (a + b - 1) \div b

\* MAX_PROOF_SIZE (64 KiB) is what spending a bounty takes.
DustThreshold(type) == (OutputBytes(type) + IF type = 2 THEN 41 + Ceil(1 + 5 + 65536, 4) ELSE 58) * 3

\* Faulty variant: the witness of the inputs is forgotten.
EstimateWeight_NoWitness(n, type, change) ==
    4 * (8 + CompactSize(n) + 41 * n + 1 + OutputBytes(type) + IF change THEN ChangeBytes ELSE 0) + 2

\* estimateWeight(): 41 base bytes and 66 of witness for each input.
EstimateWeight(n, type, change) ==
    4 * (8 + CompactSize(n) + 41 * n + 1 + OutputBytes(type) + IF change THEN ChangeBytes ELSE 0)
    + 2 + 66 * n
EstimateVsize(n, type, change) == Ceil(EstimateWeight(n, type, change), 4)

\* serializeTransaction(): version, marker and flag, inputs (outpoint, empty script,
\* sequence), outputs, a 64-byte signature for each input, locktime.
Serialized(n, outputs, witness) ==
    4 + CompactSize(n) + n * (36 + 1 + 4)
      + CompactSize(Len(outputs)) + FoldLeft(LAMBDA sum, o : sum + OutputBytes(o), 0, outputs)
      + (IF witness THEN 2 + n * (1 + 1 + 64) ELSE 0) + 4
TransactionWeight(n, outputs) == 3 * Serialized(n, outputs, FALSE) + Serialized(n, outputs, TRUE)
TransactionVsize(n, outputs) == Ceil(TransactionWeight(n, outputs), 4)

----------------------------------------------------------------------------
(* paymentPlan() *)

Total(coins) == FoldLeft(LAMBDA sum, c : sum + c.amount, 0, coins)

\* Faulty variant: the largest coin always goes first.
Before_Largest(a, b) == a.amount > b.amount

\* A payment that pays its own fee takes a coin of exactly its amount first.
Before(a, b) ==
    LET exact(c) == options.deduct /\ c.amount = options.amount
    IN  IF exact(a) # exact(b) THEN exact(a) ELSE a.amount > b.amount

\* The order of equal coins does not matter to a plan: by account and position.
Sorted(coins) == SortSeq(coins, Before)

Fee(n, change) == Rate * EstimateVsize(n, options.type, change)
ChangeDust == DustThreshold(1)

\* One turn of the selection loop, with n inputs worth `sum': a plan, an error that
\* ends it, or Open to take one more coin.
Deducted(sum, n) ==
    LET rest   == sum - options.amount
        change == IF rest = 0 THEN 0 ELSE IF rest < ChangeDust THEN ChangeDust ELSE rest
        fee    == Fee(n, change > 0)
        total  == options.amount - fee - (change - rest)
    IN  IF rest < 0 THEN Open
        ELSE IF EstimateWeight(n, options.type, change > 0) > MaxWeight THEN Failed("weight")
        ELSE IF total <= 0 \/ total < DustThreshold(options.type) THEN Failed("consumed")
        ELSE [error |-> "none", fee |-> fee, change |-> change, total |-> total]

Added(sum, n) ==
    LET change == sum - options.amount - Fee(n, TRUE)
    IN  IF change >= ChangeDust
        THEN IF EstimateWeight(n, options.type, TRUE) > MaxWeight THEN Failed("weight")
             ELSE [error |-> "none", fee |-> Fee(n, TRUE), change |-> change, total |-> options.amount]
        ELSE IF sum >= options.amount + Fee(n, FALSE)
        THEN [error |-> "none", fee |-> sum - options.amount, change |-> 0, total |-> options.amount]
        ELSE Open

Turn(sum, n) ==
    IF EstimateWeight(n, options.type, FALSE) > MaxWeight THEN Failed("weight")
    ELSE IF options.deduct THEN Deducted(sum, n) ELSE Added(sum, n)

PlanOf(coins) ==
    LET sorted == Sorted(coins)
        turn(n) == Turn(Total(SubSeq(sorted, 1, n)), n)
        ends == {n \in DOMAIN sorted : turn(n) # Open}
    IN  IF options.amount < DustThreshold(options.type) THEN Failed("recipient")
        ELSE IF ends = {} THEN Failed("insufficient")
        ELSE LET n == Min(ends)
                 t == turn(n)
             IN  IF t.error # "none" THEN t
                 ELSE IF t.fee > MaxFee THEN Failed("maxfee")
                 ELSE [error |-> "none", selected |-> SubSeq(sorted, 1, n), inputs |-> n, fee |-> t.fee,
                       change |-> t.change, total |-> t.total,
                       vsize |-> EstimateVsize(n, options.type, t.change > 0)]

\* The errors a later account may still cure.
Recoverable == {"insufficient", "weight", "consumed", "maxfee"}

----------------------------------------------------------------------------
(* paymentFunding() *)

Init ==
    /\ wallet \in [Accounts -> Contents]
    /\ options \in [amount : Amounts, type : {1, 2}, deduct : BOOLEAN, allowPending : BOOLEAN]
    /\ left = Accounts /\ utxos = <<>> /\ pending = <<>> /\ over = FALSE
    /\ insufficient = "insufficient" /\ result = Open /\ built = Open

\* The rows of an account that are "free", or have a "pending" spender; others the wallet has
\* "reserved", or they are unconfirmed or "immature".
Candidates(a, kind) ==
    SelectSeq([i \in DOMAIN wallet[a] |-> [amount |-> wallet[a][i].amount, at |-> <<a, i>>]],
              LAMBDA c : wallet[a][c.at[2]].kind = kind)

\* At most MAX_PAYMENT_INPUTS of them, chosen the way the planner would.
Capped(coins) == IF Len(coins) > MaxInputs THEN SubSeq(Sorted(coins), 1, MaxInputs) ELSE coins

Reads(a) ==
    /\ result = Open /\ a \in left
    /\ left' = left \ {a}
    /\ LET free  == Candidates(a, "free")
           held  == IF options.allowPending THEN pending \o Candidates(a, "pending") ELSE pending
           coins == utxos \o free
           plan  == PlanOf(Capped(coins))
       IN  /\ pending' = Capped(held)
           /\ utxos' = Capped(coins)
           /\ over' = (over \/ Len(held) > MaxInputs \/ Len(coins) > MaxInputs)
           /\ IF free = <<>> THEN UNCHANGED <<result, insufficient>>
              ELSE IF plan.error \in Recoverable THEN insufficient' = plan.error /\ UNCHANGED result
              ELSE result' = plan /\ UNCHANGED insufficient
    /\ UNCHANGED <<wallet, options, built>>

\* Every account was read and the free outputs did not do.
Concludes ==
    /\ result = Open /\ left = {}
    /\ LET coins == utxos \o pending
           plan  == PlanOf(Capped(coins))
           last  == options.allowPending /\ pending # <<>>
           much  == over \/ (last /\ Len(coins) > MaxInputs)
       IN  result' = IF last /\ plan.error = "none" THEN plan
                     ELSE IF much THEN Failed("toomany")
                     ELSE Failed(IF last THEN plan.error ELSE insufficient)
    /\ UNCHANGED <<wallet, options, left, utxos, pending, over, insufficient, built>>

\* buildPayment(): a plan of its own from the selected outputs, and the checks on the
\* signed bytes.
Builds ==
    /\ result.error = "none" /\ built = Open
    /\ LET plan    == PlanOf(result.selected)
           outputs == IF plan.change > 0 THEN <<options.type, 1>> ELSE <<options.type>>
       IN  built' = IF plan.error # "none" THEN plan
                    ELSE IF TransactionWeight(plan.inputs, outputs) > MaxWeight THEN Failed("heavy")
                    ELSE IF TransactionVsize(plan.inputs, outputs) # plan.vsize THEN Failed("size")
                    ELSE plan
    /\ UNCHANGED <<wallet, options, left, utxos, pending, over, insufficient, result>>

Next == (\E a \in Accounts : Reads(a)) \/ Concludes \/ Builds

Spec == Init /\ [][Next]_vars
----------------------------------------------------------------------------
(* Properties *)

Spendable(kinds) ==
    {[amount |-> wallet[a][i].amount, at |-> <<a, i>>] : <<a, i>> \in
        {p \in Accounts \X (1..3) : p[2] \in DOMAIN wallet[p[1]] /\ wallet[p[1]][p[2]].kind \in kinds}}
Eligible == Spendable(IF options.allowPending THEN {"free", "pending"} ELSE {"free"})
Worth(coins) == MapThenSumSet(LAMBDA c : c.amount, coins)

\* Some choice of these coins pays, without change, with room for change.
Payable(coins) ==
    \E chosen \in SUBSET coins :
        /\ Cardinality(chosen) \in 1..MaxInputs
        /\ EstimateWeight(Cardinality(chosen), options.type, TRUE) <= MaxWeight
        /\ Fee(Cardinality(chosen), TRUE) + ChangeDust <= MaxFee
        /\ Worth(chosen) >= options.amount + Fee(Cardinality(chosen), FALSE)

\* What the worker signs is what was reviewed: the same inputs, nothing created or
\* lost, a fee that pays for the bytes really signed and swallows no more than a change
\* output would have cost, no dust, and for the recipient the amount asked for, less
\* only the fee and the dust shortfall when those are deducted.
BuiltIsReviewed ==
    built # Open =>
        LET n == built.inputs
            outputs == IF built.change > 0 THEN <<options.type, 1>> ELSE <<options.type>>
        IN  /\ built = result
            /\ Cardinality(ToSet(built.selected)) = n /\ ToSet(built.selected) \subseteq Eligible
            /\ Total(built.selected) = built.total + built.change + built.fee
            /\ built.fee >= Rate * TransactionVsize(n, outputs)
            /\ built.fee < Rate * TransactionVsize(n, <<options.type, 1>>) + ChangeDust
            /\ built.change = 0 \/ built.change >= ChangeDust
            /\ built.total >= DustThreshold(options.type)
            /\ IF options.deduct THEN options.amount - built.total - built.fee \in 0..ChangeDust
               ELSE built.total = options.amount

\* Reading accounts one by one, capping the candidates and falling back on pending
\* outputs lose no payment: funds are never called insufficient when some choice of
\* eligible outputs pays, a coin of exactly the amount is never passed over for larger
\* ones that fail, and pending outputs are spent only if the free ones cannot pay.
SearchIsComplete ==
    /\ result.error \in {"insufficient", "toomany"} /\ ~options.deduct => ~Payable(Eligible)
    /\ result.error = "insufficient" /\ options.deduct => Worth(Eligible) < options.amount
    /\ options.deduct /\ result.error \in Recoverable \cup {"toomany"} /\ options.amount <= MaxFee =>
         \A c \in Eligible : c.amount = options.amount =>
             options.amount - Fee(1, FALSE) < DustThreshold(options.type)
    /\ result.error = "none" /\ ~options.deduct /\ Payable(Spendable({"free"})) =>
         ToSet(result.selected) \subseteq Spendable({"free"})

PlanIsRight == BuiltIsReviewed /\ SearchIsComplete
=============================================================================
