--------------------------- MODULE PaymentSession ---------------------------
(***************************************************************************)
(* Sending a payment (previewSend and confirmSend of                       *)
(* src/core/wallet-service.mjs) beside everything else that changes or     *)
(* saves session.data: background refreshes, new receive addresses, lock,  *)
(* unlock and the end of the process.                                      *)
(*                                                                         *)
(* The main process runs one user action at a time, except lock and        *)
(* cancelSendPreview (src/main.mjs); background refreshes run beside them. *)
(* The wallet file changes in one step, as module Vault shows: `disk' is   *)
(* what it holds.  A payment is its inputs, the change address it pays to  *)
(* and whether it has a label or message; the transport is module          *)
(* RpcClient, of which a confirmation sees three outcomes.                 *)
(***************************************************************************)
EXTENDS Naturals, Sequences

CONSTANTS
    Inputs,        \* the wallet's outputs
    Gap,           \* ADDRESS_GAP (20)
    MaxPayments,   \* bound: reviews
    MaxReceive,    \* bound: receive addresses
    MaxLocks,      \* bound: locks and restarts
    MaxFaults      \* bound: failed saves and requests

VARIABLES
    session,       \* this.session is set
    epoch,         \* sessions so far
    data,          \* session.data
    disk,          \* the wallet file
    queue,         \* persist() calls in this.persisting: what they save, and for whom
    preview,       \* this.preview, or NoPayment
    pc, pay,       \* the confirmation in progress and its payment
    kept,          \* previousChangeIndex and previousDetails
    current,       \* its signal is not aborted, and epoch and rpc are the review's
    newly, reserved,
    adding,        \* newAddress() is awaiting its save
    issued,        \* the last receive index newAddress() has returned
    sent,          \* payments whose bytes were handed to the socket
    mempool,       \* the server's pending spender of each input, 0 if none
    made, faults   \* reviews and faults so far

vars == <<session, epoch, data, disk, queue, preview, pc, pay, kept, current, newly, reserved,
          adding, issued, sent, mempool, made, faults>>
confirmVars == <<pc, pay, kept, current, newly>>
outsideVars == <<sent, mempool, made>>

\* used is lastUsedChange + 1.
WalletData == [change : 0..MaxPayments, used : 0..MaxPayments, receive : 0..MaxReceive, details : SUBSET (1..MaxPayments)]
NoData     == [change |-> 0, used |-> 0, receive |-> 0, details |-> {}]
\* conflicts: the inputs the review disclosed as spent by a pending transaction.
Payment    == [id : 1..MaxPayments, inputs : SUBSET Inputs, conflicts : SUBSET Inputs,
               hasChange : BOOLEAN, change : 0..MaxPayments, noted : BOOLEAN, epoch : 0..MaxLocks]
NoPayment  == [id |-> 0]

Init ==
    /\ session = TRUE /\ epoch = 0 /\ data = NoData /\ disk = NoData /\ queue = <<>>
    /\ preview = NoPayment /\ pc = "none" /\ pay = NoPayment /\ kept = NoData /\ current = FALSE
    /\ newly = {} /\ reserved = {}
    /\ adding = FALSE /\ issued = 0
    /\ sent = {} /\ mempool = [u \in Inputs |-> 0] /\ made = 0 /\ faults = 0

\* actionInProgress.
Busy == pc # "none" \/ adding

----------------------------------------------------------------------------
(* persist() *)

\* persist(): this.persisting grows by a copy of the data as it is now.
Persist(for, d) == queue' = Append(queue, [for |-> for, data |-> d])

\* Faulty variant: saves are not chained, so a later one may finish first.
NextSave_Any(i) == i \in DOMAIN queue

\* Saves happen in the order they were asked for.
NextSave(i) == queue # <<>> /\ i = 1

\* Faulty variant: a confirmation goes on without its save.
SaveSettles_Regardless(for, ok) ==
    /\ pc' = IF for # "confirm" THEN pc ELSE IF current THEN "send" ELSE "none"
    /\ data' = IF for = "address" /\ ~ok /\ session THEN [data EXCEPT !.receive = kept.receive] ELSE data
    /\ adding' = (adding /\ for # "address")
    /\ issued' = IF for = "address" /\ ok /\ session THEN data.receive ELSE issued

\* The continuation of whoever awaits the save.  A failed one is rolled back if the
\* session is still there (a new one cannot be: the action is in progress).
SaveSettles(for, ok) ==
    /\ pc' = IF for # "confirm" THEN pc ELSE IF ok /\ current THEN "send" ELSE "none"
    /\ data' = IF ok \/ ~session THEN data
               ELSE CASE for = "confirm" -> [data EXCEPT !.change = kept.change, !.details = kept.details]
                      [] for = "address" -> [data EXCEPT !.receive = kept.receive]
                      [] OTHER -> data
    /\ adding' = (adding /\ for # "address")
    /\ issued' = IF for = "address" /\ ok /\ session THEN data.receive ELSE issued

\* updateVault() settles: saved, failed, or installed but reported as an error.
SaveEnds(outcome) ==
    \E i \in 1..Len(queue) :
        LET save == queue[i]
        IN  /\ NextSave(i)
            /\ outcome # "saved" => faults < MaxFaults
            /\ faults' = IF outcome = "saved" THEN faults ELSE faults + 1
            /\ queue' = SubSeq(queue, 1, i - 1) \o SubSeq(queue, i + 1, Len(queue))
            /\ disk' = IF outcome = "failed" THEN disk ELSE save.data
            /\ SaveSettles(save.for, outcome = "saved")
            /\ UNCHANGED <<session, epoch, preview, pay, kept, current, newly, reserved, outsideVars>>

\* A refresh finds a change address of this wallet used: lastUsedChange, persist().
RefreshFinds ==
    /\ session /\ \A i \in DOMAIN queue : queue[i].for # "refresh"   \* refreshes share one read
    /\ \E p \in sent : /\ p.hasChange /\ p.change >= data.used
                       /\ data' = [data EXCEPT !.used = p.change + 1]
    /\ Persist("refresh", data')
    /\ UNCHANGED <<session, epoch, disk, preview, confirmVars, reserved, adding, issued, outsideVars, faults>>

\* newAddress() up to its save.
NewAddress ==
    /\ session /\ ~Busy /\ data.receive < MaxReceive
    /\ data.receive + 1 < Gap   \* no receive address of this wallet was used yet
    /\ adding' = TRUE /\ kept' = data
    /\ data' = [data EXCEPT !.receive = @ + 1]
    /\ Persist("address", data')
    /\ UNCHANGED <<session, epoch, disk, preview, pc, pay, current, newly, reserved, issued, outsideVars, faults>>

----------------------------------------------------------------------------
(* Review *)

\* paymentFunding(): an output with a pending spender only on request, any other one
\* only if it is not reserved.
Fundable(ins, allowPending) ==
    \A u \in ins : IF mempool[u] # 0 THEN allowPending ELSE u \notin reserved

\* previewSend() succeeds: the signed payment is frozen.
PreviewSend(ins, allowPending, hasChange, noted) ==
    /\ session /\ ~Busy /\ made < MaxPayments
    /\ Fundable(ins, allowPending)
    /\ made' = made + 1
    /\ preview' = [id |-> made', inputs |-> ins, conflicts |-> {u \in ins : mempool[u] # 0},
                   hasChange |-> hasChange, change |-> data.change, noted |-> noted, epoch |-> epoch]
    /\ UNCHANGED <<session, epoch, data, disk, queue, confirmVars, reserved, adding, issued, sent, mempool, faults>>

\* cancelSendPreview(): also aborts a confirmation.
CancelSendPreview ==
    /\ session /\ (preview # NoPayment \/ current)
    /\ preview' = NoPayment /\ current' = FALSE
    /\ UNCHANGED <<session, epoch, data, disk, queue, pc, pay, kept, newly, reserved, adding, issued, outsideVars, faults>>

----------------------------------------------------------------------------
(* Confirmation *)

ConfirmSend ==
    /\ session /\ ~Busy /\ preview # NoPayment
    /\ pay' = preview /\ preview' = NoPayment
    /\ pc' = "network" /\ current' = TRUE
    /\ UNCHANGED <<session, epoch, data, disk, queue, kept, newly, reserved, adding, issued, outsideVars, faults>>

\* An error or a failed check() before the broadcast.
ConfirmStops ==
    /\ pc \in {"network", "send"}
    /\ IF current THEN pc = "network" /\ faults < MaxFaults /\ faults' = faults + 1 ELSE UNCHANGED faults
    /\ pc' = "none" /\ current' = FALSE
    /\ UNCHANGED <<session, epoch, data, disk, queue, preview, pay, kept, newly, reserved, adding, issued, outsideVars>>

\* Faulty variant: the next change index is not advanced past the review's.
NextChange_Kept == data.change

\* Faulty variant: the index is advanced twice.
NextChange_Twice == IF pay.hasChange /\ pay.change + 1 > data.change THEN pay.change + 2 ELSE data.change

\* nextChangeIndex.
NextChange == IF pay.hasChange /\ pay.change + 1 > data.change THEN pay.change + 1 ELSE data.change

\* The network is there: the change index and the notes are saved before the broadcast.
Record ==
    /\ pc = "network" /\ current
    /\ pay.hasChange => data.change + 1 < data.used + Gap
    /\ IF NextChange # data.change \/ pay.noted
       THEN /\ data' = [data EXCEPT !.change = NextChange, !.details = IF pay.noted THEN @ \cup {pay.id} ELSE @]
            /\ kept' = data
            /\ Persist("confirm", data')
            /\ pc' = "saving"
       ELSE pc' = "send" /\ UNCHANGED <<data, kept, queue>>
    /\ UNCHANGED <<session, epoch, disk, preview, pay, current, newly, reserved, adding, issued, outsideVars, faults>>

\* Too many unused change addresses.
GapExhausted ==
    /\ pc = "network" /\ current /\ pay.hasChange /\ data.change + 1 >= data.used + Gap
    /\ pc' = "none" /\ current' = FALSE
    /\ UNCHANGED <<session, epoch, data, disk, queue, preview, pay, kept, newly, reserved, adding, issued, outsideVars, faults>>

\* The inputs are reserved and sendrawtransaction is queued.
Broadcast ==
    /\ pc = "send" /\ current
    /\ newly' = pay.inputs \ reserved
    /\ reserved' = reserved \cup pay.inputs
    /\ pc' = "queued"
    /\ UNCHANGED <<session, epoch, data, disk, queue, preview, pay, kept, current, adding, issued, outsideVars, faults>>

\* RpcClient hands the bytes to the socket.
Transmit ==
    /\ pc = "queued" /\ current
    /\ sent' = sent \cup {pay}
    /\ pc' = "wire"
    /\ UNCHANGED <<session, epoch, data, disk, queue, preview, pay, kept, current, newly, reserved, adding, issued, mempool, made, faults>>

\* Faulty variant: every input of a cancelled payment is released.
Released_All == pay.inputs

\* The reservations a cancelled payment gives back: not those of an earlier one.
Released == newly

\* Cancelled before transmission (AbortError, notSent): the reservations go, if the
\* session is still the same.
Unsent ==
    /\ pc = "queued" /\ ~current
    /\ reserved' = IF session THEN reserved \ Released ELSE reserved
    /\ pc' = "none"
    /\ UNCHANGED <<session, epoch, data, disk, queue, preview, pay, kept, current, newly, adding, issued, outsideVars, faults>>

\* Any other end without an answer: the inputs stay reserved.
Unknown ==
    /\ pc \in {"queued", "wire"}
    /\ faults < MaxFaults /\ faults' = faults + 1
    /\ pc' = "none" /\ current' = FALSE
    /\ UNCHANGED <<session, epoch, data, disk, queue, preview, pay, kept, newly, reserved, adding, issued, outsideVars>>

Submitted ==
    /\ pc = "wire" /\ \E u \in pay.inputs : mempool[u] = pay.id
    /\ pc' = "none" /\ current' = FALSE
    /\ UNCHANGED <<session, epoch, data, disk, queue, preview, pay, kept, newly, reserved, adding, issued, outsideVars, faults>>

\* The server takes a payment it was sent into its mempool, now or later...
ServerAccepts(p) ==
    /\ \A u \in p.inputs : mempool[u] < p.id
    /\ mempool' = [u \in Inputs |-> IF u \in p.inputs THEN p.id ELSE mempool[u]]
    /\ UNCHANGED <<session, epoch, data, disk, queue, preview, confirmVars, reserved, adding, issued, sent, made, faults>>

\* ... and may drop it.
ServerEvicts(u) ==
    /\ mempool[u] # 0 /\ faults < MaxFaults /\ faults' = faults + 1
    /\ mempool' = [w \in Inputs |-> IF mempool[w] = mempool[u] THEN 0 ELSE mempool[w]]
    /\ UNCHANGED <<session, epoch, data, disk, queue, preview, confirmVars, reserved, adding, issued, sent, made>>

----------------------------------------------------------------------------
(* Sessions *)

\* lock(): a confirmation and the saves in progress go on without a session.
Lock ==
    /\ session /\ epoch < MaxLocks
    /\ session' = FALSE /\ epoch' = epoch + 1 /\ data' = NoData
    /\ preview' = NoPayment /\ current' = FALSE /\ reserved' = {}
    /\ UNCHANGED <<disk, queue, pc, pay, kept, newly, adding, issued, outsideVars, faults>>

\* unlock(): waits for this.persisting, then reads the file.
Unlock ==
    /\ ~session /\ ~Busy /\ queue = <<>>
    /\ session' = TRUE /\ data' = disk
    /\ UNCHANGED <<epoch, disk, queue, preview, confirmVars, reserved, adding, issued, outsideVars, faults>>

\* The process ends, perhaps just after the save in progress was installed.
Restart ==
    /\ epoch < MaxLocks
    /\ session' = FALSE /\ epoch' = epoch + 1 /\ data' = NoData
    /\ \E i \in 0..Len(queue) :
         /\ i > 0 => NextSave(i)
         /\ disk' = IF i = 0 THEN disk ELSE queue[i].data
    /\ queue' = <<>> /\ preview' = NoPayment
    /\ pc' = "none" /\ pay' = NoPayment /\ kept' = NoData /\ current' = FALSE /\ newly' = {} /\ reserved' = {}
    /\ adding' = FALSE
    /\ UNCHANGED <<issued, outsideVars, faults>>

Next ==
    \/ \E outcome \in {"saved", "failed", "installed"} : SaveEnds(outcome)
    \/ RefreshFinds \/ NewAddress
    \/ \E ins \in (SUBSET Inputs) \ {{}}, allowPending, hasChange, noted \in BOOLEAN :
         PreviewSend(ins, allowPending, hasChange, noted)
    \/ CancelSendPreview
    \/ ConfirmSend \/ ConfirmStops \/ Record \/ GapExhausted \/ Broadcast
    \/ Transmit \/ Unsent \/ Unknown \/ Submitted
    \/ \E p \in sent : ServerAccepts(p)
    \/ \E u \in Inputs : ServerEvicts(u)
    \/ Lock \/ Unlock \/ Restart

Spec == Init /\ [][Next]_vars
----------------------------------------------------------------------------
(* Properties *)

TypeOK ==
    /\ session \in BOOLEAN /\ epoch \in 0..MaxLocks
    /\ data \in WalletData /\ disk \in WalletData /\ kept \in WalletData
    /\ queue \in Seq([for : {"confirm", "refresh", "address"}, data : WalletData])
    /\ preview \in Payment \cup {NoPayment} /\ pay \in Payment \cup {NoPayment}
    /\ pc \in {"none", "network", "saving", "send", "queued", "wire"}
    /\ pc # "none" => pay # NoPayment
    /\ current \in BOOLEAN /\ adding \in BOOLEAN /\ issued \in 0..MaxReceive
    /\ newly \subseteq Inputs /\ reserved \subseteq Inputs
    /\ sent \subseteq Payment /\ mempool \in [Inputs -> 0..MaxPayments]
    /\ made \in 0..MaxPayments /\ data.change <= made /\ faults \in 0..MaxFaults

\* A payment that may have reached the network is in the wallet file: its notes are
\* saved and its change address is behind the saved index.
SentIsOnFile ==
    \A p \in sent : /\ p.noted => p.id \in disk.details
                    /\ p.hasChange => p.change < disk.change

\* A receive address that was shown stays the wallet's: its index is in the file.
IssuedIsSaved == issued <= disk.receive

\* What left the wallet is on record, a payment handed to the network as well as a receive
\* address that was shown, whatever is saved, rolled back, locked or killed afterwards.
SentIsRecorded == SentIsOnFile /\ IssuedIsSaved

\* No two payments pay their change to the same address.
ChangeNotReused ==
    \A p, q \in sent : p # q /\ p.hasChange /\ q.hasChange => p.change # q.change

\* Within a session the wallet never sends a second payment from the same output,
\* unless its review disclosed the conflict: neither a lost answer, nor a cancelled
\* replacement, nor a server that has not seen the first one frees the output.
SpentOnce ==
    \A p, q \in sent : p.id < q.id /\ p.epoch = q.epoch => p.inputs \cap q.inputs \subseteq q.conflicts

\* Payments are kept apart: those of a session spend an output twice only if that was
\* disclosed, and no two of any session pay their change to the same address.
NoSilentDoubleSpend == SpentOnce /\ ChangeNotReused
=============================================================================
