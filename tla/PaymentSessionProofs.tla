------------------------- MODULE PaymentSessionProofs ------------------------
(***************************************************************************)
(* What was sent is on record and no output is silently spent twice, for   *)
(* any number of payments, addresses, faults, locks and restarts: nothing  *)
(* is assumed of the bounds.                                               *)
(***************************************************************************)
EXTENDS PaymentSession, TLAPS

Data   == [change : Nat, used : Nat, receive : Nat, details : SUBSET Nat]
Save   == [for : {"confirm", "refresh", "address"}, data : Data]
Review == [id : Nat, inputs : SUBSET Inputs, conflicts : SUBSET Inputs,
           hasChange : BOOLEAN, change : Nat, noted : BOOLEAN, epoch : Nat]
Places == 1..Len(queue)

\* A payment is on its way from the review to the socket.
Underway == pc \in {"network", "saving", "send", "queued"}

\* The types, without the bounds of the model.
Types ==
    /\ session \in BOOLEAN /\ epoch \in Nat
    /\ data \in Data /\ disk \in Data /\ kept \in Data
    /\ queue \in Seq(Save)
    /\ pc \in {"none", "network", "saving", "send", "queued", "wire"}
    /\ preview # NoPayment => preview \in Review
    /\ pc # "none" => pay \in Review
    /\ current \in BOOLEAN /\ adding \in BOOLEAN /\ issued \in Nat
    /\ sent \subseteq Review /\ made \in Nat

\* The wallet data d keeps the notes and the change address of payment p.
Covers(d, p) == /\ p.noted => p.id \in d.details
                /\ p.hasChange => p.change < d.change

\* Whatever may become the file, now or by the saves under way, has every sent payment.
Recorded ==
    \A p \in sent : /\ Covers(disk, p)
                    /\ session => Covers(data, p)
                    /\ pc = "saving" => Covers(kept, p)
                    /\ \A i \in Places : Covers(queue[i].data, p)

\* A payment that may be sent next has been saved, and no save under way undoes it.
Ready ==
    pc \in {"send", "queued"} => /\ Covers(disk, pay)
                                 /\ session => Covers(data, pay)
                                 /\ \A i \in Places : Covers(queue[i].data, pay)

\* The save a confirmation waits for, and all after it, have its payment.
Saving ==
    /\ pc = "saving" /\ session => Covers(data, pay)
    /\ \A i \in Places : queue[i].for = "confirm" =>
         /\ pc = "saving"
         /\ \A j \in Places : /\ j # i => queue[j].for # "confirm"
                              /\ j >= i => Covers(queue[j].data, pay)

\* The same for the save newAddress() waits for.
Adding ==
    /\ adding => pc = "none" /\ issued <= kept.receive
    /\ \A i \in Places : queue[i].for = "address" =>
         /\ adding
         /\ \A j \in Places : /\ j # i => queue[j].for # "address"
                              /\ session /\ j >= i => data.receive <= queue[j].data.receive

\* Whatever may become the file has every receive address that was shown.
Issued ==
    /\ issued <= disk.receive
    /\ session => issued <= data.receive
    /\ \A i \in Places : issued <= queue[i].data.receive

\* A review knows of every payment sent before it.
Knows(p) ==
    \A q \in sent : /\ q.id < p.id
                    /\ q.epoch = p.epoch => q.inputs \cap p.inputs \subseteq p.conflicts

\* The review on offer and the payment being confirmed.
Reviewed ==
    /\ current => session
    /\ preview # NoPayment =>
         /\ session /\ pc = "none" /\ preview.change = data.change
         /\ preview.id <= made /\ preview.epoch = epoch /\ Knows(preview)
    /\ Underway => pay.id <= made /\ pay.epoch <= epoch /\ Knows(pay)
    /\ pc = "network" /\ current => pay.change = data.change
    /\ pc \in {"saving", "send", "queued"} =>
         \A q \in sent : q.hasChange /\ pay.hasChange => q.change < pay.change

\* The outputs of this session's payments stay reserved, and a cancellation gives back
\* only what its own payment reserved.
Reserved ==
    /\ \A p \in sent : /\ p.id <= made /\ p.epoch <= epoch
                       /\ p.epoch = epoch => p.inputs \subseteq reserved
    /\ pc = "queued" =>
         /\ pay.epoch = epoch => pay.inputs \subseteq reserved
         /\ \A q \in sent : q.epoch = epoch => q.inputs \cap newly = {}

Inv == Types /\ Recorded /\ Ready /\ Saving /\ Adding /\ Issued /\ Reviewed /\ Reserved
       /\ ChangeNotReused /\ SpentOnce

\* The data of a new wallet, which also stands for no data.
LEMMA NoDataType == NoData \in Data
  BY DEF NoData, Data

\* A new wallet satisfies the invariant.
LEMMA InvInit == Init => Inv
<1> SUFFICES ASSUME Init PROVE Inv
  OBVIOUS
<1>1. NoData \in Data /\ NoData.receive = 0
  BY NoDataType DEF NoData
<1>2. queue \in Seq(Save) /\ Places = {}
  BY DEF Init, Places
<1>3. Types
  BY <1>1, <1>2 DEF Init, Types
<1>4. QED
  BY <1>1, <1>2, <1>3 DEF Init, Inv, Recorded, Ready, Saving, Adding, Issued, Reviewed, Underway,
                          Reserved, ChangeNotReused, SpentOnce

\* When the save in progress settles, the others move up by one place.
LEMMA QueueTail ==
    ASSUME queue \in Seq(Save), queue # <<>>
    PROVE  LET rest == SubSeq(queue, 1, 1 - 1) \o SubSeq(queue, 1 + 1, Len(queue))
           IN  /\ rest \in Seq(Save) /\ Len(rest) = Len(queue) - 1
               /\ \A j \in 1..Len(rest) : rest[j] = queue[j + 1]
<1>1. SubSeq(queue, 1, 1 - 1) = <<>>
  OBVIOUS
<1>2. /\ SubSeq(queue, 1 + 1, Len(queue)) \in Seq(Save)
      /\ Len(SubSeq(queue, 1 + 1, Len(queue))) = Len(queue) - 1
      /\ \A j \in 1..(Len(queue) - 1) : SubSeq(queue, 1 + 1, Len(queue))[j] = queue[j + 1]
  OBVIOUS
<1>3. <<>> \o SubSeq(queue, 1 + 1, Len(queue)) = SubSeq(queue, 1 + 1, Len(queue))
  BY <1>2
<1>4. QED
  BY <1>1, <1>2, <1>3

\* What a rollback returns.
LEMMA Restored ==
    ASSUME NEW d \in Data, NEW k \in Data
    PROVE  /\ [d EXCEPT !.change = k.change, !.details = k.details] \in Data
           /\ [d EXCEPT !.receive = k.receive] \in Data
  BY DEF Data

\* Every action keeps the types; only the save of a confirmation lets it go on.
LEMMA TypesNext == Types /\ Saving /\ [Next]_vars => Types'
<1> SUFFICES ASSUME Types, Saving, [Next]_vars PROVE Types'
  OBVIOUS
<1> USE DEF Types, confirmVars, outsideVars
<1>1. ASSUME NEW outcome \in {"saved", "failed", "installed"}, SaveEnds(outcome)
       PROVE  Types'
  <2>1. PICK i \in 1..Len(queue) : /\ NextSave(i) /\ SaveSettles(queue[i].for, outcome = "saved")
                                   /\ queue' = SubSeq(queue, 1, i - 1) \o SubSeq(queue, i + 1, Len(queue))
                                   /\ disk' = IF outcome = "failed" THEN disk ELSE queue[i].data
    BY <1>1 DEF SaveEnds
  <2>2. queue' \in Seq(Save) /\ queue[i] \in Save
    BY <2>1, QueueTail DEF NextSave
  <2>3. disk' \in Data /\ data' \in Data /\ issued' \in Nat /\ adding' \in BOOLEAN
    BY <2>1, <2>2, Restored DEF SaveSettles, Save, Data
  <2>4. pc' \in {pc, "send", "none"} /\ (pc' # "none" => pc # "none")
    BY <2>1 DEF SaveSettles, Saving, Places
  <2>5. QED
    BY <1>1, <2>2, <2>3, <2>4 DEF SaveEnds
<1>2. CASE RefreshFinds
  <2>1. PICK p \in sent : data' = [data EXCEPT !.used = p.change + 1]
    BY <1>2 DEF RefreshFinds
  <2>2. data' \in Data
    <3>1. p.change + 1 \in Nat
      BY DEF Review
    <3>2. QED
      BY <2>1, <3>1 DEF Data
  <2>3. [for |-> "refresh", data |-> data'] \in Save
    BY <2>2 DEF Save
  <2>4. queue' \in Seq(Save)
    BY <1>2, <2>3 DEF RefreshFinds, Persist
  <2>5. QED
    BY <1>2, <2>2, <2>4 DEF RefreshFinds
<1>3. CASE NewAddress
  <2>1. data' \in Data
    <3>1. data' = [data EXCEPT !.receive = @ + 1] /\ data \in Data
      BY <1>3 DEF NewAddress
    <3> HIDE DEF Types
    <3>2. QED
      BY <3>1 DEF Data
  <2>2. [for |-> "address", data |-> data'] \in Save
    BY <2>1 DEF Save
  <2>3. queue' \in Seq(Save)
    BY <1>3, <2>2 DEF NewAddress, Persist
  <2>4. QED
    BY <1>3, <2>1, <2>3 DEF NewAddress
<1>4. ASSUME NEW ins \in (SUBSET Inputs) \ {{}}, NEW allowPending \in BOOLEAN,
             NEW hasChange \in BOOLEAN, NEW noted \in BOOLEAN, PreviewSend(ins, allowPending, hasChange, noted)
       PROVE  Types'
  <2>1. preview' \in Review /\ made' \in Nat
    BY <1>4 DEF PreviewSend, Review, Data
  <2>2. QED
    BY <1>4, <2>1 DEF PreviewSend
<1>5. CASE CancelSendPreview
  BY <1>5 DEF CancelSendPreview
<1>6. CASE ConfirmSend
  BY <1>6 DEF ConfirmSend
<1>7. CASE ConfirmStops
  BY <1>7 DEF ConfirmStops
<1>8. CASE Record
  <2>1. CASE NextChange # data.change \/ pay.noted
    <3>1. NextChange \in Nat /\ pay.id \in Nat
      <4>1. pay \in Review /\ data.change \in Nat
        BY <1>8 DEF Record, Data
      <4>2. QED
        BY <4>1 DEF NextChange, Review
    <3>2. data' = [data EXCEPT !.change = NextChange, !.details = IF pay.noted THEN @ \cup {pay.id} ELSE @]
      BY <1>8, <2>1 DEF Record
    <3>3. data' \in Data
      BY <3>1, <3>2 DEF Data
    <3>4. [for |-> "confirm", data |-> data'] \in Save
      BY <3>3 DEF Save
    <3>5. queue' \in Seq(Save)
      BY <1>8, <2>1, <3>4 DEF Record, Persist
    <3>6. QED
      BY <1>8, <2>1, <3>3, <3>5 DEF Record
  <2>2. CASE ~(NextChange # data.change \/ pay.noted)
    BY <1>8, <2>2 DEF Record
  <2>3. QED
    BY <2>1, <2>2
<1>9. CASE GapExhausted
  BY <1>9 DEF GapExhausted
<1>10. CASE Broadcast
  BY <1>10 DEF Broadcast
<1>11. CASE Transmit
  BY <1>11 DEF Transmit
<1>12. CASE Unsent
  BY <1>12 DEF Unsent
<1>13. CASE Unknown
  BY <1>13 DEF Unknown
<1>14. CASE Submitted
  BY <1>14 DEF Submitted
<1>15. ASSUME NEW p \in sent, ServerAccepts(p) PROVE Types'
  BY <1>15 DEF ServerAccepts
<1>16. ASSUME NEW u \in Inputs, ServerEvicts(u) PROVE Types'
  BY <1>16 DEF ServerEvicts
<1>17. CASE Lock
  <2>1. epoch' \in Nat
    BY <1>17 DEF Lock
  <2>2. data' \in Data
    BY <1>17, NoDataType DEF Lock
  <2>3. preview' # NoPayment => preview' \in Review
    BY <1>17 DEF Lock
  <2>4. QED
    BY <1>17, <2>1, <2>2, <2>3 DEF Lock
<1>18. CASE Unlock
  BY <1>18 DEF Unlock
<1>19. CASE Restart
  <2>1. PICK i \in 0..Len(queue) : (i > 0 => NextSave(i)) /\ disk' = IF i = 0 THEN disk ELSE queue[i].data
    BY <1>19 DEF Restart
  <2>2. disk' \in Data
    <3>1. CASE i = 0
      BY <2>1, <3>1
    <3>2. CASE i \in 1..Len(queue)
      <4>1. queue[i] \in Save
        BY <3>2
      <4>2. QED
        BY <2>1, <3>2, <4>1 DEF Save
    <3>3. QED
      BY <3>1, <3>2
  <2>3. epoch' \in Nat
    BY <1>19 DEF Restart
  <2>4. data' \in Data /\ kept' \in Data
    BY <1>19, NoDataType DEF Restart
  <2>5. queue' \in Seq(Save)
    BY <1>19 DEF Restart
  <2>6. preview' # NoPayment => preview' \in Review
    BY <1>19 DEF Restart
  <2>7. QED
    BY <1>19, <2>2, <2>3, <2>4, <2>5, <2>6 DEF Restart
<1>20. CASE UNCHANGED vars
  BY <1>20 DEF vars
<1>21. QED
  BY <1>1, <1>2, <1>3, <1>4, <1>5, <1>6, <1>7, <1>8, <1>9, <1>10, <1>11, <1>12, <1>13, <1>14,
     <1>15, <1>16, <1>17, <1>18, <1>19, <1>20 DEF Next

(***************************************************************************)
(* What is on record.                                                      *)
(***************************************************************************)

\* The save of what was just written to the data is last in the queue.
Grown(for) ==
    /\ Len(queue') = Len(queue) + 1 /\ Len(queue) \in Nat
    /\ \A i \in 1..Len(queue) : queue'[i] = queue[i]
    /\ queue'[Len(queue) + 1].for = for /\ queue'[Len(queue) + 1].data = data'

\* persist() appends a save.
LEMMA Appended ==
    ASSUME queue \in Seq(Save), NEW for, Persist(for, data') PROVE Grown(for)
<1> DEFINE e == [for |-> for, data |-> data']
<1>1. queue' = Append(queue, e) /\ e.for = for /\ e.data = data'
  BY DEF Persist
<1> HIDE DEF e
<1>2. QED
  BY <1>1 DEF Grown

OnRecord == Recorded /\ Ready /\ Saving /\ Adding /\ Issued

\* Saves that succeed, fail or are reported badly, in any order with the steps of a
\* confirmation, keep everything on record.
LEMMA RecordNext == Inv /\ [Next]_vars => OnRecord'
<1> SUFFICES ASSUME Inv, [Next]_vars PROVE OnRecord'
  OBVIOUS
<1>0. Types /\ Types'
  BY TypesNext DEF Inv
<1> USE DEF Inv, OnRecord, Recorded, Ready, Saving, Adding, Issued, Places, confirmVars, outsideVars
<1>1. ASSUME NEW outcome \in {"saved", "failed", "installed"}, SaveEnds(outcome)
       PROVE  OnRecord'
  <2>1. PICK i \in 1..Len(queue) : /\ NextSave(i) /\ SaveSettles(queue[i].for, outcome = "saved")
                                   /\ queue' = SubSeq(queue, 1, i - 1) \o SubSeq(queue, i + 1, Len(queue))
                                   /\ disk' = IF outcome = "failed" THEN disk ELSE queue[i].data
    BY <1>1 DEF SaveEnds
  <2>2. i = 1 /\ queue[1] \in Save /\ Len(queue) \in Nat \ {0} /\ 1 \in 1..Len(queue)
    BY <1>0, <2>1 DEF NextSave, Types
  <2>3. Len(queue') = Len(queue) - 1 /\ \A j \in 1..Len(queue') : queue'[j] = queue[j + 1]
    BY <1>0, <2>1, <2>2, QueueTail DEF NextSave, Types
  <2>4. \A j \in 1..Len(queue') : j + 1 \in 1..Len(queue) /\ j + 1 # 1
    BY <2>2, <2>3
  <2>5. SaveSettles(queue[1].for, outcome = "saved") /\ disk' \in {disk, queue[1].data}
    BY <2>1, <2>2
  <2>6. UNCHANGED <<session, epoch, preview, pay, kept, current, newly, reserved, sent, made>>
    BY <1>1 DEF SaveEnds
  <2>7. CASE queue[1].for = "confirm"
    <3>1. /\ pc = "saving" /\ ~adding /\ adding' = FALSE /\ issued' = issued
          /\ \A j \in 1..Len(queue) : j # 1 => queue[j].for \notin {"confirm", "address"}
      BY <2>2, <2>5, <2>7 DEF SaveSettles
    <3>2. /\ (pc' = "send" /\ outcome = "saved" /\ data' = data) \/ pc' = "none"
          /\ data' = data \/ data' = [data EXCEPT !.change = kept.change, !.details = kept.details]
      BY <2>5, <2>7 DEF SaveSettles
    <3>3. data'.receive = data.receive
      BY <1>0, <3>2 DEF Types, Data
    <3>4. \A p \in sent : session => Covers(data', p)
      BY <1>0, <3>1, <3>2 DEF Types, Data, Covers
    <3>5. Recorded'
      BY <2>2, <2>3, <2>4, <2>5, <2>6, <3>2, <3>4
    <3>6. Ready'
      BY <2>1, <2>2, <2>3, <2>4, <2>6, <2>7, <3>1, <3>2
    <3>7. Saving' /\ Adding'
      BY <2>3, <2>4, <2>6, <3>1, <3>2
    <3>8. Issued'
      BY <2>2, <2>3, <2>4, <2>5, <2>6, <3>1, <3>3
    <3>9. QED
      BY <3>5, <3>6, <3>7, <3>8
  <2>8. CASE queue[1].for = "address"
    <3>1. /\ adding /\ pc = "none" /\ pc' = pc /\ adding' = FALSE
          /\ \A j \in 1..Len(queue) : j # 1 => queue[j].for \notin {"confirm", "address"}
      BY <2>2, <2>5, <2>8 DEF SaveSettles
    <3>2. /\ data' = data \/ data' = [data EXCEPT !.receive = kept.receive]
          /\ \/ issued' = issued
             \/ issued' = data.receive /\ data' = data /\ disk' = queue[1].data /\ session
      BY <2>1, <2>2, <2>5, <2>8 DEF SaveSettles
    <3>3. data'.change = data.change /\ data'.details = data.details /\ data'.receive \in {data.receive, kept.receive}
      BY <1>0, <3>2 DEF Types, Data
    <3>4. \A p \in sent : session => Covers(data', p)
      BY <3>3 DEF Covers
    <3>5. Recorded'
      BY <2>2, <2>3, <2>4, <2>5, <2>6, <3>1, <3>4
    <3>6. Ready' /\ Saving' /\ Adding'
      BY <2>3, <2>4, <2>6, <3>1
    <3>7. Issued'
      <4>1. CASE issued' = issued
        BY <2>2, <2>3, <2>4, <2>5, <2>6, <3>1, <3>3, <4>1
      <4>2. CASE issued' = data.receive /\ data' = data /\ disk' = queue[1].data /\ session
        <5>1. \A j \in 1..Len(queue) : data.receive <= queue[j].data.receive
          BY <2>2, <2>8, <4>2
        <5>2. data.receive <= data.receive
          BY <1>0 DEF Types, Data
        <5>3. QED
          BY <2>2, <2>3, <2>4, <4>2, <5>1, <5>2
      <4>3. QED
        BY <3>2, <4>1, <4>2
    <3>8. QED
      BY <3>5, <3>6, <3>7
  <2>9. CASE queue[1].for = "refresh"
    <3>1. pc' = pc /\ adding' = adding /\ issued' = issued /\ data' = data
      BY <1>0, <2>5, <2>9 DEF SaveSettles, Types
    <3>2. Recorded' /\ Ready' /\ Issued'
      BY <2>2, <2>3, <2>4, <2>5, <2>6, <3>1
    <3>3. \A j, k \in 1..Len(queue') : (j >= k => j + 1 >= k + 1) /\ (j # k => j + 1 # k + 1)
      OBVIOUS
    <3>4. Saving'
      <4>1. SUFFICES ASSUME NEW k \in 1..Len(queue'), queue'[k].for = "confirm"
                     PROVE  /\ pc = "saving"
                            /\ \A j \in 1..Len(queue') : /\ j # k => queue'[j].for # "confirm"
                                                         /\ j >= k => Covers(queue'[j].data, pay)
        BY <2>6, <3>1
      <4>2. k + 1 \in 1..Len(queue) /\ queue[k + 1].for = "confirm"
        BY <2>3, <2>4, <4>1
      <4>3. QED
        BY <2>3, <2>4, <3>3, <4>2
    <3>5. Adding'
      <4>1. SUFFICES ASSUME NEW k \in 1..Len(queue'), queue'[k].for = "address"
                     PROVE  /\ adding
                            /\ \A j \in 1..Len(queue') :
                                 /\ j # k => queue'[j].for # "address"
                                 /\ session /\ j >= k => data.receive <= queue'[j].data.receive
        BY <2>6, <3>1
      <4>2. k + 1 \in 1..Len(queue) /\ queue[k + 1].for = "address"
        BY <2>3, <2>4, <4>1
      <4>3. QED
        BY <2>3, <2>4, <3>3, <4>2
    <3>6. QED
      BY <3>2, <3>4, <3>5
  <2>10. QED
    BY <2>2, <2>7, <2>8, <2>9 DEF Save
<1>2. CASE RefreshFinds
  <2>1. PICK p \in sent : data' = [data EXCEPT !.used = p.change + 1]
    BY <1>2 DEF RefreshFinds
  <2>2. data'.change = data.change /\ data'.details = data.details /\ data'.receive = data.receive
    BY <1>0, <2>1 DEF Types, Data
  <2>3. \A q : Covers(data', q) = Covers(data, q)
    BY <2>2 DEF Covers
  <2>4. Grown("refresh")
    BY <1>0, <1>2, Appended DEF RefreshFinds, Persist, Types
  <2>5. session /\ UNCHANGED <<session, disk, pc, pay, kept, adding, issued, sent>>
    BY <1>2 DEF RefreshFinds
  <2>6. Recorded' /\ Ready'
    BY <2>3, <2>4, <2>5 DEF Grown
  <2>7. Saving'
    BY <2>3, <2>4, <2>5 DEF Grown
  <2>8. Issued'
    BY <2>2, <2>4, <2>5 DEF Grown
  <2>9. data.receive <= queue'[Len(queue) + 1].data.receive
    <3>1. data.receive \in Nat
      BY <1>0 DEF Types, Data
    <3>2. QED
      BY <2>2, <2>4, <3>1 DEF Grown
  <2>10. Adding'
    BY <2>2, <2>4, <2>5, <2>9 DEF Grown
  <2>11. QED
    BY <2>6, <2>7, <2>8, <2>10
<1>3. CASE NewAddress
  <2>1. data' = [data EXCEPT !.receive = @ + 1]
    BY <1>3 DEF NewAddress
  <2>2. data'.change = data.change /\ data'.details = data.details /\ data'.receive = data.receive + 1
    BY <1>0, <2>1 DEF Types, Data
  <2>3. \A q : Covers(data', q) = Covers(data, q)
    BY <2>2 DEF Covers
  <2>4. Grown("address")
    BY <1>0, <1>3, Appended DEF NewAddress, Persist, Types
  <2>5. session /\ pc = "none" /\ ~adding /\ adding' /\ kept' = data /\ UNCHANGED <<session, disk, pc, pay, issued, sent>>
    BY <1>3 DEF NewAddress, Busy
  <2>6. data.receive \in Nat /\ issued \in Nat /\ issued <= data.receive
    BY <1>0, <2>5 DEF Types, Data
  <2>7. Recorded' /\ Ready'
    BY <2>3, <2>4, <2>5 DEF Grown
  <2>8. Saving'
    BY <2>3, <2>4, <2>5 DEF Grown
  <2>9. Issued'
    BY <2>2, <2>4, <2>5, <2>6 DEF Grown
  <2>10. data'.receive <= queue'[Len(queue) + 1].data.receive
    BY <2>2, <2>4, <2>6 DEF Grown
  <2>11. \A i \in 1..Len(queue) : queue[i].for # "address"
    BY <2>5
  <2>12. Adding'
    BY <2>4, <2>5, <2>6, <2>10, <2>11 DEF Grown
  <2>13. QED
    BY <2>7, <2>8, <2>9, <2>12
<1>4. ASSUME NEW ins \in (SUBSET Inputs) \ {{}}, NEW allowPending \in BOOLEAN,
             NEW hasChange \in BOOLEAN, NEW noted \in BOOLEAN, PreviewSend(ins, allowPending, hasChange, noted)
       PROVE  OnRecord'
  BY <1>4 DEF PreviewSend
<1>5. CASE CancelSendPreview
  BY <1>5 DEF CancelSendPreview
<1>6. CASE ConfirmSend
  BY <1>6 DEF ConfirmSend, Busy
<1>7. CASE ConfirmStops
  BY <1>7 DEF ConfirmStops
<1>8. CASE Record
  <2>1. pc = "network" /\ session /\ ~adding /\ UNCHANGED <<session, disk, pay, adding, issued, sent>>
    BY <1>8 DEF Record, Reviewed
  <2>2. pay \in Review /\ data \in Data /\ pay.change = data.change
    BY <1>0, <1>8 DEF Types, Record, Reviewed
  <2>3. NextChange \in Nat /\ NextChange >= data.change /\ (pay.hasChange => NextChange = data.change + 1)
    BY <2>2 DEF NextChange, Review, Data
  <2>4. CASE NextChange # data.change \/ pay.noted
    <3>1. data' = [data EXCEPT !.change = NextChange, !.details = IF pay.noted THEN @ \cup {pay.id} ELSE @]
      BY <1>8, <2>4 DEF Record
    <3>2. /\ data'.change = NextChange /\ data'.receive = data.receive
          /\ data'.details = IF pay.noted THEN data.details \cup {pay.id} ELSE data.details
      BY <2>2, <3>1 DEF Data
    <3>3. Covers(data', pay)
      BY <2>2, <2>3, <3>2 DEF Covers, Data
    <3>4. \A p \in sent : Covers(data, p) => Covers(data', p)
      <4>1. TAKE p \in sent
      <4>2. p.change \in Nat /\ data.change \in Nat
        BY <1>0, <2>2 DEF Types, Review, Data
      <4>3. QED
        BY <2>3, <3>2, <4>2 DEF Covers
    <3>5. Grown("confirm")
      BY <1>0, <1>8, <2>4, Appended DEF Record, Persist, Types
    <3>6. pc' = "saving" /\ kept' = data
      BY <1>8, <2>4 DEF Record
    <3>7. Recorded' /\ Ready'
      BY <2>1, <3>4, <3>5, <3>6 DEF Grown
    <3>8. Saving'
      BY <2>1, <3>3, <3>5, <3>6 DEF Grown
    <3>9. Adding' /\ Issued'
      BY <2>1, <3>2, <3>5, <3>6 DEF Grown
    <3>10. QED
      BY <3>7, <3>8, <3>9
  <2>5. CASE ~(NextChange # data.change \/ pay.noted)
    <3>1. ~pay.hasChange /\ ~pay.noted
      BY <2>2, <2>3, <2>5 DEF Data
    <3>2. \A d : Covers(d, pay)
      BY <3>1 DEF Covers
    <3>3. pc' = "send" /\ UNCHANGED <<data, kept, queue>>
      BY <1>8, <2>5 DEF Record
    <3>4. QED
      BY <2>1, <3>2, <3>3
  <2>6. QED
    BY <2>4, <2>5
<1>9. CASE GapExhausted
  BY <1>9 DEF GapExhausted
<1>10. CASE Broadcast
  BY <1>10 DEF Broadcast
<1>11. CASE Transmit
  BY <1>11 DEF Transmit
<1>12. CASE Unsent
  BY <1>12 DEF Unsent
<1>13. CASE Unknown
  BY <1>13 DEF Unknown
<1>14. CASE Submitted
  BY <1>14 DEF Submitted
<1>15. ASSUME NEW p \in sent, ServerAccepts(p) PROVE OnRecord'
  BY <1>15 DEF ServerAccepts
<1>16. ASSUME NEW u \in Inputs, ServerEvicts(u) PROVE OnRecord'
  BY <1>16 DEF ServerEvicts
<1>17. CASE Lock
  BY <1>17 DEF Lock
<1>18. CASE Unlock
  BY <1>0, <1>18 DEF Types, Unlock, Busy
<1>19. CASE Restart
  BY <1>19 DEF Restart
<1>20. CASE UNCHANGED vars
  BY <1>20 DEF vars
<1>21. QED
  BY <1>1, <1>2, <1>3, <1>4, <1>5, <1>6, <1>7, <1>8, <1>9, <1>10, <1>11, <1>12, <1>13, <1>14,
     <1>15, <1>16, <1>17, <1>18, <1>19, <1>20 DEF Next

(***************************************************************************)
(* What is spent.                                                          *)
(***************************************************************************)

Spent == Reviewed /\ Reserved /\ ChangeNotReused /\ SpentOnce

\* Reviews, reservations and cancellations keep the outputs of what was sent.
LEMMA SpentNext == Inv /\ [Next]_vars => Spent'
<1> SUFFICES ASSUME Inv, [Next]_vars PROVE Spent'
  OBVIOUS
<1>0. Types /\ Types'
  BY TypesNext DEF Inv
<1> USE DEF Inv, Spent, Reviewed, Underway, Knows, Reserved, ChangeNotReused, SpentOnce,
            confirmVars, outsideVars
<1>1. ASSUME NEW outcome \in {"saved", "failed", "installed"}, SaveEnds(outcome)
       PROVE  Spent'
  <2>1. PICK i \in 1..Len(queue) : /\ NextSave(i) /\ SaveSettles(queue[i].for, outcome = "saved")
                                   /\ queue' = SubSeq(queue, 1, i - 1) \o SubSeq(queue, i + 1, Len(queue))
                                   /\ disk' = IF outcome = "failed" THEN disk ELSE queue[i].data
    BY <1>1 DEF SaveEnds
  <2>2. i = 1 /\ queue[1] \in Save /\ Len(queue) \in Nat \ {0} /\ 1 \in 1..Len(queue)
    BY <1>0, <2>1 DEF NextSave, Types
  <2>3. UNCHANGED <<session, epoch, preview, pay, kept, current, newly, reserved, sent, made>>
    BY <1>1 DEF SaveEnds
  <2>4. CASE queue[1].for = "confirm"
    <3>1. pc = "saving" /\ pc' \in {"send", "none"}
      BY <2>1, <2>2, <2>4 DEF SaveSettles, Saving, Places
    <3>2. QED
      BY <2>3, <3>1
  <2>5. CASE queue[1].for # "confirm"
    <3>1. pc' = pc /\ (data' = data \/ data' = [data EXCEPT !.receive = kept.receive])
      BY <2>1, <2>2, <2>5 DEF SaveSettles
    <3>2. data'.change = data.change
      BY <1>0, <3>1 DEF Types, Data
    <3>3. QED
      BY <2>3, <3>1, <3>2
  <2>6. QED
    BY <2>4, <2>5
<1>2. CASE RefreshFinds
  BY <1>0, <1>2 DEF Types, Review, RefreshFinds
<1>3. CASE NewAddress
  BY <1>0, <1>3 DEF Types, Review, NewAddress
<1>4. ASSUME NEW ins \in (SUBSET Inputs) \ {{}}, NEW allowPending \in BOOLEAN,
             NEW hasChange \in BOOLEAN, NEW noted \in BOOLEAN, PreviewSend(ins, allowPending, hasChange, noted)
       PROVE  Spent'
  <2>1. /\ session /\ pc = "none" /\ made' = made + 1
        /\ UNCHANGED <<session, epoch, data, pc, pay, current, newly, reserved, sent>>
        /\ preview' = [id |-> made + 1, inputs |-> ins, conflicts |-> {u \in ins : mempool[u] # 0},
                       hasChange |-> hasChange, change |-> data.change, noted |-> noted, epoch |-> epoch]
    BY <1>4 DEF PreviewSend, Busy
  <2>2. /\ preview'.id = made + 1 /\ preview'.inputs = ins /\ preview'.conflicts = {u \in ins : mempool[u] # 0}
        /\ preview'.change = data.change /\ preview'.epoch = epoch
    BY <2>1
  <2>3. \A q \in sent : q.id < made + 1 /\ (q.epoch = epoch => q.inputs \cap ins \subseteq {u \in ins : mempool[u] # 0})
    BY <1>0, <1>4 DEF Types, Review, PreviewSend, Fundable
  <2>4. made + 1 <= made + 1 /\ \A n \in Nat : n <= made => n <= made + 1
    BY <1>0 DEF Types
  <2>5. Reviewed'
    BY <1>0, <2>1, <2>2, <2>3, <2>4 DEF Types, Review
  <2>6. Reserved'
    BY <1>0, <2>1, <2>4 DEF Types, Review
  <2>7. QED
    BY <2>1, <2>5, <2>6
<1>5. CASE CancelSendPreview
  BY <1>0, <1>5 DEF Types, Review, CancelSendPreview
<1>6. CASE ConfirmSend
  BY <1>0, <1>6 DEF Types, Review, ConfirmSend
<1>7. CASE ConfirmStops
  BY <1>0, <1>7 DEF Types, Review, ConfirmStops
<1>8. CASE Record
  <2>1. /\ pc = "network" /\ session /\ pc' \in {"saving", "send"} /\ current
        /\ UNCHANGED <<session, epoch, preview, pay, current, newly, reserved, sent, made>>
    BY <1>8 DEF Record
  <2>2. \A q \in sent : q.hasChange => q.change < pay.change
    BY <1>8, <2>1 DEF Recorded, Covers
  <2>3. QED
    BY <2>1, <2>2
<1>9. CASE GapExhausted
  BY <1>0, <1>9 DEF Types, Review, GapExhausted
<1>10. CASE Broadcast
  BY <1>0, <1>10 DEF Types, Review, Broadcast
<1>11. CASE Transmit
  BY <1>0, <1>11 DEF Types, Review, Transmit
<1>12. CASE Unsent
  <2>1. pc = "queued" /\ pc' = "none" /\ reserved' \in {reserved \ newly, reserved}
    BY <1>12 DEF Unsent, Released
  <2>2. \A p \in sent : p.epoch = epoch => p.inputs \subseteq reserved'
    BY <2>1
  <2>3. QED
    BY <1>0, <1>12, <2>1, <2>2 DEF Unsent
<1>13. CASE Unknown
  BY <1>0, <1>13 DEF Types, Review, Unknown
<1>14. CASE Submitted
  BY <1>0, <1>14 DEF Types, Review, Submitted
<1>15. ASSUME NEW p \in sent, ServerAccepts(p) PROVE Spent'
  BY <1>0, <1>15 DEF Types, Review, ServerAccepts
<1>16. ASSUME NEW u \in Inputs, ServerEvicts(u) PROVE Spent'
  BY <1>0, <1>16 DEF Types, Review, ServerEvicts
<1>17. CASE Lock
  BY <1>0, <1>17 DEF Types, Review, Lock
<1>18. CASE Unlock
  BY <1>0, <1>18 DEF Types, Review, Unlock
<1>19. CASE Restart
  BY <1>0, <1>19 DEF Types, Review, Restart
<1>20. CASE UNCHANGED vars
  BY <1>20 DEF vars
<1>21. QED
  BY <1>1, <1>2, <1>3, <1>4, <1>5, <1>6, <1>7, <1>8, <1>9, <1>10, <1>11, <1>12, <1>13, <1>14,
     <1>15, <1>16, <1>17, <1>18, <1>19, <1>20 DEF Next

-----------------------------------------------------------------------------
\* The invariant holds from the first wallet on.
LEMMA Invariance == Spec => []Inv
<1>1. Inv /\ [Next]_vars => Inv'
  BY TypesNext, RecordNext, SpentNext DEF Inv, OnRecord, Spent
<1>2. QED
  BY InvInit, <1>1, PTL DEF Spec

\* Whatever reached the network or the user is in the wallet file: the notes and the change
\* index of a sent payment, and the index of a receive address that was shown.  A save that
\* fails or is reported badly, its rollback, lock() and the end of the process do not undo it.
THEOREM SentStaysRecorded == Spec => []SentIsRecorded
<1>1. Inv => SentIsRecorded
  BY DEF Inv, Recorded, Covers, Issued, SentIsRecorded, SentIsOnFile, IssuedIsSaved
<1>2. QED
  BY Invariance, <1>1, PTL

\* Within a session an output is spent again only by a payment whose review disclosed it, and no
\* two payments pay their change to the same address: cancelled confirmations, lost answers
\* and saves that were rolled back free neither the output nor the index.
THEOREM NoOutputTwice == Spec => []NoSilentDoubleSpend
<1>1. Inv => NoSilentDoubleSpend
  BY DEF Inv, NoSilentDoubleSpend
<1>2. QED
  BY Invariance, <1>1, PTL
=============================================================================
