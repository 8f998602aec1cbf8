------------------------ MODULE WalletLifecycleProofs ------------------------
(***************************************************************************)
(* What is open is what is in the file, and only the last request opens    *)
(* it, for any number of requests, wallets and saves.                      *)
(*                                                                         *)
(* And what is displayed is true, for any number of accounts, pages, reads *)
(* and writes: of the phone's session, where a read that is current is of  *)
(* the account that is selected and a flush lasts as long as its read; of  *)
(* its display cache, where the last verified read waits, is being written *)
(* or is stored; and of the desktop's window.                              *)
(***************************************************************************)
EXTENDS MCWallet, TLAPS

Wallet      == [w : Nat, v : Nat]
Session     == [w : Nat, v : Nat, by : Nat]
Authority   == [id : Nat]
Replacement == [id : Nat, mode : {"recover", "switch"}, epoch : Nat,
                fingerprint : Wallet \cup {None}, live : BOOLEAN]
Setup       == [id : Nat, replacement : Authority \cup {None}, epoch : Nat, live : BOOLEAN]
Creation    == [w : Nat, replacement : Authority \cup {None}, setup : Authority \cup {None},
                recover : BOOLEAN, epoch : Nat, by : Nat, pc : {"wait", "encrypt", "rename", "published"},
                fingerprint : Wallet \cup {None}]
Begin       == [epoch : Nat, mode : {"recover", "switch"}]
Opening     == [epoch : Nat, by : Nat, pc : {"wait", "read", "open"}, write : Nat,
                data : Wallet \cup {None}]

\* Every variable has its type.
TypeOK ==
    /\ file \in Wallet \cup {None} /\ walletExists \in BOOLEAN
    /\ session \in Session \cup {None}
    /\ saves \in Seq(Wallet) /\ saved \in Nat /\ epoch \in Nat
    /\ replacement \in Replacement \cup {None}
    /\ setup \in Setup \cup {None}
    /\ begins \subseteq Begin
    /\ write \in Creation \cup {None}
    /\ unlocks \subseteq Opening
    /\ closed \in BOOLEAN /\ wallets \in Nat /\ asked \in Nat /\ latest \in Nat

\* Nothing is told apart from every wallet, session, request and authority.
LEMMA NoneApart ==
    None \notin Wallet \cup Session \cup Authority \cup Replacement \cup Setup \cup Creation
  BY DEF None, Wallet, Session, Authority, Replacement, Setup, Creation

\* The saves under way continue the file, wallet by wallet and version by version.
SavesContinue ==
    /\ \A i \in 1..Len(saves) : file # None /\ saves[i] = [w |-> file.w, v |-> file.v + i]
    /\ walletExists => file # None

\* A creation under way excludes a session, and is alone with the file once it has waited.
WriteAlone ==
    write # None => /\ session = None
                    /\ write.pc # "wait" => saves = <<>>
                    /\ write.pc = "published" => file = [w |-> write.w, v |-> 0]

\* No operation is of an epoch to come.
EpochsPast ==
    /\ \A b \in begins : b.epoch <= epoch
    /\ \A u \in unlocks : u.epoch <= epoch
    /\ replacement # None => replacement.epoch <= epoch
    /\ write # None => write.epoch <= epoch

\* An unlock that nothing has overtaken is the last request, and no replacement can begin
\* beside it; what it has read is what the file still holds.
Unlocking(u) ==
    /\ ~closed /\ walletExists /\ session = None /\ u.by = latest
    /\ replacement = None /\ setup = None
    /\ \A b \in begins : b.epoch # epoch
    /\ write # None => u.pc = "wait" /\ u.write = write.w
    /\ u.pc # "wait" => saves = <<>>
    /\ u.pc = "open" => u.data = file
UnlocksCurrent == \A u \in unlocks : u.epoch = epoch => Unlocking(u)

\* A creation that nothing has overtaken, and whose setup still stands, is the last request.
WriteCurrent ==
    write # None /\ MayOpen(write) => write.by = latest

Inv == TypeOK /\ SessionIsFile /\ SavesContinue /\ WriteAlone /\ EpochsPast
       /\ UnlocksCurrent /\ WriteCurrent

\* With or without a wallet file, nothing is open or under way at first.
LEMMA InvInit == Init => Inv
<1> SUFFICES ASSUME Init PROVE Inv
  OBVIOUS
<1>1. PICK has \in BOOLEAN : walletExists = has /\ file = IF has THEN [w |-> 0, v |-> 0] ELSE None
  BY DEF Init
<1>2. file \in Wallet \cup {None} /\ (walletExists => file # None) /\ walletExists \in BOOLEAN
  BY <1>1, NoneApart DEF Wallet
<1>3. saves \in Seq(Wallet)
  BY DEF Init
<1>4. TypeOK
  BY <1>2, <1>3 DEF Init, TypeOK
<1>5. SavesContinue
  BY <1>2 DEF Init, SavesContinue
<1>6. QED
  BY <1>4, <1>5 DEF Init, Inv, SessionIsFile, WriteAlone, EpochsPast, UnlocksCurrent, WriteCurrent

\* What the record updates of the actions return.
LEMMA Updates ==
    /\ \A q \in Session : [q EXCEPT !.v = @ + 1] \in Session
    /\ \A r \in Replacement : [r EXCEPT !.live = FALSE] \in Replacement
    /\ \A q \in Setup : [q EXCEPT !.live = FALSE] \in Setup
    /\ \A c \in Creation, p \in {"encrypt", "rename", "published"} : [c EXCEPT !.pc = p] \in Creation
    /\ \A u \in Opening : [u EXCEPT !.pc = "read"] \in Opening
    /\ \A u \in Opening, f \in Wallet \cup {None} : [u EXCEPT !.pc = "open", !.data = f] \in Opening
<1>1. \A q \in Session : [q EXCEPT !.v = @ + 1] \in Session  BY DEF Session
<1>2. \A r \in Replacement : [r EXCEPT !.live = FALSE] \in Replacement  BY DEF Replacement
<1>3. \A q \in Setup : [q EXCEPT !.live = FALSE] \in Setup  BY DEF Setup
<1>4. \A c \in Creation, p \in {"encrypt", "rename", "published"} : [c EXCEPT !.pc = p] \in Creation
  BY DEF Creation
<1>5. \A u \in Opening : [u EXCEPT !.pc = "read"] \in Opening  BY DEF Opening
<1>6. \A u \in Opening, f \in Wallet \cup {None} : [u EXCEPT !.pc = "open", !.data = f] \in Opening
  BY DEF Opening
<1>7. QED  BY <1>1, <1>2, <1>3, <1>4, <1>5, <1>6

\* Every action keeps the types; that an unlock opens a wallet and not nothing depends on the
\* rest of the invariant.
LEMMA TypeNext == Inv /\ [Next]_vars => TypeOK'
<1> SUFFICES ASSUME Inv, [Next]_vars PROVE TypeOK'
  OBVIOUS
<1> USE NoneApart DEF Inv, TypeOK, lifeVars
<1>1. ASSUME NEW mode \in {"recover", "switch"}, BeginWalletReplacement(mode) PROVE TypeOK'
  BY <1>1 DEF BeginWalletReplacement, Ask, Counted, Begin
<1>2. CASE CancelWalletReplacement
  BY <1>2 DEF CancelWalletReplacement, Ask, Counted
<1>3. CASE CancelSetup
  BY <1>3 DEF CancelSetup, AskSetup, Counted
<1>4. CASE Expire
  <2>1. replacement' \in Replacement \cup {None}
    BY <1>4, Updates DEF Expire
  <2>2. setup' \in Setup \cup {None}
    BY <1>4, Updates DEF Expire
  <2>3. asked' \in Nat /\ latest' \in Nat
    BY <1>4 DEF Expire, AskSetup, Counted
  <2>4. QED
    BY <1>4, <2>1, <2>2, <2>3 DEF Expire
<1>5. CASE PrepareWallet
  BY <1>5 DEF PrepareWallet, Ask, Counted, Named, Authority, Setup, Replacement
<1>6. CASE ConfirmWallet
  BY <1>6 DEF ConfirmWallet, Ask, Counted, CreateWallet, Check, AssertReplacement, Authority,
              Setup, Replacement, Creation
<1>7. CASE RestoreWallet
  BY <1>7 DEF RestoreWallet, Ask, Counted, CreateWallet, Named, Authority, Replacement, Creation
<1>8. CASE Unlock
  BY <1>8 DEF Unlock, Ask, Counted, Opening, Creation
<1>9. CASE Lock
  BY <1>9 DEF Lock, Locked, Ask, Counted
<1>10. CASE Close
  BY <1>10 DEF Close, Locked, Ask, Counted
<1>11. CASE Persist
  <2>1. [w |-> session.w, v |-> session.v + 1] \in Wallet
    BY <1>11 DEF Persist, Session, Wallet
  <2>2. saves' \in Seq(Wallet)
    BY <1>11, <2>1 DEF Persist
  <2>3. session' \in Session
    BY <1>11, Updates DEF Persist
  <2>4. QED
    BY <1>11, <2>2, <2>3 DEF Persist
<1>12. ASSUME NEW b \in begins, BeginEnds(b) PROVE TypeOK'
  BY <1>12 DEF BeginEnds, Begin, Replacement
<1>13. CASE WriteWaits
  BY <1>13, Updates DEF WriteWaits
<1>14. CASE VaultChecks
  BY <1>14, Updates DEF VaultChecks
<1>15. CASE Publish
  BY <1>15, Updates DEF Publish, Wallet, Creation
<1>16. CASE PublishedBadly
  BY <1>16 DEF PublishedBadly
<1>17. CASE Published
  BY <1>17 DEF Published, OpenSession, Creation, Session
<1>18. ASSUME NEW u \in unlocks, UnlockWaits(u) PROVE TypeOK'
  BY <1>18, Updates DEF UnlockWaits
<1>19. ASSUME NEW u \in unlocks, UnlockReads(u) PROVE TypeOK'
  <2>1. [u EXCEPT !.pc = "open", !.data = file] \in Opening
    BY Updates
  <2>2. QED
    BY <1>19, <2>1 DEF UnlockReads
<1>20. ASSUME NEW u \in unlocks, UnlockEnds(u) PROVE TypeOK'
  BY <1>20 DEF UnlockEnds, OpenSession, UnlocksCurrent, Unlocking, SavesContinue, Opening, Session,
               Wallet
<1>21. CASE SaveWritten
  BY <1>21 DEF SaveWritten
<1>22. CASE Tick
  BY <1>22 DEF Tick
<1>23. CASE UNCHANGED vars
  BY <1>23 DEF vars
<1>24. QED
  BY <1>1, <1>2, <1>3, <1>4, <1>5, <1>6, <1>7, <1>8, <1>9, <1>10, <1>11, <1>12, <1>13, <1>14,
     <1>15, <1>16, <1>17, <1>18, <1>19, <1>20, <1>21, <1>22, <1>23 DEF Next, Steps

\* Every request and every end of an await keeps the invariant.
LEMMA InvNext == Inv /\ [Next]_vars => Inv'
<1> SUFFICES ASSUME Inv, [Next]_vars PROVE Inv'
  OBVIOUS
<1>0. TypeOK /\ TypeOK'
  BY TypeNext DEF Inv
<1> DEFINE Rest == SessionIsFile /\ SavesContinue /\ WriteAlone /\ EpochsPast /\ UnlocksCurrent /\ WriteCurrent
<1> USE NoneApart DEF Inv, lifeVars, SessionIsFile, SavesContinue, WriteAlone, EpochsPast,
                      UnlocksCurrent, Unlocking, WriteCurrent, MayOpen
<1>1. ASSUME NEW mode \in {"recover", "switch"}, BeginWalletReplacement(mode) PROVE Rest'
  BY <1>0, <1>1 DEF TypeOK, Session, Replacement, Setup, Creation, Begin, Opening,
                    BeginWalletReplacement, Ask, Counted
<1>2. CASE CancelWalletReplacement
  BY <1>0, <1>2 DEF TypeOK, Session, Replacement, Setup, Creation, Begin, Opening,
                    CancelWalletReplacement, Ask, Counted
<1>3. CASE CancelSetup
  <2>1. WriteCurrent'
    BY <1>0, <1>3 DEF TypeOK, Creation, Setup, Authority, CancelSetup, AskSetup
  <2>2. QED
    BY <1>0, <1>3, <2>1 DEF CancelSetup
<1>4. CASE Expire
  <2>1. CASE replacement # None /\ replacement' = [replacement EXCEPT !.live = FALSE] /\ UNCHANGED <<setup, latest>>
    <3>1. replacement' # None /\ replacement'.epoch = replacement.epoch
      BY <1>0, <2>1 DEF TypeOK, Replacement
    <3>2. QED
      BY <1>0, <1>4, <2>1, <3>1 DEF Expire
  <2>2. CASE setup # None /\ setup' = [setup EXCEPT !.live = FALSE] /\ AskSetup /\ UNCHANGED replacement
    <3>1. setup'.id = setup.id /\ ~setup'.live
      BY <1>0, <2>2 DEF TypeOK, Setup
    <3>2. WriteCurrent'
      BY <1>0, <1>4, <2>2, <3>1 DEF TypeOK, Creation, Setup, Authority, Expire, AskSetup
    <3>3. QED
      BY <1>0, <1>4, <2>2, <3>2 DEF Expire
  <2>3. QED
    BY <1>4, <2>1, <2>2 DEF Expire
<1>5. CASE PrepareWallet
  BY <1>0, <1>5 DEF TypeOK, Session, Replacement, Setup, Creation, Begin, Opening, PrepareWallet,
                    Ask, Counted, AssertReplacement
<1>6. CASE ConfirmWallet
  BY <1>0, <1>6 DEF TypeOK, Session, Replacement, Setup, Creation, Begin, Opening, ConfirmWallet,
                    CreateWallet, Check, Ask, Counted, AssertReplacement
<1>7. CASE RestoreWallet
  BY <1>0, <1>7 DEF TypeOK, Session, Replacement, Setup, Creation, Begin, Opening, RestoreWallet,
                    CreateWallet, Check, Ask, Counted, AssertReplacement, Named
<1>8. CASE Unlock
  BY <1>0, <1>8 DEF TypeOK, Session, Replacement, Setup, Creation, Begin, Opening, Unlock, Ask,
                    Counted
<1>9. CASE Lock
  BY <1>0, <1>9 DEF TypeOK, Session, Replacement, Setup, Creation, Begin, Opening, Lock, Locked,
                    Ask, Counted
<1>10. CASE Close
  BY <1>0, <1>10 DEF TypeOK, Session, Replacement, Setup, Creation, Begin, Opening, Close, Locked,
                     Ask, Counted
<1>11. CASE Persist
  <2>1. session'.w = session.w /\ session'.v = session.v + 1 /\ session' # None
    BY <1>0, <1>11 DEF TypeOK, Session, Persist
  <2>2. /\ Len(saves') = Len(saves) + 1
        /\ \A i \in 1..Len(saves) : saves'[i] = saves[i]
        /\ saves'[Len(saves) + 1] = [w |-> session.w, v |-> session.v + 1]
    BY <1>0, <1>11 DEF TypeOK, Persist
  <2>3. file.v \in Nat /\ session.v \in Nat /\ Len(saves) \in Nat
    BY <1>0, <1>11 DEF TypeOK, Wallet, Session, Persist
  <2>4. session.w = file.w /\ session.v + 1 = file.v + (Len(saves) + 1) /\ UNCHANGED <<file, walletExists>> /\ file # None
    BY <1>11, <2>3 DEF Persist
  <2>5. \A i \in 1..(Len(saves) + 1) : saves'[i] = [w |-> file.w, v |-> file.v + i]
    <3>1. TAKE i \in 1..(Len(saves) + 1)
    <3>2. CASE i = Len(saves) + 1
      BY <2>2, <2>4, <3>2
    <3>3. CASE i \in 1..Len(saves)
      BY <2>2, <3>3
    <3>4. QED
      BY <2>3, <3>2, <3>3
  <2>6. SavesContinue'
    BY <2>2, <2>4, <2>5
  <2>7. SessionIsFile'
    BY <2>1, <2>2, <2>3, <2>4
  <2>8. QED
    BY <1>0, <1>11, <2>6, <2>7 DEF Persist
<1>12. ASSUME NEW b \in begins, BeginEnds(b) PROVE Rest'
  BY <1>0, <1>12 DEF TypeOK, Session, Replacement, Setup, Creation, Begin, Opening, BeginEnds
<1>13. CASE WriteWaits
  BY <1>0, <1>13 DEF TypeOK, Session, Replacement, Setup, Creation, Begin, Opening, WriteWaits
<1>14. CASE VaultChecks
  BY <1>0, <1>14 DEF TypeOK, Session, Replacement, Setup, Creation, Begin, Opening, VaultChecks
<1>15. CASE Publish
  <2>1. file' = [w |-> write.w, v |-> 0] /\ file' # None
    BY <1>0, <1>15 DEF TypeOK, Creation, Wallet, Publish
  <2>2. /\ write' # None /\ write'.w = write.w /\ write'.by = write.by /\ write'.epoch = write.epoch
        /\ write'.setup = write.setup /\ write'.pc = "published"
    BY <1>0, <1>15 DEF TypeOK, Creation, Publish
  <2>3. UnlocksCurrent'
    BY <1>15, <2>2 DEF Publish
  <2>4. QED
    BY <1>0, <1>15, <2>1, <2>2, <2>3 DEF Publish
<1>16. CASE PublishedBadly
  <2>1. file # None
    BY <1>0, <1>16 DEF TypeOK, Creation, Wallet, PublishedBadly
  <2>2. QED
    BY <1>0, <1>16, <2>1 DEF TypeOK, Creation, Begin, Opening, PublishedBadly
<1>17. CASE Published
  <2>1. file = [w |-> write.w, v |-> 0] /\ file # None /\ file.w = write.w /\ file.v = 0
    BY <1>0, <1>17 DEF TypeOK, Creation, Wallet, Published
  <2>2. CASE MayOpen(write)
    <3>1. session' = [w |-> write.w, v |-> 0, by |-> write.by]
      BY <1>17, <2>2 DEF Published, OpenSession
    <3>2. session'.w = write.w /\ session'.v = 0 /\ Len(saves) = 0
      BY <1>17, <3>1 DEF Published
    <3>3. SessionIsFile'
      BY <1>17, <2>1, <3>2 DEF Published
    <3>4. QED
      BY <1>0, <1>17, <2>1, <2>2, <3>3 DEF TypeOK, Begin, Opening, Published, OpenSession
  <2>3. CASE ~MayOpen(write)
    BY <1>0, <1>17, <2>1, <2>3 DEF TypeOK, Begin, Opening, Published
  <2>4. QED
    BY <2>2, <2>3
<1>18. ASSUME NEW u \in unlocks, UnlockWaits(u) PROVE Rest'
  BY <1>0, <1>18 DEF TypeOK, Session, Replacement, Setup, Creation, Begin, Opening, UnlockWaits,
                     Waited
<1>19. ASSUME NEW u \in unlocks, UnlockReads(u) PROVE Rest'
  <2> DEFINE w == [u EXCEPT !.pc = "open", !.data = file]
  <2>1. w.epoch = u.epoch /\ w.by = u.by /\ w.pc = "open" /\ w.data = file /\ w.write = u.write
    BY <1>0 DEF TypeOK, Opening
  <2>2. unlocks' = (unlocks \ {u}) \cup {w} /\ u.pc = "read"
    BY <1>19 DEF UnlockReads
  <2> HIDE DEF w
  <2>3. UnlocksCurrent'
    BY <1>19, <2>1, <2>2 DEF UnlockReads
  <2>4. QED
    BY <1>0, <1>19, <2>1, <2>2, <2>3 DEF UnlockReads
<1>20. ASSUME NEW u \in unlocks, UnlockEnds(u) PROVE Rest'
  <2>1. CASE u.epoch = epoch /\ OpenSession(u.data, u.by)
    <3>1. file # None /\ u.data = file /\ saves = <<>> /\ write = None
      BY <1>20, <2>1 DEF UnlockEnds
    <3>2. session' = [w |-> file.w, v |-> file.v, by |-> u.by]
      BY <2>1, <3>1 DEF OpenSession
    <3>3. session'.w = file.w /\ session'.v = file.v + Len(saves)
      BY <1>0, <3>1, <3>2 DEF TypeOK, Wallet
    <3>4. SessionIsFile'
      BY <1>20, <3>1, <3>3 DEF UnlockEnds
    <3>5. QED
      BY <1>0, <1>20, <2>1, <3>1, <3>4 DEF TypeOK, Begin, Opening, UnlockEnds, OpenSession
  <2>2. CASE UNCHANGED <<session, epoch, replacement, setup>>
    BY <1>20, <2>2 DEF UnlockEnds
  <2>3. QED
    BY <1>20, <2>1, <2>2 DEF UnlockEnds
<1>21. CASE SaveWritten
  <2>1. /\ Len(saves') = Len(saves) - 1 /\ Len(saves) \in Nat \ {0}
        /\ \A i \in 1..Len(saves') : saves'[i] = saves[i + 1]
        /\ file' = saves[1]
    BY <1>0, <1>21 DEF TypeOK, SaveWritten
  <2>2. file # None /\ file' = [w |-> file.w, v |-> file.v + 1]
    BY <2>1
  <2>3. file' # None /\ file'.w = file.w /\ file'.v = file.v + 1 /\ file.v \in Nat
    BY <1>0, <2>2 DEF TypeOK, Wallet
  <2>4. \A i \in 1..Len(saves') : saves'[i] = [w |-> file'.w, v |-> file'.v + i]
    <3>1. TAKE i \in 1..Len(saves')
    <3>2. i \in Nat /\ i + 1 \in 1..Len(saves)
      BY <2>1
    <3>3. file.v + (i + 1) = file'.v + i
      BY <2>3, <3>2
    <3>4. QED
      BY <2>1, <2>3, <3>2, <3>3
  <2>5. SavesContinue'
    BY <1>21, <2>3, <2>4 DEF SaveWritten
  <2>6. SessionIsFile'
    BY <1>21, <2>1, <2>3 DEF SaveWritten
  <2>7. QED
    BY <1>0, <1>21, <2>1, <2>5, <2>6 DEF SaveWritten
<1>22. CASE Tick
  <2>1. CASE setup' = None /\ UNCHANGED <<replacement, epoch>>
    BY <1>0, <1>22, <2>1 DEF TypeOK, Creation, Setup, Tick
  <2>2. CASE replacement' = None /\ setup' = None /\ epoch' = epoch + 1
    BY <1>0, <1>22, <2>2 DEF TypeOK, Creation, Begin, Opening, Tick
  <2>3. QED
    BY <1>22, <2>1, <2>2 DEF Tick
<1>23. CASE UNCHANGED vars
  BY <1>0, <1>23 DEF TypeOK, Session, Replacement, Setup, Creation, Begin, Opening, vars
<1>24. QED
  BY <1>0, <1>1, <1>2, <1>3, <1>4, <1>5, <1>6, <1>7, <1>8, <1>9, <1>10, <1>11, <1>12, <1>13, <1>14,
     <1>15, <1>16, <1>17, <1>18, <1>19, <1>20, <1>21, <1>22, <1>23
     DEF Next, Steps

\* The wallet open is the wallet in the file, ahead of it by exactly the saves under way,
\* however creations, replacements, unlocks, locks and saves overtake each other.
THEOREM SessionOnItsFile == Spec => []SessionIsFile
<1>1. Inv => SessionIsFile  BY DEF Inv
<1>2. QED  BY InvInit, InvNext, <1>1, PTL DEF Spec

\* Only the user's last request opens a wallet, and none is opened after close().
THEOREM OnlyTheLatestOpens == Spec => LatestRequestOpens
<1>1. ASSUME Inv, [Next]_vars PROVE [OpenedByLatest]_vars
  <2>1. CASE Published
    BY <1>1, <2>1, NoneApart DEF Inv, WriteCurrent, Published, OpenSession, MayOpen, OpenedByLatest
  <2>2. ASSUME NEW u \in unlocks, UnlockEnds(u) PROVE OpenedByLatest
    BY <1>1, <2>2 DEF Inv, UnlocksCurrent, Unlocking, UnlockEnds, OpenSession, OpenedByLatest
  <2>3. CASE UNCHANGED session \/ Locked \/ Persist
    BY <2>3 DEF OpenedByLatest, Locked, Persist
  <2>4. ~Published /\ ~(\E u \in unlocks : UnlockEnds(u)) => UNCHANGED session \/ Locked \/ Persist
    BY <1>1 DEF Next, Steps, vars, BeginWalletReplacement, CancelWalletReplacement, CancelSetup,
                Expire,
                PrepareWallet, ConfirmWallet, RestoreWallet, CreateWallet, Unlock, Lock, Close, BeginEnds,
                WriteWaits, VaultChecks, Publish, PublishedBadly, UnlockWaits, UnlockReads, SaveWritten, Tick
  <2>5. QED
    BY <2>1, <2>2, <2>3, <2>4
<1>2. QED  BY InvInit, InvNext, <1>1, PTL DEF Spec, LatestRequestOpens

----------------------------------------------------------------------------
(* The phone's session (M) *)

\* Every variable of the phone has its type.
PhoneTypes ==
    /\ chain \in M!Tips /\ ver \in [Accounts -> Int] /\ moves \in Int
    /\ s \in M!Sessions /\ lb \in M!Scheduler /\ reads \in [M!Slots -> M!Reads \cup {Nothing}]
    /\ loading \in M!Calls \cup {Nothing} /\ idle \in BOOLEAN
    /\ watch \in [of : Accounts \cup {Nothing}, asking : M!Calls \cup {Nothing}]
    /\ native \in [of : Accounts \cup {Nothing}, on : BOOLEAN]
    /\ events \in Seq(M!Hints) /\ user \in Int /\ faults \in Int

\* What a read has collected is of its account, and a current read of the selected one.
OwnRead(r, t) ==
    /\ r.cur => r.of = t.acct
    /\ r.balance # Nothing => r.balance.of = r.of
    /\ \A k \in 1..Len(r.pages) : r.pages[k].of = r.of
ReadsAreOwn == \A i \in M!Slots : reads[i] # Nothing => OwnRead(reads[i], s)

\* The read of a flush is the only one, and its flush has not ended.
OneFlush ==
    /\ \A i \in M!Slots : reads[i] # Nothing /\ reads[i].by = "live" => lb.running # Nothing
    /\ \A i, j \in M!Slots :
          reads[i] # Nothing /\ reads[j] # Nothing /\ reads[i].by = "live" /\ reads[j].by = "live" => i = j

\* A scheduler serves its hints, and has none without an account.
Serves(l, t, allowed) == l.dirty /\ allowed /\ t.up => l.timer \/ l.running # Nothing
Forgot(l, t) == t.acct = Nothing => ~l.dirty /\ (l.running # Nothing => ~l.running.cur)

\* What is shown is of the account and of one moment.
Own(t) ==
    /\ t.balance # Nothing => t.balance.of = t.acct
    /\ \A k \in 1..Len(t.history) : t.history[k].of = t.acct
Moment(t) == \A k \in 1..Len(t.history) : t.history[k].tip = t.tip

PhoneInv == PhoneTypes /\ Own(s) /\ Moment(s) /\ ReadsAreOwn /\ OneFlush /\ Serves(lb, s, idle) /\ Forgot(lb, s)

\* The invariant contains what is stated of the phone.
LEMMA PhoneInvTrue == PhoneInv => M!ShownIsOwn /\ M!HistoryIsOneMoment /\ M!HintIsPending
  BY DEF PhoneInv, Own, Moment, Serves, M!ShownIsOwn, M!HistoryIsOneMoment, M!HintIsPending

\* The same data is shown of the same account.
SameShown(t, u) ==
    /\ u \in M!Sessions /\ u.up = t.up /\ u.acct = t.acct /\ u.balance = t.balance /\ u.tip = t.tip
    /\ u.history = t.history

\* invalidate() and the end of the watch void what was counted and keep what is displayed.
LEMMA Invalidated ==
  ASSUME NEW t \in M!Sessions
  PROVE  SameShown(t, M!Invalidate(t)) /\ SameShown(t, M!DisconnectWatch(t))
<1>1. SameShown(t, M!Invalidate(t))
  BY DEF M!Sessions, SameShown, M!Invalidate
<1>2. SameShown(t, M!DisconnectWatch(t))
  BY <1>1 DEF M!Sessions, SameShown, M!DisconnectWatch
<1>3. QED
  BY <1>1, <1>2

\* So does a tip that is observed.
LEMMA Observed ==
  ASSUME NEW t \in M!Sessions, NEW tip \in M!Tips, NEW reset \in BOOLEAN
  PROVE  SameShown(t, M!ObserveTip(t, tip, reset).t)
<1>1. SameShown(t, t) /\ SameShown(t, M!DisconnectWatch(t))
  BY Invalidated DEF SameShown
<1>2. \A u \in M!Sessions : SameShown(t, u) => SameShown(t, [u EXCEPT !.cursor = FALSE])
  BY DEF SameShown, M!Sessions
<1>3. \A u \in M!Sessions : SameShown(t, u) => SameShown(t, [u EXCEPT !.displayTip = tip])
  BY DEF SameShown, M!Sessions
<1>4. SameShown(t, [M!DisconnectWatch(t) EXCEPT !.cursor = FALSE])
  BY <1>1, <1>2 DEF SameShown
<1>5. SameShown(t, [[M!DisconnectWatch(t) EXCEPT !.cursor = FALSE] EXCEPT !.displayTip = tip])
  BY <1>3, <1>4 DEF SameShown
<1>6. SameShown(t, [t EXCEPT !.displayTip = tip])
  BY <1>1, <1>3
<1>7. QED
  BY <1>1, <1>5, <1>6 DEF M!ObserveTip

\* And the tip of a read that is accepted.
LEMMA Accepted ==
  ASSUME NEW t \in M!Sessions, NEW tip \in M!Tips, NEW history \in BOOLEAN
  PROVE  SameShown(t, M!AcceptReadTip(t, tip, history))
  BY DEF M!AcceptReadTip, SameShown, M!Sessions

\* wake() leaves the hints it finds served.
LEMMA Woken ==
  ASSUME NEW l \in M!Scheduler, NEW t \in M!Sessions, NEW allowed \in BOOLEAN
  PROVE  /\ M!Wake(l, t, allowed) \in M!Scheduler /\ Serves(M!Wake(l, t, allowed), t, allowed)
         /\ M!Wake(l, t, allowed).dirty = l.dirty /\ M!Wake(l, t, allowed).running = l.running
  BY DEF M!Wake, M!Scheduler, Serves, M!Sessions

\* request() adds its hint and leaves it served; without an account it adds none.
LEMMA Requested ==
  ASSUME NEW l \in M!Scheduler, NEW t \in M!Sessions, NEW allowed \in BOOLEAN, NEW full \in BOOLEAN, Forgot(l, t)
  PROVE  /\ M!Request(l, t, allowed, full) \in M!Scheduler
         /\ Serves(M!Request(l, t, allowed, full), t, allowed)
         /\ M!Request(l, t, allowed, full).running = l.running
         /\ Forgot(M!Request(l, t, allowed, full), t)
<1>1. CASE t.acct = Nothing
  BY <1>1 DEF M!Request, Forgot, Serves
<1>2. CASE t.acct # Nothing
  <2> DEFINE m == [l EXCEPT !.dirty = TRUE, !.full = @ \/ full]
  <2>1. m \in M!Scheduler /\ m.running = l.running
    BY DEF M!Scheduler
  <2>2. M!Request(l, t, allowed, full) = M!Wake(m, t, allowed)
    BY <1>2 DEF M!Request
  <2> HIDE DEF m
  <2>3. QED
    BY <1>2, <2>1, <2>2, Woken DEF Forgot
<1>3. QED
  BY <1>1, <1>2

\* A read that fails or meets another tip keeps what is displayed.
LEMMA Refusing ==
  ASSUME NEW t \in M!Sessions, NEW changed \in BOOLEAN
  PROVE  SameShown(t, M!Refused(t, changed))
<1> DEFINE hs == t.historyStale \/ changed
           c  == t.cursor /\ ~changed
<1>1. hs \in BOOLEAN /\ c \in BOOLEAN
  OBVIOUS
<1>2. M!Refused(t, changed) = [t EXCEPT !.error = TRUE, !.stale = t.updated, !.historyStale = hs, !.cursor = c]
  BY DEF M!Refused, M!Sessions
<1> HIDE DEF hs, c
<1>3. QED
  BY <1>1, <1>2 DEF SameShown, M!Sessions

\* A light read replaces the balance and keeps the history with its own anchor.
LEMMA BalanceShown ==
  ASSUME NEW t \in M!Sessions, NEW b \in M!Data, Moment(t)
  PROVE  LET u == M!BalancePublished(t, b) IN
         /\ u \in M!Sessions /\ u.up = t.up /\ u.acct = t.acct /\ u.balance = b /\ u.tip = t.tip
         /\ u.history = t.history
<1> DEFINE u1 == [t EXCEPT !.confirmationsStale = TRUE, !.displayTip = b.tip, !.historyStale = TRUE, !.cursor = FALSE]
<1>1. b.tip \in M!Tips
  BY DEF M!Data
<1>2. SameShown(t, u1) /\ SameShown(t, t)
  BY <1>1 DEF SameShown, M!Sessions
<1> HIDE DEF u1
<1> DEFINE P(v) == [v EXCEPT !.balance = b, !.updated = TRUE, !.stale = FALSE, !.error = FALSE,
                             !.historyStale = @ \/ v.tip # b.tip]
<1>3. ASSUME NEW v \in M!Sessions, SameShown(t, v)
      PROVE  /\ P(v) \in M!Sessions /\ P(v).up = t.up /\ P(v).acct = t.acct /\ P(v).balance = b
             /\ P(v).tip = t.tip /\ P(v).history = t.history
  <2> DEFINE hs == v.historyStale \/ v.tip # b.tip
  <2>1. hs \in BOOLEAN
    OBVIOUS
  <2>2. P(v) = [v EXCEPT !.balance = b, !.updated = TRUE, !.stale = FALSE, !.error = FALSE, !.historyStale = hs]
    BY <1>3 DEF M!Sessions
  <2> HIDE DEF hs, P
  <2> DEFINE w == [v EXCEPT !.balance = b]
  <2>3. w \in M!Sessions /\ w.up = t.up /\ w.acct = t.acct /\ w.balance = b /\ w.tip = t.tip
        /\ w.history = t.history
    BY <1>3 DEF SameShown, M!Sessions
  <2>4. P(v) = [w EXCEPT !.updated = TRUE, !.stale = FALSE, !.error = FALSE, !.historyStale = hs]
    BY <2>2
  <2> HIDE DEF w
  <2>5. QED
    BY <2>1, <2>3, <2>4 DEF M!Sessions
<1>4. M!BalancePublished(t, b) = M!AcceptReadTip(P(u1), b.tip, FALSE) \/ M!BalancePublished(t, b) = M!AcceptReadTip(P(t), b.tip, FALSE)
  BY DEF M!BalancePublished, u1
<1> HIDE DEF P
<1>5. P(u1) \in M!Sessions /\ P(t) \in M!Sessions
  BY <1>2, <1>3 DEF SameShown
<1>6. SameShown(P(u1), M!AcceptReadTip(P(u1), b.tip, FALSE))
      /\ SameShown(P(t), M!AcceptReadTip(P(t), b.tip, FALSE))
  BY <1>1, <1>5, Accepted
<1>7. QED
  BY <1>2, <1>3, <1>4, <1>6 DEF SameShown

\* A full read replaces balance, anchor and history, and "load more" appends its page.
LEMMA HistoryShown ==
  ASSUME NEW t \in M!Sessions, NEW r \in M!Reads, NEW tip \in M!Tips, r.balance # Nothing
  PROVE  LET u == M!HistoryPublished(t, r, tip) IN
         /\ u \in M!Sessions /\ u.up = t.up /\ u.acct = t.acct /\ u.balance = r.balance /\ u.tip = tip
         /\ u.history = (IF r.kind = "more" THEN t.history ELSE <<>>) \o r.pages
<1> DEFINE rows == (IF r.kind = "more" THEN t.history ELSE <<>>) \o r.pages
           v == [t EXCEPT !.balance = r.balance, !.tip = tip, !.history = rows, !.cursor = Len(rows) < Pages,
                          !.historyStale = @ /\ r.kind = "more", !.updated = TRUE, !.stale = FALSE,
                          !.error = FALSE]
           more == Len(rows) < Pages
<1>1. r.pages \in Seq(M!Data) /\ t.history \in Seq(M!Data) /\ r.balance \in M!Data
  BY DEF M!Reads, M!Sessions
<1>2. rows \in Seq(M!Data) /\ more \in BOOLEAN
  BY <1>1
<1> HIDE DEF rows
<1>3. v \in M!Sessions /\ v.up = t.up /\ v.acct = t.acct /\ v.balance = r.balance /\ v.tip = tip
      /\ v.history = rows
  <2> DEFINE hs == t.historyStale /\ r.kind = "more"
  <2>1. hs \in BOOLEAN
    OBVIOUS
  <2>2. v = [t EXCEPT !.balance = r.balance, !.tip = tip, !.history = rows, !.cursor = more,
                      !.historyStale = hs, !.updated = TRUE, !.stale = FALSE, !.error = FALSE]
    BY DEF M!Sessions
  <2> HIDE DEF v, hs, more
  <2> DEFINE w == [t EXCEPT !.balance = r.balance, !.tip = tip, !.history = rows]
  <2>3. w \in M!Sessions /\ w.up = t.up /\ w.acct = t.acct /\ w.balance = r.balance /\ w.tip = tip
        /\ w.history = rows
    BY <1>1, <1>2 DEF M!Sessions
  <2>4. v = [w EXCEPT !.cursor = more, !.historyStale = hs, !.updated = TRUE, !.stale = FALSE, !.error = FALSE]
    BY <2>2
  <2> HIDE DEF w
  <2>6. more \in BOOLEAN
    BY <1>2
  <2> DEFINE z == [w EXCEPT !.cursor = more, !.historyStale = hs]
  <2>7. z \in M!Sessions /\ z.up = w.up /\ z.acct = w.acct /\ z.balance = w.balance
        /\ z.tip = w.tip /\ z.history = w.history
    BY <2>1, <2>3, <2>6 DEF M!Sessions
  <2>8. v = [z EXCEPT !.updated = TRUE, !.stale = FALSE, !.error = FALSE]
    BY <2>4
  <2> HIDE DEF z
  <2>9. v \in M!Sessions /\ v.up = z.up /\ v.acct = z.acct /\ v.balance = z.balance
        /\ v.tip = z.tip /\ v.history = z.history
    BY <2>7, <2>8 DEF M!Sessions
  <2>5. QED
    BY <2>3, <2>7, <2>9
<1>4. M!HistoryPublished(t, r, tip) = M!AcceptReadTip(v, tip, TRUE)
  BY DEF M!HistoryPublished, rows
<1> HIDE DEF v
<1>5. SameShown(v, M!HistoryPublished(t, r, tip))
  BY <1>3, <1>4, Accepted
<1>6. QED
  BY <1>3, <1>5 DEF SameShown, rows

\* What a current read publishes is of the selected account and of one moment.
LEMMA Settled ==
  ASSUME s \in M!Sessions, NEW r \in M!Reads, Own(s), Moment(s), OwnRead(r, s), r.cur, M!Complete(r)
  PROVE  LET u == M!Published(s, r) IN
         u \in M!Sessions /\ u.up = s.up /\ u.acct = s.acct /\ Own(u) /\ Moment(u)
<1>1. CASE ~M!Publishes(r)
  <2>1. M!Published(s, r) = M!Refused(s, ~r.failed)
    BY <1>1 DEF M!Published
  <2>4. (~r.failed) \in BOOLEAN
    OBVIOUS
  <2>2. SameShown(s, M!Published(s, r))
    BY <2>1, <2>4, Refusing
  <2>3. QED
    BY <2>2 DEF SameShown, Own, Moment
<1>2. CASE M!Publishes(r)
  <2>1. M!Passed(r) /\ r.balance # Nothing /\ r.balance \in M!Data /\ r.balance.of = s.acct
    BY <1>2 DEF M!Publishes, M!Complete, M!Passed, M!Reads, OwnRead
  <2>2. CASE r.kind = "balance"
    <3>1. M!Published(s, r) = M!BalancePublished(s, r.balance)
      BY <1>2, <2>2 DEF M!Published
    <3>2. QED
      BY <2>1, <3>1, BalanceShown DEF Own, Moment
  <2>3. CASE r.kind # "balance"
    <3> DEFINE u == M!HistoryPublished(s, r, r.balance.tip)
               old == IF r.kind = "more" THEN s.history ELSE <<>>
    <3>1. M!Published(s, r) = u
      BY <1>2, <2>3 DEF M!Published
    <3>2. r.balance.tip \in M!Tips
      BY <2>1 DEF M!Data
    <3>3. /\ u \in M!Sessions /\ u.up = s.up /\ u.acct = s.acct /\ u.balance = r.balance
          /\ u.tip = r.balance.tip
          /\ u.history = old \o r.pages
      BY <2>1, <3>2, HistoryShown
    <3>4. /\ old \in Seq(M!Data) /\ r.pages \in Seq(M!Data)
          /\ \A k \in 1..Len(old) : old[k].of = s.acct /\ old[k].tip = r.balance.tip
      BY <1>2, <2>1, <2>3 DEF Own, Moment, M!Publishes, M!OneTip, M!Passed, M!Sessions, M!Reads
    <3>5. \A k \in 1..Len(r.pages) : r.pages[k].of = s.acct /\ r.pages[k].tip = r.balance.tip
      BY <1>2, <2>1, <2>3 DEF OwnRead, M!Publishes, M!OneTip
    <3> HIDE DEF u, old
    <3>6. \A k \in 1..Len(old \o r.pages) :
             (old \o r.pages)[k].of = s.acct /\ (old \o r.pages)[k].tip = r.balance.tip
      BY <3>4, <3>5
    <3>7. QED
      BY <2>1, <3>1, <3>3, <3>6 DEF Own, Moment
  <2>4. QED
    BY <2>2, <2>3
<1>3. QED
  BY <1>1, <1>2

\* What reads are good for after an action that begins none and answers none.
LEMMA ReadsKept ==
  ASSUME PhoneInv, s' \in M!Sessions, lb.running # Nothing => lb'.running # Nothing,
         (reads' = reads /\ s'.acct = s.acct) \/ reads' = M!Invalidates
  PROVE  reads' \in [M!Slots -> M!Reads \cup {Nothing}] /\ ReadsAreOwn' /\ OneFlush'
<1> USE DisplayConstants DEF PhoneInv, PhoneTypes
<1>1. CASE reads' = reads /\ s'.acct = s.acct
  BY <1>1 DEF ReadsAreOwn, OwnRead, OneFlush
<1>2. CASE reads' = M!Invalidates
  <2>1. \A r \in M!Reads :
           /\ [r EXCEPT !.cur = FALSE] \in M!Reads /\ ~[r EXCEPT !.cur = FALSE].cur
           /\ [r EXCEPT !.cur = FALSE].by = r.by /\ [r EXCEPT !.cur = FALSE].of = r.of
           /\ [r EXCEPT !.cur = FALSE].balance = r.balance /\ [r EXCEPT !.cur = FALSE].pages = r.pages
    BY DEF M!Reads
  <2>2. reads' = [i \in M!Slots |-> IF reads[i] = Nothing THEN Nothing ELSE [reads[i] EXCEPT !.cur = FALSE]]
    BY <1>2 DEF M!Invalidates, M!Void
  <2>3. ASSUME NEW i \in M!Slots
        PROVE  /\ reads'[i] \in M!Reads \cup {Nothing}
               /\ reads'[i] # Nothing =>
                    /\ reads[i] # Nothing /\ ~reads'[i].cur /\ reads'[i].by = reads[i].by
                    /\ reads'[i].of = reads[i].of
                    /\ reads'[i].balance = reads[i].balance /\ reads'[i].pages = reads[i].pages
    <3>1. CASE reads[i] = Nothing
      BY <2>2, <3>1
    <3>2. CASE reads[i] # Nothing
      <4>1. reads[i] \in M!Reads /\ reads'[i] = [reads[i] EXCEPT !.cur = FALSE]
        BY <2>2, <3>2
      <4>2. QED
        BY <2>1, <3>2, <4>1
    <3>3. QED
      BY <3>1, <3>2
  <2>5. reads' \in [M!Slots -> M!Reads \cup {Nothing}]
    <3>1. reads' = [i \in M!Slots |-> reads'[i]]
      BY <2>2
    <3>2. QED
      BY <2>3, <3>1
  <2>6. \A i \in M!Slots : reads'[i] # Nothing =>
           /\ reads[i] # Nothing /\ ~reads'[i].cur /\ reads'[i].by = reads[i].by
           /\ reads'[i].of = reads[i].of
           /\ reads'[i].balance = reads[i].balance /\ reads'[i].pages = reads[i].pages
    BY <2>3
  <2>7. ReadsAreOwn'
    BY <2>6 DEF ReadsAreOwn, OwnRead
  <2>8. OneFlush'
    BY <2>6 DEF OneFlush
  <2>9. QED
    BY <2>5, <2>7, <2>8
<1>3. QED
  BY <1>1, <1>2

\* A refresh that begins.
LEMMA Refreshing ==
  ASSUME PhoneInv, NEW kind \in {"full", "balance", "more", "reload"}, NEW by \in {"load", "user", "live"},
         s.acct # Nothing, M!Refresh(s, kind, by), lb.running # Nothing => lb'.running # Nothing,
         by = "live" => M!Outstanding = {} /\ lb'.running # Nothing
  PROVE  /\ SameShown(s, s') /\ loading' \in M!Calls \cup {Nothing}
         /\ reads' \in [M!Slots -> M!Reads \cup {Nothing}] /\ ReadsAreOwn' /\ OneFlush'
<1> DEFINE i == CHOOSE j \in M!Slots : reads[j] = Nothing
           r == [by |-> by, kind |-> kind, of |-> s.acct, tip |-> Nothing, balance |-> Nothing, pages |-> <<>>, cur |-> TRUE,
                 failed |-> FALSE, want |-> IF kind = "reload" THEN Len(s.history) ELSE 0]
<1>1. s' = [s EXCEPT !.busy = TRUE, !.error = FALSE] /\ reads' = [reads EXCEPT ![i] = r]
      /\ loading' = IF loading = Nothing \/ by = "load" THEN Nothing ELSE [loading EXCEPT !.cur = FALSE]
  BY DEF M!Refresh
<1>2. SameShown(s, s')
  BY <1>1 DEF PhoneInv, PhoneTypes, SameShown, M!Sessions
<1>3. loading' \in M!Calls \cup {Nothing}
  BY <1>1 DEF PhoneInv, PhoneTypes, M!Calls
<1>4. (IF kind = "reload" THEN Len(s.history) ELSE 0) \in Nat /\ s.acct \in Accounts
  BY DEF PhoneInv, PhoneTypes, M!Sessions
<1>5. r \in M!Reads
  BY <1>4 DEF M!Reads
<1>6. r.by = by /\ r.of = s.acct /\ r.balance = Nothing /\ r.pages = <<>>
  OBVIOUS
<1> HIDE DEF i, r
<1>7. reads' \in [M!Slots -> M!Reads \cup {Nothing}]
  BY <1>1, <1>5 DEF PhoneInv, PhoneTypes
<1>8. \A j \in M!Slots : reads'[j] = reads[j] \/ (j = i /\ reads'[j] = r)
  BY <1>1 DEF PhoneInv, PhoneTypes
<1>9. OwnRead(r, s')
  BY <1>2, <1>6 DEF OwnRead, SameShown
<1>10. ReadsAreOwn'
  BY <1>2, <1>8, <1>9 DEF PhoneInv, ReadsAreOwn, OwnRead, SameShown
<1>11. OneFlush'
  BY <1>6, <1>8 DEF PhoneInv, OneFlush, M!Outstanding
<1>12. QED
  BY <1>2, <1>3, <1>7, <1>10, <1>11

\* What the server and the native watch do concerns what is shown only by their hints.
LEMMA PhoneUntouched ==
  ASSUME PhoneInv, PhoneTypes', UNCHANGED <<s, lb, reads, idle>>
  PROVE  PhoneInv'
  BY DEF PhoneInv, ReadsAreOwn, OwnRead, OneFlush, Serves, Forgot, Own, Moment

\* The native watch pushes hints.
LEMMA Pushed ==
  ASSUME PhoneTypes, NEW reason \in {"tip", "address", "disconnected"}, NEW tip \in M!Tips \cup {Nothing}, NEW reset \in BOOLEAN
  PROVE  M!Push(reason, tip, reset) \in Seq(M!Hints)
<1>1. [of |-> native.of, reason |-> reason, tip |-> tip, reset |-> reset] \in M!Hints
  BY DEF PhoneTypes, M!Hints
<1>2. QED
  BY <1>1 DEF M!Push, PhoneTypes

\* Blocks, changes and the native watch only push hints.
LEMMA Outside ==
  ASSUME PhoneInv,
         \/ M!NewBlock \/ (\E h \in 0..MaxHeight : M!Reorganizes(h)) \/ (\E a \in Accounts : M!Changes(a))
         \/ M!NativeConnects \/ M!NativeLost \/ M!Poll
  PROVE  PhoneInv'
<1> USE DEF PhoneInv, M!server, M!counts
<1>1. CASE M!NewBlock
  <2>1. chain' \in M!Tips
    BY <1>1 DEF M!NewBlock, PhoneTypes, M!Tips
  <2>2. events' \in Seq(M!Hints)
    <3>1. FALSE \in BOOLEAN
      OBVIOUS
    <3>2. QED
      BY <1>1, <2>1, <3>1, Pushed DEF M!NewBlock
  <2>3. moves' \in Int
    BY <1>1 DEF M!NewBlock, PhoneTypes
  <2>4. UNCHANGED <<ver, s, lb, reads, loading, idle, watch, native, user, faults>>
    BY <1>1 DEF M!NewBlock
  <2>5. QED
    BY <2>1, <2>2, <2>3, <2>4, PhoneUntouched DEF PhoneTypes
<1>2. ASSUME NEW h \in 0..MaxHeight, M!Reorganizes(h) PROVE PhoneInv'
  <2>1. chain' \in M!Tips
    BY <1>2 DEF M!Reorganizes, PhoneTypes, M!Tips
  <2>2. events' \in Seq(M!Hints)
    <3>1. TRUE \in BOOLEAN
      OBVIOUS
    <3>2. QED
      BY <1>2, <2>1, <3>1, Pushed DEF M!Reorganizes
  <2>3. moves' \in Int
    BY <1>2 DEF M!Reorganizes, PhoneTypes
  <2>4. UNCHANGED <<ver, s, lb, reads, loading, idle, watch, native, user, faults>>
    BY <1>2 DEF M!Reorganizes
  <2>5. QED
    BY <2>1, <2>2, <2>3, <2>4, PhoneUntouched DEF PhoneTypes
<1>3. ASSUME NEW a \in Accounts, M!Changes(a) PROVE PhoneInv'
  <2>1. events' \in Seq(M!Hints)
    <3>1. FALSE \in BOOLEAN
      OBVIOUS
    <3>2. QED
      BY <1>3, <3>1, Pushed DEF M!Changes, PhoneTypes
  <2>2. ver' \in [Accounts -> Int]
    BY <1>3 DEF M!Changes, PhoneTypes
  <2>3. moves' \in Int
    BY <1>3 DEF M!Changes, PhoneTypes
  <2>4. UNCHANGED <<chain, s, lb, reads, loading, idle, watch, native, user, faults>>
    BY <1>3 DEF M!Changes
  <2>5. QED
    BY <2>1, <2>2, <2>3, <2>4, PhoneUntouched DEF PhoneTypes
<1>4. CASE M!NativeConnects
  <2>1. native' \in [of : Accounts \cup {Nothing}, on : BOOLEAN]
    BY <1>4 DEF M!NativeConnects, PhoneTypes
  <2>2. [of |-> native.of, reason |-> "connected", tip |-> chain, reset |-> FALSE] \in M!Hints
    BY DEF PhoneTypes, M!Hints
  <2>3. events' \in Seq(M!Hints)
    BY <1>4, <2>2 DEF M!NativeConnects, PhoneTypes
  <2>4. QED
    BY <1>4, <2>1, <2>3, PhoneUntouched DEF M!NativeConnects, PhoneTypes
<1>5. CASE M!NativeLost
  <2>1. native' \in [of : Accounts \cup {Nothing}, on : BOOLEAN]
    BY <1>5 DEF M!NativeLost, PhoneTypes
  <2>2. events' \in Seq(M!Hints)
    <3>1. FALSE \in BOOLEAN
      OBVIOUS
    <3>2. QED
      BY <1>5, <3>1, Pushed DEF M!NativeLost
  <2>3. faults' \in Int
    BY <1>5 DEF M!NativeLost, PhoneTypes
  <2>4. UNCHANGED <<chain, ver, moves, s, lb, reads, loading, idle, watch, user>>
    BY <1>5 DEF M!NativeLost
  <2>5. QED
    BY <2>1, <2>2, <2>3, <2>4, PhoneUntouched DEF PhoneTypes
<1>6. CASE M!Poll
  <2>1. watch' \in [of : Accounts \cup {Nothing}, asking : M!Calls \cup {Nothing}]
    BY <1>6 DEF M!Poll, M!Ensure, PhoneTypes, M!Sessions, M!Calls
  <2>2. QED
    BY <1>6, <2>1, PhoneUntouched DEF M!Poll, PhoneTypes
<1>7. QED
  BY <1>1, <1>2, <1>3, <1>4, <1>5, <1>6

\* An answer adds to its read what is of the read's account.
LEMMA AnswerKept ==
  ASSUME PhoneInv, NEW i \in M!Slots, NEW r, reads[i] # Nothing, OwnRead(r, s), r \in M!Reads, r.by = reads[i].by,
         reads' = [reads EXCEPT ![i] = r], faults' \in Int,
         UNCHANGED <<M!server, s, lb, loading, idle, watch, native, events, user>>
  PROVE  PhoneInv'
<1> USE DEF PhoneInv
<1>1. PhoneTypes'
  BY DEF PhoneTypes, M!server
<1>2. \A j \in M!Slots : (j = i /\ reads'[j] = r) \/ (j # i /\ reads'[j] = reads[j])
  BY DEF PhoneTypes
<1>3. ReadsAreOwn'
  BY <1>2 DEF ReadsAreOwn, OwnRead
<1>4. OneFlush'
  BY <1>2 DEF OneFlush
<1>5. QED
  BY <1>1, <1>3, <1>4 DEF Serves, Forgot, Own, Moment

\* The answers to the requests of a read, and their failures.
LEMMA Answering ==
  ASSUME PhoneInv, NEW i \in M!Slots,
         M!TipAnswered(i) \/ M!BalanceAnswered(i) \/ M!PageAnswered(i) \/ M!AnswerFails(i)
  PROVE  PhoneInv'
<1> DEFINE d == [of |-> reads[i].of, tip |-> chain, ver |-> ver[reads[i].of]]
<1>1. reads[i] \in M!Reads /\ reads[i] # Nothing /\ OwnRead(reads[i], s) /\ reads[i].cur
  BY DEF PhoneInv, PhoneTypes, ReadsAreOwn, M!TipAnswered, M!BalanceAnswered, M!PageAnswered,
         M!AnswerFails
<1>2. d \in M!Data /\ d.of = reads[i].of
  BY <1>1 DEF PhoneInv, PhoneTypes, M!Data, M!Reads
<1> HIDE DEF d
<1>3. CASE M!TipAnswered(i)
  <2> DEFINE r == [reads[i] EXCEPT !.tip = chain]
  <2>1. r \in M!Reads /\ r.by = reads[i].by /\ r.of = reads[i].of /\ r.cur = reads[i].cur
        /\ r.balance = reads[i].balance /\ r.pages = reads[i].pages
    BY <1>1 DEF PhoneInv, PhoneTypes, M!Reads
  <2>2. reads' = [reads EXCEPT ![i] = r]
        /\ UNCHANGED <<M!server, s, lb, loading, idle, watch, native, events, M!counts>>
    BY <1>3 DEF M!TipAnswered, M!Answered
  <2> HIDE DEF r
  <2>3. OwnRead(r, s)
    BY <1>1, <2>1 DEF OwnRead
  <2>4. QED
    BY <1>1, <2>1, <2>2, <2>3, AnswerKept DEF PhoneInv, PhoneTypes, M!counts
<1>4. CASE M!BalanceAnswered(i)
  <2> DEFINE r == [reads[i] EXCEPT !.balance = d]
  <2>1. r \in M!Reads /\ r.by = reads[i].by /\ r.of = reads[i].of /\ r.cur = reads[i].cur
        /\ r.balance = d /\ r.pages = reads[i].pages
    BY <1>1, <1>2 DEF M!Reads
  <2>2. reads' = [reads EXCEPT ![i] = r]
        /\ UNCHANGED <<M!server, s, lb, loading, idle, watch, native, events, M!counts>>
    BY <1>4 DEF M!BalanceAnswered, M!Answered, d
  <2> HIDE DEF r
  <2>3. OwnRead(r, s)
    BY <1>1, <1>2, <2>1 DEF OwnRead
  <2>4. QED
    BY <1>1, <2>1, <2>2, <2>3, AnswerKept DEF PhoneInv, PhoneTypes, M!counts
<1>5. CASE M!PageAnswered(i)
  <2> DEFINE r == [reads[i] EXCEPT !.pages = Append(reads[i].pages, d)]
  <2>1. reads[i].pages \in Seq(M!Data) /\ Append(reads[i].pages, d) \in Seq(M!Data)
    BY <1>1, <1>2 DEF M!Reads
  <2>2. r \in M!Reads /\ r.by = reads[i].by /\ r.of = reads[i].of /\ r.cur = reads[i].cur
        /\ r.balance = reads[i].balance /\ r.pages = Append(reads[i].pages, d)
    BY <1>1, <2>1 DEF M!Reads
  <2>3. reads' = [reads EXCEPT ![i] = r]
        /\ UNCHANGED <<M!server, s, lb, loading, idle, watch, native, events, M!counts>>
    BY <1>1, <1>5 DEF M!PageAnswered, M!Answered, d, M!Reads
  <2>4. \A k \in 1..Len(Append(reads[i].pages, d)) : Append(reads[i].pages, d)[k].of = reads[i].of
    BY <1>1, <1>2, <2>1 DEF OwnRead
  <2> HIDE DEF r
  <2>5. OwnRead(r, s)
    BY <1>1, <2>2, <2>4 DEF OwnRead
  <2>6. QED
    BY <1>1, <2>2, <2>3, <2>5, AnswerKept DEF PhoneInv, PhoneTypes, M!counts
<1>6. CASE M!AnswerFails(i)
  <2> DEFINE r == [reads[i] EXCEPT !.failed = TRUE]
  <2>1. r \in M!Reads /\ r.by = reads[i].by /\ r.of = reads[i].of /\ r.cur = reads[i].cur
        /\ r.balance = reads[i].balance /\ r.pages = reads[i].pages
    BY <1>1 DEF M!Reads
  <2>2. reads' = [reads EXCEPT ![i] = r] /\ faults' = faults + 1
        /\ UNCHANGED <<M!server, s, lb, loading, idle, watch, native, events, user>>
    BY <1>6 DEF M!AnswerFails
  <2> HIDE DEF r
  <2>3. OwnRead(r, s)
    BY <1>1, <2>1 DEF OwnRead
  <2>4. faults' \in Int
    BY <2>2 DEF PhoneInv, PhoneTypes
  <2>5. QED
    BY <1>1, <2>1, <2>2, <2>3, <2>4, AnswerKept
<1>7. QED
  BY <1>3, <1>4, <1>5, <1>6

\* Whoever waited for the read, its end leaves the hints served.
LEMMA Settling ==
  ASSUME PhoneInv, NEW i \in M!Slots, M!Settle(i)
  PROVE  PhoneInv'
<1> DEFINE r  == reads[i]
           ok == r.cur /\ M!Publishes(r)
           t  == IF r.cur THEN [M!Published(s, r) EXCEPT !.busy = FALSE] ELSE s
           l  == [lb EXCEPT !.running = Nothing]
           m  == IF M!Unserved(ok, lb, t) THEN [l EXCEPT !.dirty = TRUE, !.full = @ \/ lb.running.full \/ ok] ELSE l
<1>1. /\ reads[i] # Nothing /\ (~r.cur \/ M!Complete(r)) /\ reads' = [reads EXCEPT ![i] = Nothing] /\ s' = t
      /\ lb' = CASE r.by = "live" -> M!Wake(m, t, idle)
                 [] r.by = "user" ->
                      IF ok /\ r.kind = "balance" /\ M!NeedsBaseline(t) THEN M!Request(lb, t, idle, TRUE)
                      ELSE IF r.cur /\ ~ok THEN M!Request(lb, t, idle, FALSE) ELSE M!Wake(lb, t, idle)
                 [] OTHER -> IF t.acct = r.of /\ ~M!Verified(t) THEN M!Request(lb, t, idle, FALSE) ELSE lb
      /\ UNCHANGED <<M!server, loading, idle, watch, native, events, M!counts>>
  BY DEF M!Settle
<1>2. r \in M!Reads /\ OwnRead(r, s) /\ s \in M!Sessions /\ lb \in M!Scheduler /\ idle \in BOOLEAN
  BY <1>1 DEF PhoneInv, PhoneTypes, ReadsAreOwn
<1>3. ok \in BOOLEAN
  OBVIOUS
<1>4. t \in M!Sessions /\ t.up = s.up /\ t.acct = s.acct /\ Own(t) /\ Moment(t)
  <2>1. CASE ~r.cur
    BY <1>2, <2>1 DEF PhoneInv
  <2>2. CASE r.cur
    <3> DEFINE u == M!Published(s, r)
    <3>1. u \in M!Sessions /\ u.up = s.up /\ u.acct = s.acct /\ Own(u) /\ Moment(u)
      BY <1>1, <1>2, <2>2, Settled DEF PhoneInv
    <3>2. t = [u EXCEPT !.busy = FALSE]
      BY <2>2
    <3> HIDE DEF u, t
    <3>3. t \in M!Sessions /\ t.up = u.up /\ t.acct = u.acct /\ t.balance = u.balance
          /\ t.tip = u.tip /\ t.history = u.history
      BY <3>1, <3>2 DEF M!Sessions
    <3>4. QED
      BY <3>1, <3>3 DEF Own, Moment
  <2>3. QED
    BY <2>1, <2>2
<1>5. l \in M!Scheduler /\ l.running = Nothing /\ l.dirty = lb.dirty
  BY <1>2 DEF M!Scheduler
<1> HIDE DEF ok, t, l, m
<1>6. reads' \in [M!Slots -> M!Reads \cup {Nothing}] /\ \A j \in M!Slots : reads'[j] # Nothing => j # i /\ reads'[j] = reads[j]
  BY <1>1 DEF PhoneInv, PhoneTypes
<1>7. ReadsAreOwn'
  BY <1>1, <1>4, <1>6 DEF PhoneInv, ReadsAreOwn, OwnRead
<1>8. Serves(lb, t, idle) /\ Forgot(lb, t)
  BY <1>4 DEF PhoneInv, Serves, Forgot
<1>9. lb' \in M!Scheduler /\ Serves(lb', t, idle) /\ Forgot(lb', t) /\ (lb'.running = lb.running \/ r.by = "live")
  <2>1. CASE r.by = "live"
    <3>1. lb' = M!Wake(m, t, idle)
      BY <1>1, <2>1
    <3>2. lb.running \in M!Flushes /\ lb.running # Nothing
      BY <1>1, <1>2, <2>1 DEF PhoneInv, OneFlush, M!Scheduler
    <3>3. CASE M!Unserved(ok, lb, t)
      <4> DEFINE full == l.full \/ lb.running.full \/ ok
      <4>1. full \in BOOLEAN
        OBVIOUS
      <4>2. m = [l EXCEPT !.dirty = TRUE, !.full = full]
        BY <1>5, <3>3 DEF m, M!Scheduler
      <4> HIDE DEF full
      <4>3. m \in M!Scheduler /\ m.running = Nothing
        BY <1>5, <4>1, <4>2 DEF M!Scheduler
      <4>4. t.acct # Nothing
        BY <1>8, <3>2, <3>3 DEF M!Unserved, Forgot
      <4>5. QED
        BY <1>2, <1>4, <2>1, <3>1, <4>3, <4>4, Woken DEF Forgot
    <3>4. CASE ~M!Unserved(ok, lb, t)
      <4>1. m = l
        BY <3>4 DEF m
      <4>2. QED
        BY <1>2, <1>4, <1>5, <1>8, <2>1, <3>1, <4>1, Woken DEF Forgot
    <3>5. QED
      BY <3>3, <3>4
  <2>2. CASE r.by # "live"
    <3>1. \/ lb' = lb \/ lb' = M!Wake(lb, t, idle)
          \/ \E full \in BOOLEAN : lb' = M!Request(lb, t, idle, full)
      <4>1. CASE r.by = "user"
        BY <1>1, <4>1
      <4>2. CASE r.by # "user"
        BY <1>1, <2>2, <4>2
      <4>3. QED
        BY <4>1, <4>2
    <3>2. CASE lb' = lb
      BY <1>2, <1>8, <3>2
    <3>3. CASE lb' = M!Wake(lb, t, idle)
      BY <1>2, <1>4, <1>8, <3>3, Woken DEF Forgot
    <3>4. ASSUME NEW full \in BOOLEAN, lb' = M!Request(lb, t, idle, full)
          PROVE  lb' \in M!Scheduler /\ Serves(lb', t, idle) /\ Forgot(lb', t)
                 /\ lb'.running = lb.running
      BY <1>2, <1>4, <1>8, <3>4, Requested
    <3>5. QED
      BY <3>1, <3>2, <3>3, <3>4
  <2>3. QED
    BY <2>1, <2>2
<1>10. OneFlush'
  BY <1>1, <1>6, <1>9 DEF PhoneInv, OneFlush
<1>11. PhoneTypes'
  BY <1>1, <1>4, <1>6, <1>9 DEF PhoneInv, PhoneTypes, M!server, M!counts
<1>12. QED
  BY <1>1, <1>4, <1>7, <1>9, <1>10, <1>11 DEF PhoneInv

\* The timer reads if it may, and forgets nothing if it may not.
LEMMA Flushing ==
  ASSUME PhoneInv, M!Flush
  PROVE  PhoneInv'
<1> DEFINE lost == [lb EXCEPT !.timer = FALSE]
           run  == [lb EXCEPT !.timer = FALSE, !.dirty = FALSE, !.full = FALSE, !.running = [full |-> lb.full, cur |-> TRUE]]
<1>1. s \in M!Sessions /\ lb \in M!Scheduler /\ idle \in BOOLEAN
      /\ UNCHANGED <<M!server, idle, watch, native, events, M!counts>>
  BY DEF PhoneInv, PhoneTypes, M!Flush
<1>2. CASE ~lb.dirty \/ ~idle \/ ~s.up
  <2>1. lb' = lost /\ UNCHANGED <<s, reads, loading>>
    BY <1>2 DEF M!Flush
  <2>2. lost \in M!Scheduler /\ lost.dirty = lb.dirty /\ lost.running = lb.running
    BY <1>1 DEF M!Scheduler
  <2> HIDE DEF lost
  <2>3. Serves(lb', s', idle') /\ Forgot(lb', s')
    BY <1>1, <1>2, <2>1, <2>2 DEF PhoneInv, Serves, Forgot
  <2>4. reads' \in [M!Slots -> M!Reads \cup {Nothing}] /\ ReadsAreOwn' /\ OneFlush'
    BY <1>1, <2>1, <2>2, ReadsKept
  <2>5. PhoneTypes'
    BY <1>1, <2>1, <2>2 DEF PhoneInv, PhoneTypes, M!server, M!counts
  <2>6. QED
    BY <2>1, <2>3, <2>4, <2>5 DEF PhoneInv, Own, Moment
<1>3. CASE ~(~lb.dirty \/ ~idle \/ ~s.up)
  <2>1. lb.running = Nothing /\ M!Outstanding = {} /\ lb' = run /\ M!Refresh(s, IF lb.full THEN "reload" ELSE "balance", "live")
    BY <1>3 DEF M!Flush
  <2>2. [full |-> lb.full, cur |-> TRUE] \in M!Flushes
    BY <1>1 DEF M!Scheduler, M!Flushes
  <2>3. run \in M!Scheduler /\ ~run.dirty /\ run.running # Nothing
    BY <1>1, <2>2, DisplayConstants DEF M!Scheduler
  <2>4. s.acct # Nothing
    BY <1>3 DEF PhoneInv, Forgot
  <2> HIDE DEF run
  <2>5. PICK kind \in {"full", "balance", "more", "reload"} : M!Refresh(s, kind, "live")
    BY <2>1
  <2>6. /\ SameShown(s, s') /\ loading' \in M!Calls \cup {Nothing}
        /\ reads' \in [M!Slots -> M!Reads \cup {Nothing}] /\ ReadsAreOwn' /\ OneFlush'
    BY <2>1, <2>3, <2>4, <2>5, Refreshing
  <2>7. Serves(lb', s', idle') /\ Forgot(lb', s')
    BY <2>1, <2>3, <2>4, <2>6 DEF Serves, Forgot, SameShown
  <2>8. PhoneTypes'
    BY <1>1, <2>1, <2>3, <2>6 DEF PhoneInv, PhoneTypes, M!server, M!counts, SameShown
  <2>9. QED
    BY <2>6, <2>7, <2>8 DEF PhoneInv, Own, Moment, SameShown
<1>4. QED
  BY <1>2, <1>3

\* A hint voids reads or asks for them, and leaves what is displayed.
LEMMA Notifying ==
  ASSUME PhoneInv, M!Notify
  PROVE  PhoneInv'
<1> DEFINE e == Head(events)
<1>1. /\ e \in M!Hints /\ events' = Tail(events) /\ Tail(events) \in Seq(M!Hints)
      /\ UNCHANGED <<M!server, idle, watch, native, M!counts>>
  BY DEF PhoneInv, PhoneTypes, M!Notify
<1>2. s \in M!Sessions /\ lb \in M!Scheduler /\ idle \in BOOLEAN /\ loading \in M!Calls \cup {Nothing}
  BY DEF PhoneInv, PhoneTypes
<1>3. CASE UNCHANGED <<s, reads, loading, lb>>
  <2>1. PhoneTypes'
    BY <1>1, <1>3 DEF PhoneInv, PhoneTypes, M!server, M!counts
  <2>2. QED
    BY <1>1, <1>3, <2>1, PhoneUntouched
<1>4. CASE M!Notified(e)
  <2> DEFINE older == e.reason = "connected" /\ ~e.reset /\ M!KnownTip(s) # Nothing /\ e.tip # Nothing /\ e.tip.h < M!KnownTip(s).h
             seen  == IF e.tip # Nothing /\ ~older THEN M!ObserveTip(s, e.tip, e.reset)
                      ELSE [t |-> s, reset |-> e.reset, void |-> FALSE]
             lost  == e.reason = "disconnected" /\ lb.connected
             t     == IF lost THEN M!DisconnectWatch(s) ELSE seen.t
             on    == IF e.reason = "tip" THEN lb.connected ELSE e.reason # "disconnected"
             l     == [lb EXCEPT !.connected = IF e.reason = "tip" THEN @ ELSE e.reason # "disconnected"]
             void  == seen.void \/ lost
  <2>1. /\ s' = t /\ reads' = IF void THEN M!Invalidates ELSE reads
        /\ loading' = IF void /\ loading # Nothing THEN [loading EXCEPT !.cur = FALSE] ELSE loading
        /\ lb' = M!Request(l, t, idle, TRUE) \/ lb' = l
    BY <1>4 DEF M!Notified
  <2>2. e.tip \in M!Tips \cup {Nothing} /\ e.reset \in BOOLEAN
    BY <1>1 DEF M!Hints
  <2>3. SameShown(s, seen.t)
    <3>1. CASE e.tip # Nothing /\ ~older
      <4>1. seen = M!ObserveTip(s, e.tip, e.reset)
        BY <3>1
      <4>2. QED
        BY <1>2, <2>2, <3>1, <4>1, Observed
    <3>2. CASE ~(e.tip # Nothing /\ ~older)
      <4>1. seen.t = s
        BY <3>2
      <4>2. QED
        BY <1>2, <4>1 DEF SameShown
    <3>3. QED
      BY <3>1, <3>2
  <2>4. SameShown(s, t)
    BY <1>2, <2>3, Invalidated
  <2>5. on \in BOOLEAN
    <3>1. lb.connected \in BOOLEAN
      BY <1>2 DEF M!Scheduler
    <3>2. (e.reason # "disconnected") \in BOOLEAN
      OBVIOUS
    <3>3. QED
      BY <3>1, <3>2
  <2>6. l = [lb EXCEPT !.connected = on]
    BY <1>2 DEF M!Scheduler
  <2> HIDE DEF older, seen, lost, t, on, l, void
  <2>7. l \in M!Scheduler /\ l.dirty = lb.dirty /\ l.running = lb.running /\ l.timer = lb.timer
    BY <1>2, <2>5, <2>6 DEF M!Scheduler
  <2>8. Forgot(l, t) /\ Serves(l, t, idle) /\ t \in M!Sessions
    BY <2>4, <2>7 DEF PhoneInv, SameShown, Serves, Forgot
  <2>9. TRUE \in BOOLEAN
    OBVIOUS
  <2>10. lb' \in M!Scheduler /\ Serves(lb', t, idle) /\ Forgot(lb', t) /\ lb'.running = lb.running
    <3>1. CASE lb' = l
      BY <2>7, <2>8, <3>1
    <3>2. CASE lb' = M!Request(l, t, idle, TRUE)
      BY <1>2, <2>7, <2>8, <2>9, <3>2, Requested
    <3>3. QED
      BY <2>1, <3>1, <3>2
  <2>11. (reads' = reads /\ s'.acct = s.acct) \/ reads' = M!Invalidates
    BY <2>1, <2>4 DEF SameShown
  <2>12. reads' \in [M!Slots -> M!Reads \cup {Nothing}] /\ ReadsAreOwn' /\ OneFlush'
    BY <2>1, <2>8, <2>10, <2>11, ReadsKept
  <2>13. loading' \in M!Calls \cup {Nothing}
    BY <1>2, <2>1 DEF M!Calls
  <2>14. PhoneTypes'
    BY <1>1, <1>2, <2>1, <2>8, <2>10, <2>12, <2>13 DEF PhoneInv, PhoneTypes, M!server, M!counts
  <2>15. QED
    BY <1>1, <2>1, <2>4, <2>10, <2>12, <2>14 DEF PhoneInv, Own, Moment, SameShown
<1>5. QED
  BY <1>3, <1>4 DEF M!Notify

\* ensureAccountWatch asks for the account that is selected.
LEMMA WatchTypes ==
  ASSUME NEW w \in [of : Accounts \cup {Nothing}, asking : M!Calls \cup {Nothing}], NEW t \in M!Sessions
  PROVE  /\ M!Ensure(w, t) \in [of : Accounts \cup {Nothing}, asking : M!Calls \cup {Nothing}]
         /\ M!Unwatched(w) \in [of : Accounts \cup {Nothing}, asking : M!Calls \cup {Nothing}]
  BY DEF M!Ensure, M!Unwatched, M!Sessions, M!Calls

\* The answer of watchAccount asks for reads.
LEMMA Watching ==
  ASSUME PhoneInv, NEW ok \in BOOLEAN, M!WatchAnswered(ok)
  PROVE  PhoneInv'
<1> DEFINE n    == IF native.of = s.acct THEN native ELSE [of |-> s.acct, on |-> FALSE]
           good == ok /\ watch.asking.cur /\ s.up /\ s.acct = watch.asking.of
           done == [of |-> IF good THEN s.acct ELSE watch.of, asking |-> Nothing]
           l    == [lb EXCEPT !.connected = TRUE]
<1>1. /\ watch.asking # Nothing
      /\ faults' = IF ok THEN faults ELSE faults + 1
      /\ native' = IF ok /\ s.acct # Nothing THEN n ELSE native
      /\ watch' = IF watch.asking.cur THEN done ELSE M!Ensure(done, s)
      /\ lb' = M!Request(l, s, idle, TRUE) \/ lb' = lb
      /\ UNCHANGED <<M!server, s, reads, loading, idle, events, user>>
  BY DEF M!WatchAnswered
<1>2. s \in M!Sessions /\ lb \in M!Scheduler /\ idle \in BOOLEAN
  BY DEF PhoneInv, PhoneTypes
<1>3. s.acct \in Accounts \cup {Nothing}
  BY <1>2 DEF M!Sessions
<1>4. native' \in [of : Accounts \cup {Nothing}, on : BOOLEAN]
  BY <1>1, <1>3 DEF PhoneInv, PhoneTypes
<1>5. done \in [of : Accounts \cup {Nothing}, asking : M!Calls \cup {Nothing}]
  BY <1>3 DEF PhoneInv, PhoneTypes
<1> HIDE DEF n, good, done
<1>6. watch' \in [of : Accounts \cup {Nothing}, asking : M!Calls \cup {Nothing}]
  BY <1>1, <1>2, <1>5, WatchTypes
<1>7. faults' \in Int
  BY <1>1 DEF PhoneInv, PhoneTypes
<1>8. l \in M!Scheduler /\ l.dirty = lb.dirty /\ l.running = lb.running /\ Forgot(l, s)
  BY <1>2 DEF M!Scheduler, PhoneInv, Forgot
<1> HIDE DEF l
<1>9. TRUE \in BOOLEAN
  OBVIOUS
<1>10. lb' \in M!Scheduler /\ Serves(lb', s, idle) /\ Forgot(lb', s) /\ lb'.running = lb.running
  <2>1. CASE lb' = lb
    BY <1>2, <2>1 DEF PhoneInv
  <2>2. CASE lb' = M!Request(l, s, idle, TRUE)
    BY <1>2, <1>8, <1>9, <2>2, Requested
  <2>3. QED
    BY <1>1, <2>1, <2>2
<1>11. ReadsAreOwn' /\ OneFlush'
  BY <1>1, <1>2, <1>10, ReadsKept
<1>12. PhoneTypes'
  BY <1>1, <1>4, <1>6, <1>7, <1>10 DEF PhoneInv, PhoneTypes, M!server
<1>13. QED
  BY <1>1, <1>10, <1>11, <1>12 DEF PhoneInv, Own, Moment

\* The reads the user and the change of account ask for.
LEMMA UserReads ==
  ASSUME PhoneInv, M!LoadContinues \/ \E kind \in {"full", "balance", "more"} : M!RefreshAccount(kind)
  PROVE  PhoneInv'
<1>1. s \in M!Sessions /\ lb \in M!Scheduler /\ idle \in BOOLEAN
  BY DEF PhoneInv, PhoneTypes
<1>2. ASSUME NEW kind \in {"full", "balance", "more", "reload"}, NEW by \in {"load", "user"},
             M!MayRefresh(s, kind), M!Refresh(s, kind, by), user' \in Int,
             UNCHANGED <<M!server, lb, idle, watch, native, events, faults>>
      PROVE  PhoneInv'
  <2>1. /\ SameShown(s, s') /\ loading' \in M!Calls \cup {Nothing}
        /\ reads' \in [M!Slots -> M!Reads \cup {Nothing}] /\ ReadsAreOwn' /\ OneFlush'
    BY <1>2, Refreshing DEF M!MayRefresh
  <2>2. PhoneTypes'
    BY <1>2, <2>1 DEF PhoneInv, PhoneTypes, M!server, SameShown
  <2>3. QED
    BY <1>2, <2>1, <2>2 DEF PhoneInv, Own, Moment, Serves, Forgot, SameShown
<1>3. CASE M!LoadContinues
  <2>1. UNCHANGED <<M!server, idle, watch, native, events, M!counts>>
    BY <1>3 DEF M!LoadContinues
  <2>2. CASE M!MayRefresh(s, "full") /\ M!Refresh(s, "full", "load") /\ UNCHANGED lb
    BY <1>2, <2>1, <2>2 DEF PhoneInv, PhoneTypes, M!counts
  <2>3. CASE /\ loading' = Nothing /\ UNCHANGED <<s, reads>>
             /\ lb' = M!Request(lb, s, idle, FALSE) \/ lb' = lb
    <3>1. FALSE \in BOOLEAN
      OBVIOUS
    <3>2. lb' \in M!Scheduler /\ Serves(lb', s, idle) /\ Forgot(lb', s) /\ lb'.running = lb.running
      <4>1. CASE lb' = lb
        BY <1>1, <4>1 DEF PhoneInv
      <4>2. CASE lb' = M!Request(lb, s, idle, FALSE)
        BY <1>1, <3>1, <4>2, Requested DEF PhoneInv
      <4>3. QED
        BY <2>3, <4>1, <4>2
    <3>3. ReadsAreOwn' /\ OneFlush'
      BY <1>1, <2>3, <3>2, ReadsKept
    <3>4. PhoneTypes'
      BY <2>1, <2>3, <3>2 DEF PhoneInv, PhoneTypes, M!server, M!counts
    <3>5. QED
      BY <2>1, <2>3, <3>2, <3>3, <3>4 DEF PhoneInv, Own, Moment
  <2>4. QED
    BY <1>3, <2>2, <2>3 DEF M!LoadContinues
<1>4. ASSUME NEW kind \in {"full", "balance", "more"}, M!RefreshAccount(kind) PROVE PhoneInv'
  <2>1. user' \in Int
    BY <1>4 DEF M!RefreshAccount, M!Acts, PhoneInv, PhoneTypes
  <2>2. QED
    BY <1>2, <1>4, <2>1 DEF M!RefreshAccount
<1>5. QED
  BY <1>3, <1>4

\* Another account begins blank, without the hints and the reads of the last one.
LEMMA Adopting ==
  ASSUME PhoneInv, NEW a \in Accounts \cup {Nothing}, M!Adopt(a)
  PROVE  PhoneInv'
<1> DEFINE t == M!Blank(s.up, a)
           run == IF lb.running = Nothing THEN Nothing ELSE [lb.running EXCEPT !.cur = FALSE]
<1>1. /\ s' = t /\ reads' = M!Invalidates /\ lb' = M!Sync(lb)
      /\ loading' = IF a = Nothing THEN Nothing ELSE [of |-> a, cur |-> TRUE]
      /\ watch' = M!Ensure(M!Unwatched(watch), t)
      /\ UNCHANGED <<M!server, idle, native, events, faults>>
  BY DEF M!Adopt
<1>2. s \in M!Sessions /\ lb \in M!Scheduler /\ idle \in BOOLEAN
  BY DEF PhoneInv, PhoneTypes
<1>3. user' \in Int
  BY DEF M!Adopt, M!Acts, PhoneInv, PhoneTypes
<1>4. s.up \in BOOLEAN /\ <<>> \in Seq(M!Data)
  BY <1>2 DEF M!Sessions
<1>5. t \in M!Sessions /\ t.balance = Nothing /\ t.history = <<>> /\ t.up = s.up
  BY <1>4 DEF M!Blank, M!Sessions
<1>6. run \in M!Flushes \cup {Nothing} /\ (lb.running # Nothing <=> run # Nothing) /\ (run # Nothing => ~run.cur)
  BY <1>2, DisplayConstants DEF M!Scheduler, M!Flushes
<1>7. M!Sync(lb) = [lb EXCEPT !.connected = FALSE, !.dirty = FALSE, !.full = FALSE, !.timer = FALSE, !.running = run]
  BY <1>2 DEF M!Sync, M!Scheduler
<1> HIDE DEF t, run
<1>8. lb' \in M!Scheduler /\ ~lb'.dirty /\ lb'.running = run
  BY <1>1, <1>2, <1>6, <1>7 DEF M!Scheduler
<1>9. reads' \in [M!Slots -> M!Reads \cup {Nothing}] /\ ReadsAreOwn' /\ OneFlush'
  BY <1>1, <1>5, <1>6, <1>8, ReadsKept
<1>10. loading' \in M!Calls \cup {Nothing}
  BY <1>1 DEF M!Calls
<1>11. M!Unwatched(watch) \in [of : Accounts \cup {Nothing}, asking : M!Calls \cup {Nothing}]
  BY <1>2, WatchTypes DEF PhoneInv, PhoneTypes
<1>12. watch' \in [of : Accounts \cup {Nothing}, asking : M!Calls \cup {Nothing}]
  BY <1>1, <1>5, <1>11, WatchTypes
<1>13. PhoneTypes'
  BY <1>1, <1>3, <1>5, <1>8, <1>9, <1>10, <1>12 DEF PhoneInv, PhoneTypes, M!server
<1>14. Own(s') /\ Moment(s') /\ Serves(lb', s', idle') /\ Forgot(lb', s')
  BY <1>1, <1>5, <1>6, <1>8 DEF Own, Moment, Serves, Forgot
<1>15. QED
  BY <1>9, <1>13, <1>14 DEF PhoneInv, Own, Moment, Serves, Forgot

\* A background or a lost network voids the reads; a return asks for them.
LEMMA EnvironmentChanges ==
  ASSUME PhoneInv, M!UpdateEnvironment
  PROVE  PhoneInv'
<1> DEFINE up == ~M!Invalidate(s).up
           t == [M!Invalidate(s) EXCEPT !.up = up]
           l == [lb EXCEPT !.timer = FALSE, !.connected = FALSE]
<1>1. s \in M!Sessions /\ lb \in M!Scheduler /\ idle \in BOOLEAN /\ SameShown(s, M!Invalidate(s))
  BY Invalidated DEF PhoneInv, PhoneTypes
<1>2. t = [M!Invalidate(s) EXCEPT !.up = ~@]
  BY <1>1 DEF SameShown, M!Sessions
<1>3. /\ s' = t /\ reads' = M!Invalidates
      /\ loading' = IF loading = Nothing THEN Nothing ELSE [loading EXCEPT !.cur = FALSE]
      /\ watch' = M!Ensure(M!Unwatched(watch), t)
      /\ lb' = IF t.up THEN M!Request(lb, t, idle, TRUE) ELSE l
      /\ UNCHANGED <<M!server, idle, native, events, faults>>
  BY <1>2 DEF M!UpdateEnvironment
<1>4. user' \in Int
  BY DEF M!UpdateEnvironment, M!Acts, PhoneInv, PhoneTypes
<1>5. up \in BOOLEAN
  OBVIOUS
<1> HIDE DEF up
<1>6. t \in M!Sessions /\ t.acct = s.acct /\ t.balance = s.balance /\ t.tip = s.tip
      /\ t.history = s.history
  BY <1>1, <1>5 DEF SameShown, M!Sessions
<1>7. l \in M!Scheduler /\ l.dirty = lb.dirty /\ l.running = lb.running
  BY <1>1 DEF M!Scheduler
<1> HIDE DEF t, l
<1>8. Forgot(lb, t) /\ Forgot(l, t)
  BY <1>6, <1>7 DEF PhoneInv, Forgot
<1>9. TRUE \in BOOLEAN
  OBVIOUS
<1>10. lb' \in M!Scheduler /\ Serves(lb', t, idle) /\ Forgot(lb', t) /\ lb'.running = lb.running
  <2>1. CASE t.up
    BY <1>1, <1>3, <1>6, <1>8, <1>9, <2>1, Requested
  <2>2. CASE ~t.up
    BY <1>3, <1>7, <1>8, <2>2 DEF Serves
  <2>3. QED
    BY <2>1, <2>2
<1>11. reads' \in [M!Slots -> M!Reads \cup {Nothing}] /\ ReadsAreOwn' /\ OneFlush'
  BY <1>3, <1>6, <1>10, ReadsKept
<1>12. loading' \in M!Calls \cup {Nothing}
  BY <1>3 DEF PhoneInv, PhoneTypes, M!Calls
<1>13. M!Unwatched(watch) \in [of : Accounts \cup {Nothing}, asking : M!Calls \cup {Nothing}]
  BY <1>1, WatchTypes DEF PhoneInv, PhoneTypes
<1>14. watch' \in [of : Accounts \cup {Nothing}, asking : M!Calls \cup {Nothing}]
  BY <1>3, <1>6, <1>13, WatchTypes
<1>15. PhoneTypes'
  BY <1>3, <1>4, <1>6, <1>10, <1>11, <1>12, <1>14 DEF PhoneInv, PhoneTypes, M!server
<1>16. QED
  BY <1>3, <1>6, <1>10, <1>11, <1>15 DEF PhoneInv, Own, Moment

\* A dialog holds the reads back; its end asks for them.
LEMMA DialogKept ==
  ASSUME PhoneInv, M!ActionBegins \/ \E how \in {"paid", "review", "other"} : M!ActionEnds(how)
  PROVE  PhoneInv'
<1>1. s \in M!Sessions /\ lb \in M!Scheduler /\ loading \in M!Calls \cup {Nothing}
  BY DEF PhoneInv, PhoneTypes
<1>2. CASE M!ActionBegins
  <2>1. user' \in Int
    BY <1>2 DEF M!ActionBegins, M!Acts, PhoneInv, PhoneTypes
  <2>2. ~idle' /\ UNCHANGED <<M!server, s, lb, reads, loading, watch, native, events, faults>>
    BY <1>2 DEF M!ActionBegins
  <2>3. idle' \in BOOLEAN
    BY <1>2 DEF M!ActionBegins
  <2>4. PhoneTypes'
    BY <2>1, <2>2, <2>3 DEF PhoneInv, PhoneTypes, M!server
  <2>5. QED
    BY <2>2, <2>4 DEF PhoneInv, ReadsAreOwn, OwnRead, OneFlush, Serves, Forgot, Own, Moment
<1>3. ASSUME NEW how \in {"paid", "review", "other"}, M!ActionEnds(how) PROVE PhoneInv'
  <2> DEFINE t == IF how = "paid" THEN M!Invalidate(s) ELSE s
  <2>1. /\ idle' = TRUE /\ s' = t
        /\ reads' = IF how = "paid" THEN M!Invalidates ELSE reads
        /\ loading' = IF how = "paid" /\ loading # Nothing THEN [loading EXCEPT !.cur = FALSE] ELSE loading
        /\ lb' = IF how = "other" THEN M!Wake(lb, t, TRUE) ELSE M!Request(lb, t, TRUE, TRUE)
        /\ UNCHANGED <<M!server, watch, native, events, M!counts>>
    BY <1>3 DEF M!ActionEnds
  <2>2. SameShown(s, t)
    BY <1>1, Invalidated DEF SameShown
  <2> HIDE DEF t
  <2>3. TRUE \in BOOLEAN /\ idle' \in BOOLEAN
    BY <2>1
  <2>4. t \in M!Sessions /\ Forgot(lb, t)
    BY <2>2 DEF PhoneInv, SameShown, Forgot
  <2>5. lb' \in M!Scheduler /\ Serves(lb', t, TRUE) /\ Forgot(lb', t) /\ lb'.running = lb.running
    <3>1. CASE how = "other"
      BY <1>1, <2>1, <2>3, <2>4, <3>1, Woken DEF Forgot
    <3>2. CASE how # "other"
      BY <1>1, <2>1, <2>3, <2>4, <3>2, Requested
    <3>3. QED
      BY <3>1, <3>2
  <2>6. (reads' = reads /\ s'.acct = s.acct) \/ reads' = M!Invalidates
    BY <2>1, <2>2 DEF SameShown
  <2>7. reads' \in [M!Slots -> M!Reads \cup {Nothing}] /\ ReadsAreOwn' /\ OneFlush'
    BY <2>1, <2>4, <2>5, <2>6, ReadsKept
  <2>8. loading' \in M!Calls \cup {Nothing}
    BY <1>1, <2>1 DEF M!Calls
  <2>9. PhoneTypes'
    BY <2>1, <2>3, <2>4, <2>5, <2>7, <2>8 DEF PhoneInv, PhoneTypes, M!server, M!counts
  <2>10. QED
    BY <2>1, <2>2, <2>5, <2>7, <2>9 DEF PhoneInv, Own, Moment, Serves, SameShown
<1>4. QED
  BY <1>2, <1>3

\* The phone shows nothing at first.
LEMMA PhoneInit == M!Init => PhoneInv
<1> SUFFICES ASSUME M!Init PROVE PhoneInv
  OBVIOUS
<1>1. s \in M!Sessions /\ s.balance = Nothing /\ s.history = <<>> /\ s.acct = Nothing
  <2>1. TRUE \in BOOLEAN /\ <<>> \in Seq(M!Data)
    OBVIOUS
  <2>2. QED
    BY <2>1 DEF M!Init, M!Blank, M!Sessions
<1>2. lb \in M!Scheduler /\ ~lb.dirty /\ lb.running = Nothing
  BY DEF M!Init, M!Scheduler
<1>3. chain \in M!Tips
  BY DEF M!Init, M!Tips
<1>4. idle \in BOOLEAN
  BY DEF M!Init
<1>5. native \in [of : Accounts \cup {Nothing}, on : BOOLEAN]
      /\ watch \in [of : Accounts \cup {Nothing}, asking : M!Calls \cup {Nothing}]
  BY DEF M!Init
<1>6. /\ ver \in [Accounts -> Int] /\ reads \in [M!Slots -> M!Reads \cup {Nothing}]
      /\ moves \in Int /\ user \in Int /\ faults \in Int
      /\ loading \in M!Calls \cup {Nothing} /\ events \in Seq(M!Hints) /\ \A i \in M!Slots : reads[i] = Nothing
  BY DEF M!Init
<1>7. PhoneTypes
  BY <1>1, <1>2, <1>3, <1>4, <1>5, <1>6 DEF PhoneTypes
<1>8. QED
  BY <1>1, <1>2, <1>6, <1>7 DEF PhoneInv, Own, Moment, ReadsAreOwn, OneFlush, Serves, Forgot

\* Every action of the phone keeps the invariant.
LEMMA PhoneNext == PhoneInv /\ [M!Next]_(M!vars) => PhoneInv'
<1> SUFFICES ASSUME PhoneInv, [M!Next]_(M!vars) PROVE PhoneInv'
  OBVIOUS
<1>1. CASE \/ M!NewBlock \/ (\E h \in 0..MaxHeight : M!Reorganizes(h)) \/ (\E a \in Accounts : M!Changes(a))
           \/ M!NativeConnects \/ M!NativeLost \/ M!Poll
  BY <1>1, Outside
<1>2. ASSUME NEW i \in M!Slots, M!TipAnswered(i) \/ M!BalanceAnswered(i) \/ M!PageAnswered(i) \/ M!AnswerFails(i)
      PROVE  PhoneInv'
  BY <1>2, Answering
<1>3. ASSUME NEW i \in M!Slots, M!Settle(i) PROVE PhoneInv'
  BY <1>3, Settling
<1>4. ASSUME NEW ok \in BOOLEAN, M!WatchAnswered(ok) PROVE PhoneInv'
  BY <1>4, Watching
<1>5. ASSUME NEW a \in Accounts \cup {Nothing}, M!Adopt(a) PROVE PhoneInv'
  BY <1>5, Adopting
<1>6. CASE M!LoadContinues \/ \E kind \in {"full", "balance", "more"} : M!RefreshAccount(kind)
  BY <1>6, UserReads
<1>7. CASE M!ActionBegins \/ \E how \in {"paid", "review", "other"} : M!ActionEnds(how)
  BY <1>7, DialogKept
<1>8. CASE M!Notify \/ M!Flush \/ M!UpdateEnvironment
  BY <1>8, Notifying, Flushing, EnvironmentChanges
<1>9. CASE UNCHANGED M!vars
  <2>1. PhoneTypes'
    BY <1>9 DEF M!vars, PhoneInv, PhoneTypes
  <2>2. QED
    BY <1>9, <2>1, PhoneUntouched DEF M!vars
<1>10. QED
  BY <1>1, <1>2, <1>3, <1>4, <1>5, <1>6, <1>7, <1>8, <1>9 DEF M!Next

\* However hints, late answers, losses of the watch, dialogs and changes of account cross, the
\* phone shows its own account at one moment, and forgets no hint.
THEOREM PhoneShowsOneMoment == M!Spec => [](M!ShownIsOwn /\ M!HistoryIsOneMoment /\ M!HintIsPending)
  BY PhoneInit, PhoneNext, PhoneInvTrue, PTL DEF M!Spec

----------------------------------------------------------------------------
(* The display cache (D) *)

\* Every variable of the display cache has its type.
CacheTypes ==
    /\ server \in [Wallets -> Contents] /\ wallet \in Wallets
    /\ projection \in D!Snapshot \cup {Nothing} /\ reading \in BOOLEAN
    /\ verified \in Contents \cup {Nothing}
    /\ refused \in BOOLEAN /\ pending \in D!Job \cup {Nothing} /\ writing \in {"idle", "loop", "write"}
    /\ job \in D!Job \cup {Nothing} /\ dSaved \in D!Marker \cup {Nothing}
    /\ store \in [Wallets -> Contents \cup {Nothing}] /\ dReads \in Int

\* What waits is of the wallet that is shown; so is what is written, until its context is void.
Owned ==
    /\ pending # Nothing => pending.ctx /\ pending.wallet = wallet
    /\ writing = "write" <=> job # Nothing
    /\ writing = "write" => (job.ctx => job.wallet = wallet) /\ (~job.ctx => dSaved = Nothing)

\* The marker says what the storage holds.
Marked == dSaved # Nothing => dSaved.of = dSaved.snap.of /\ store[wallet] = dSaved.of

\* The last verified read waits, is being written, or is stored.
Followed ==
    verified # Nothing /\ ~refused /\ D!Cacheable(verified) =>
        \/ pending # Nothing /\ pending.cur /\ pending.snap.of = verified
        \/ pending = Nothing /\ writing = "write" /\ job.ctx /\ job.snap.of = verified
        \/ pending = Nothing /\ writing # "write" /\ store[wallet] = verified

CacheInv == CacheTypes /\ Owned /\ Marked /\ D!NoneStranded /\ Followed

\* The invariant contains what is stated of the cache.
LEMMA CacheInvTrue == CacheInv => D!CacheIsTrue
  BY DEF CacheInv, D!CacheIsTrue, D!MarkerIsHonest, D!RestIsStored, Marked, Followed, D!NoneStranded

\* Nothing is stored at first.
LEMMA CacheInit == D!Init => CacheInv
<1> SUFFICES ASSUME D!Init PROVE CacheInv
  OBVIOUS
<1>1. store \in [Wallets -> Contents \cup {Nothing}]
  BY DEF D!Init
<1>2. reading \in BOOLEAN /\ refused \in BOOLEAN
  BY DEF D!Init
<1>3. dReads \in Int /\ server \in [Wallets -> Contents] /\ wallet \in Wallets /\ projection = Nothing
      /\ verified = Nothing /\ pending = Nothing /\ writing = "idle" /\ job = Nothing
      /\ dSaved = Nothing
  BY DEF D!Init
<1>4. CacheTypes
  BY <1>1, <1>2, <1>3 DEF CacheTypes
<1>5. Owned /\ Marked /\ D!NoneStranded /\ Followed
  BY DEF D!Init, Owned, Marked, D!NoneStranded, Followed
<1>6. QED
  BY <1>4, <1>5 DEF CacheInv

\* Every action of the session and of its writer keeps the invariant.
LEMMA CacheNext == CacheInv /\ [D!Next]_(D!vars) => CacheInv'
<1> SUFFICES ASSUME CacheInv, [D!Next]_(D!vars) PROVE CacheInv'
  OBVIOUS
<1> USE DisplayConstants DEF CacheInv, D!view, D!cache, D!counts
<1>1. CASE D!ServerMoves
  BY <1>1 DEF D!ServerMoves, CacheTypes, Owned, Marked, D!NoneStranded, Followed
<1>2. CASE D!ReadBegins
  <2>1. pending' \in D!Job \cup {Nothing} /\ (pending' # Nothing <=> pending # Nothing)
        /\ (pending # Nothing => pending'.ctx = pending.ctx /\ pending'.wallet = pending.wallet)
    BY <1>2 DEF D!ReadBegins, D!Superseded, CacheTypes, D!Job
  <2>2. QED
    BY <1>2, <2>1 DEF D!ReadBegins, CacheTypes, Owned, Marked, D!NoneStranded, Followed
<1>3. CASE D!ShowMore
  <2>1. pending' \in D!Job \cup {Nothing} /\ (pending' # Nothing <=> pending # Nothing)
        /\ (pending # Nothing => pending'.ctx = pending.ctx /\ pending'.wallet = pending.wallet)
    BY <1>3 DEF D!ShowMore, D!Superseded, CacheTypes, D!Job
  <2>2. QED
    BY <1>3, <2>1 DEF D!ShowMore, CacheTypes, Owned, Marked, D!NoneStranded, Followed
<1>4. CASE D!ReadFails
  BY <1>4 DEF D!ReadFails, CacheTypes, Owned, Marked, D!NoneStranded, Followed
<1>5. CASE D!ReadCommits
  <2>1. PICK snapshot \in D!Projections(server[wallet]) :
          /\ projection' = snapshot
          /\ pending' = [snap |-> snapshot, wallet |-> wallet, cur |-> TRUE, ctx |-> TRUE]
    BY <1>5 DEF D!ReadCommits
  <2>2. snapshot \in D!Snapshot /\ snapshot.of = server[wallet]
    BY <2>1 DEF D!Projections, CacheTypes, D!Snapshot
  <2>3. /\ pending' \in D!Job /\ pending'.cur /\ pending'.ctx /\ pending'.wallet = wallet
        /\ pending'.snap.of = server[wallet]
    BY <2>1, <2>2 DEF CacheTypes, D!Job
  <2>4. reading' \in BOOLEAN /\ refused' \in BOOLEAN
    BY <1>5 DEF D!ReadCommits
  <2>5. /\ dReads' \in Int /\ verified' \in Contents /\ writing' \in {"idle", "loop", "write"}
         /\ UNCHANGED <<server, wallet, job, dSaved, store>>
    BY <1>5 DEF D!ReadCommits, CacheTypes
  <2>6. CacheTypes'
    BY <2>4, <2>5, <2>1, <2>2, <2>3 DEF CacheTypes
  <2>7. Owned'
    BY <1>5, <2>1, <2>2, <2>3 DEF D!ReadCommits, Owned
  <2>8. Marked'
    BY <1>5 DEF D!ReadCommits, Marked
  <2>9. D!NoneStranded'
    BY <1>5 DEF D!ReadCommits, CacheTypes, D!NoneStranded
  <2>10. Followed'
    BY <1>5, <2>3 DEF D!ReadCommits, Followed
  <2>11. QED
    BY <2>6, <2>7, <2>8, <2>9, <2>10
<1>6. CASE D!Invalidates
  <2>1. job' \in D!Job \cup {Nothing} /\ (job' # Nothing <=> job # Nothing) /\ (job # Nothing => ~job'.ctx)
    BY <1>6 DEF D!Invalidates, CacheTypes, D!Job
  <2>2. QED
    BY <1>6, <2>1 DEF D!Invalidates, CacheTypes, Owned, Marked, D!NoneStranded, Followed
<1>7. CASE D!JobSkipped
  <2>1. /\ writing = "loop" /\ pending # Nothing /\ pending' = Nothing /\ pending \in D!Job
        /\ pending.ctx
        /\ UNCHANGED <<server, wallet, projection, reading, verified, refused, writing, job, store, dReads>>
    BY <1>7 DEF D!JobSkipped, Owned, CacheTypes
  <2>2. CASE ~pending.cur \/ ~D!Cacheable(pending.snap.of)
    <3>1. dSaved' = dSaved \/ (dSaved # Nothing /\ dSaved.of = pending.snap.of /\ dSaved' = [dSaved EXCEPT !.snap = pending.snap])
      BY <1>7, <2>1 DEF D!JobSkipped
    <3>2. dSaved' \in D!Marker \cup {Nothing} /\ Marked'
      BY <2>1, <3>1 DEF CacheTypes, Marked, D!Marker, D!Job
    <3>3. Followed'
      BY <2>1, <2>2 DEF Followed, D!Cacheable
    <3>4. QED
      BY <2>1, <3>1, <3>2, <3>3 DEF CacheTypes, Owned, D!NoneStranded
  <2>3. CASE pending.cur /\ D!Cacheable(pending.snap.of)
    <3>1. /\ dSaved # Nothing /\ dSaved.of = pending.snap.of
          /\ dSaved' = dSaved \/ dSaved' = [dSaved EXCEPT !.snap = pending.snap]
      BY <1>7, <2>1, <2>3 DEF D!JobSkipped, Marked
    <3>2. dSaved' \in D!Marker \cup {Nothing} /\ Marked'
      BY <2>1, <3>1 DEF CacheTypes, Marked, D!Marker, D!Job
    <3>3. store[wallet] = pending.snap.of
      BY <3>1 DEF Marked
    <3>4. Followed'
      BY <2>1, <3>3 DEF Followed, D!Cacheable
    <3>5. QED
      BY <2>1, <3>1, <3>2, <3>4 DEF CacheTypes, Owned, D!NoneStranded
  <2>4. QED
    BY <2>2, <2>3
<1>8. CASE D!WriteBegins
  BY <1>8 DEF D!WriteBegins, CacheTypes, Owned, Marked, D!NoneStranded, Followed
<1>9. CASE D!WriteAcknowledged
  <2>1. job \in D!Job /\ job.snap.of \in Contents
    BY <1>9 DEF D!WriteAcknowledged, CacheTypes, Owned, D!Job, D!Snapshot
  <2>2. store' \in [Wallets -> Contents \cup {Nothing}] /\ store'[job.wallet] = job.snap.of
    BY <1>9, <2>1 DEF D!WriteAcknowledged, D!Stored, CacheTypes, D!Job
  <2>3. dSaved' \in D!Marker \cup {Nothing} /\ Marked'
    BY <1>9, <2>1, <2>2 DEF D!WriteAcknowledged, CacheTypes, Owned, Marked, D!Marker, D!Job
  <2>4. Followed'
    BY <1>9, <2>1, <2>2 DEF D!WriteAcknowledged, Owned, Followed, D!Cacheable
  <2>5. QED
    BY <1>9, <2>2, <2>3, <2>4 DEF D!WriteAcknowledged, CacheTypes, Owned, D!NoneStranded
<1>10. CASE D!WriteRefused
  <2>1. job \in D!Job /\ job.snap.of \in Contents
    BY <1>10 DEF D!WriteRefused, CacheTypes, Owned, D!Job, D!Snapshot
  <2>2. store' \in [Wallets -> Contents \cup {Nothing}]
    BY <1>10, <2>1 DEF D!WriteRefused, D!Stored, CacheTypes, D!Job
  <2>3. dSaved' = Nothing
    BY <1>10 DEF D!WriteRefused, D!Forgets, Owned
  <2>4. refused' \in BOOLEAN
    BY <1>10, <2>1 DEF D!WriteRefused, CacheTypes, D!Job
  <2>5. Followed'
    BY <1>10, <2>1 DEF D!WriteRefused, Followed, D!Cacheable, Owned
  <2>6. QED
    BY <1>10, <2>2, <2>3, <2>4, <2>5 DEF D!WriteRefused, CacheTypes, Owned, Marked, D!NoneStranded
<1>11. CASE D!WriterRests
  BY <1>11 DEF D!WriterRests, CacheTypes, Owned, Marked, D!NoneStranded, Followed
<1>12. CASE D!Restart
  <2>1. store' \in [Wallets -> Contents \cup {Nothing}]
    BY <1>12 DEF D!Restart, D!Stored, CacheTypes, Owned, D!Job, D!Snapshot
  <2>2. QED
    BY <1>12, <2>1 DEF D!Restart, CacheTypes, Owned, Marked, D!NoneStranded, Followed
<1>13. CASE UNCHANGED D!vars
  BY <1>13 DEF D!vars, CacheTypes, Owned, Marked, D!NoneStranded, Followed
<1>14. QED
  BY <1>1, <1>2, <1>3, <1>4, <1>5, <1>6, <1>7, <1>8, <1>9, <1>10, <1>11, <1>12, <1>13 DEF D!Next

\* The phone's storage holds what its marker says and at rest what was verified last, however
\* writes are refused, superseded, overtaken by another wallet or cut off.
THEOREM CacheStaysTrue == D!Spec => []D!CacheIsTrue
  BY CacheInit, CacheNext, CacheInvTrue, PTL DEF D!Spec

----------------------------------------------------------------------------
(* The desktop's window (W) *)

\* Every variable of the window has its type.
WindowTypes ==
    /\ version \in Nat /\ priority \in {0, 1} /\ statePriority \in {0, 1, Nothing}
    /\ shown \in W!Shown \cup {Nothing}
    /\ lastPublished \in Int \cup {Nothing} /\ timer \in Int \cup {Nothing} /\ wClosed \in BOOLEAN
    /\ now \in Int

\* Something is shown from the first change on, and a timer runs from a publication.
WindowInv ==
    /\ WindowTypes /\ W!NothingWithheld
    /\ statePriority = Nothing <=> version = 0
    /\ statePriority # Nothing => statePriority = priority
    /\ ~wClosed /\ version > 0 => shown # Nothing /\ lastPublished # Nothing
    /\ lastPublished = Nothing => timer = Nothing
    /\ timer # Nothing => timer <= lastPublished + Interval
    /\ lastPublished # Nothing => lastPublished <= now

\* Nothing is shown at first.
LEMMA WindowInit == W!Init => WindowInv
<1> SUFFICES ASSUME W!Init PROVE WindowInv
  OBVIOUS
<1>1. wClosed \in BOOLEAN
  BY DEF W!Init
<1>2. WindowTypes
  BY <1>1 DEF W!Init, WindowTypes
<1>3. W!NothingWithheld
  BY DEF W!Init, W!NothingWithheld
<1>4. QED
  BY <1>2, <1>3 DEF W!Init, WindowInv

\* Every change, timer and tick keeps the invariant.
LEMMA WindowNext == WindowInv /\ [W!Next]_(W!vars) => WindowInv'
<1> SUFFICES ASSUME WindowInv, [W!Next]_(W!vars) PROVE WindowInv'
  OBVIOUS
<1> USE DisplayConstants DEF WindowInv, WindowTypes
<1>1. CASE W!Change
  <2> DEFINE immediate == statePriority = Nothing \/ priority' # statePriority
  <2>1. /\ version' = version + 1 /\ priority' \in {0, 1} /\ statePriority' = priority'
        /\ W!Request(immediate, version', priority') /\ UNCHANGED <<wClosed, now>>
    BY <1>1 DEF W!Change
  <2>2. CASE wClosed /\ UNCHANGED <<shown, lastPublished, timer>>
    BY <2>1, <2>2 DEF W!NothingWithheld
  <2>3. CASE ~wClosed /\ timer' = Nothing /\ W!Publish(version', priority')
    BY <2>1, <2>3 DEF W!NothingWithheld, W!Publish, W!Shown
  <2>4. CASE ~wClosed /\ ~immediate /\ W!Remaining > 0 /\ timer' = W!Deferred
             /\ UNCHANGED <<shown, lastPublished>>
    <3>1. lastPublished # Nothing /\ W!Remaining = Interval - (now - lastPublished) /\ version > 0
      BY <2>4 DEF W!Remaining
    <3>2. timer' \in Int /\ timer' <= lastPublished + Interval
      BY <2>4, <3>1 DEF W!Deferred
    <3>3. shown.priority = priority /\ priority' = priority
      BY <2>4, <3>1 DEF W!NothingWithheld
    <3>4. QED
      BY <2>1, <2>4, <3>1, <3>2, <3>3 DEF W!NothingWithheld
  <2>5. QED
    BY <2>1, <2>2, <2>3, <2>4 DEF W!Request
<1>2. CASE W!TimerFires
  BY <1>2 DEF W!TimerFires, W!NothingWithheld, W!Publish, W!Shown
<1>3. CASE W!Close
  BY <1>3 DEF W!Close, W!NothingWithheld
<1>4. CASE W!Tick
  BY <1>4 DEF W!Tick, W!NothingWithheld
<1>5. CASE UNCHANGED W!vars
  BY <1>5 DEF W!vars, W!NothingWithheld
<1>6. QED
  BY <1>1, <1>2, <1>3, <1>4, <1>5 DEF W!Next

\* The window is behind its wallet by an interval at most.
THEOREM WindowIsInformed == W!Spec => []W!NothingWithheld
<1>1. WindowInv => W!NothingWithheld
  BY DEF WindowInv
<1>2. QED
  BY WindowInit, WindowNext, <1>1, PTL DEF W!Spec

\* A step of what is checked together is a step of one component, and leaves the others alone.
LEMMA OneMoves ==
    /\ AnyInit => M!Init /\ D!Init /\ W!Init
    /\ [AnyNext]_all => [M!Next]_(M!vars) /\ [D!Next]_(D!vars) /\ [W!Next]_(W!vars)
<1>1. AnyInit => M!Init /\ D!Init /\ W!Init
  BY DEF AnyInit
<1>2. ASSUME [AnyNext]_all PROVE [M!Next]_(M!vars) /\ [D!Next]_(D!vars) /\ [W!Next]_(W!vars)
  <2>1. M!Next \/ UNCHANGED M!vars
    BY <1>2 DEF AnyNext, all, phoneVars, M!vars
  <2>2. D!Next \/ UNCHANGED D!vars
    BY <1>2 DEF AnyNext, all, cacheVars, D!vars
  <2>3. W!Next \/ UNCHANGED W!vars
    BY <1>2 DEF AnyNext, all, windowVars, W!vars
  <2>4. QED
    BY <2>1, <2>2, <2>3
<1>3. QED
  BY <1>1, <1>2

\* What the phone and the desktop's window display, and what the phone stores, stays true.
THEOREM DisplaysStayTrue == AnySpec => []ShownIsTrue
<1>1. PhoneInv /\ CacheInv /\ WindowInv => ShownIsTrue
  BY PhoneInvTrue, CacheInvTrue DEF ShownIsTrue, WindowInv
<1>2. QED
  BY OneMoves, PhoneInit, PhoneNext, CacheInit, CacheNext, WindowInit, WindowNext, <1>1, PTL
     DEF AnySpec
=============================================================================
