----------------------------- MODULE VaultProofs -----------------------------
(***************************************************************************)
(* The wallet file is safe for any number of ciphertexts, other programs'  *)
(* writes, failed operations, kills and power losses.                      *)
(***************************************************************************)
EXTENDS Vault, TLAPS

Synced(n) == [of |-> n, data |-> "synced"]

\* Every call's ciphertext is younger than whatever it finds or found.
Fresh ==
    /\ \A f \in Wallet : f.of <= made
    /\ before \in File \cup {None} /\ before.of <= made
    /\ kind # "none" => before.of < new
    /\ pc # "idle" \/ result # "none" => kind # "none"
    /\ kind = "replace" => expected > 0

\* What the temporary file holds when it is about to take the wallet's name.
Staged ==
    /\ pc = "sync" => live["temporary"].of = new
    /\ pc \in {"backup", "backupSync", "backupName", "publish", "rename"} => live["temporary"] = Synced(new)
    /\ pc = "rename" => ~cancelled /\ kind = "replace"
    /\ pc \in {"unlink", "flush"} => published
    /\ pc \in {"backup", "backupSync", "backupName"} => ~published /\ kind = "replace"
    /\ pc \in {"start", "open", "write", "sync", "publish", "rename"} => ~published

\* The backup on its way to the disk, and once it is there for good.
Backed ==
    /\ pc \in {"start", "open", "write", "sync", "backup"} => ~backupComplete
    /\ pc = "backupSync" => live["backup"].of = expected
    /\ pc = "backupName" => live["backup"] = Synced(expected)
    /\ backupComplete => maybe["backup"] = {Synced(expected)}
    /\ kind = "replace" /\ (published \/ pc \in {"publish", "rename"}) => backupComplete

\* The new ciphertext is under the wallet's name only after publication, and what the
\* call found there is out of a power loss's reach once the directory is flushed.
Installed ==
    /\ kind # "none" /\ ~published => \A f \in Wallet : f.of # new
    /\ pc \in {"unlink", "flush"} => live["wallet"] # before
    /\ pc = "cleanup" /\ ~failed => before \notin Wallet
    /\ result = "error" => ~published
    /\ result = "ok" => before \notin Wallet
    /\ pc # "idle" => result = "none"

Inv == TypeOK /\ NeverTorn /\ Fresh /\ Staged /\ Backed /\ Installed

\* A fresh installation and one with a wallet satisfy the invariant.
LEMMA InvInit == Init => Inv
<1> SUFFICES ASSUME Init PROVE Inv
  OBVIOUS
<1>1. PICK f \in {None, [of |-> 1, data |-> "synced"]} :
        live = [n \in Names |-> IF n = "wallet" THEN f ELSE None] /\ made = f.of
  BY DEF Init
<1> USE VaultBounds DEF Init, None, File, Names, Cipher, Wallet, Synced
<1>2. QED
  BY <1>1 DEF Inv, TypeOK, NeverTorn, Fresh, Staged, Backed, Installed

\* Every step of a call, and everything that can happen beside it, keeps the invariant.
LEMMA InvNext == Inv /\ [Next]_vars => Inv'
<1> SUFFICES ASSUME Inv, [Next]_vars PROVE Inv'
  OBVIOUS
<1> USE VaultBounds DEF Inv, TypeOK, NeverTorn, Fresh, Staged, Backed, Installed, Wallet, Synced,
        None, File, Names, Cipher, callVars, flagVars, boundVars
<1>1. ASSUME NEW k \in {"create", "update", "replace"}, Begin(k) PROVE Inv'
  BY <1>1 DEF Begin
<1>2. CASE Inspect
  BY <1>2 DEF Inspect, Goto, Throw, Acceptable
<1>3. CASE OpenTemporary
  BY <1>3 DEF OpenTemporary, Goto, Bind
<1>4. CASE WriteTemporary
  BY <1>4 DEF WriteTemporary, Goto, Bind
<1>5. CASE SyncTemporary
  BY <1>5 DEF SyncTemporary, Goto, SyncFile
<1>6. CASE WriteBackup
  BY <1>6 DEF WriteBackup, Goto, Throw, Bind
<1>7. CASE SyncBackup
  BY <1>7 DEF SyncBackup, Goto, SyncFile
<1>8. CASE SyncBackupName
  BY <1>8 DEF SyncBackupName, Goto, SyncNames
<1>9. CASE kind = "create" /\ PublishCreate
  BY <1>9 DEF PublishCreate, Goto, Throw, Bind
<1>10. CASE kind = "update" /\ PublishUpdate
  BY <1>10 DEF PublishUpdate, Goto, Rename
<1>11. CASE kind = "replace" /\ Compare
  BY <1>11 DEF Compare, Goto, Throw
<1>12. CASE kind = "replace" /\ PublishReplace
  BY <1>12 DEF PublishReplace, Goto, Rename
<1>13. CASE UnlinkTemporary
  BY <1>13 DEF UnlinkTemporary, Goto, Bind
<1>14. CASE Flush
  BY <1>14 DEF Flush, Goto, SyncNames
<1>15. CASE OperationFails
  BY <1>15 DEF OperationFails
<1>16. CASE Cleanup
  BY <1>16 DEF Cleanup, Returned
<1>17. CASE CleanupFails
  BY <1>17 DEF CleanupFails, Returned
<1>18. CASE Cancel
  BY <1>18 DEF Cancel
<1>19. CASE ForeignWrite
  BY <1>19 DEF ForeignWrite, Bind
<1>20. CASE Killed
  BY <1>20 DEF Killed, Crash
<1>21. CASE PowerLoss
  BY <1>21 DEF PowerLoss, Crash, Survivors
<1>22. CASE UNCHANGED vars
  BY <1>22 DEF vars
<1>23. QED
  BY <1>1, <1>2, <1>3, <1>4, <1>5, <1>6, <1>7, <1>8, <1>9, <1>10, <1>11,
     <1>12, <1>13, <1>14, <1>15, <1>16, <1>17, <1>18, <1>19, <1>20, <1>21, <1>22 DEF Next, Publish

\* Names, files, fingerprints and the call's state keep their types.
THEOREM TypeCorrect == Spec => []TypeOK
<1>1. Inv => TypeOK  BY DEF Inv
<1>2. QED  BY InvInit, InvNext, <1>1, PTL DEF Spec

\* The wallet file is whole at every moment and after every power loss, because only
\* synced bytes ever take the wallet's name.
THEOREM WalletNeverTorn == Spec => []NeverTorn
<1>1. Inv => NeverTorn  BY DEF Inv
<1>2. QED  BY InvInit, InvNext, <1>1, PTL DEF Spec

\* A replaced wallet can always be recovered: its backup, name included, is on the
\* disk before the new ciphertext can be found under the wallet's name.
THEOREM ReplacedIsRecoverable == Spec => []PreviousRecoverable
<1>1. Inv => PreviousRecoverable
  BY DEF Inv, PreviousRecoverable, Installed, Backed, Synced
<1>2. QED  BY InvInit, InvNext, <1>1, PTL DEF Spec

\* A plain error means that nothing was installed, success that the save is durable.
THEOREM ResultsHonest == Spec => []HonestResult
<1>1. Inv => HonestResult
  BY DEF Inv, HonestResult, Installed, Fresh
<1>2. QED  BY InvInit, InvNext, <1>1, PTL DEF Spec

\* No cancelled creation or replacement is published, and no creation overwrites.
THEOREM PublicationsAuthorized == Spec => PublicationAuthorized
<1>1. ASSUME Inv, [Next]_vars
      PROVE  [~published /\ published' => /\ kind # "update" => ~cancelled
                                          /\ kind = "create" => live["wallet"] = None]_vars
  <2> USE <1>1 DEF callVars, flagVars, boundVars
  <2>1. CASE Publish
    BY <2>1 DEF Publish, PublishCreate, PublishUpdate, Compare, PublishReplace, Goto, Throw, Inv, Staged
  <2>2. CASE UNCHANGED vars
    BY <2>2 DEF vars
  <2>3. ASSUME Next, ~Publish PROVE published' => published
    BY <2>3 DEF Next, Begin, Inspect, OpenTemporary, WriteTemporary, SyncTemporary, WriteBackup, SyncBackup,
       SyncBackupName, UnlinkTemporary, Flush, OperationFails, Cleanup, CleanupFails, Cancel, ForeignWrite,
       Killed, PowerLoss, Goto, Throw
  <2>4. QED  BY <2>1, <2>2, <2>3
<1>2. QED  BY InvInit, InvNext, <1>1, PTL DEF Spec, PublicationAuthorized
==============================================================================
