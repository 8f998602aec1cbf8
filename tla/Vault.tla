------------------------------- MODULE Vault -------------------------------
(***************************************************************************)
(* The encrypted wallet file (src/core/vault.mjs): how createVault,        *)
(* updateVault and replaceVault install a new ciphertext, and what a       *)
(* failed call, a cancellation, a killed process, a power loss or another  *)
(* program that writes the same file can leave behind.                     *)
(*                                                                         *)
(* Ciphertexts are numbered in the order they come to exist: every         *)
(* encryption has a fresh salt and nonce, so two are never equal, and      *)
(* equality of numbers is equality of fingerprints.  The service runs one  *)
(* of these calls at a time (walletWrite and persisting).  Directories are *)
(* the POSIX ones: a name made, moved or removed is on the disk only after *)
(* a sync of its directory, and until then a power loss may leave either.  *)
(***************************************************************************)
EXTENDS Naturals

CONSTANTS
    MaxCiphers,   \* bound: ciphertexts made by calls and by other programs
    MaxForeign,   \* bound: ... of them by other programs
    MaxFaults,    \* bound: failed file operations
    MaxCrashes    \* bound: killed processes and power losses

ASSUME VaultBounds == MaxCiphers \in Nat \ {0} /\ MaxForeign \in Nat /\ MaxFaults \in Nat /\ MaxCrashes \in Nat

None   == [of |-> 0, data |-> "none"]
Cipher == 1..MaxCiphers
\* A file's bytes: cut short, whole in the page cache, or on the disk.
File   == [of : Cipher, data : {"partial", "cached", "synced"}]
\* The wallet file, and this call's temporary and backup file (random names).
Names  == {"wallet", "temporary", "backup"}

VARIABLES
    live,        \* what the names stand for now
    maybe,       \* what a power loss may leave of each name
    made,        \* ciphertexts so far
    pc,          \* where the call is; "idle" between calls
    kind, new, expected, before,   \* the call: its ciphertext, expectedFingerprint, the file it found
    cancelled,   \* what check() throws on: cancel, lock, close, expiry
    published, backupCreated, backupComplete, failed,
    result,      \* of the last call that returned
    foreign, faults, crashes

callVars == <<kind, new, expected, before>>
flagVars == <<published, backupCreated, backupComplete>>
boundVars == <<foreign, faults, crashes>>
vars == <<live, maybe, made, pc, callVars, cancelled, flagVars, failed, result, boundVars>>

\* A fresh installation, or one with a wallet on the disk.
Init ==
    /\ \E f \in {None, [of |-> 1, data |-> "synced"]} :
         /\ live = [n \in Names |-> IF n = "wallet" THEN f ELSE None]
         /\ made = f.of
    /\ maybe = [n \in Names |-> {live[n]}]
    /\ pc = "idle" /\ kind = "none" /\ new = 0 /\ expected = 0 /\ before = None
    /\ cancelled = FALSE /\ published = FALSE /\ backupCreated = FALSE /\ backupComplete = FALSE
    /\ failed = FALSE /\ result = "none"
    /\ foreign = 0 /\ faults = 0 /\ crashes = 0

----------------------------------------------------------------------------
(* File operations *)

\* Name n now stands for f; the change is not on the disk yet.
Bind(n, f) ==
    /\ live' = [live EXCEPT ![n] = f]
    /\ maybe' = [maybe EXCEPT ![n] = @ \cup {f}]

\* rename(temporary, wallet).
Rename ==
    /\ live' = [live EXCEPT !["wallet"] = live["temporary"], !["temporary"] = None]
    /\ maybe' = [maybe EXCEPT !["wallet"] = @ \cup {live["temporary"]}, !["temporary"] = @ \cup {None}]

\* handle.sync(): the bytes are on the disk, under whatever name survives.
SyncFile(n) ==
    LET onDisk(f) == IF f = live[n] THEN [f EXCEPT !.data = "synced"] ELSE f
    IN  /\ live' = [live EXCEPT ![n] = onDisk(@)]
        /\ maybe' = [maybe EXCEPT ![n] = {onDisk(f) : f \in @}]

\* A sync of the directory or directories that hold these names.
SyncNames(names) ==
    /\ maybe' = [n \in Names |-> IF n \in names THEN {live[n]} ELSE maybe[n]]
    /\ UNCHANGED live

----------------------------------------------------------------------------
(* A call *)

Goto(from, to) == pc = from /\ pc' = to /\ UNCHANGED <<callVars, made, cancelled, failed, result, boundVars>>

\* The body throws: what is left of the call is its finally.
Throw(from) ==
    /\ pc = from /\ pc' = "cleanup" /\ failed' = TRUE
    /\ UNCHANGED <<live, maybe, callVars, made, cancelled, flagVars, result, boundVars>>

\* The call and its encryption.  A replacement was authorized for the file's bytes.
Begin(k) ==
    /\ pc = "idle" /\ made < MaxCiphers
    /\ (k = "create") = (live["wallet"] = None)
    /\ pc' = "start" /\ kind' = k
    /\ made' = made + 1 /\ new' = made'
    /\ before' = live["wallet"]
    /\ expected' = IF k = "replace" THEN live["wallet"].of ELSE 0
    /\ live' = [live EXCEPT !["temporary"] = None, !["backup"] = None]
    /\ maybe' = [maybe EXCEPT !["temporary"] = {None}, !["backup"] = {None}]
    /\ cancelled' = FALSE /\ published' = FALSE /\ backupCreated' = FALSE /\ backupComplete' = FALSE
    /\ failed' = FALSE /\ result' = "none"
    /\ UNCHANGED boundVars

\* safeFile() and, for a replacement, the fingerprint of the file about to go.
Acceptable == /\ (kind = "create") = (live["wallet"] = None)
              /\ kind = "replace" => live["wallet"].of = expected /\ ~cancelled

Inspect ==
    IF Acceptable THEN Goto("start", "open") /\ UNCHANGED <<live, maybe, flagVars>> ELSE Throw("start")

OpenTemporary ==
    /\ Goto("open", "write")
    /\ Bind("temporary", [of |-> new, data |-> "partial"])
    /\ UNCHANGED flagVars

WriteTemporary ==
    /\ Goto("write", "sync")
    /\ Bind("temporary", [of |-> new, data |-> "cached"])
    /\ UNCHANGED flagVars

\* Faulty variant: the temporary is closed without a sync of its bytes.
SyncTemporary_Skipped ==
    /\ Goto("sync", IF kind = "replace" THEN "backup" ELSE "publish")
    /\ UNCHANGED <<live, maybe, flagVars>>

SyncTemporary ==
    /\ Goto("sync", IF kind = "replace" THEN "backup" ELSE "publish")
    /\ SyncFile("temporary")
    /\ UNCHANGED flagVars

\* Faulty variant: the backup is written before the old bytes were read.
WriteBackup_Empty ==
    IF cancelled THEN Throw("backup")
    ELSE /\ Goto("backup", "backupSync")
         /\ Bind("backup", [of |-> 0, data |-> "cached"])
         /\ backupCreated' = TRUE
         /\ UNCHANGED <<published, backupComplete>>

\* replaceVault: the old bytes go into a backup of their own...
WriteBackup ==
    IF cancelled THEN Throw("backup")
    ELSE /\ Goto("backup", "backupSync")
         /\ Bind("backup", [of |-> expected, data |-> "cached"])
         /\ backupCreated' = TRUE
         /\ UNCHANGED <<published, backupComplete>>

SyncBackup ==
    /\ Goto("backupSync", "backupName")
    /\ SyncFile("backup")
    /\ UNCHANGED flagVars

\* Faulty variant: only the backup's bytes are synced, not its name.
SyncBackupName_Skipped ==
    /\ Goto("backupName", "publish")
    /\ backupComplete' = TRUE
    /\ UNCHANGED <<live, maybe, published, backupCreated>>

\* ... whose name is made durable, before the wallet file may be touched.
SyncBackupName ==
    /\ Goto("backupName", "publish")
    /\ SyncNames(Names)
    /\ backupComplete' = TRUE
    /\ UNCHANGED <<published, backupCreated>>

\* Faulty variant: create renames over whatever is there.
PublishCreate_Overwrites ==
    IF cancelled THEN Throw("publish")
    ELSE /\ Goto("publish", "unlink")
         /\ Bind("wallet", live["temporary"])
         /\ published' = TRUE
         /\ UNCHANGED <<backupCreated, backupComplete>>

\* createVault: check() and the exclusive linkSync() in one turn.
PublishCreate ==
    IF cancelled \/ live["wallet"] # None THEN Throw("publish")
    ELSE /\ Goto("publish", "unlink")
         /\ Bind("wallet", live["temporary"])
         /\ published' = TRUE
         /\ UNCHANGED <<backupCreated, backupComplete>>

UnlinkTemporary ==
    /\ Goto("unlink", "flush")
    /\ Bind("temporary", None)
    /\ UNCHANGED flagVars

\* updateVault: its check() never throws.
PublishUpdate ==
    /\ Goto("publish", "flush")
    /\ Rename
    /\ published' = TRUE
    /\ UNCHANGED <<backupCreated, backupComplete>>

\* replaceVault: the file is fingerprinted again, check() passes...
Compare ==
    IF live["wallet"].of # expected \/ cancelled THEN Throw("publish")
    ELSE Goto("publish", "rename") /\ UNCHANGED <<live, maybe, flagVars>>

\* ... and it is replaced in the same turn: only another program can come between.
PublishReplace ==
    /\ Goto("rename", "flush")
    /\ Rename
    /\ published' = TRUE
    /\ UNCHANGED <<backupCreated, backupComplete>>

\* chmod() and the sync of the wallet's directory.
Flush ==
    /\ Goto("flush", "cleanup")
    /\ SyncNames({"wallet", "temporary"})
    /\ UNCHANGED flagVars

Publish == \/ kind = "create" /\ PublishCreate
           \/ kind = "update" /\ PublishUpdate
           \/ kind = "replace" /\ (Compare \/ PublishReplace)

\* A file operation of the body fails before it has an effect.
OperationFails ==
    /\ pc \notin {"idle", "cleanup"} /\ faults < MaxFaults
    /\ faults' = faults + 1
    /\ pc' = "cleanup" /\ failed' = TRUE
    /\ UNCHANGED <<live, maybe, callVars, made, cancelled, flagVars, result, foreign, crashes>>

\* Faulty variant: what happened after publication is reported as a plain failure.
Returned_Plain(ok) == IF ok THEN "ok" ELSE "error"

\* What the caller is told: an error after publication carries walletPublished.
Returned(ok) == IF ok THEN "ok" ELSE IF published THEN "published" ELSE "error"

\* finally: the temporary file and an incomplete backup go.
Cleanup ==
    /\ pc = "cleanup" /\ pc' = "idle"
    /\ LET gone == {"temporary"} \cup IF backupCreated /\ ~backupComplete THEN {"backup"} ELSE {}
       IN  /\ live' = [n \in Names |-> IF n \in gone THEN None ELSE live[n]]
           /\ maybe' = [n \in Names |-> IF n \in gone THEN maybe[n] \cup {None} ELSE maybe[n]]
    /\ result' = Returned(~failed)
    /\ UNCHANGED <<callVars, made, cancelled, flagVars, failed, boundVars>>

\* The unlink of the temporary file fails: that is thrown, and the rest skipped.
CleanupFails ==
    /\ pc = "cleanup" /\ live["temporary"] # None /\ faults < MaxFaults
    /\ faults' = faults + 1
    /\ pc' = "idle"
    /\ result' = Returned(FALSE)
    /\ UNCHANGED <<live, maybe, callVars, made, cancelled, flagVars, failed, foreign, crashes>>

----------------------------------------------------------------------------
(* Everything else *)

\* The user cancels, locks or quits: only between two turns of the event loop.
Cancel ==
    /\ pc \notin {"idle", "rename"} /\ ~cancelled /\ cancelled' = TRUE
    /\ UNCHANGED <<live, maybe, made, pc, callVars, flagVars, failed, result, boundVars>>

\* Another program (a restored backup, a file synchronizer) installs a wallet.
ForeignWrite ==
    /\ foreign < MaxForeign /\ made < MaxCiphers
    /\ foreign' = foreign + 1 /\ made' = made + 1
    /\ Bind("wallet", [of |-> made', data |-> "synced"])
    /\ UNCHANGED <<pc, callVars, cancelled, flagVars, failed, result, faults, crashes>>

Crash == crashes < MaxCrashes /\ crashes' = crashes + 1 /\ pc' = "idle"

Killed ==
    /\ pc # "idle" /\ Crash
    /\ UNCHANGED <<live, maybe, made, callVars, cancelled, flagVars, failed, result, foreign, faults>>

\* Bytes that were not synced may be cut short.
Survivors(f) == IF f = None \/ f.data = "synced" THEN {f} ELSE {[f EXCEPT !.data = d] : d \in {"partial", "synced"}}

PowerLoss ==
    /\ Crash
    /\ \E w \in maybe["wallet"], t \in maybe["temporary"], b \in maybe["backup"] :
         \E x \in Survivors(w), y \in Survivors(t), z \in Survivors(b) :
            live' = [n \in Names |-> CASE n = "wallet" -> x [] n = "temporary" -> y [] n = "backup" -> z]
    /\ maybe' = [n \in Names |-> {live'[n]}]
    /\ UNCHANGED <<made, callVars, cancelled, flagVars, failed, result, foreign, faults>>

Next ==
    \/ \E k \in {"create", "update", "replace"} : Begin(k)
    \/ Inspect \/ OpenTemporary \/ WriteTemporary \/ SyncTemporary
    \/ WriteBackup \/ SyncBackup \/ SyncBackupName
    \/ Publish \/ UnlinkTemporary \/ Flush \/ OperationFails \/ Cleanup \/ CleanupFails
    \/ Cancel \/ ForeignWrite \/ Killed \/ PowerLoss

Spec == Init /\ [][Next]_vars
----------------------------------------------------------------------------
(* Properties *)

\* Every file the wallet's name stands for, or may stand for after a power loss.
Wallet == maybe["wallet"] \cup {live["wallet"]}

TypeOK ==
    /\ live \in [Names -> File \cup {None}]
    /\ maybe \in [Names -> SUBSET (File \cup {None})]
    /\ made \in 0..MaxCiphers /\ new \in 0..made /\ expected \in 0..made
    /\ \A n \in Names : live[n] \in maybe[n]
    /\ pc \in {"idle", "start", "open", "write", "sync", "backup", "backupSync", "backupName",
               "publish", "rename", "unlink", "flush", "cleanup"}
    /\ kind \in {"none", "create", "update", "replace"}
    /\ result \in {"none", "ok", "error", "published"}

\* The wallet file is whole whatever happens: no failure, kill or power loss at any
\* point of a save leaves a ciphertext that is cut short under the wallet's name.
NeverTorn == \A f \in Wallet : f.data \in {"none", "synced"}

\* replaceVault works without the old password, so the old ciphertext must not be
\* lost: once the new one may be found under the wallet's name, the one it replaces
\* is whole in the backup, after a power loss too.
PreviousRecoverable ==
    kind = "replace" /\ (\E f \in Wallet : f.of = new) => maybe["backup"] = {[of |-> expected, data |-> "synced"]}

\* What the caller is told is true: a plain error means that the new wallet is not
\* installed and never will be, success that no power loss can bring back the old file.
HonestResult ==
    /\ result = "error" => \A f \in Wallet : f.of # new
    /\ result = "ok" => before \notin Wallet

\* A wallet is never installed after its creation or replacement was cancelled, and
\* creation never takes the place of a wallet that appeared meanwhile.
PublicationAuthorized ==
    [][~published /\ published' => /\ kind # "update" => ~cancelled
                                   /\ kind = "create" => live["wallet"] = None]_vars
=============================================================================
