--------------------------- MODULE WalletLifecycle ---------------------------
(***************************************************************************)
(* Creating, restoring, replacing, unlocking, locking and closing a wallet *)
(* (beginWalletReplacement to openSession, lock and close in               *)
(* wallet-service.mjs).                                                    *)
(*                                                                         *)
(* Every one of these takes several awaits, and each may be overtaken by   *)
(* another: the epoch tells a continuation that it was.  A wallet is       *)
(* published to the file before its operation returns, so a cancellation   *)
(* may come too late to prevent it, but never too late to keep it locked.  *)
(* The steps of replaceVault itself are those of module Vault.             *)
(***************************************************************************)
EXTENDS Integers, Sequences, FiniteSets

CONSTANTS
    MaxAsked,   \* bound: requests of the user
    MaxWallets, \* bound: wallets created
    MaxSaves    \* bound: saves of a session

ASSUME LifecycleAssumption == {MaxAsked, MaxWallets, MaxSaves} \subseteq Nat

None == [none |-> TRUE]

VARIABLES
    file,        \* None, or the wallet in the file and the version of its data
    walletExists,
    session,     \* None, or the wallet open, its version and the request that opened it
    saves,       \* encrypted saves not yet written (persisting)
    saved,       \* how many there were
    epoch,
    replacement, \* None, or the authority to replace the wallet
    setup,       \* None, or the phrase waiting for its confirmation
    begins,      \* beginWalletReplacement calls under way
    write,       \* walletWrite: None or the creation under way
    unlocks,     \* unlock calls under way
    closed,
    wallets,     \* wallets created
    asked,       \* history: requests made
    latest       \* history: the last of them that concerns what is under way

lifeVars == <<closed, wallets>>
vars == <<file, walletExists, session, saves, saved, epoch, replacement, setup, begins, write,
          unlocks, lifeVars, asked, latest>>

Init ==
    /\ \E has \in BOOLEAN :
        /\ walletExists = has
        /\ file = IF has THEN [w |-> 0, v |-> 0] ELSE None
    /\ session = None /\ saves = <<>> /\ saved = 0 /\ epoch = 0
    /\ replacement = None /\ setup = None
    /\ begins = {} /\ write = None /\ unlocks = {}
    /\ closed = FALSE /\ wallets = 0 /\ asked = 0 /\ latest = 0

Counted == asked < MaxAsked /\ asked' = asked + 1
Ask == Counted /\ latest' = asked'

\* The end of a setup that no creation under way was confirmed from.
AskSetup ==
    /\ Counted
    /\ latest' = IF write # None /\ write.setup # [id |-> setup.id] THEN latest ELSE asked'

-----------------------------------------------------------------------------
(* Replacement authority and setup. *)

AssertReplacement(id, mode) ==
    /\ ~closed /\ session = None /\ walletExists
    /\ replacement # None
    /\ replacement.id = id /\ replacement.epoch = epoch /\ replacement.live
    /\ mode = "any" \/ replacement.mode = mode

BeginWalletReplacement(mode) ==
    /\ Ask
    /\ ~closed /\ walletExists /\ session = None /\ write = None
    /\ epoch' = epoch + 1 /\ replacement' = None /\ setup' = None
    /\ begins' = begins \cup {[epoch |-> epoch + 1, mode |-> mode]}
    /\ UNCHANGED <<file, walletExists, session, saves, saved, write, unlocks, lifeVars>>

\* The saves of the last session are written and the file is fingerprinted.
BeginEnds(b) ==
    /\ saves = <<>>
    /\ begins' = begins \ {b}
    /\ replacement' = IF ~closed /\ b.epoch = epoch /\ session = None /\ write = None
                      THEN [id |-> epoch, mode |-> b.mode, epoch |-> epoch, fingerprint |-> file,
                            live |-> TRUE]
                      ELSE replacement
    /\ UNCHANGED <<file, walletExists, session, saves, saved, epoch, setup, write, unlocks,
                   lifeVars, asked, latest>>

CancelWalletReplacement ==
    /\ Ask
    /\ replacement' = None /\ setup' = None /\ epoch' = epoch + 1
    /\ UNCHANGED <<file, walletExists, session, saves, saved, begins, write, unlocks, lifeVars>>

CancelSetup ==
    /\ setup # None /\ AskSetup
    /\ setup' = None
    /\ UNCHANGED <<file, walletExists, session, saves, saved, epoch, replacement, begins, write,
                   unlocks, lifeVars>>

\* Ten minutes pass; the timer notices later.
Expire ==
    /\ \/ /\ replacement # None /\ replacement.live
          /\ Counted /\ UNCHANGED latest
          /\ replacement' = [replacement EXCEPT !.live = FALSE] /\ UNCHANGED setup
       \/ /\ setup # None /\ setup.live /\ AskSetup
          /\ setup' = [setup EXCEPT !.live = FALSE] /\ UNCHANGED replacement
    /\ UNCHANGED <<file, walletExists, session, saves, saved, epoch, begins, write, unlocks, lifeVars>>

Tick ==
    /\ \/ /\ setup # None /\ ~setup.live
          /\ setup' = None /\ UNCHANGED <<replacement, epoch>>
       \/ /\ replacement # None /\ ~replacement.live
          /\ replacement' = None /\ setup' = None /\ epoch' = epoch + 1
    /\ UNCHANGED <<file, walletExists, session, saves, saved, begins, write, unlocks, lifeVars, asked, latest>>

\* The authority a request names: the one on offer, or none.
Named == IF replacement = None THEN None ELSE [id |-> replacement.id]

PrepareWallet ==
    /\ Ask
    /\ ~closed /\ write = None /\ session = None
    /\ IF walletExists THEN replacement # None /\ AssertReplacement(replacement.id, "switch")
                       ELSE replacement = None
    /\ setup' = [id |-> asked', replacement |-> Named, epoch |-> epoch, live |-> TRUE]
    /\ UNCHANGED <<file, walletExists, session, saves, saved, epoch, replacement, begins, write,
                   unlocks, lifeVars>>

-----------------------------------------------------------------------------
(* createWallet, for a confirmed setup or for restored words. *)

\* The check that is repeated after each await.
Check(c) ==
    /\ ~closed /\ c.epoch = epoch /\ session = None
    /\ c.replacement # None =>
          AssertReplacement(c.replacement.id, IF c.recover THEN "any" ELSE "switch")
    /\ c.setup # None => setup # None /\ setup.id = c.setup.id /\ setup.live

CreateWallet(authority, s, recover) ==
    LET c == [w |-> wallets + 1, replacement |-> authority, setup |-> s, recover |-> recover,
              epoch |-> epoch, by |-> asked', pc |-> "wait",
              fingerprint |-> IF authority = None THEN None ELSE replacement.fingerprint]
    IN  /\ ~closed /\ write = None /\ session = None
        /\ wallets < MaxWallets
        /\ walletExists <=> authority # None
        /\ Check(c)
        /\ write' = c
        /\ wallets' = wallets + 1
        /\ UNCHANGED <<file, walletExists, session, saves, saved, epoch, replacement, setup,
                       begins, unlocks, closed>>

ConfirmWallet ==
    /\ Ask
    /\ setup # None /\ setup.epoch = epoch /\ setup.live
    /\ CreateWallet(setup.replacement, [id |-> setup.id], FALSE)

RestoreWallet == Ask /\ CreateWallet(Named, None, TRUE)

\* Mutant: a creation also waits for the unlocks under way.
WriteWaitsUnlocks ==
    /\ write # None /\ write.pc = "wait" /\ saves = <<>> /\ unlocks = {}
    /\ write' = IF Check(write) THEN [write EXCEPT !.pc = "encrypt"] ELSE None
    /\ UNCHANGED <<file, walletExists, session, saves, saved, epoch, replacement, setup,
                   begins, unlocks, lifeVars, asked, latest>>

WriteWaits ==
    /\ write # None /\ write.pc = "wait" /\ saves = <<>>
    /\ write' = IF Check(write) THEN [write EXCEPT !.pc = "encrypt"] ELSE None
    /\ UNCHANGED <<file, walletExists, session, saves, saved, epoch, replacement, setup,
                   begins, unlocks, lifeVars, asked, latest>>

\* The last check before the file is renamed over the old one.
VaultChecks ==
    /\ write # None /\ write.pc = "encrypt"
    /\ write' = IF Check(write) /\ file = write.fingerprint THEN [write EXCEPT !.pc = "rename"]
                                                            ELSE None
    /\ UNCHANGED <<file, walletExists, session, saves, saved, epoch, replacement, setup,
                   begins, unlocks, lifeVars, asked, latest>>

Publish ==
    /\ write # None /\ write.pc = "rename"
    /\ file' = [w |-> write.w, v |-> 0]
    /\ write' = [write EXCEPT !.pc = "published"]
    /\ UNCHANGED <<walletExists, session, saves, saved, epoch, replacement, setup,
                   begins, unlocks, lifeVars, asked, latest>>

\* replaceVault threw after the wallet was published.
PublishedBadly ==
    /\ write # None /\ write.pc = "published"
    /\ walletExists' = TRUE /\ replacement' = None /\ setup' = None /\ epoch' = epoch + 1
    /\ write' = None
    /\ UNCHANGED <<file, session, saves, saved, begins, unlocks, lifeVars, asked, latest>>

OpenSession(data, by) ==
    /\ replacement' = None /\ setup' = None
    /\ session' = [w |-> data.w, v |-> data.v, by |-> by] /\ epoch' = epoch + 1

\* Mutant: what was published is opened unless the application closes.
MayOpenAlways(c) == ~closed /\ session = None

\* The saved wallet stays; a setup cancelled since cannot open it.
MayOpen(c) ==
    /\ ~closed /\ c.epoch = epoch
    /\ c.setup # None => setup # None /\ setup.id = c.setup.id /\ setup.live

Published ==
    /\ write # None /\ write.pc = "published"
    /\ walletExists' = TRUE /\ write' = None
    /\ IF MayOpen(write)
       THEN OpenSession([w |-> write.w, v |-> 0], write.by)
       ELSE replacement' = None /\ setup' = None /\ UNCHANGED <<session, epoch>>
    /\ UNCHANGED <<file, saves, saved, begins, unlocks, lifeVars, asked, latest>>

-----------------------------------------------------------------------------
(* unlock, lock and close. *)

Unlock ==
    /\ Ask
    /\ ~closed /\ walletExists /\ session = None
    /\ replacement' = None /\ setup' = None /\ epoch' = epoch + 1
    /\ unlocks' = unlocks \cup {[epoch |-> epoch + 1, by |-> asked', pc |-> "wait",
                                 write |-> IF write = None THEN 0 ELSE write.w, data |-> None]}
    /\ UNCHANGED <<file, walletExists, session, saves, saved, begins, write, lifeVars>>

\* Mutant: the pending saves are not awaited.
WaitedWrite(u) == write # None => write.w # u.write

\* The creation under way when it was called, and all saves, have settled.
Waited(u) == saves = <<>> /\ (write # None => write.w # u.write)

UnlockWaits(u) ==
    /\ u.pc = "wait" /\ Waited(u)
    /\ unlocks' = (unlocks \ {u}) \cup
         (IF closed \/ u.epoch # epoch THEN {} ELSE {[u EXCEPT !.pc = "read"]})
    /\ UNCHANGED <<file, walletExists, session, saves, saved, epoch, replacement, setup, begins,
                   write, lifeVars, asked, latest>>

UnlockReads(u) ==
    /\ u.pc = "read"
    /\ unlocks' = (unlocks \ {u}) \cup {[u EXCEPT !.pc = "open", !.data = file]}
    /\ UNCHANGED <<file, walletExists, session, saves, saved, epoch, replacement, setup, begins,
                   write, lifeVars, asked, latest>>

\* The password was right, or it was not.
UnlockEnds(u) ==
    /\ u.pc = "open"
    /\ unlocks' = unlocks \ {u}
    /\ \/ u.epoch = epoch /\ OpenSession(u.data, u.by)
       \/ UNCHANGED <<session, epoch, replacement, setup>>
    /\ UNCHANGED <<file, walletExists, saves, saved, begins, write, lifeVars, asked, latest>>

Locked == session' = None /\ epoch' = epoch + 1 /\ setup' = None /\ replacement' = None

Lock ==
    /\ Ask /\ Locked
    /\ UNCHANGED <<file, walletExists, saves, saved, begins, write, unlocks, lifeVars>>

Close ==
    /\ Ask /\ ~closed /\ closed' = TRUE /\ Locked
    /\ UNCHANGED <<file, walletExists, saves, saved, begins, write, unlocks, wallets>>

-----------------------------------------------------------------------------
(* Saves of an open session. *)

Persist ==
    /\ session # None /\ saved < MaxSaves
    /\ session' = [session EXCEPT !.v = @ + 1]
    /\ saves' = Append(saves, [w |-> session.w, v |-> session.v + 1])
    /\ saved' = saved + 1
    /\ UNCHANGED <<file, walletExists, epoch, replacement, setup, begins, write, unlocks,
                   lifeVars, asked, latest>>

SaveWritten ==
    /\ saves # <<>>
    /\ saves' = Tail(saves) /\ file' = Head(saves)
    /\ UNCHANGED <<walletExists, session, saved, epoch, replacement, setup, begins, write,
                   unlocks, lifeVars, asked, latest>>

-----------------------------------------------------------------------------
Steps ==
    \/ \E b \in begins : BeginEnds(b)
    \/ WriteWaits \/ VaultChecks \/ Publish \/ PublishedBadly \/ Published
    \/ \E u \in unlocks : UnlockWaits(u) \/ UnlockReads(u) \/ UnlockEnds(u)
    \/ SaveWritten \/ Tick

Next ==
    \/ \E mode \in {"recover", "switch"} : BeginWalletReplacement(mode)
    \/ CancelWalletReplacement \/ CancelSetup \/ Expire \/ PrepareWallet
    \/ ConfirmWallet \/ RestoreWallet \/ Unlock \/ Lock \/ Close \/ Persist
    \/ Steps

Spec == Init /\ [][Next]_vars

\* Every await settles: disk and key derivation end.
FairSpec == Spec /\ WF_vars(Steps)

-----------------------------------------------------------------------------
(* Properties. *)

\* The wallet open is the wallet in the file, and what is in memory is ahead of
\* the file by exactly the saves under way, whichever creation, replacement,
\* unlock and lock ran into each other: an older snapshot is never reopened and
\* no save lands on another wallet's file.
SessionIsFile ==
    session # None =>
        /\ file # None /\ file.w = session.w
        /\ file.v + Len(saves) = session.v

\* A wallet is opened only by the user's last request: an operation that was
\* cancelled or overtaken, or whose setup expired, publishes at most a locked
\* wallet, and a closed wallet stays shut.
OpenedByLatest == (session = None /\ session' # None) => ~closed /\ session'.by = latest
LatestRequestOpens == [][OpenedByLatest]_vars

\* Nobody waits for ever: creations, replacements and unlocks under way end.
AllEnds == <>[](begins = {} /\ write = None /\ unlocks = {} /\ saves = <<>>)
=============================================================================
