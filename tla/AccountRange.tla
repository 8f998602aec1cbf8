---------------------------- MODULE AccountRange ----------------------------
(***************************************************************************)
(* The addresses of an open wallet: buildAccounts(), publicAccount(),      *)
(* makeQR(), newAddress() and openSession() of src/core/wallet-service.mjs *)
(*                                                                         *)
(* A build derives the addresses of both chains in batches and yields      *)
(* between them; callers share a build and look again when it is done.     *)
(* Meanwhile new addresses are issued (and taken back when their save      *)
(* fails), reads move the last used index, and the wallet is locked and    *)
(* another one opened.  An address is the wallet it was derived from, its  *)
(* place in a chain is its index; a yield follows every address here,      *)
(* every 32nd in the code.                                                 *)
(***************************************************************************)
EXTENDS Naturals, Sequences, FiniteSets, FiniteSetsExt, SequencesExt

CONSTANTS
    Gap,          \* ADDRESS_GAP
    MaxIssued,    \* bound: last index issued on a chain
    MaxEpochs,    \* bound: sessions
    MaxBuilds     \* bound: builds

VARIABLES
    epoch,        \* this.epoch
    wallet,       \* the wallet of this.session, 0 if locked
    issued,       \* chain -> receiveIndex, changeIndex
    used,         \* chain -> lastUsed + 1
    derivation,   \* the wallet of accountDerivation and accountCache, 0 if cleared
    accounts,     \* chain -> this.accounts
    builds,       \* every build: epoch, chains so far, limits, st
    build,        \* this.accountBuild, 0 if none
    calls,        \* operation -> where it is
    qr            \* the address of qrDataUrl: wallet and index, or NoQR

vars == <<epoch, wallet, issued, used, derivation, accounts, builds, build, calls, qr>>

Chains == {0, 1}                 \* receive, change
Operations == {"open", "address", "read"}
NoQR == [of |-> 0, index |-> 0]
NoAccounts == [c \in Chains |-> <<>>]
Idle == [st |-> "idle"]

Init ==
    /\ epoch = 1 /\ wallet = 0 /\ issued = [c \in Chains |-> 0] /\ used = [c \in Chains |-> 0]
    /\ derivation = 0 /\ accounts = NoAccounts /\ builds = <<>> /\ build = 0
    /\ calls = [o \in Operations |-> Idle] /\ qr = NoQR

\* accountRangeMaxima(), with the lookahead of a recovered wallet.
Maxima == [c \in Chains |-> Max({issued[c], used[c] - 1 + Gap})]

\* Faulty variant: any open session will do.
InSession_Any(e) == wallet # 0

\* assertSession(epoch)
InSession(e) == wallet # 0 /\ epoch = e

----------------------------------------------------------------------------
(* Builds *)

\* buildAccounts(): join the build of this session, or start one.
Joins(o) ==
    IF build # 0 /\ builds[build].epoch = epoch
    THEN /\ calls' = [calls EXCEPT ![o] = [st |-> "builds", epoch |-> epoch, build |-> build]]
         /\ UNCHANGED <<builds, build>>
    ELSE /\ Len(builds) < MaxBuilds
         /\ builds' = Append(builds, [epoch |-> epoch, chains |-> NoAccounts, limits |-> Maxima, st |-> "runs"])
         /\ build' = Len(builds')
         /\ calls' = [calls EXCEPT ![o] = [st |-> "builds", epoch |-> epoch, build |-> build']]

\* The end of a build, and accountBuild's if it still is this one.
BuildEnds(b, st) ==
    /\ builds' = [builds EXCEPT ![b].st = st]
    /\ build' = IF build = b THEN 0 ELSE build

\* publicAccount(): the derivation context is this session's, made anew if it was another's.
PublicAccount == derivation' = wallet

\* One turn of buildAccountsInternal(): the next address; or, with all of them, the
\* list is published if the range is still the same, and trimmed and continued if not.
BuildMoves(b) ==
    LET it      == builds[b]
        missing == {c \in Chains : Len(it.chains[c]) <= it.limits[c]}
    IN  /\ it.st = "runs"
        /\ IF ~InSession(it.epoch)
           THEN BuildEnds(b, "failed") /\ UNCHANGED <<accounts, derivation>>
           ELSE IF missing # {}
           THEN /\ builds' = [builds EXCEPT ![b].chains[Min(missing)] = Append(@, wallet)]
                /\ PublicAccount
                /\ UNCHANGED <<build, accounts>>
           ELSE IF Maxima = it.limits
           THEN accounts' = it.chains /\ BuildEnds(b, "done") /\ UNCHANGED derivation
           ELSE /\ builds' = [builds EXCEPT ![b].limits = Maxima,
                                  ![b].chains = [c \in Chains |-> SubSeq(it.chains[c], 1, Min({Len(it.chains[c]), Maxima[c] + 1}))]]
                /\ UNCHANGED <<build, accounts, derivation>>
        /\ UNCHANGED <<epoch, wallet, issued, used, calls, qr>>

\* What an operation does once it has its accounts.
AfterBuild(o) == IF o = "read" THEN Idle ELSE [st |-> "qr", epoch |-> epoch, index |-> issued[0]]

\* The range may have grown in the same turn: look again.
Covers(b) == Maxima = builds[b].limits

BuildAwaited(o) ==
    /\ calls[o].st = "builds" /\ builds[calls[o].build].st # "runs"
    /\ IF builds[calls[o].build].st = "failed" \/ ~InSession(calls[o].epoch)
       THEN calls' = [calls EXCEPT ![o] = Idle] /\ UNCHANGED <<builds, build>>
       ELSE IF Covers(calls[o].build)
       THEN calls' = [calls EXCEPT ![o] = AfterBuild(o)] /\ UNCHANGED <<builds, build>>
       ELSE Joins(o)
    /\ UNCHANGED <<epoch, wallet, issued, used, derivation, accounts, qr>>

----------------------------------------------------------------------------
(* Operations *)

Busy == \E o \in Operations \ {"read"} : calls[o].st # "idle"

\* openSession() of the wallet with as many addresses as its file says.
Opens(w, n) ==
    /\ wallet = 0 /\ ~Busy /\ epoch < MaxEpochs
    /\ epoch' = epoch + 1 /\ wallet' = w
    /\ issued' = [c \in Chains |-> n] /\ used' = [c \in Chains |-> 0] /\ derivation' = 0
    /\ Len(builds) < MaxBuilds
    /\ builds' = Append(builds, [epoch |-> epoch', chains |-> NoAccounts, st |-> "runs",
                                 limits |-> [c \in Chains |-> Max({n, Gap - 1})]])
    /\ build' = Len(builds')
    /\ calls' = [calls EXCEPT !["open"] = [st |-> "builds", epoch |-> epoch', build |-> build']]
    /\ UNCHANGED <<accounts, qr>>

Locks ==
    /\ wallet # 0 /\ epoch < MaxEpochs
    /\ epoch' = epoch + 1 /\ wallet' = 0 /\ accounts' = NoAccounts /\ qr' = NoQR /\ derivation' = 0
    /\ UNCHANGED <<issued, used, builds, build, calls>>

\* newAddress() and its save, ...
NewAddress ==
    /\ wallet # 0 /\ ~Busy /\ issued[0] < MaxIssued
    /\ issued[0] < used[0] - 1 + Gap
    /\ issued' = [issued EXCEPT ![0] = @ + 1]
    /\ calls' = [calls EXCEPT !["address"] = [st |-> "saves", epoch |-> epoch]]
    /\ UNCHANGED <<epoch, wallet, used, derivation, accounts, builds, build, qr>>

\* ... which fails and takes the index back, or is followed by a build.
SaveEnds(ok) ==
    /\ calls["address"].st = "saves"
    /\ IF ~InSession(calls["address"].epoch)
       THEN calls' = [calls EXCEPT !["address"] = Idle] /\ UNCHANGED <<issued, builds, build>>
       ELSE IF ok THEN Joins("address") /\ UNCHANGED issued
       ELSE /\ issued' = [issued EXCEPT ![0] = @ - 1]
            /\ calls' = [calls EXCEPT !["address"] = Idle]
            /\ UNCHANGED <<builds, build>>
    /\ UNCHANGED <<epoch, wallet, used, derivation, accounts, qr>>

\* A read finds an address used further on, saves that and builds.
ReadFinds(c) ==
    /\ wallet # 0 /\ calls["read"].st = "idle" /\ accounts # NoAccounts
    /\ used[c] <= MaxIssued /\ used[c] < Len(accounts[c])
    /\ used' = [used EXCEPT ![c] = @ + 1]
    /\ Len(builds) < MaxBuilds
    /\ calls' = [calls EXCEPT !["read"] = [st |-> "found", epoch |-> epoch]]
    /\ UNCHANGED <<epoch, wallet, issued, derivation, accounts, builds, build, qr>>

ReadBuilds ==
    /\ calls["read"].st = "found"
    /\ IF InSession(calls["read"].epoch) THEN Joins("read")
       ELSE calls' = [calls EXCEPT !["read"] = Idle] /\ UNCHANGED <<builds, build>>
    /\ UNCHANGED <<epoch, wallet, issued, used, derivation, accounts, qr>>

\* makeQR(): the picture is drawn, and shown if it still is the receive address.
QRDrawn(o) ==
    /\ calls[o].st = "qr"
    /\ qr' = IF InSession(calls[o].epoch) /\ calls[o].index = issued[0] /\ Len(accounts[0]) > issued[0]
             THEN [of |-> accounts[0][issued[0] + 1], index |-> issued[0]] ELSE qr
    /\ calls' = [calls EXCEPT ![o] = Idle]
    /\ UNCHANGED <<epoch, wallet, issued, used, derivation, accounts, builds, build>>

Next ==
    \/ \E b \in DOMAIN builds : BuildMoves(b)
    \/ \E o \in Operations : BuildAwaited(o) \/ QRDrawn(o)
    \/ \E w \in {1, 2}, n \in 0..MaxIssued : Opens(w, n)
    \/ Locks \/ NewAddress \/ (\E ok \in BOOLEAN : SaveEnds(ok))
    \/ (\E c \in Chains : ReadFinds(c)) \/ ReadBuilds

Spec == Init /\ [][Next]_vars
----------------------------------------------------------------------------
(* Properties *)

\* The addresses and the QR code shown are the open wallet's, from the first one on
\* without a gap, whichever build of whichever session published last.
AccountsAreOwn ==
    /\ \A c \in Chains : \A i \in DOMAIN accounts[c] : accounts[c][i] = wallet
    /\ accounts # NoAccounts => \A c \in Chains : accounts[c] # <<>>
    /\ qr = NoQR \/ qr.of = wallet
    /\ derivation \in {0, wallet}

\* When no operation is under way the list covers the range and the QR code is the
\* current receive address.
SettledIsCurrent ==
    wallet # 0 /\ (\A o \in Operations : calls[o] = Idle) =>
        /\ \A c \in Chains : Len(accounts[c]) > Maxima[c]
        /\ qr = [of |-> wallet, index |-> issued[0]]

RangeIsRight == AccountsAreOwn /\ SettledIsCurrent
=============================================================================
