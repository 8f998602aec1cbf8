------------------------ MODULE TipConfirmationProofs ------------------------
(***************************************************************************)
(* What the wallet shows is of one chain, for every height, fork and       *)
(* window, as long as the server flags every reorganization it announces.  *)
(***************************************************************************)
EXTENDS TipConfirmation, TLAPS, SequenceTheorems

\* A block, or none; a notice is of a block, or of none.
Tip    == Block \cup {None}
Notice == [tip : Tip, reorg : BOOLEAN]

Flags    == {left, conn, stale, pending, dirty, want} \subseteq BOOLEAN
Counters == moves \in Nat /\ drops \in Nat /\ chainRev \in Nat /\ noticeRev \in Nat
Blocks   == chain \in Block /\ tip \in Tip /\ confTip \in Tip /\ rows \in Tip /\ net \in Seq(Notice)

\* What a confirmation and a read capture, of revisions up to k.
Checks(k) == [previous : Block, notice : Nat, chainRev : 0..k, tip : Tip, snap : Tip]
Reads(k)  == [chainRev : 0..k, tip : Tip]
Captured  == check \in Checks(chainRev) \cup {None} /\ read \in Reads(chainRev) \cup {None}

TypeOK == Flags /\ Counters /\ Blocks /\ Captured

\* No reorganization is announced behind place i of the notices, and none at all.
QuietAfter(i) == \A j \in DOMAIN net : j > i => ~net[j].reorg
Quiet == QuietAfter(0)

\* A block the wallet holds lies on the server's chain.
On(t) == t # None => Anc(t, chain)

\* The notices behind the last reorganization announced, and that one, are of the server's chain.
NoticesOn == \A i \in DOMAIN net : QuietAfter(i) => On(net[i].tip)

\* Without a reorganization on its way, so is everything the wallet holds and may still show.
HeldOn ==
    Quiet => /\ On(tip) /\ On(confTip)
             /\ ~stale => On(rows)
             /\ read # None => (read.chainRev = chainRev => On(read.tip))
             /\ check # None => (check.chainRev = chainRev => On(check.tip))

\* A lost connection leaves the wallet nothing to show as current.
Forgotten ==
    ~conn => net = <<>> /\ tip = None /\ confTip = None /\ stale /\ check = None /\ read = None

\* Without UnflaggedAt the invariant behind what is shown.
ShownInv == TypeOK /\ NoticesOn /\ HeldOn /\ Forgotten

\* While the chain only grew, no reorganization was announced, and a confirmation compares
\* blocks in the order in which the chain reached them.
NoticesGrow == \A i \in DOMAIN net : ~net[i].reorg /\ On(net[i].tip)
TipsGrow    == On(tip) /\ On(confTip) /\ (read # None => On(read.tip))
CheckGrows  ==
    check # None =>
        /\ Anc(check.previous, chain) /\ On(check.tip) /\ On(check.snap)
        /\ check.tip # None => Anc(check.previous, check.tip)
        /\ check.snap # None => check.tip # None /\ Anc(check.tip, check.snap)
ReadsKept   == MaxHeight < Window => chainRev = drops

GrowthInv == ~left => NoticesGrow /\ TipsGrow /\ CheckGrows /\ ReadsKept

-----------------------------------------------------------------------------
(* The tree of blocks and the queue of notices. *)

\* Ancestry is transitive.
LEMMA AncTransitive ==
    ASSUME NEW x \in Block, NEW y \in Block, NEW z \in Block, Anc(x, y), Anc(y, z)
    PROVE  Anc(x, z)
  BY HeightAssumption DEF Block, Anc

\* A block is its own ancestor.
LEMMA AncReflexive == \A x \in Block : Anc(x, x)
  BY HeightAssumption DEF Block, Anc

\* An ancestor that is not lower is the block itself.
LEMMA AncSameHeight ==
    ASSUME NEW x \in Block, NEW y \in Block, Anc(x, y), y.h <= x.h
    PROVE  x = y
<1>1. x.h = y.h /\ x.b = y.b
  BY HeightAssumption DEF Block, Anc
<1>2. x = [h |-> x.h, b |-> x.b] /\ y = [h |-> y.h, b |-> y.b]
  BY DEF Block
<1>3. QED
  BY <1>1, <1>2

\* Two ancestors of one block are on one chain.
LEMMA AncOneChain ==
    ASSUME NEW x \in Block, NEW y \in Block, NEW z \in Block, Anc(x, z), Anc(y, z)
    PROVE  OneChain(x, y)
  BY HeightAssumption DEF Block, Anc, OneChain

\* Taking the oldest notice moves every other one a place forward.
LEMMA TakeNotice ==
    ASSUME net \in Seq(Notice), net # <<>>, net' = Tail(net)
    PROVE  /\ net' \in Seq(Notice) /\ 1 \in DOMAIN net /\ Head(net) = net[1] /\ net[1] \in Notice
           /\ \A i \in DOMAIN net' : i + 1 \in DOMAIN net /\ net'[i] = net[i + 1]
           /\ \A i \in DOMAIN net' : QuietAfter(i)' => QuietAfter(i + 1)
           /\ Quiet' => QuietAfter(1)
<1>1. /\ net' \in Seq(Notice) /\ 1 \in DOMAIN net /\ Head(net) = net[1] /\ net[1] \in Notice
      /\ DOMAIN net = 1..Len(net) /\ DOMAIN net' = 1..(Len(net) - 1) /\ Len(net) \in Nat
      /\ \A i \in DOMAIN net' : net'[i] = net[i + 1]
  BY HeadTailProperties, LenProperties, ElementOfSeq
<1>2. \A i \in DOMAIN net' : i + 1 \in DOMAIN net
  BY <1>1
<1>3. \A i \in Nat : QuietAfter(i)' => QuietAfter(i + 1)
  <2> SUFFICES ASSUME NEW i \in Nat, QuietAfter(i)', NEW j \in DOMAIN net, j > i + 1
               PROVE  ~net[j].reorg
    BY DEF QuietAfter
  <2>1. j - 1 \in DOMAIN net' /\ j - 1 > i /\ (j - 1) + 1 = j
    BY <1>1
  <2>2. ~net'[j - 1].reorg
    BY <2>1 DEF QuietAfter
  <2>3. QED
    BY <1>1, <2>1, <2>2
<1>4. DOMAIN net' \subseteq Nat
  BY <1>1
<1>5. QED
  BY <1>1, <1>2, <1>3, <1>4 DEF Quiet

\* New notices go behind the old ones.
LEMMA SendNotice ==
    ASSUME net \in Seq(Notice), NEW m \in Seq(Notice), NEW n \in Notice, net' = net \o m \o <<n>>
    PROVE  /\ net' \in Seq(Notice)
           /\ \A i \in DOMAIN net : i \in DOMAIN net' /\ net'[i] = net[i]
           /\ \A i \in DOMAIN net' \ DOMAIN net : m = <<>> => net'[i] = n
           /\ \E k \in DOMAIN net' : net'[k] = n /\ \A i \in DOMAIN net' : i <= k
<1> DEFINE a == Len(net) + Len(m) + 1
<1>1. /\ net' \in Seq(Notice) /\ Len(net) \in Nat /\ Len(m) \in Nat
      /\ Len(net') = a /\ DOMAIN net' = 1..a /\ DOMAIN net = 1..Len(net)
      /\ \A i \in 1..Len(net) : net'[i] = net[i]
      /\ net'[a] = n
  OBVIOUS
<1>2. m = <<>> => Len(m) = 0
  OBVIOUS
<1>3. \A i \in DOMAIN net' \ DOMAIN net : m = <<>> => i = a
  BY <1>1, <1>2
<1>4. a \in DOMAIN net' /\ \A i \in DOMAIN net' : i <= a
  BY <1>1
<1>5. \A i \in DOMAIN net' \ DOMAIN net : m = <<>> => net'[i] = n
  BY <1>1, <1>3
<1>6. \A i \in DOMAIN net : i \in DOMAIN net' /\ net'[i] = net[i]
  BY <1>1
<1>7. QED
  BY <1>1, <1>4, <1>5, <1>6

-----------------------------------------------------------------------------
(* Type correctness. *)

\* What the wallet knows and observes are blocks.
LEMMA Fields ==
    ASSUME Blocks
    PROVE  Known \in Tip /\ \A t \in Block : Observed(t) \in Tip
  BY DEF Blocks, Known, Observed, Tip

\* A revision that grows keeps what was captured before.
LEMMA RevisionGrows ==
    ASSUME TypeOK, chainRev' \in Nat, chainRev' >= chainRev, UNCHANGED read,
           check' = check \/ check' = None
    PROVE  Captured'
<1>1. 0..chainRev \subseteq 0..chainRev'
  BY DEF TypeOK, Counters
<1>2. Checks(chainRev) \subseteq Checks(chainRev') /\ Reads(chainRev) \subseteq Reads(chainRev')
  BY <1>1 DEF Checks, Reads
<1>3. QED
  BY <1>2 DEF TypeOK, Captured

\* Every variable keeps its type.
LEMMA TypeNext == TypeOK /\ [Next]_vars => TypeOK'
<1> SUFFICES ASSUME TypeOK, [Next]_vars PROVE TypeOK'
  OBVIOUS
<1> USE DEF serverVars, checkVars, readVars, TypeOK
<1>1. CASE Moves
  <2>1. PICK new \in Block \ {chain} :
          /\ chain' = new /\ moves' = moves + 1
          /\ left' = (left \/ ~Anc(chain, new))
          /\ IF conn
             THEN \E flag \in MayFlag(chain, new, moves + 1), first \in BOOLEAN :
                   /\ first => flag
                   /\ net' = net \o (IF first THEN <<Resync>> ELSE <<>>)
                                 \o <<[tip |-> new, reorg |-> flag]>>
             ELSE UNCHANGED net
    BY <1>1 DEF Moves
  <2>2. net' \in Seq(Notice)
    <3>1. CASE ~conn
      BY <2>1, <3>1 DEF Blocks
    <3>2. CASE conn
      <4>1. PICK flag \in MayFlag(chain, new, moves + 1), first \in BOOLEAN :
               net' = net \o (IF first THEN <<Resync>> ELSE <<>>) \o <<[tip |-> new, reorg |-> flag]>>
        BY <2>1, <3>2
      <4>2. [tip |-> new, reorg |-> flag] \in Notice /\ Resync \in Notice
        BY DEF MayFlag, Notice, Tip, Resync
      <4>3. QED
        BY <4>1, <4>2 DEF Blocks
    <3>3. QED
      BY <3>1, <3>2
  <2>3. Flags' /\ Counters'
    BY <1>1, <2>1 DEF Moves, Flags, Counters
  <2>4. Blocks' /\ Captured'
    BY <1>1, <2>1, <2>2 DEF Moves, Blocks, Captured
  <2>5. QED
    BY <2>3, <2>4
<1>2. CASE OnChange
  <2> DEFINE n == Head(net)
  <2>1. net' \in Seq(Notice) /\ n \in Notice
    BY <1>2, TakeNotice DEF OnChange, Blocks
  <2>2. n.tip \in Tip
    BY <2>1 DEF Notice
  <2>3. (OnReset(n) \/ OnLowerTip(n) \/ OnTip(n)) /\ noticeRev' = noticeRev + 1
    BY <1>2 DEF OnChange
  <2>4. Flags'
    BY <1>2, <2>3 DEF OnChange, OnReset, OnLowerTip, OnTip, ApplyReset, ApplyTip, Flags
  <2>5. Counters' /\ chainRev' >= chainRev
    BY <1>2, <2>3 DEF OnChange, OnReset, OnLowerTip, OnTip, ApplyReset, ApplyTip, Counters
  <2>6. Blocks'
    BY <1>2, <2>1, <2>2, <2>3, Fields
       DEF OnChange, OnReset, OnLowerTip, OnTip, ApplyReset, ApplyTip, Blocks, Tip
  <2>7. Captured'
    BY <1>2, <2>5, RevisionGrows DEF OnChange, Counters
  <2>8. QED
    BY <2>4, <2>5, <2>6, <2>7
<1>3. CASE CheckStarts
  <2>1. Flags' /\ Counters' /\ Blocks'
    BY <1>3 DEF CheckStarts, Flags, Counters, Blocks
  <2>2. Captured'
    <3>1. CASE UNCHANGED check
      BY <1>3, <3>1 DEF CheckStarts, Captured
    <3>2. CASE ~UNCHANGED check
      <4>1. /\ Known \in Block
            /\ check' = [previous |-> Known, notice |-> noticeRev, chainRev |-> chainRev,
                         tip |-> None, snap |-> None]
        BY <1>3, <3>2, Fields DEF CheckStarts, Tip
      <4>2. check' \in Checks(chainRev)
        BY <4>1 DEF Checks, Tip, Counters
      <4>3. QED
        BY <1>3, <4>2 DEF CheckStarts, Captured
    <3>3. QED
      BY <3>1, <3>2
  <2>3. QED
    BY <2>1, <2>2
<1>4. CASE CheckReadsTip
  <2>1. check' \in Checks(chainRev)
    BY <1>4 DEF CheckReadsTip, Captured, Checks, Blocks, Tip
  <2>2. QED
    BY <1>4, <2>1 DEF CheckReadsTip, Flags, Counters, Blocks, Captured
<1>5. CASE CheckReadsHashes
  <2>1. check' \in Checks(chainRev)
    BY <1>5 DEF CheckReadsHashes, Captured, Checks, Blocks, Tip
  <2>2. QED
    BY <1>5, <2>1 DEF CheckReadsHashes, Flags, Counters, Blocks, Captured
<1>6. CASE CheckEnds
  <2>1. check.tip \in Block
    BY <1>6 DEF CheckEnds, Answered, Captured, Checks, Tip
  <2>2. Flags'
    BY <1>6 DEF CheckEnds, ApplyReset, ApplyTip, Flags
  <2>3. Counters' /\ chainRev' >= chainRev
    BY <1>6 DEF CheckEnds, ApplyReset, ApplyTip, Counters
  <2>4. Blocks'
    BY <1>6, <2>1, Fields DEF CheckEnds, ApplyReset, ApplyTip, Blocks, Tip
  <2>5. Captured'
    BY <1>6, <2>3, RevisionGrows DEF CheckEnds, Counters
  <2>6. QED
    BY <2>2, <2>3, <2>4, <2>5
<1>7. CASE ReadStarts
  <2>1. read' \in Reads(chainRev)
    BY <1>7 DEF ReadStarts, Reads, Tip, Counters
  <2>2. QED
    BY <1>7, <2>1 DEF ReadStarts, Flags, Counters, Blocks, Captured
<1>8. CASE ReadAnswered
  <2>1. read' \in Reads(chainRev)
    BY <1>8 DEF ReadAnswered, Captured, Reads, Blocks, Tip
  <2>2. QED
    BY <1>8, <2>1 DEF ReadAnswered, Flags, Counters, Blocks, Captured
<1>9. CASE ReadEnds
  <2>1. read.tip \in Block
    BY <1>9 DEF ReadEnds, Captured, Reads, Tip
  <2>2. QED
    BY <1>9, <2>1, Fields DEF ReadEnds, Flags, Counters, Blocks, Captured, Tip
<1>10. CASE ReadFails
  BY <1>10 DEF ReadFails, Flags, Counters, Blocks, Captured
<1>11. CASE DiscoveryPublishes
  BY <1>11 DEF DiscoveryPublishes, Flags, Counters, Blocks, Captured, Tip
<1>12. CASE Disconnected
  <2>1. Flags'
    BY <1>12 DEF Disconnected, Flags
  <2>2. Counters'
    BY <1>12 DEF Disconnected, Counters
  <2>3. Blocks' /\ Captured'
    BY <1>12 DEF Disconnected, Blocks, Captured, Tip
  <2>4. QED
    BY <2>1, <2>2, <2>3
<1>13. CASE Connected
  BY <1>13 DEF Connected, Flags, Counters, Blocks, Captured
<1>14. CASE UNCHANGED vars
  BY <1>14 DEF vars, Flags, Counters, Blocks, Captured
<1>15. QED
  BY <1>1, <1>2, <1>3, <1>4, <1>5, <1>6, <1>7, <1>8, <1>9, <1>10, <1>11, <1>12, <1>13, <1>14 DEF Next

\* The wallet starts without a tip and without rows.
LEMMA TypeInit == Init => TypeOK
<1> SUFFICES ASSUME Init PROVE TypeOK
  OBVIOUS
<1>1. Genesis \in Block
  BY HeightAssumption DEF Genesis, Block
<1>2. Flags /\ Counters
  BY DEF Init, Flags, Counters
<1>3. Blocks /\ Captured
  BY <1>1 DEF Init, Blocks, Captured, Tip
<1>4. QED
  BY <1>2, <1>3 DEF TypeOK

-----------------------------------------------------------------------------
(* What is shown. *)

\* While no notice is added or taken and the chain rests, the notices stay as they are.
LEMMA NoticesRest ==
    ASSUME NoticesOn, UNCHANGED <<net, chain>>
    PROVE  NoticesOn' /\ (Quiet' = Quiet)
  BY DEF NoticesOn, Quiet, QuietAfter, On, Anc

\* A block on the chain stays on it while the chain grows.
LEMMA GrowthKeepsOn ==
    ASSUME NEW t \in Tip, On(t), chain \in Block, chain' \in Block, Anc(chain, chain')
    PROVE  t # None => Anc(t, chain')
  BY AncTransitive DEF On, Tip

\* A move of the server announces a new branch, or only extends its own; without a connection
\* the wallet holds nothing.
LEMMA MovesShown ==
    ASSUME TypeOK, TypeOK', ShownInv, Moves, UnflaggedAt = {}
    PROVE  ShownInv'
<1> USE DEF TypeOK
<1>0. UNCHANGED <<conn, drops, tip, confTip, stale, chainRev, pending, check, dirty, noticeRev, read, want, rows>>
  BY DEF Moves, checkVars, readVars
<1>1. CASE ~conn
  <2>1. net' = net /\ net = <<>>
    BY <1>1 DEF Moves, ShownInv, Forgotten
  <2>2. DOMAIN net' = {}
    BY <2>1
  <2>3. QED
    BY <1>0, <1>1, <2>1, <2>2 DEF ShownInv, Forgotten, NoticesOn, HeldOn, On
<1>2. CASE conn
  <2>1. PICK flag \in MayFlag(chain, chain', moves + 1), first \in BOOLEAN :
           /\ first => flag
           /\ net' = net \o (IF first THEN <<Resync>> ELSE <<>>) \o <<[tip |-> chain', reorg |-> flag]>>
    BY <1>2 DEF Moves
  <2> DEFINE n == [tip |-> chain', reorg |-> flag]
             m == IF first THEN <<Resync>> ELSE <<>>
  <2>2. n \in Notice /\ m \in Seq(Notice) /\ n.tip = chain' /\ n.reorg = flag
    <3>1. flag \in BOOLEAN /\ chain' \in Tip
      BY DEF MayFlag, Tip, Blocks
    <3>2. Resync \in Notice /\ n \in Notice
      BY <3>1 DEF Notice, Resync, Tip
    <3>3. QED
      BY <3>2
  <2>3. /\ net' \in Seq(Notice)
        /\ \A i \in DOMAIN net : i \in DOMAIN net' /\ net'[i] = net[i]
        /\ \A i \in DOMAIN net' \ DOMAIN net : m = <<>> => net'[i] = n
        /\ \E k \in DOMAIN net' : net'[k] = n /\ \A i \in DOMAIN net' : i <= k
    <3> HIDE DEF n, m
    <3>1. QED
      BY <2>1, <2>2, SendNotice DEF Blocks, n, m
  <2>4. Anc(chain', chain')
    BY AncReflexive DEF Blocks
  <2>5. PICK k \in DOMAIN net' : net'[k] = n /\ \A i \in DOMAIN net' : i <= k
    BY <2>3
  <2>6. CASE Anc(chain, chain')
    <3>1. ~flag /\ m = <<>>
      BY <2>1, <2>6 DEF MayFlag
    <3>2. \A i \in DOMAIN net : QuietAfter(i)' => QuietAfter(i)
      BY <2>3 DEF QuietAfter
    <3>3. Quiet' => Quiet
      BY <2>3 DEF QuietAfter, Quiet
    <3>4. NoticesOn'
      <4> SUFFICES ASSUME NEW i \in DOMAIN net', QuietAfter(i)', net'[i].tip # None
                   PROVE  Anc(net'[i].tip, chain')
        BY DEF NoticesOn, On
      <4>1. CASE i \in DOMAIN net
        <5>1. On(net[i].tip) /\ net'[i] = net[i]
          BY <4>1, <3>2, <2>3 DEF ShownInv, NoticesOn
        <5>2. net[i].tip \in Tip
          <6>1. net[i] \in Notice
            BY <4>1 DEF Blocks
          <6>2. QED
            BY <6>1 DEF Notice
        <5>3. QED
          BY <5>1, <5>2, <2>6, GrowthKeepsOn DEF Blocks
      <4>2. CASE i \notin DOMAIN net
        BY <4>2, <2>3, <3>1, <2>2, <2>4
      <4>3. QED
        BY <4>1, <4>2
    <3>5. HeldOn'
      <4> SUFFICES ASSUME Quiet' PROVE HeldOn'
        BY DEF HeldOn
      <4>1. /\ On(tip) /\ On(confTip) /\ (~stale => On(rows))
            /\ read # None => (read.chainRev = chainRev => On(read.tip))
            /\ check # None => (check.chainRev = chainRev => On(check.tip))
        BY <3>3 DEF ShownInv, HeldOn
      <4>2. tip \in Tip /\ confTip \in Tip /\ rows \in Tip
        BY DEF Blocks
      <4>3. (read # None => read.tip \in Tip) /\ (check # None => check.tip \in Tip)
        BY DEF Captured, Checks, Reads
      <4>4. \A t \in Tip : On(t) => (t # None => Anc(t, chain'))
        BY <2>6, GrowthKeepsOn DEF Blocks
      <4>5. QED
        BY <1>0, <4>1, <4>2, <4>3, <4>4 DEF HeldOn, On
    <3>6. QED
      BY <1>0, <1>2, <3>4, <3>5 DEF ShownInv, Forgotten
  <2>7. CASE ~Anc(chain, chain')
    <3>1. flag
      BY <2>1, <2>7 DEF MayFlag
    <3>2. k > 0 /\ net'[k].reorg /\ k \in Nat
      BY <2>2, <2>3, <2>5, <3>1, LenProperties
    <3>3. ~Quiet'
      BY <3>2 DEF Quiet, QuietAfter
    <3>4. \A i \in DOMAIN net' : QuietAfter(i)' => i = k
      <4> SUFFICES ASSUME NEW i \in DOMAIN net', QuietAfter(i)' PROVE i = k
        OBVIOUS
      <4>1. ~(k > i)
        BY <3>2 DEF QuietAfter
      <4>2. i <= k /\ i \in Nat
        BY <2>5, <2>3, LenProperties
      <4>3. QED
        BY <4>1, <4>2, <3>2
    <3>5. NoticesOn'
      BY <3>4, <2>5, <2>2, <2>4 DEF NoticesOn, On
    <3>6. QED
      BY <1>0, <1>2, <3>3, <3>5 DEF ShownInv, HeldOn, Forgotten
  <2>8. QED
    BY <2>6, <2>7
<1>3. QED
  BY <1>1, <1>2

\* A notice that is taken leaves the ones behind it, and a reset it makes voids what was captured.
LEMMA OnChangeShown ==
    ASSUME TypeOK, TypeOK', ShownInv, OnChange
    PROVE  ShownInv'
<1> USE DEF TypeOK
<1> DEFINE n == Head(net)
<1>1. /\ conn /\ net # <<>> /\ net' = Tail(net)
      /\ UNCHANGED <<chain, conn, check, read, rows>>
  BY DEF OnChange, serverVars
<1>2. /\ net' \in Seq(Notice) /\ 1 \in DOMAIN net /\ n = net[1] /\ net[1] \in Notice
      /\ \A i \in DOMAIN net' : i + 1 \in DOMAIN net /\ net'[i] = net[i + 1]
      /\ \A i \in DOMAIN net' : QuietAfter(i)' => QuietAfter(i + 1)
      /\ Quiet' => QuietAfter(1)
  BY <1>1, TakeNotice DEF Blocks
<1>3. \A t : On(t) => (t # None => Anc(t, chain'))
  BY <1>1 DEF On
<1>4. NoticesOn'
  BY <1>2, <1>3 DEF ShownInv, NoticesOn, On
<1>5. Quiet' => On(n.tip) /\ n.tip \in Tip
  BY <1>2 DEF ShownInv, NoticesOn, Notice
<1>6. HeldOn'
  <2> SUFFICES ASSUME Quiet' PROVE HeldOn'
    BY DEF HeldOn
  <2>1. CASE n.reorg
    <3>1. tip' = n.tip /\ confTip' = n.tip /\ stale' = TRUE /\ chainRev' = chainRev + 1
      BY <2>1 DEF OnChange, OnReset, ApplyReset
    <3>2. (read # None => read.chainRev # chainRev') /\ (check # None => check.chainRev # chainRev')
      BY <3>1 DEF Captured, Checks, Reads, Counters
    <3>3. QED
      BY <1>1, <1>5, <3>1, <3>2 DEF HeldOn, On
  <2>2. CASE ~n.reorg
    <3>1. Quiet
      <4> SUFFICES ASSUME NEW j \in DOMAIN net, j > 0 PROVE ~net[j].reorg
        BY DEF Quiet, QuietAfter
      <4>1. j = 1 \/ j > 1
        BY LenProperties DEF Blocks
      <4>2. QED
        BY <4>1, <1>2, <2>2 DEF QuietAfter
    <3>2. UNCHANGED <<tip, stale, chainRev>>
      BY <2>2 DEF OnChange, OnLowerTip, OnTip, ApplyTip
    <3>3. confTip' = confTip \/ confTip' = n.tip
      BY <2>2 DEF OnChange, OnLowerTip, OnTip, ApplyTip, Observed
    <3>4. QED
      BY <1>1, <1>5, <3>1, <3>2, <3>3 DEF HeldOn, On, ShownInv
  <2>3. QED
    BY <2>1, <2>2
<1>7. QED
  BY <1>1, <1>4, <1>6 DEF ShownInv, Forgotten

\* A step that leaves the notices and the chain alone shows only what it held or read.
LEMMA OthersShown ==
    ASSUME TypeOK, TypeOK', ShownInv, [Next]_vars, ~Moves, ~OnChange
    PROVE  ShownInv'
<1> USE DEF TypeOK, serverVars, checkVars, readVars, ShownInv
<1>1. On(chain) /\ (chain' = chain => On(chain)')
  BY AncReflexive DEF Blocks, On
<1>2. CASE CheckStarts
  <2>1. UNCHANGED <<chain, net, conn, tip, confTip, stale, chainRev, read, rows>>
    BY <1>2 DEF CheckStarts
  <2>2. ~conn => check' = None
    BY <1>2 DEF CheckStarts, Forgotten, Known
  <2>3. check' = check \/ check'.tip = None
    BY <1>2 DEF CheckStarts
  <2>4. QED
    BY <2>1, <2>2, <2>3, NoticesRest DEF HeldOn, Forgotten, On
<1>3. CASE CheckReadsTip
  <2>1. /\ UNCHANGED <<chain, net, conn, tip, confTip, stale, chainRev, read, rows>>
        /\ conn /\ check'.tip = chain
    BY <1>3 DEF CheckReadsTip, Captured, Checks
  <2>2. QED
    BY <1>1, <2>1, NoticesRest DEF HeldOn, Forgotten, On
<1>4. CASE CheckReadsHashes
  <2>1. /\ UNCHANGED <<chain, net, conn, tip, confTip, stale, chainRev, read, rows>>
        /\ conn /\ check # None /\ check'.tip = check.tip /\ check'.chainRev = check.chainRev
    BY <1>4 DEF CheckReadsHashes, Captured, Checks
  <2>2. QED
    BY <2>1, NoticesRest DEF HeldOn, Forgotten, On
<1>5. CASE CheckEnds
  <2>1. UNCHANGED <<chain, net, conn, read, rows>> /\ conn /\ check' = None /\ check # None
    BY <1>5 DEF CheckEnds
  <2>2. CASE UNCHANGED <<chainRev, confTip, tip, stale>>
    BY <2>1, <2>2, NoticesRest DEF HeldOn, Forgotten, On
  <2>3. CASE ~UNCHANGED <<chainRev, confTip, tip, stale>>
    <3>1. Unmoved(check) /\ (ApplyReset(check.tip) \/ ApplyTip(check.tip))
      BY <1>5, <2>3 DEF CheckEnds
    <3>2. check.chainRev = chainRev
      BY <3>1 DEF Unmoved
    <3>3. Quiet => On(check.tip)
      BY <2>1, <3>2 DEF HeldOn
    <3>4. CASE ApplyReset(check.tip)
      <4>1. read # None => read.chainRev # chainRev'
        BY <3>4 DEF ApplyReset, Captured, Reads, Counters
      <4>2. QED
        BY <2>1, <3>3, <3>4, <4>1, NoticesRest DEF HeldOn, Forgotten, On, ApplyReset
    <3>5. CASE ApplyTip(check.tip)
      <4>1. UNCHANGED <<chainRev, tip, stale>> /\ (confTip' = confTip \/ confTip' = check.tip)
        BY <3>5 DEF ApplyTip, Observed
      <4>2. QED
        BY <2>1, <3>3, <4>1, NoticesRest DEF HeldOn, Forgotten, On
    <3>6. QED
      BY <3>1, <3>4, <3>5
  <2>4. QED
    BY <2>2, <2>3
<1>6. CASE ReadStarts
  <2>1. /\ UNCHANGED <<chain, net, conn, tip, confTip, stale, chainRev, check, rows>>
        /\ conn /\ read'.tip = None
    BY <1>6 DEF ReadStarts
  <2>2. QED
    BY <2>1, NoticesRest DEF HeldOn, Forgotten, On
<1>7. CASE ReadAnswered
  <2>1. /\ UNCHANGED <<chain, net, conn, tip, confTip, stale, chainRev, check, rows>>
        /\ conn /\ read'.tip = chain
    BY <1>7 DEF ReadAnswered, Captured, Reads
  <2>2. QED
    BY <1>1, <2>1, NoticesRest DEF HeldOn, Forgotten, On
<1>8. CASE ReadEnds
  <2>1. /\ UNCHANGED <<chain, net, conn, chainRev, check>> /\ conn /\ read' = None /\ read # None
    BY <1>8 DEF ReadEnds
  <2>2. CASE Fenced(read)
    <3>1. UNCHANGED <<tip, confTip, stale, rows>>
      BY <1>8, <2>2 DEF ReadEnds
    <3>2. QED
      BY <2>1, <3>1, NoticesRest DEF HeldOn, Forgotten, On
  <2>3. CASE ~Fenced(read)
    <3>1. Quiet => On(read.tip)
      BY <2>1, <2>3 DEF Fenced, HeldOn
    <3>2. tip' = read.tip /\ rows' = read.tip /\ (confTip' = confTip \/ confTip' = read.tip)
      BY <1>8, <2>3 DEF ReadEnds, Observed
    <3>3. QED
      BY <2>1, <3>1, <3>2, NoticesRest DEF HeldOn, Forgotten, On
  <2>4. QED
    BY <2>2, <2>3
<1>9. CASE ReadFails
  <2>1. UNCHANGED <<chain, net, conn, tip, confTip, stale, chainRev, check, rows>> /\ read' = None
    BY <1>9 DEF ReadFails
  <2>2. QED
    BY <2>1, NoticesRest DEF HeldOn, Forgotten, On
<1>10. CASE DiscoveryPublishes
  <2>1. /\ UNCHANGED <<chain, net, conn, confTip, stale, chainRev, check, read, rows>>
        /\ conn /\ tip' = chain
    BY <1>10 DEF DiscoveryPublishes
  <2>2. QED
    BY <1>1, <2>1, NoticesRest DEF HeldOn, Forgotten, On
<1>11. CASE Disconnected
  <2>1. /\ net' = <<>> /\ tip' = None /\ confTip' = None /\ stale' /\ check' = None /\ read' = None
    BY <1>11 DEF Disconnected
  <2>2. DOMAIN net' = {}
    BY <2>1
  <2>3. QED
    BY <2>1, <2>2 DEF NoticesOn, HeldOn, Forgotten, On
<1>12. CASE Connected
  <2>1. UNCHANGED <<chain, net, tip, confTip, stale, chainRev, check, read, rows>> /\ conn'
    BY <1>12 DEF Connected
  <2>2. QED
    BY <2>1, NoticesRest DEF HeldOn, Forgotten, On
<1>13. CASE UNCHANGED vars
  <2>1. UNCHANGED <<chain, net, conn, tip, confTip, stale, chainRev, check, read, rows>>
    BY <1>13 DEF vars
  <2>2. QED
    BY <2>1, NoticesRest DEF HeldOn, Forgotten, On
<1>14. QED
  BY <1>2, <1>3, <1>4, <1>5, <1>6, <1>7, <1>8, <1>9, <1>10, <1>11, <1>12, <1>13 DEF Next

\* The wallet starts with nothing to show.
LEMMA ShownInit == Init => ShownInv
<1> SUFFICES ASSUME Init PROVE ShownInv
  OBVIOUS
<1>1. DOMAIN net = {} /\ tip = None /\ confTip = None /\ rows = None /\ check = None /\ read = None /\ conn
  BY DEF Init
<1>2. QED
  BY <1>1, TypeInit DEF ShownInv, NoticesOn, HeldOn, Forgotten, On

\* Rows and height that are shown as current are of one chain, and an ancestor of the server's best
\* block, as long as the server flags every reorganization.
LEMMA ShownInvariant == ASSUME UnflaggedAt = {} PROVE Spec => []ShownInv
<1>1. ShownInv /\ [Next]_vars => ShownInv'
  <2> SUFFICES ASSUME ShownInv, [Next]_vars PROVE ShownInv'
    OBVIOUS
  <2>1. TypeOK /\ TypeOK'
    BY TypeNext DEF ShownInv
  <2>2. QED
    BY <2>1, MovesShown, OnChangeShown, OthersShown
<1>2. QED
  BY <1>1, ShownInit, PTL DEF Spec

-----------------------------------------------------------------------------
(* A chain that only grows. *)

\* A chain that grew keeps the blocks of a confirmation in their order.
LEMMA MovesGrow ==
    ASSUME TypeOK, TypeOK', GrowthInv, Moves
    PROVE  GrowthInv'
<1> USE DEF TypeOK
<1> SUFFICES ASSUME ~left' PROVE NoticesGrow' /\ TipsGrow' /\ CheckGrows' /\ ReadsKept'
  BY DEF GrowthInv
<1>1. /\ UNCHANGED <<conn, drops, tip, confTip, chainRev, check, read>>
      /\ ~left /\ Anc(chain, chain')
  BY DEF Moves, checkVars, readVars
<1>2. NoticesGrow /\ TipsGrow /\ CheckGrows /\ ReadsKept
  BY <1>1 DEF GrowthInv
<1>3. \A t \in Tip : On(t) => (t # None => Anc(t, chain'))
  BY <1>1, GrowthKeepsOn DEF Blocks
<1>4. NoticesGrow'
  <2>1. CASE ~conn
    <3>1. net' = net
      BY <2>1 DEF Moves
    <3>2. \A i \in DOMAIN net : net[i] \in Notice
      BY DEF Blocks
    <3>3. QED
      BY <1>2, <1>3, <3>1, <3>2 DEF NoticesGrow, On, Notice
  <2>2. CASE conn
    <3>1. PICK flag \in MayFlag(chain, chain', moves + 1), first \in BOOLEAN :
             /\ first => flag
             /\ net' = net \o (IF first THEN <<Resync>> ELSE <<>>) \o <<[tip |-> chain', reorg |-> flag]>>
      BY <2>2 DEF Moves
    <3>2. ~flag /\ ~first
      BY <1>1, <3>1 DEF MayFlag
    <3> DEFINE n == [tip |-> chain', reorg |-> FALSE]
    <3>3. n \in Notice /\ n.tip = chain' /\ ~n.reorg
      BY DEF Notice, Tip, Blocks
    <3>4. net' = net \o <<>> \o <<n>>
      BY <3>1, <3>2 DEF MayFlag
    <3>5. /\ \A i \in DOMAIN net : i \in DOMAIN net' /\ net'[i] = net[i]
          /\ \A i \in DOMAIN net' \ DOMAIN net : net'[i] = n
      <4> HIDE DEF n
      <4>1. <<>> \in Seq(Notice)
        OBVIOUS
      <4>2. QED
        BY <3>3, <3>4, <4>1, SendNotice DEF Blocks
    <3>6. Anc(chain', chain')
      BY AncReflexive DEF Blocks
    <3>7. \A i \in DOMAIN net : net[i].tip \in Tip
      <4>1. \A i \in DOMAIN net : net[i] \in Notice
        BY DEF Blocks
      <4>2. QED
        BY <4>1 DEF Notice
    <3>8. QED
      BY <1>2, <1>3, <3>3, <3>5, <3>6, <3>7 DEF NoticesGrow, On
  <2>3. QED
    BY <2>1, <2>2
<1>5. TipsGrow'
  <2>1. tip \in Tip /\ confTip \in Tip /\ (read # None => read.tip \in Tip)
    BY DEF Blocks, Captured, Reads
  <2>2. QED
    BY <1>1, <1>2, <1>3, <2>1 DEF TipsGrow, On
<1>6. CheckGrows'
  <2> SUFFICES ASSUME check # None PROVE CheckGrows'
    BY <1>1 DEF CheckGrows
  <2>1. check.previous \in Block /\ check.tip \in Tip /\ check.snap \in Tip
    BY DEF Captured, Checks
  <2>2. Anc(check.previous, chain')
    BY <1>1, <1>2, <2>1, AncTransitive DEF CheckGrows, Blocks
  <2>3. QED
    BY <1>1, <1>2, <1>3, <2>1, <2>2 DEF CheckGrows, On
<1>7. QED
  BY <1>1, <1>2, <1>4, <1>5, <1>6 DEF ReadsKept

\* A confirmation of a chain that grew finds no rollback: an answer that is not above the previous
\* tip is that tip, and one above it has it among the hashes asked for.
LEMMA NoRollback ==
    ASSUME TypeOK, CheckGrows, check # None, Answered(check), MaxHeight < Window
    PROVE  ~IsReset(check)
<1>1. check.previous \in Block /\ check.tip \in Block /\ check.snap \in Tip
  BY DEF TypeOK, Captured, Checks, Answered, Tip
<1>2. Anc(check.previous, check.tip)
  BY DEF CheckGrows, Answered
<1>3. CASE Settled(check)
  BY <1>1, <1>2, <1>3, AncSameHeight DEF Settled, IsReset
<1>4. CASE ~Settled(check)
  <2>1. check.snap \in Block /\ Anc(check.tip, check.snap)
    BY <1>1, <1>4 DEF Answered, CheckGrows, Tip
  <2>2. Anc(check.previous, check.snap)
    BY <1>1, <1>2, <2>1, AncTransitive
  <2>3. check.snap.h - check.previous.h < Window
    BY <1>1, <2>1, HeightAssumption DEF Block
  <2>4. QED
    BY <1>4, <2>2, <2>3 DEF IsReset, InWindow
<1>5. QED
  BY <1>3, <1>4

\* Every other step keeps what a chain that grew allows.
LEMMA OthersGrow ==
    ASSUME TypeOK, TypeOK', GrowthInv, [Next]_vars, ~Moves
    PROVE  GrowthInv'
<1> USE DEF TypeOK, serverVars, checkVars, readVars
<1>0. UNCHANGED <<left, chain>>
  BY DEF Next, OnChange, CheckStarts, CheckReadsTip, CheckReadsHashes, CheckEnds, ReadStarts,
         ReadAnswered, ReadEnds, ReadFails, DiscoveryPublishes, Disconnected, Connected, vars
<1> SUFFICES ASSUME ~left PROVE NoticesGrow' /\ TipsGrow' /\ CheckGrows' /\ ReadsKept'
  BY <1>0 DEF GrowthInv
<1>1. NoticesGrow /\ TipsGrow /\ CheckGrows /\ ReadsKept /\ On(chain)
  BY AncReflexive DEF GrowthInv, Blocks, On
<1> USE DEF TipsGrow, ReadsKept
<1>2. UNCHANGED net => NoticesGrow'
  BY <1>0, <1>1 DEF NoticesGrow, On
<1>3. UNCHANGED check => CheckGrows'
  BY <1>0, <1>1 DEF CheckGrows, On
<1>4. CASE OnChange
  <2>1. /\ net # <<>> /\ net' = Tail(net) /\ UNCHANGED <<drops, check, read>>
    BY <1>4 DEF OnChange
  <2>2. /\ 1 \in DOMAIN net /\ Head(net) = net[1]
        /\ \A i \in DOMAIN net' : i + 1 \in DOMAIN net /\ net'[i] = net[i + 1]
    BY <2>1, TakeNotice DEF Blocks
  <2>3. NoticesGrow'
    BY <1>0, <1>1, <2>2 DEF NoticesGrow, On
  <2>4. ~Head(net).reorg /\ On(Head(net).tip)
    BY <1>1, <2>2 DEF NoticesGrow
  <2>5. UNCHANGED <<tip, chainRev>> /\ (confTip' = confTip \/ confTip' = Head(net).tip)
    BY <1>4, <2>4 DEF OnChange, OnLowerTip, OnTip, ApplyTip, Observed
  <2>6. QED
    BY <1>0, <1>1, <1>3, <2>1, <2>3, <2>4, <2>5 DEF On
<1>5. CASE CheckStarts
  <2>1. UNCHANGED <<net, tip, confTip, drops, chainRev, read>>
    BY <1>5 DEF CheckStarts
  <2>2. CASE UNCHANGED check
    BY <1>0, <1>1, <1>2, <1>3, <2>1, <2>2 DEF On
  <2>3. CASE ~UNCHANGED check
    <3>1. check'.previous = Known /\ check'.tip = None /\ check'.snap = None /\ Known # None
      BY <1>5, <2>3 DEF CheckStarts
    <3>2. On(Known)
      BY <1>1 DEF Known
    <3>3. CheckGrows'
      BY <1>0, <3>1, <3>2 DEF CheckGrows, On
    <3>4. QED
      BY <1>0, <1>1, <1>2, <2>1, <3>3 DEF On
  <2>4. QED
    BY <2>2, <2>3
<1>6. CASE CheckReadsTip
  <2>1. /\ UNCHANGED <<net, tip, confTip, drops, chainRev, read>> /\ check # None /\ check.tip = None
        /\ check'.tip = chain /\ check'.previous = check.previous /\ check'.snap = check.snap
    BY <1>6 DEF CheckReadsTip, Captured, Checks
  <2>2. CheckGrows'
    BY <1>0, <1>1, <2>1 DEF CheckGrows, On
  <2>3. QED
    BY <1>0, <1>1, <1>2, <2>1, <2>2 DEF On
<1>7. CASE CheckReadsHashes
  <2>1. /\ UNCHANGED <<net, tip, confTip, drops, chainRev, read>> /\ check # None /\ check.tip # None
        /\ check'.tip = check.tip /\ check'.previous = check.previous /\ check'.snap = chain
    BY <1>7 DEF CheckReadsHashes, Captured, Checks
  <2>2. CheckGrows'
    BY <1>0, <1>1, <2>1 DEF CheckGrows, On
  <2>3. QED
    BY <1>0, <1>1, <1>2, <2>1, <2>2 DEF On
<1>8. CASE CheckEnds
  <2>1. UNCHANGED <<net, drops, read>> /\ check' = None /\ check # None /\ Answered(check) /\ On(check.tip)
    BY <1>1, <1>8 DEF CheckEnds, CheckGrows
  <2>2. CheckGrows' /\ NoticesGrow'
    BY <1>2, <2>1 DEF CheckGrows
  <2>3. tip' \in {tip, check.tip} /\ confTip' \in {confTip, check.tip}
    BY <1>8 DEF CheckEnds, ApplyReset, ApplyTip, Observed
  <2>4. MaxHeight < Window => UNCHANGED chainRev
    BY <1>1, <1>8, <2>1, NoRollback DEF CheckEnds, ApplyTip
  <2>5. QED
    BY <1>0, <1>1, <2>1, <2>2, <2>3, <2>4 DEF On
<1>9. CASE ReadEnds
  <2>1. UNCHANGED <<net, check, drops, chainRev>> /\ read # None /\ read' = None /\ On(read.tip)
    BY <1>1, <1>9 DEF ReadEnds
  <2>2. QED
    BY <1>0, <1>1, <1>2, <1>3, <1>9, <2>1 DEF ReadEnds, Observed, On
<1>10. CASE Disconnected
  <2>1. net' = <<>> /\ check' = None /\ tip' = None /\ confTip' = None /\ read' = None
    BY <1>10 DEF Disconnected
  <2>2. DOMAIN net' = {}
    BY <2>1
  <2>3. ReadsKept'
    BY <1>1, <1>10 DEF Disconnected, Counters
  <2>4. QED
    BY <2>1, <2>2, <2>3 DEF NoticesGrow, CheckGrows, On
<1>11. CASE ReadStarts \/ ReadAnswered \/ ReadFails \/ Connected \/ UNCHANGED vars
  <2>1. UNCHANGED <<net, tip, confTip, check, drops, chainRev>>
    BY <1>11 DEF ReadStarts, ReadAnswered, ReadFails, Connected, vars
  <2>2. read' = read \/ read' = None \/ read'.tip \in {None, chain}
    BY <1>11 DEF ReadStarts, ReadAnswered, ReadFails, Connected, vars, Captured, Reads
  <2>3. QED
    BY <1>0, <1>1, <1>2, <1>3, <2>1, <2>2 DEF On
<1>12. CASE DiscoveryPublishes
  <2>1. UNCHANGED <<net, confTip, check, drops, chainRev, read>> /\ tip' = chain
    BY <1>12 DEF DiscoveryPublishes
  <2>2. QED
    BY <1>0, <1>1, <1>2, <1>3, <2>1 DEF On
<1>13. QED
  BY <1>4, <1>5, <1>6, <1>7, <1>8, <1>9, <1>10, <1>11, <1>12 DEF Next

\* Nothing is announced before the first step.
LEMMA GrowthInit == Init => GrowthInv
<1> SUFFICES ASSUME Init PROVE GrowthInv
  OBVIOUS
<1>1. DOMAIN net = {} /\ tip = None /\ confTip = None /\ check = None /\ read = None /\ chainRev = drops
  BY DEF Init
<1>2. QED
  BY <1>1 DEF GrowthInv, NoticesGrow, TipsGrow, CheckGrows, ReadsKept, On

\* A late notice is no rollback, whatever the server flags (applyChange, confirmTipChange): as long
\* as its chain only grows and the hashes asked for reach back to its first block, nothing but a
\* lost connection moves the revision that voids the wallet's reads.
THEOREM GrowthKeepsEveryRead == Spec => []GrowthKeepsReads
<1>1. TypeOK /\ GrowthInv /\ [Next]_vars => TypeOK' /\ GrowthInv'
  BY TypeNext, MovesGrow, OthersGrow
<1>2. GrowthInv => GrowthKeepsReads
  BY DEF GrowthInv, ReadsKept, GrowthKeepsReads
<1>3. QED
  BY <1>1, <1>2, TypeInit, GrowthInit, PTL DEF Spec

\* While the server flags every reorganization, the rows and the height the wallet shows as current
\* are of one chain (getState), in whatever order notices, confirmations, reads and lost connections
\* arrive, and a chain that only grew keeps the reads.
THEOREM OneChainIsShown == ASSUME UnflaggedAt = {} PROVE Spec => []ShownOnOneChain
<1>1. ShownInv => RowsUnderHeight
  <2> SUFFICES ASSUME ShownInv, conn, Caught, ~stale, confTip # None, rows # None
               PROVE  OneChain(rows, confTip)
    BY DEF RowsUnderHeight
  <2>1. DOMAIN net = {}
    BY DEF Caught
  <2>2. Quiet
    BY <2>1 DEF Quiet, QuietAfter
  <2>3. Anc(rows, chain) /\ Anc(confTip, chain)
    BY <2>2 DEF ShownInv, HeldOn, On
  <2>4. rows \in Block /\ confTip \in Block /\ chain \in Block
    BY DEF ShownInv, TypeOK, Blocks, Tip
  <2>5. QED
    BY <2>3, <2>4, AncOneChain
<1>2. QED
  BY <1>1, ShownInvariant, GrowthKeepsEveryRead, PTL DEF ShownOnOneChain
=============================================================================
