----------------------------- MODULE CompactPage -----------------------------
(***************************************************************************)
(* The compact forms of a bounty journal page in bounty-discovery.mjs:     *)
(* versions 1 to 3 leave out what the client can restore, from the page    *)
(* itself or from the state its request named (known_state).  Each version *)
(* is rewritten into the one below, normalizeCompactV3Page,                *)
(* normalizeCompactV2Page and expandCompactPage, before the page is        *)
(* applied.                                                                *)
(*                                                                         *)
(* A tip is its height, a row an outpoint with a status.  The server side  *)
(* (Encode) is external.  A page that is refused is the value Refused, one *)
(* that must be asked for again in full the value Unknown.                 *)
(***************************************************************************)
EXTENDS Integers, Sequences, SequencesExt, TLC

CONSTANTS Ops, Statuses, Tips, Cursors, Versions, MaxEvents, None, Refused, Unknown

VARIABLES sent, state, rows, version, wire, got

vars == <<sent, state, rows, version, wire, got>>

Bad(w) == w \in {Refused, Unknown}

\* What the server means: a tip, the blocks from the client's tip to it, the
\* events and the cursor after them.
Events == [type : {"added", "changed", "window_exit"}, op : Ops, status : Statuses, tip : Tips]

Pages(base) ==
  {p \in [tip : Tips, base : {base}, next : Cursors, more : BOOLEAN,
          changes : UNION {[1..n -> Events] : n \in 0..MaxEvents}] :
     /\ p.tip >= p.base
     /\ \A i \in 1..Len(p.changes) : p.changes[i].tip <= p.tip
     /\ p.more => p.changes # <<>>}

-----------------------------------------------------------------------------
(* The server's encoding.  s is the state the request named, or None.      *)

TipRef(p, s, v, t, table) ==
  IF v >= 2 /\ t = p.tip THEN -1
  ELSE IF v = 3 /\ s # None /\ t = s.tip THEN -2
  ELSE CHOOSE i \in 0..Len(table) - 1 : table[i + 1] = t

Table(p, s, v) ==
  SetToSeq({p.changes[i].tip : i \in 1..Len(p.changes)} \
           ((IF v >= 2 THEN {p.tip} ELSE {}) \cup (IF v = 3 /\ s # None THEN {s.tip} ELSE {})))

Encode(p, s, v) ==
  IF s # None /\ p.tip = s.tip /\ p.changes = <<>> /\ p.next = s.cursor /\ ~p.more
  THEN [v |-> v, unchanged |-> TRUE]
  ELSE LET table == Table(p, s, v) bound == v >= 2 /\ s # None IN
       [v |-> v, unchanged |-> FALSE, bound |-> bound,
        tip |-> IF v = 3 /\ bound /\ p.tip = s.tip THEN None ELSE p.tip,
        base |-> IF bound THEN None ELSE p.base, blocks |-> p.tip - p.base,
        next |-> IF bound /\ p.changes = <<>> /\ ~p.more /\ p.next = s.cursor THEN None ELSE p.next,
        more |-> p.more, tips |-> table,
        changes |-> [i \in 1..Len(p.changes) |->
          LET e == p.changes[i] IN
          [type |-> e.type, ref |-> TipRef(p, s, v, e.tip, table), status |-> e.status,
           op |-> IF v >= 2 /\ e.type = "added" THEN None ELSE e.op, row |-> e.op]]]

-----------------------------------------------------------------------------
(* The client.                                                             *)

\* normalizeCompactV3Page: a missing tip and the reference -2 are the state's tip.
FromV3(w, s, requested) ==
  IF w.v # 3 THEN w
  ELSE IF requested # 3 THEN Refused
  ELSE IF w.unchanged THEN [w EXCEPT !.v = 2]
  ELSE LET needsBase == w.tip = None \/ \E i \in 1..Len(w.changes) : w.changes[i].ref = -2
           i0 == Len(w.tips)
           Moved(e) == IF e.ref = -2 THEN [e EXCEPT !.ref = i0] ELSE e
       IN
       IF \/ needsBase /\ ~(w.bound /\ s # None)
          \/ w.tip = None /\ w.blocks # 0
          \/ \E i \in 1..Len(w.changes) : w.changes[i].ref \notin -2..(i0 - 1)
       THEN Refused
       ELSE [w EXCEPT !.v = 2, !.tip = IF @ = None THEN s.tip ELSE @,
                      !.tips = IF needsBase THEN Append(@, s.tip) ELSE @,
                      !.changes = [i \in 1..Len(@) |-> Moved(@[i])]]

\* normalizeCompactV2Page: a bound page continues from the state's tip and may
\* keep its cursor; the reference -1 is the page's tip.
FromV2(w, s, requested) ==
  IF Bad(w) \/ w.v # 2 THEN w
  ELSE IF requested < 2 THEN Refused
  ELSE IF w.unchanged THEN [w EXCEPT !.v = 1]
  ELSE LET i0 == Len(w.tips)
           Moved(e) == [e EXCEPT !.ref = IF @ = -1 THEN i0 ELSE @,
                                 !.op = IF e.type = "added" THEN e.row ELSE @]
       IN
       IF \/ w.bound /\ (s = None \/ w.blocks # w.tip - s.tip)
          \/ ~w.bound /\ w.next = None
          \/ w.next = None /\ (w.changes # <<>> \/ w.more)
          \/ \E i \in 1..Len(w.changes) : w.changes[i].ref \notin -1..(i0 - 1)
       THEN Refused
       ELSE [w EXCEPT !.v = 1, !.next = IF @ = None THEN s.cursor ELSE @,
                      !.base = IF w.bound THEN s.tip ELSE @,
                      !.tips = Append(@, w.tip),
                      !.changes = [i \in 1..Len(@) |-> Moved(@[i])]]

\* Mutant: a row added on the page is not known to the events after it.
Expanded_Static(acc, e) ==
  [acc EXCEPT !.missing = @ \/ (e.type = "changed" /\ e.op \notin acc.known)]

\* expandCompactPage: one event; acc carries the rows known so far.
Expanded(acc, e) ==
  LET known == IF e.type = "added" THEN acc.known \cup {e.op} ELSE acc.known IN
  [known |-> known,
   missing |-> acc.missing \/ (e.type = "changed" /\ e.op \notin acc.known)]

FromV1(w, s, have) ==
  IF Bad(w) THEN w
  ELSE IF w.unchanged
  THEN IF s = None THEN Refused
       ELSE [tip |-> s.tip, base |-> s.tip, next |-> s.cursor, more |-> FALSE, changes |-> <<>>]
  ELSE IF \/ \E i \in 1..Len(w.changes) : w.changes[i].ref \notin 0..(Len(w.tips) - 1)
          \/ \E i \in 1..Len(w.tips) : w.tips[i] > w.tip
  THEN Refused
  ELSE IF FoldLeft(Expanded, [known |-> have, missing |-> FALSE], w.changes).missing THEN Unknown
  ELSE [tip |-> w.tip, base |-> w.base, next |-> w.next, more |-> w.more,
        changes |-> [i \in 1..Len(w.changes) |->
          LET e == w.changes[i] IN
          [type |-> e.type, op |-> e.op, status |-> e.status, tip |-> w.tips[e.ref + 1]]]]

\* Mutant: a request that named no state is read against the first one.
Decode_Borrows(w, s, have, requested) ==
  LET b == IF s = None THEN [tip |-> 0, cursor |-> 0] ELSE s IN
  FromV1(FromV2(FromV3(w, b, requested), b, requested), b, have)

Decode(w, s, have, requested) == FromV1(FromV2(FromV3(w, s, requested), s, requested), s, have)

-----------------------------------------------------------------------------
(* A request in state st (or none), its answer, and the answer's reading.  *)

Init ==
  /\ state \in [tip : Tips, cursor : Cursors] \cup {None}
  /\ version \in Versions
  /\ rows \in SUBSET Ops
  /\ sent \in IF state = None THEN Pages(0) ELSE Pages(state.tip)
  /\ wire = None /\ got = None

\* The answer to this request, or an answer that another request's state shaped.
Answer ==
  /\ wire = None
  /\ \E s \in {state} \cup [tip : Tips, cursor : Cursors] :
       /\ s # state => sent.base = s.tip
       /\ \E v \in 1..3 : wire' = Encode(sent, s, v)
  /\ UNCHANGED <<sent, state, rows, version, got>>

Read ==
  /\ wire # None /\ got = None
  /\ got' = Decode(wire, state, rows, version)
  /\ UNCHANGED <<sent, state, rows, version, wire>>

Next == Answer \/ Read

Spec == Init /\ [][Next]_vars

-----------------------------------------------------------------------------
\* Whether the page can be read without its full rows: every changed row was
\* known, or was added by an earlier event of the page.
Readable ==
  \A i \in 1..Len(sent.changes) :
    sent.changes[i].type = "changed" =>
      \/ sent.changes[i].op \in rows
      \/ \E j \in 1..i - 1 : sent.changes[j].type = "added" /\ sent.changes[j].op = sent.changes[i].op

\* An answer in a version that was asked for is read as the page that was meant;
\* a reference to an unknown row asks for the page again, and nothing else does.
ReadAsMeant ==
  got # None /\ wire = Encode(sent, state, wire.v) /\ wire.v <= version =>
    IF wire.unchanged \/ Readable THEN got = sent ELSE got = Unknown

\* No alias borrows from a state the request did not name, and no version is
\* read that was not requested.
NothingBorrowed ==
  got # None /\ state = None =>
    Bad(got) \/ (got.next = sent.next /\ got.tip = sent.tip /\ got.changes = sent.changes)
=============================================================================
