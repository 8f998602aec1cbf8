--------------------------- MODULE SchedulerIndex ---------------------------
(***************************************************************************)
(* The two structures the claim scheduler answers from: ReadyIndex, a tree *)
(* of counts over the ready positions, and IndexedHeap, a heap whose items *)
(* can be replaced and removed by key (src/core/claim-scheduler.mjs).      *)
(* Both are checked against what they stand for, over every sequence of    *)
(* updates: `ready', the set of ready positions, and `held', the value of  *)
(* each key.                                                               *)
(***************************************************************************)
EXTENDS Integers, Sequences, FiniteSets

CONSTANTS
    N,             \* positions of the tree
    Keys, Values   \* of the heap

VARIABLES tree, total, ready, items, indices, held

treeVars == <<tree, total, ready>>
heapVars == <<items, indices, held>>
vars     == <<treeVars, heapVars>>

None == -1   \* no such key or position

----------------------------------------------------------------------------
(* ReadyIndex *)

Powers == {2^k : k \in 0..N}

\* index & -index
LowBit(i) == CHOOSE p \in Powers : i % p = 0 /\ i % (2 * p) # 0

\* The nodes that count position i (from 1).
Path[i \in 1..2 * N] == IF i > N THEN {} ELSE {i} \cup Path[i + LowBit(i)]

\* Faulty variant: the update stops one node early.
Add_Short(t, i, delta) == [x \in 1..N |-> IF x \in Path[i + 1] /\ (x = i + 1 \/ \E y \in Path[i + 1] : y > x) THEN t[x] + delta ELSE t[x]]

\* add(index, delta).
Add(t, i, delta) == [x \in 1..N |-> IF x \in Path[i + 1] THEN t[x] + delta ELSE t[x]]

\* The constructor adds each node to its parent, in order.
Build(S) ==
    LET fill[i \in 0..N] ==
            IF i = 0 THEN [x \in 1..N |-> IF x - 1 \in S THEN 1 ELSE 0]
            ELSE LET t == fill[i - 1]
                 IN  IF i + LowBit(i) > N THEN t ELSE [t EXCEPT ![i + LowBit(i)] = @ + t[i]]
    IN  fill[N]

\* before(end).
Before(end) == LET sum[e \in 0..N] == IF e = 0 THEN 0 ELSE tree[e] + sum[e - LowBit(e)] IN sum[end]

\* Faulty variant: the descent starts a power of two too low.
Top_Low == IF N < 4 THEN 1 ELSE CHOOSE p \in Powers : 2 * p < N + 1 /\ 4 * p >= N + 1

\* The power of two the descent of at() starts from.
Top == CHOOSE p \in Powers : (p = 1 \/ p < N + 1) /\ 2 * p >= N + 1

\* at(order): the position of the order-th ready one.
At(order) ==
    LET bits == {p \in Powers : p <= Top} \cup {0}
        seek[bit \in bits, index \in 0..N, left \in 0..N] ==
            IF bit = 0 THEN index
            ELSE IF index + bit <= N /\ tree[index + bit] <= left
                 THEN seek[bit \div 2, index + bit, left - tree[index + bit]]
                 ELSE seek[bit \div 2, index, left]
    IN  IF order < 0 \/ order >= total THEN None ELSE seek[Top, 0, order]

\* A position becomes ready or not.
Flip(i) ==
    LET delta == IF i \in ready THEN -1 ELSE 1
    IN  /\ tree' = Add(tree, i, delta) /\ total' = total + delta
        /\ ready' = IF i \in ready THEN ready \ {i} ELSE ready \cup {i}
        /\ UNCHANGED heapVars

\* rebuild() makes a new index.
Renew(S) ==
    /\ ready' = S /\ tree' = Build(S) /\ total' = Cardinality(S)
    /\ UNCHANGED heapVars

----------------------------------------------------------------------------
(* IndexedHeap: positions from 1 *)

Heap(its, ind) == [items |-> its, indices |-> ind]

Swap(h, a, b) ==
    Heap([h.items EXCEPT ![a] = h.items[b], ![b] = h.items[a]],
         [h.indices EXCEPT ![h.items[a].key] = b, ![h.items[b].key] = a])

RECURSIVE Rise(_, _)
Rise(h, i) ==
    IF i = 1 \/ h.items[i \div 2].value <= h.items[i].value THEN [heap |-> h, at |-> i]
    ELSE Rise(Swap(h, i \div 2, i), i \div 2)

RECURSIVE Sink(_, _)
Sink(h, i) ==
    LET below == {c \in {2 * i, 2 * i + 1} : c <= Len(h.items) /\ h.items[c].value < h.items[i].value}
    IN  IF below = {} THEN h
        ELSE LET best == CHOOSE c \in below : \A d \in below : h.items[c].value < h.items[d].value
                                                           \/ (h.items[c].value = h.items[d].value /\ c <= d)
             IN  Sink(Swap(h, i, best), best)

\* Faulty variant: an item that took another one's place only moves down.
Repair_DownOnly(h, i) == Sink(h, i)

\* repair(): up, then down.
Repair(h, i) == LET up == Rise(h, i) IN Sink(up.heap, up.at)

\* set(key, value).
HeapSet(k, v) ==
    LET new == [key |-> k, value |-> v]
        i   == IF indices[k] = None THEN Len(items) + 1 ELSE indices[k]
        h   == Repair(Heap(IF indices[k] = None THEN Append(items, new) ELSE [items EXCEPT ![i] = new],
                           [indices EXCEPT ![k] = i]), i)
    IN  /\ items' = h.items /\ indices' = h.indices /\ held' = [held EXCEPT ![k] = v]
        /\ UNCHANGED treeVars

\* Faulty variant: the moved item keeps its old place in the map.
Moved_Unmapped(ind, last, i) == ind

\* The map after the last item was moved to place i.
Moved(ind, last, i) == [ind EXCEPT ![last.key] = i]

\* remove(key): the last item takes its place.
HeapRemove(k) ==
    LET i    == indices[k]
        last == items[Len(items)]
        rest == SubSeq(items, 1, Len(items) - 1)
        gone == [indices EXCEPT ![k] = None]
        h    == IF i > Len(rest) THEN Heap(rest, gone)
                ELSE Repair(Heap([rest EXCEPT ![i] = last], Moved(gone, last, i)), i)
    IN  /\ i # None
        /\ items' = h.items /\ indices' = h.indices /\ held' = [held EXCEPT ![k] = None]
        /\ UNCHANGED treeVars

----------------------------------------------------------------------------

Init ==
    /\ ready \in SUBSET (0..N - 1) /\ tree = Build(ready) /\ total = Cardinality(ready)
    /\ items = <<>> /\ indices = [k \in Keys |-> None] /\ held = [k \in Keys |-> None]

Next ==
    \/ \E i \in 0..N - 1 : Flip(i)
    \/ \E S \in SUBSET (0..N - 1) : Renew(S)
    \/ \E k \in Keys, v \in Values : HeapSet(k, v)
    \/ \E k \in Keys : HeapRemove(k)

Spec == Init /\ [][Next]_vars
----------------------------------------------------------------------------
(* Properties *)

\* After any sequence of updates a prefix count of the tree is the number of ready
\* positions before it.
CountsMatch ==
    /\ total = Cardinality(ready)
    /\ \A end \in 0..N : Before(end) = Cardinality({i \in ready : i < end})

\* at(k) is the k-th ready position, and nothing outside the range.
KthIsFound ==
    /\ \A i \in ready : At(Cardinality({j \in ready : j < i})) = i
    /\ At(-1) = None /\ At(Cardinality(ready)) = None

\* peek() is the least value held, whichever items were replaced or removed before it.
PeekIsLeast ==
    LET live == {k \in Keys : held[k] # None}
    IN  /\ Len(items) = Cardinality(live)
        /\ live # {} => \A k \in live : items[1].value <= held[k]
        /\ \A i \in 2..Len(items) : items[i \div 2].value <= items[i].value

\* The map from keys to places agrees with the heap, so a later update meets its item.
PlacesMatch ==
    \A k \in Keys :
        IF held[k] = None THEN indices[k] = None
        ELSE indices[k] \in 1..Len(items) /\ items[indices[k]] = [key |-> k, value |-> held[k]]
=============================================================================
