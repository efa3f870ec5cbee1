--------------------------- MODULE PriorityQueue ---------------------------
(***************************************************************************)
(* The binary heap of src/priority_queue.c.  Slot 0 of the array is never  *)
(* used.  swim and sink are taken one round of their loops at a time, so   *)
(* that what holds in the middle of them can be stated.  comp compares     *)
(* keys, as timer_comp and the comparator of the test do; the key of an    *)
(* item is set before the item is inserted.  Return values are not         *)
(* modelled: no caller does more than log them.                            *)
(***************************************************************************)
EXTENDS Integers

CONSTANTS
  Items,    \* what may be inserted: pointers
  Nil,      \* a slot that holds nothing
  Size,     \* the size lan_pq_init is called with
  Faults    \* "resize": malloc may fail in resize; others belong to who calls

ASSUME NilAssumption  == Nil \notin Items
ASSUME SizeAssumption == Size \in Nat

VARIABLES
  pq, nalloc, size,   \* lan_pq_t
  key,                \* what comp looks at in an item
  op,                 \* the loop that is under way: "none", "swim", "sink"
  k                   \* and its argument k

heap == <<pq, nalloc, size, key, op, k>>

Slots == 0 .. size - 1
Used  == 1 .. nalloc

HeapTypeOK ==
  /\ size \in Nat \ {0} /\ nalloc \in 0 .. size - 1
  /\ pq \in [Slots -> Items \cup {Nil}]
  /\ key \in [Items -> Nat]
  /\ op \in {"none", "swim", "sink"}
  /\ k \in Nat /\ (op # "none" => k \in 1 .. nalloc + 1)

\* lan_pq_init.
HeapInit ==
  /\ nalloc = 0 /\ size = Size + 1
  /\ pq = [s \in 0 .. Size |-> Nil]
  /\ key = [x \in Items |-> 0]
  /\ op = "none" /\ k = 0

comp(x, y) == key[x] < key[y]

ExchNoTmp(a, i, j) == [a EXCEPT ![i] = a[j]]   \* faulty variant: loses an item
Exch(a, i, j) == [a EXCEPT ![i] = a[j], ![j] = a[i]]

\* resize: the first nalloc + 1 slots are copied.
Resized(newSize) == [s \in 0 .. newSize - 1 |-> IF s <= nalloc THEN pq[s] ELSE Nil]

Contents == {pq[i] : i \in Used}
Min == pq[1]   \* lan_pq_min of a queue that is not empty

-----------------------------------------------------------------------------
Full == nalloc + 1 = size

InsertNoGrow(x, kx) ==   \* faulty variant: the array never grows
  /\ op = "none" /\ x \in Items \ Contents
  /\ key' = [key EXCEPT ![x] = kx]
  /\ pq' = [pq EXCEPT ![nalloc + 1] = x]
  /\ nalloc' = nalloc + 1
  /\ op' = "swim" /\ k' = nalloc + 1
  /\ UNCHANGED size

\* lan_pq_insert up to its call of swim.
Insert(x, kx) ==
  /\ op = "none" /\ x \in Items \ Contents
  /\ key' = [key EXCEPT ![x] = kx]
  /\ size' = IF Full THEN 2 * size ELSE size
  /\ pq' = [IF Full THEN Resized(2 * size) ELSE pq EXCEPT ![nalloc + 1] = x]
  /\ nalloc' = nalloc + 1
  /\ op' = "swim" /\ k' = nalloc + 1

\* resize fails: the item is not inserted.
InsertFails(x, kx) ==
  /\ "resize" \in Faults
  /\ op = "none" /\ x \in Items \ Contents /\ Full
  /\ key' = [key EXCEPT ![x] = kx]
  /\ UNCHANGED <<pq, nalloc, size, op, k>>

Rises == k > 1 /\ comp(pq[k], pq[k \div 2])

Swim ==
  /\ op = "swim" /\ Rises
  /\ pq' = Exch(pq, k, k \div 2)
  /\ k' = k \div 2
  /\ UNCHANGED <<nalloc, size, key, op>>

SwimEnds ==
  /\ op = "swim" /\ ~Rises
  /\ op' = "none" /\ k' = 0
  /\ UNCHANGED <<pq, nalloc, size, key>>

\* lan_pq_delmin up to its call of sink.
DelMin ==
  /\ op = "none" /\ nalloc > 0
  /\ pq' = Exch(pq, 1, nalloc)
  /\ nalloc' = nalloc - 1
  /\ op' = "sink" /\ k' = 1
  /\ UNCHANGED <<size, key>>

SmallerChildLeft == 2 * k   \* faulty variant: looks at the left child only
\* j of sink: the child that is to come up.
SmallerChild ==
  IF 2 * k < nalloc /\ comp(pq[2 * k + 1], pq[2 * k]) THEN 2 * k + 1 ELSE 2 * k

Sinks == 2 * k <= nalloc /\ comp(pq[SmallerChild], pq[k])

Sink ==
  /\ op = "sink" /\ Sinks
  /\ pq' = Exch(pq, SmallerChild, k)
  /\ k' = SmallerChild
  /\ UNCHANGED <<nalloc, size, key, op>>

Shrinks == nalloc > 0 /\ nalloc <= (size - 1) \div 4

\* sink returns, and lan_pq_delmin gives back half of an array that is mostly
\* empty, unless malloc fails in resize.  What the slot behind the last one still
\* holds is not looked at again.
SinkEnds ==
  /\ op = "sink" /\ ~Sinks
  /\ \/ /\ Shrinks
        /\ size' = size \div 2 /\ pq' = Resized(size \div 2)
     \/ /\ Shrinks => "resize" \in Faults
        /\ pq' = [pq EXCEPT ![nalloc + 1] = Nil] /\ UNCHANGED size
  /\ op' = "none" /\ k' = 0
  /\ UNCHANGED <<nalloc, key>>

HeapStep == Swim \/ SwimEnds \/ Sink \/ SinkEnds

HeapNext == HeapStep \/ DelMin \/ \E x \in Items, kx \in Nat : Insert(x, kx) \/ InsertFails(x, kx)

HeapSpec == HeapInit /\ [][HeapNext]_heap

-----------------------------------------------------------------------------
(* Properties *)

Parent(i) == i \div 2

\* No item is above a smaller one, except that the one on its way may be: while
\* it swims it may be smaller than its parent, while it sinks greater than its
\* children; whatever it has passed is in order with its new neighbours.
InOrder(i, j) == key[pq[i]] <= key[pq[j]]
HeapOrder ==
  /\ \A i \in Used \ {1} :
       (op = "swim" => i # k) /\ (op = "sink" => Parent(i) # k) => InOrder(Parent(i), i)
  /\ \A i \in Used \ {1} :
       op # "none" /\ k # 1 /\ Parent(i) = k => InOrder(Parent(k), i)

\* No item is in two slots, none is lost among the slots that are in use.
NoDuplicates ==
  /\ \A i \in Used : pq[i] \in Items
  /\ \A i, j \in Used : pq[i] = pq[j] => i = j

\* While swim runs the item is not yet in the queue, unless it is the least;
\* while sink runs the item that goes is still behind the last slot in use.
Pending == op = "swim" /\ k # 1
Going   == op = "sink"
BagOf == IF Pending THEN Contents \ {pq[k]}
         ELSE IF Going THEN Contents \cup {pq[nalloc + 1]} ELSE Contents
TopOf == IF Going THEN pq[nalloc + 1] ELSE IF nalloc = 0 THEN Nil ELSE pq[1]

Bag == INSTANCE OrderedBag WITH bag <- BagOf, top <- TopOf

\* The array with its two loops is an ordered bag.
ImplementsOrderedBag == Bag!BagSpec
=============================================================================
