----------------------------- MODULE OrderedBag -----------------------------
(***************************************************************************)
(* What lan_pq_t of src/priority_queue.h promises its caller: a collection *)
(* of items from which the one that compares least can be read and taken.  *)
(***************************************************************************)
EXTENDS Integers

CONSTANTS Items, Nil

VARIABLES
  bag,   \* the items in the queue
  top,   \* what lan_pq_min returns: Nil if there are none
  key    \* what the comparator looks at

bagVars == <<bag, top, key>>

Least(S, k) == {x \in S : \A y \in S : k[x] <= k[y]}

Tops(S, k) == IF S = {} THEN {Nil} ELSE Least(S, k)

BagInit == bag = {} /\ top = Nil /\ key \in [Items -> Nat]

\* The caller writes the key of an item that is not in the queue.
SetKey(x) ==
  /\ x \in Items \ bag
  /\ key'[x] \in Nat /\ key' = [key EXCEPT ![x] = key'[x]]

\* lan_pq_insert returns 0: the order of what was there does not change.
Put(x) ==
  /\ SetKey(x)
  /\ bag' = bag \cup {x}
  /\ top' \in Tops(bag', key') \cap {x, top}

\* lan_pq_insert returns -1, or has not got that far.
Wait(x) == SetKey(x) /\ UNCHANGED <<bag, top>>

\* lan_pq_delmin: what goes is what lan_pq_min showed.
Take ==
  /\ bag # {}
  /\ bag' = bag \ {top}
  /\ top' \in Tops(bag', key)
  /\ UNCHANGED key

BagNext == Take \/ \E x \in Items : Put(x) \/ Wait(x)

BagSpec == BagInit /\ [][BagNext]_bagVars
=============================================================================
