------------------------- MODULE PriorityQueueProofs -------------------------
(***************************************************************************)
(* The heap of PriorityQueue is a heap, for every set of items, every size *)
(* of the array and every order of calls, in the middle of swim and sink   *)
(* as well as between the calls, and it is an ordered bag.                 *)
(***************************************************************************)
EXTENDS PriorityQueue, WellFoundedInduction, TLAPS

\* Where the loops are: swim at a slot that is in use; sink while the item that goes
\* is still behind the last one, and in no other slot.
LoopOK ==
  /\ op = "swim" => k \in 1 .. nalloc
  /\ op = "sink" => /\ k >= 1 /\ nalloc + 1 \in Slots
                    /\ pq[nalloc + 1] \in Items
                    /\ \A i \in Used : pq[i] # pq[nalloc + 1]

HeapInv == HeapTypeOK /\ NoDuplicates /\ LoopOK /\ HeapOrder

\* A slot and the one above it.
LEMMA Halves ==
  ASSUME NEW i \in Nat, i > 1
  PROVE  Parent(i) \in Nat /\ Parent(i) >= 1 /\ Parent(i) < i
         /\ (i = 2 * Parent(i) \/ i = 2 * Parent(i) + 1)
BY SMT DEF Parent

LEMMA Doubles ==
  ASSUME NEW i \in Nat
  PROVE  Parent(2 * i) = i /\ Parent(2 * i + 1) = i
BY SMT DEF Parent

LEMMA Below ==
  ASSUME NEW m \in Nat, NEW n \in Nat, NEW s \in Nat, m <= n, n < s
  PROVE  m \in 0 .. s - 1
BY SMT

\* The array is empty at the start.
LEMMA HeapInitInv == HeapInit => HeapInv
BY NilAssumption, SizeAssumption, SMT
   DEF HeapInit, HeapInv, HeapTypeOK, NoDuplicates, LoopOK, HeapOrder, Slots, Used

-----------------------------------------------------------------------------
(* lan_pq_insert *)

LEMMA InsertArray ==
  ASSUME HeapInv, NEW x \in Items, NEW kx \in Nat, Insert(x, kx)
  PROVE  /\ HeapTypeOK'
         /\ \A i \in Used : pq'[i] = pq[i] /\ pq[i] \in Items \ {x} /\ key'[pq[i]] = key[pq[i]]
         /\ nalloc \in Nat /\ nalloc' = nalloc + 1 /\ pq'[nalloc + 1] = x
         /\ op = "none" /\ op' = "swim" /\ k' = nalloc + 1
<1>1. HeapTypeOK /\ NoDuplicates
  BY DEF HeapInv
<1>2. nalloc \in Nat /\ size \in Nat \ {0} /\ nalloc \in 0 .. size - 1
  BY <1>1, SMT DEF HeapTypeOK
<1>3. x \notin Contents /\ op = "none" /\ op' = "swim" /\ k' = nalloc + 1 /\ nalloc' = nalloc + 1
  BY DEF Insert
<1>4. \A i \in Used : pq[i] \in Items \ {x}
  BY <1>1, <1>3 DEF NoDuplicates, Contents
<1>5. key' = [key EXCEPT ![x] = kx] /\ key \in [Items -> Nat]
  BY <1>1 DEF Insert, HeapTypeOK
<1>6. \A i \in Used : key'[pq[i]] = key[pq[i]]
  BY <1>4, <1>5
<1>7. CASE Full
  <2>1. size' = 2 * size /\ pq' = [Resized(2 * size) EXCEPT ![nalloc + 1] = x]
    BY <1>7 DEF Insert
  <2>2. Resized(2 * size) \in [0 .. 2 * size - 1 -> Items \cup {Nil}]
    BY <1>1, <1>2, SMT DEF Resized, HeapTypeOK, Slots
  <2>3. nalloc + 1 \in 0 .. 2 * size - 1
    BY <1>2, SMT
  <2>4. pq'[nalloc + 1] = x /\ pq' \in [0 .. 2 * size - 1 -> Items \cup {Nil}]
    BY <2>1, <2>2, <2>3
  <2>5. \A i \in Used : pq'[i] = pq[i]
    BY <1>2, <2>1, SMT DEF Resized, Used
  <2>6. HeapTypeOK'
    BY <1>2, <1>3, <1>5, <2>1, <2>4, SMT DEF HeapTypeOK, Slots
  <2>. QED
    BY <1>2, <1>3, <1>4, <1>6, <2>4, <2>5, <2>6
<1>8. CASE ~Full
  <2>1. size' = size /\ pq' = [pq EXCEPT ![nalloc + 1] = x]
    BY <1>8 DEF Insert
  <2>2. nalloc + 1 \in Slots /\ pq \in [Slots -> Items \cup {Nil}]
    BY <1>1, <1>2, <1>8, SMT DEF Full, Slots, HeapTypeOK
  <2>3. pq'[nalloc + 1] = x /\ pq' \in [Slots -> Items \cup {Nil}]
    BY <2>1, <2>2
  <2>4. \A i \in Used : pq'[i] = pq[i]
    BY <1>2, <2>1, <2>2, SMT DEF Used, Slots
  <2>5. nalloc' \in 0 .. size' - 1 /\ k' \in 1 .. nalloc' + 1 /\ size' \in Nat \ {0} /\ k' \in Nat
    BY <1>2, <1>3, <2>1, <2>2, SMT DEF Slots
  <2>6. HeapTypeOK'
    BY <1>3, <1>5, <2>1, <2>3, <2>5 DEF HeapTypeOK, Slots
  <2>. QED
    BY <1>2, <1>3, <1>4, <1>6, <2>3, <2>4, <2>6
<1>. QED
  BY <1>7, <1>8

LEMMA InsertInv ==
  ASSUME HeapInv, NEW x \in Items, NEW kx \in Nat, Insert(x, kx)
  PROVE  HeapInv'
<1>1. NoDuplicates /\ HeapOrder
  BY DEF HeapInv
<1>2. /\ \A i \in Used : pq'[i] = pq[i] /\ pq[i] \in Items \ {x} /\ key'[pq[i]] = key[pq[i]]
      /\ nalloc \in Nat /\ nalloc' = nalloc + 1 /\ pq'[nalloc + 1] = x
      /\ op = "none" /\ op' = "swim" /\ k' = nalloc + 1
  BY InsertArray
<1>3. Used' = Used \cup {nalloc + 1} /\ nalloc + 1 \notin Used
  BY <1>2, SMT DEF Used
<1>4. NoDuplicates'
  BY <1>1, <1>2, <1>3 DEF NoDuplicates
<1>5. LoopOK'
  BY <1>2, SMT DEF LoopOK
<1>6. \A i \in Used \ {1} : key[pq[Parent(i)]] <= key[pq[i]]
  BY <1>1, <1>2 DEF HeapOrder, InOrder
<1>7. \A i \in Used \ {1} : Parent(i) \in Used
  BY <1>2, Halves, SMT DEF Used
<1>8. \A i \in Used \ {1} : key'[pq'[Parent(i)]] <= key'[pq'[i]]
  BY <1>2, <1>6, <1>7
<1>9. \A i \in Used' \ {1} : Parent(i) # nalloc + 1
  BY <1>2, Halves, SMT DEF Used
<1>10. HeapOrder'
  BY <1>2, <1>3, <1>8, <1>9 DEF HeapOrder, InOrder, Parent
<1>11. HeapTypeOK'
  BY InsertArray
<1>. QED
  BY <1>4, <1>5, <1>10, <1>11 DEF HeapInv

LEMMA InsertFailsInv ==
  ASSUME HeapInv, NEW x \in Items, NEW kx \in Nat, InsertFails(x, kx)
  PROVE  HeapInv'
<1>1. /\ HeapTypeOK /\ NoDuplicates /\ LoopOK /\ HeapOrder /\ op = "none"
      /\ key' = [key EXCEPT ![x] = kx] /\ x \notin Contents
      /\ UNCHANGED <<pq, nalloc, size, op, k>>
  BY DEF HeapInv, InsertFails
<1>2. HeapTypeOK' /\ NoDuplicates' /\ LoopOK'
  BY <1>1 DEF HeapTypeOK, NoDuplicates, LoopOK, Slots, Used
<1>3. \A i \in Used : key'[pq[i]] = key[pq[i]]
  BY <1>1 DEF NoDuplicates, HeapTypeOK, Contents
<1>4. nalloc \in Nat
  BY <1>1, SMT DEF HeapTypeOK, Slots
<1>5. \A i \in Used \ {1} : Parent(i) \in Used
  BY <1>4, Halves, SMT DEF Used
<1>6. HeapOrder'
  BY <1>1, <1>3, <1>5 DEF HeapOrder, InOrder, Used, Parent
<1>. QED
  BY <1>2, <1>6 DEF HeapInv

-----------------------------------------------------------------------------
(* swim, sink and lan_pq_delmin exchange two items *)

LEMMA ExchFacts ==
  ASSUME HeapInv, NEW i \in Slots, NEW j \in Slots
  PROVE  /\ Exch(pq, i, j) \in [Slots -> Items \cup {Nil}]
         /\ Exch(pq, i, j)[i] = pq[j] /\ Exch(pq, i, j)[j] = pq[i]
         /\ \A s \in Slots \ {i, j} : Exch(pq, i, j)[s] = pq[s]
BY DEF HeapInv, HeapTypeOK, Exch

\* What swim and sink do to an array in which every item is in one slot.
LEMMA ExchUsed ==
  ASSUME HeapInv, NEW i \in Used, NEW j \in Used,
         pq' = Exch(pq, i, j), UNCHANGED <<nalloc, size, key>>
  PROVE  /\ NoDuplicates'
         /\ pq' \in [Slots -> Items \cup {Nil}]
         /\ pq'[i] = pq[j] /\ pq'[j] = pq[i]
         /\ \A s \in Slots \ {i, j} : pq'[s] = pq[s]
         /\ Used \subseteq Slots /\ nalloc \in Nat
<1>1. HeapTypeOK /\ NoDuplicates
  BY DEF HeapInv
<1>2. Used \subseteq Slots /\ nalloc \in Nat /\ Used' = Used
  BY <1>1, SMT DEF HeapTypeOK, Used, Slots
<1>3. /\ pq' \in [Slots -> Items \cup {Nil}]
      /\ pq'[i] = pq[j] /\ pq'[j] = pq[i]
      /\ \A s \in Slots \ {i, j} : pq'[s] = pq[s]
  BY <1>2, ExchFacts
<1>4. \A s \in Used : pq'[s] \in Items
  BY <1>1, <1>2, <1>3 DEF NoDuplicates
<1>5. \A s, t \in Used : pq'[s] = pq'[t] => s = t
  BY <1>1, <1>2, <1>3 DEF NoDuplicates
<1>6. NoDuplicates'
  BY <1>2, <1>4, <1>5 DEF NoDuplicates
<1>. QED
  BY <1>2, <1>3, <1>6

LEMMA SwimInv ==
  ASSUME HeapInv, Swim
  PROVE  HeapInv'
<1>1. /\ HeapTypeOK /\ NoDuplicates /\ LoopOK /\ HeapOrder
      /\ op = "swim" /\ op' = "swim" /\ k > 1 /\ key[pq[k]] < key[pq[Parent(k)]]
      /\ pq' = Exch(pq, k, Parent(k)) /\ k' = Parent(k) /\ UNCHANGED <<nalloc, size, key>>
  BY DEF HeapInv, Swim, Rises, comp, Parent
<1>2. nalloc \in Nat /\ k \in Used
  BY <1>1, SMT DEF HeapTypeOK, LoopOK, Used, Slots
<1>3. Parent(k) \in Used /\ Parent(k) # k
  BY <1>1, <1>2, Halves, SMT DEF Used
<1>4. /\ NoDuplicates' /\ pq' \in [Slots -> Items \cup {Nil}]
      /\ pq'[k] = pq[Parent(k)] /\ pq'[Parent(k)] = pq[k]
      /\ \A s \in Used \ {k, Parent(k)} : pq'[s] = pq[s]
  BY <1>1, <1>2, <1>3, ExchUsed
<1>5. HeapTypeOK' /\ LoopOK'
  BY <1>1, <1>2, <1>3, <1>4, SMT DEF HeapTypeOK, LoopOK, Slots, Used
<1>6. \A i \in Used : pq[i] \in Items /\ key[pq[i]] \in Nat
  BY <1>1 DEF NoDuplicates, HeapTypeOK
<1>7. \A i \in Used \ {1} : Parent(i) \in Used /\ Parent(i) # i
  BY <1>2, Halves, SMT DEF Used
<1>8. \A i \in Used \ {1} : i # k => key[pq[Parent(i)]] <= key[pq[i]]
  BY <1>1 DEF HeapOrder, InOrder
<1>9. \A i \in Used \ {1} : Parent(i) = k => key[pq[Parent(k)]] <= key[pq[i]]
  BY <1>1 DEF HeapOrder, InOrder
<1>10. ASSUME NEW i \in Used \ {1}, i # Parent(k)
       PROVE  key[pq'[Parent(i)]] <= key[pq'[i]]
  <2>1. CASE i = k
    BY <1>1, <1>2, <1>3, <1>4, <1>6, <2>1, SMT
  <2>2. CASE i # k /\ Parent(i) = k
    BY <1>4, <1>9, <1>10, <2>2
  <2>3. CASE i # k /\ Parent(i) = Parent(k)
    BY <1>1, <1>2, <1>3, <1>4, <1>6, <1>8, <1>10, <2>3, SMT
  <2>4. CASE i # k /\ Parent(i) # k /\ Parent(i) # Parent(k)
    BY <1>4, <1>7, <1>8, <1>10, <2>4
  <2>. QED
    BY <2>1, <2>2, <2>3, <2>4
<1>11. ASSUME NEW i \in Used \ {1}, Parent(k) # 1, Parent(i) = Parent(k)
       PROVE  key[pq'[Parent(Parent(k))]] <= key[pq'[i]]
  <2>1. Parent(k) \in Used \ {1} /\ Parent(Parent(k)) \in Used /\ Parent(Parent(k)) # Parent(k)
    BY <1>3, <1>7, <1>11
  <2>2. Parent(Parent(k)) # k
    BY <1>1, <1>2, <2>1, Halves, SMT DEF Used
  <2>3. pq'[Parent(Parent(k))] = pq[Parent(Parent(k))]
    BY <1>4, <2>1, <2>2
  <2>4. key[pq[Parent(Parent(k))]] <= key[pq[Parent(k)]]
    BY <1>3, <1>8, <2>1
  <2>5. CASE i = k
    BY <1>4, <2>3, <2>4, <2>5
  <2>6. CASE i # k
    <3>1. key[pq[Parent(k)]] <= key[pq[i]]
      BY <1>8, <1>11, <2>6
    <3>2. pq'[i] = pq[i]
      BY <1>4, <1>7, <1>11, <2>6
    <3>. QED
      BY <1>3, <1>6, <1>11, <2>1, <2>3, <2>4, <3>1, <3>2, SMT
  <2>. QED
    BY <2>5, <2>6
<1>12. Used' = Used
  BY <1>1 DEF Used
<1>13. HeapOrder'
  BY <1>1, <1>10, <1>11, <1>12 DEF HeapOrder, InOrder, Parent
<1>. QED
  BY <1>4, <1>5, <1>13 DEF HeapInv

LEMMA SwimEndsInv ==
  ASSUME HeapInv, SwimEnds
  PROVE  HeapInv'
<1>1. /\ HeapTypeOK /\ NoDuplicates /\ LoopOK /\ HeapOrder
      /\ op = "swim" /\ op' = "none" /\ k' = 0 /\ UNCHANGED <<pq, nalloc, size, key>>
      /\ k > 1 => ~(key[pq[k]] < key[pq[Parent(k)]])
  BY DEF HeapInv, SwimEnds, Rises, comp, Parent
<1>2. nalloc \in Nat /\ k \in Used
  BY <1>1, SMT DEF HeapTypeOK, LoopOK, Used, Slots
<1>3. \A i \in Used \ {1} : Parent(i) \in Used
  BY <1>2, Halves, SMT DEF Used
<1>4. \A i \in Used : key[pq[i]] \in Nat
  BY <1>1 DEF NoDuplicates, HeapTypeOK
<1>5. k # 1 => key[pq[Parent(k)]] <= key[pq[k]]
  BY <1>1, <1>2, <1>3, <1>4, SMT DEF Used
<1>6. HeapOrder'
  BY <1>1, <1>2, <1>5 DEF HeapOrder, InOrder, Used, Parent
<1>7. HeapTypeOK' /\ NoDuplicates' /\ LoopOK'
  BY <1>1, SMT DEF HeapTypeOK, NoDuplicates, LoopOK, Slots, Used
<1>. QED
  BY <1>6, <1>7 DEF HeapInv

LEMMA DelMinInv ==
  ASSUME HeapInv, DelMin
  PROVE  HeapInv'
<1>1. /\ HeapTypeOK /\ NoDuplicates /\ HeapOrder /\ nalloc > 0
      /\ op = "none" /\ op' = "sink" /\ k' = 1 /\ nalloc' = nalloc - 1
      /\ pq' = Exch(pq, 1, nalloc) /\ UNCHANGED <<size, key>>
  BY DEF HeapInv, DelMin
<1>2. nalloc \in Nat /\ size \in Nat \ {0} /\ 1 \in Used /\ nalloc \in Used /\ Used \subseteq Slots
  BY <1>1, SMT DEF HeapTypeOK, Used, Slots
<1>3. /\ pq' \in [Slots -> Items \cup {Nil}]
      /\ pq'[1] = pq[nalloc] /\ pq'[nalloc] = pq[1]
      /\ \A s \in Used \ {1, nalloc} : pq'[s] = pq[s]
  BY <1>1, <1>2, ExchFacts
<1>4. Used' = Used \ {nalloc} /\ nalloc' + 1 = nalloc /\ nalloc' \in 0 .. size - 1
  BY <1>1, <1>2, SMT DEF Used, HeapTypeOK
<1>5. \A s \in Used : pq[s] \in Items
  BY <1>1 DEF NoDuplicates
<1>6. \A s, t \in Used : pq[s] = pq[t] => s = t
  BY <1>1 DEF NoDuplicates
<1>7. \A s \in Used : pq'[s] \in Items
  BY <1>2, <1>3, <1>5
<1>8. \A s, t \in Used : pq'[s] = pq'[t] => s = t
  BY <1>2, <1>3, <1>6
<1>9. NoDuplicates'
  BY <1>4, <1>7, <1>8 DEF NoDuplicates
<1>10. LoopOK'
  BY <1>1, <1>2, <1>4, <1>7, <1>8 DEF LoopOK, Slots
<1>11. 1 \in 1 .. nalloc' + 1
  <2>1. nalloc \in Nat /\ nalloc > 0 /\ nalloc' + 1 = nalloc
    BY <1>1, <1>2, <1>4
  <2>. QED
    BY <2>1, SMT
<1>12. HeapTypeOK'
  BY <1>1, <1>3, <1>4, <1>11 DEF HeapTypeOK, Slots
<1>13. ASSUME NEW i \in Used' \ {1}, Parent(i) # 1
       PROVE  key[pq'[Parent(i)]] <= key[pq'[i]]
  <2>1. i \in Used \ {1, nalloc} /\ Parent(i) \in Used \ {1, nalloc}
    BY <1>2, <1>4, <1>13, Halves, SMT DEF Used
  <2>2. key[pq[Parent(i)]] <= key[pq[i]]
    BY <1>1, <2>1 DEF HeapOrder, InOrder
  <2>. QED
    BY <1>3, <2>1, <2>2
<1>14. HeapOrder'
  BY <1>1, <1>13 DEF HeapOrder, InOrder, Parent
<1>. QED
  BY <1>9, <1>10, <1>12, <1>14 DEF HeapInv

\* The child that sink looks at is one of the two, and no greater than the other.
LEMMA SmallerChildFacts ==
  ASSUME HeapInv, op = "sink", 2 * k <= nalloc
  PROVE  /\ k \in Used /\ SmallerChild \in Used /\ SmallerChild # k
         /\ SmallerChild # 1 /\ Parent(SmallerChild) = k
         /\ \A i \in Used \ {1} : Parent(i) = k => key[pq[SmallerChild]] <= key[pq[i]]
<1>1. HeapTypeOK /\ NoDuplicates /\ LoopOK
  BY DEF HeapInv
<1>2. nalloc \in Nat /\ k \in Nat /\ k >= 1
  BY <1>1, SMT DEF HeapTypeOK, LoopOK, Slots
<1>3. k \in Used /\ 2 * k \in Used /\ 2 * k # k /\ 2 * k + 1 # k /\ 2 * k # 1 /\ 2 * k + 1 # 1
  BY <1>2, SMT DEF Used
<1>4. 2 * k < nalloc => 2 * k + 1 \in Used
  BY <1>2, SMT DEF Used
<1>5. Parent(2 * k) = k /\ Parent(2 * k + 1) = k
  BY <1>2, Doubles
<1>6. \A i \in Used : key[pq[i]] \in Nat
  BY <1>1 DEF NoDuplicates, HeapTypeOK
<1>7. \A i \in Used \ {1} : Parent(i) = k => i = 2 * k \/ (i = 2 * k + 1 /\ 2 * k < nalloc)
  BY <1>2, Halves, SMT DEF Used
<1>8. CASE 2 * k < nalloc /\ key[pq[2 * k + 1]] < key[pq[2 * k]]
  <2>1. SmallerChild = 2 * k + 1
    BY <1>8 DEF SmallerChild, comp
  <2>2. \A i \in Used \ {1} : Parent(i) = k => key[pq[2 * k + 1]] <= key[pq[i]]
    BY <1>3, <1>4, <1>6, <1>7, <1>8, SMT
  <2>. QED
    BY <1>3, <1>4, <1>5, <1>8, <2>1, <2>2
<1>9. CASE ~(2 * k < nalloc /\ key[pq[2 * k + 1]] < key[pq[2 * k]])
  <2>1. SmallerChild = 2 * k
    BY <1>9 DEF SmallerChild, comp
  <2>2. \A i \in Used \ {1} : Parent(i) = k => key[pq[2 * k]] <= key[pq[i]]
    BY <1>3, <1>4, <1>6, <1>7, <1>9, SMT
  <2>. QED
    BY <1>3, <1>5, <2>1, <2>2
<1>. QED
  BY <1>8, <1>9

LEMMA SinkInv ==
  ASSUME HeapInv, Sink
  PROVE  HeapInv'
<1>. DEFINE j == SmallerChild
<1>1. /\ HeapTypeOK /\ NoDuplicates /\ LoopOK /\ HeapOrder
      /\ op = "sink" /\ op' = "sink" /\ 2 * k <= nalloc /\ key[pq[j]] < key[pq[k]]
      /\ pq' = Exch(pq, j, k) /\ k' = j /\ UNCHANGED <<nalloc, size, key>>
  BY DEF HeapInv, Sink, Sinks, comp
<1>2. /\ k \in Used /\ j \in Used /\ j # k /\ j # 1 /\ Parent(j) = k
      /\ \A i \in Used \ {1} : Parent(i) = k => key[pq[j]] <= key[pq[i]]
  BY <1>1, SmallerChildFacts
<1>. HIDE DEF j
<1>3. /\ NoDuplicates' /\ pq' \in [Slots -> Items \cup {Nil}]
      /\ pq'[j] = pq[k] /\ pq'[k] = pq[j]
      /\ \A s \in Slots \ {j, k} : pq'[s] = pq[s]
      /\ Used \subseteq Slots /\ nalloc \in Nat
  BY <1>1, <1>2, ExchUsed
<1>4. \A i \in Used : pq[i] \in Items /\ key[pq[i]] \in Nat
  BY <1>1 DEF NoDuplicates, HeapTypeOK
<1>5. j \in Nat /\ j >= 1 /\ j \in 1 .. nalloc + 1 /\ nalloc + 1 \notin Used
  BY <1>2, <1>3, SMT DEF Used
<1>6. HeapTypeOK'
  BY <1>1, <1>3, <1>5 DEF HeapTypeOK, Slots
<1>7. nalloc + 1 \in Slots /\ pq'[nalloc + 1] = pq[nalloc + 1]
  BY <1>1, <1>2, <1>3, <1>5 DEF LoopOK
<1>8. \A i \in Used : pq'[i] # pq[nalloc + 1]
  BY <1>1, <1>2, <1>3 DEF LoopOK
<1>9. Used' = Used /\ Slots' = Slots
  BY <1>1 DEF Used, Slots
<1>10. LoopOK'
  BY <1>1, <1>5, <1>7, <1>8, <1>9 DEF LoopOK
<1>11. \A i \in Used \ {1} : Parent(i) \in Used /\ Parent(i) # i
  BY <1>3, Halves, SMT DEF Used
<1>12. \A i \in Used \ {1} : Parent(i) # k => key[pq[Parent(i)]] <= key[pq[i]]
  BY <1>1 DEF HeapOrder, InOrder
<1>13. \A i \in Used \ {1} : k # 1 /\ Parent(i) = k => key[pq[Parent(k)]] <= key[pq[i]]
  BY <1>1 DEF HeapOrder, InOrder
<1>14. ASSUME NEW i \in Used \ {1}, Parent(i) # j
       PROVE  key[pq'[Parent(i)]] <= key[pq'[i]]
  <2>1. CASE i = j
    BY <1>1, <1>2, <1>3, <1>4, <2>1, SMT
  <2>2. CASE i # j /\ Parent(i) = k
    BY <1>2, <1>3, <1>11, <1>14, <2>2
  <2>3. CASE i = k
    <3>1. k # 1 /\ Parent(k) \in Used \ {j, k}
      BY <1>11, <1>14, <2>3
    <3>2. key[pq[Parent(k)]] <= key[pq[j]]
      BY <1>2, <1>13, <3>1
    <3>. QED
      BY <1>3, <2>3, <3>1, <3>2
  <2>4. CASE i # j /\ i # k /\ Parent(i) # k
    BY <1>3, <1>11, <1>12, <1>14, <2>4
  <2>. QED
    BY <2>1, <2>2, <2>3, <2>4
<1>15. ASSUME NEW i \in Used \ {1}, Parent(i) = j
       PROVE  key[pq'[Parent(j)]] <= key[pq'[i]]
  <2>1. key[pq[j]] <= key[pq[i]]
    BY <1>2, <1>12, <1>15
  <2>2. i # j /\ i # k
    BY <1>2, <1>3, <1>15, Halves, SMT DEF Used
  <2>. QED
    BY <1>2, <1>3, <2>1, <2>2
<1>16. HeapOrder'
  BY <1>1, <1>9, <1>14, <1>15 DEF HeapOrder, InOrder, Parent
<1>. QED
  BY <1>3, <1>6, <1>10, <1>16 DEF HeapInv

\* The array as sink leaves it: perhaps a smaller copy.
LEMMA SinkEndsArray ==
  ASSUME HeapInv, SinkEnds
  PROVE  /\ \A i \in Used : pq'[i] = pq[i]
         /\ size' \in Nat \ {0} /\ nalloc \in 0 .. size' - 1
         /\ pq' \in [Slots' -> Items \cup {Nil}]
<1>1. HeapTypeOK /\ LoopOK /\ op = "sink"
  BY DEF HeapInv, SinkEnds
<1>2. nalloc \in Nat /\ size \in Nat \ {0} /\ nalloc + 1 \in Slots
  BY <1>1, SMT DEF HeapTypeOK, LoopOK, Slots
<1>3. CASE Shrinks /\ size' = size \div 2 /\ pq' = Resized(size \div 2)
  <2>1. size' \in Nat /\ size' # 0 /\ nalloc < size' /\ size' <= size
    BY <1>2, <1>3, SMT DEF Shrinks
  <2>2. ASSUME NEW i \in Used PROVE i \in 0 .. size' - 1 /\ i <= nalloc
    <3>1. i \in Nat /\ i <= nalloc
      BY <1>2, SMT DEF Used
    <3>. QED
      BY <1>2, <2>1, <3>1, Below
  <2>3. pq' \in [Slots' -> Items \cup {Nil}]
    BY <1>1, <1>2, <1>3, <2>1, SMT DEF Resized, HeapTypeOK, Slots
  <2>4. nalloc \in 0 .. size' - 1
    <3>1. nalloc \in Nat /\ nalloc <= nalloc
      BY <1>2, SMT
    <3>. QED
      BY <2>1, <3>1, Below
  <2>. QED
    BY <1>3, <2>1, <2>2, <2>3, <2>4 DEF Resized
<1>4. CASE pq' = [pq EXCEPT ![nalloc + 1] = Nil] /\ size' = size
  <2>1. \A i \in Used : i # nalloc + 1 /\ i \in Slots
    BY <1>2, SMT DEF Used, Slots
  <2>. QED
    BY <1>1, <1>2, <1>4, <2>1 DEF HeapTypeOK, Slots
<1>. QED
  BY <1>3, <1>4 DEF SinkEnds

LEMMA SinkEndsInv ==
  ASSUME HeapInv, SinkEnds
  PROVE  HeapInv'
<1>1. /\ HeapTypeOK /\ NoDuplicates /\ LoopOK /\ HeapOrder /\ op = "sink" /\ ~Sinks
      /\ op' = "none" /\ k' = 0 /\ UNCHANGED <<nalloc, key>>
  BY DEF HeapInv, SinkEnds
<1>2. nalloc \in Nat /\ size \in Nat \ {0} /\ k \in Nat /\ nalloc + 1 \in Slots
  BY <1>1, SMT DEF HeapTypeOK, LoopOK, Slots
<1>3. \A i \in Used : key[pq[i]] \in Nat
  BY <1>1 DEF NoDuplicates, HeapTypeOK
<1>4. \A i \in Used \ {1} : Parent(i) \in Used
  BY <1>2, Halves, SMT DEF Used
<1>5. ASSUME NEW i \in Used \ {1}
      PROVE  key[pq[Parent(i)]] <= key[pq[i]]
  <2>1. CASE Parent(i) # k
    BY <1>1, <2>1 DEF HeapOrder, InOrder
  <2>2. CASE Parent(i) = k
    <3>1. 2 * k <= nalloc
      BY <1>2, <2>2, Halves, SMT DEF Used
    <3>2. ~(key[pq[SmallerChild]] < key[pq[k]])
      BY <1>1, <3>1 DEF Sinks, comp
    <3>3. k \in Used /\ SmallerChild \in Used /\ key[pq[SmallerChild]] <= key[pq[i]]
      BY <1>1, <2>2, <3>1, SmallerChildFacts
    <3>. QED
      BY <1>3, <2>2, <3>2, <3>3, SMT
  <2>. QED
    BY <2>1, <2>2
<1>6. /\ \A i \in Used : pq'[i] = pq[i]
      /\ size' \in Nat \ {0} /\ nalloc \in 0 .. size' - 1
      /\ pq' \in [Slots' -> Items \cup {Nil}]
  BY SinkEndsArray
<1>7. Used' = Used
  BY <1>1 DEF Used
<1>8. HeapTypeOK'
  BY <1>1, <1>6 DEF HeapTypeOK
<1>9. NoDuplicates'
  BY <1>1, <1>6, <1>7 DEF NoDuplicates
<1>10. LoopOK'
  BY <1>1 DEF LoopOK
<1>11. \A i \in Used' \ {1} : key'[pq'[Parent(i)]] <= key'[pq'[i]]
  BY <1>1, <1>4, <1>5, <1>6, <1>7
<1>12. HeapOrder'
  BY <1>1, <1>11 DEF HeapOrder, InOrder, Parent
<1>. QED
  BY <1>8, <1>9, <1>10, <1>12 DEF HeapInv

-----------------------------------------------------------------------------
(* The theorems *)

LEMMA HeapStutterInv ==
  ASSUME HeapInv, UNCHANGED heap
  PROVE  HeapInv'
BY DEF HeapInv, HeapTypeOK, NoDuplicates, LoopOK, HeapOrder, InOrder, Slots, Used, Parent, heap

LEMMA HeapNextInv ==
  ASSUME HeapInv, [HeapNext]_heap
  PROVE  HeapInv'
<1>1. ASSUME NEW x \in Items, NEW kx \in Nat, Insert(x, kx) \/ InsertFails(x, kx)
      PROVE  HeapInv'
  BY <1>1, InsertInv, InsertFailsInv
<1>2. CASE HeapStep
  BY <1>2, SwimInv, SwimEndsInv, SinkInv, SinkEndsInv DEF HeapStep
<1>. QED
  BY <1>1, <1>2, DelMinInv, HeapStutterInv DEF HeapNext

LEMMA HeapInvariant == HeapSpec => []HeapInv
<1>1. HeapInit => HeapInv
  BY HeapInitInv
<1>2. HeapInv /\ [HeapNext]_heap => HeapInv'
  BY HeapNextInv
<1>. QED
  BY <1>1, <1>2, PTL DEF HeapSpec

\* The array of src/priority_queue.c is never indexed outside, however it grows and
\* shrinks: the slots in use are slots.
THEOREM HeapTyped == HeapSpec => []HeapTypeOK
BY HeapInvariant, PTL DEF HeapInv

\* No item is lost, and none is in two slots.
THEOREM NothingTwice == HeapSpec => []NoDuplicates
BY HeapInvariant, PTL DEF HeapInv

\* The array is ordered as a heap, but for the item on its way.
THEOREM HeapOrdered == HeapSpec => []HeapOrder
BY HeapInvariant, PTL DEF HeapInv

-----------------------------------------------------------------------------
(* The heap is an ordered bag *)

LEMMA LeastNatural ==
  ASSUME NEW S \in SUBSET Nat, S # {}
  PROVE  \E n \in S : \A m \in S : n <= m
<1>. DEFINE R == OpToRel(<, Nat)
<1>1. IsWellFoundedOn(R, Nat)
  BY NatLessThanWellFounded
<1>2. \A m, n \in S : m < n => <<m, n>> \in R
  BY DEF OpToRel
<1>. HIDE DEF R
<1>3. PICK n \in S : \A m \in S : ~(<<m, n>> \in R)
  BY <1>1, WFMin
<1>4. \A m \in S : ~(m < n)
  BY <1>2, <1>3
<1>. QED
  BY <1>3, <1>4, SMT

\* In an array that is ordered everywhere no item is smaller than the first: the first
\* slot that holds one that is would hold a smaller one than the slot above it.
LEMMA RootIsLeast ==
  ASSUME NEW a, NEW f, NEW n \in Nat, n > 0,
         \A i \in 1 .. n : f[a[i]] \in Nat,
         \A i \in (1 .. n) \ {1} : f[a[Parent(i)]] <= f[a[i]]
  PROVE  \A i \in 1 .. n : f[a[1]] <= f[a[i]]
<1>. DEFINE S == {i \in 1 .. n : f[a[i]] < f[a[1]]}
<1>1. 1 \in 1 .. n
  BY SMT
<1>2. ASSUME S # {} PROVE FALSE
  <2>1. S \in SUBSET Nat
    BY SMT
  <2>2. PICK m \in S : \A i \in S : m <= i
    BY <1>2, <2>1, LeastNatural
  <2>3. m \in 1 .. n /\ f[a[m]] < f[a[1]] /\ m # 1
    BY <1>1, <2>2, SMT
  <2>4. Parent(m) \in 1 .. n /\ Parent(m) < m /\ m \in Nat /\ Parent(m) \in Nat
    BY <2>3, Halves, SMT
  <2>5. f[a[Parent(m)]] <= f[a[m]]
    BY <2>3
  <2>6. f[a[Parent(m)]] < f[a[1]]
    BY <1>1, <2>3, <2>4, <2>5, SMT
  <2>7. m <= Parent(m)
    BY <2>2, <2>4, <2>6
  <2>. QED
    BY <2>4, <2>7, SMT
<1>3. \A i \in 1 .. n : ~(f[a[i]] < f[a[1]])
  BY <1>2
<1>. QED
  BY <1>1, <1>3, SMT

\* Between the calls, and when swim has reached the first slot, what lan_pq_min
\* returns is least.
LEMMA TopIsLeast ==
  ASSUME HeapInv', op' = "none" \/ (op' = "swim" /\ k' = 1), nalloc' > 0
  PROVE  pq'[1] \in Bag!Tops(Contents', key')
<1>1. nalloc' \in Nat
  BY SMT DEF HeapInv, HeapTypeOK, Slots
<1>2. \A i \in 1 .. nalloc' : key'[pq'[i]] \in Nat
  BY DEF HeapInv, HeapTypeOK, NoDuplicates, Used
<1>3. \A i \in (1 .. nalloc') \ {1} : key'[pq'[Parent(i)]] <= key'[pq'[i]]
  BY DEF HeapInv, HeapOrder, InOrder, Used, Parent
<1>4. \A i \in 1 .. nalloc' : key'[pq'[1]] <= key'[pq'[i]]
  BY <1>1, <1>2, <1>3, RootIsLeast
<1>5. 1 \in 1 .. nalloc'
  BY <1>1, SMT
<1>. QED
  BY <1>4, <1>5 DEF Contents, Used, Bag!Tops, Bag!Least

LEMMA BagInsert ==
  ASSUME HeapInv, HeapInv', NEW x \in Items, NEW kx \in Nat, Insert(x, kx)
  PROVE  Bag!Put(x) \/ Bag!Wait(x)
<1>1. /\ \A i \in Used : pq'[i] = pq[i] /\ pq[i] \in Items \ {x} /\ key'[pq[i]] = key[pq[i]]
      /\ nalloc \in Nat /\ nalloc' = nalloc + 1 /\ pq'[nalloc + 1] = x
      /\ op = "none" /\ op' = "swim" /\ k' = nalloc + 1
  BY InsertArray
<1>2. Used' = Used \cup {nalloc + 1} /\ nalloc + 1 \notin Used
  BY <1>1, SMT DEF Used
<1>3. Contents' = Contents \cup {x} /\ x \notin Contents
  BY <1>1, <1>2 DEF Contents
<1>4. BagOf = Contents /\ key' = [key EXCEPT ![x] = kx] /\ key \in [Items -> Nat]
  BY <1>1 DEF BagOf, Pending, Going, Insert, HeapInv, HeapTypeOK
<1>5. Bag!SetKey(x)
  BY <1>3, <1>4 DEF Bag!SetKey
<1>6. CASE nalloc = 0
  <2>1. k' = 1 /\ nalloc' = 1 /\ pq'[1] = x
    BY <1>1, <1>6, SMT
  <2>2. BagOf' = BagOf \cup {x}
    BY <1>1, <1>3, <1>4, <2>1 DEF BagOf, Pending, Going
  <2>3. TopOf' = x
    BY <1>1, <2>1 DEF TopOf, Going
  <2>4. nalloc' > 0 /\ BagOf' = Contents'
    BY <1>3, <1>4, <2>1, <2>2, SMT
  <2>5. x \in Bag!Tops(Contents', key')
    BY <1>1, <2>1, <2>4, TopIsLeast
  <2>. QED
    BY <1>5, <2>2, <2>3, <2>4, <2>5 DEF Bag!Put
<1>7. CASE nalloc # 0
  <2>1. k' # 1 /\ nalloc' # 0 /\ 1 \in Used
    BY <1>1, <1>7, SMT DEF Used
  <2>2. BagOf' = BagOf
    BY <1>1, <1>3, <1>4, <2>1 DEF BagOf, Pending, Going
  <2>3. TopOf' = TopOf
    BY <1>1, <1>7, <2>1 DEF TopOf, Going
  <2>. QED
    BY <1>5, <2>2, <2>3 DEF Bag!Wait
<1>. QED
  BY <1>6, <1>7

LEMMA BagInsertFails ==
  ASSUME HeapInv, NEW x \in Items, NEW kx \in Nat, InsertFails(x, kx)
  PROVE  Bag!Wait(x)
<1>1. x \notin Contents /\ op = "none" /\ key' = [key EXCEPT ![x] = kx]
      /\ UNCHANGED <<pq, nalloc, size, op, k>> /\ key \in [Items -> Nat]
  BY DEF InsertFails, HeapInv, HeapTypeOK
<1>2. BagOf = Contents /\ BagOf' = BagOf /\ TopOf' = TopOf
  BY <1>1 DEF BagOf, TopOf, Pending, Going, Contents, Used
<1>. QED
  BY <1>1, <1>2 DEF Bag!Wait, Bag!SetKey

LEMMA BagSwim ==
  ASSUME HeapInv, HeapInv', Swim
  PROVE  (\E x \in Items : Bag!Put(x)) \/ UNCHANGED <<BagOf, TopOf, key>>
<1>. DEFINE p == Parent(k)
<1>1. /\ HeapTypeOK /\ NoDuplicates /\ LoopOK
      /\ op = "swim" /\ op' = "swim" /\ k > 1 /\ pq' = Exch(pq, k, p) /\ k' = p
      /\ UNCHANGED <<nalloc, size, key>>
  BY DEF HeapInv, Swim, Rises, Parent
<1>2. nalloc \in Nat /\ k \in Used /\ k # 1 /\ p \in Used /\ p # k /\ nalloc > 0 /\ 1 \in Used
  BY <1>1, Halves, SMT DEF HeapTypeOK, LoopOK, Used, Slots
<1>. HIDE DEF p
<1>3. pq'[k] = pq[p] /\ pq'[p] = pq[k] /\ \A s \in Used \ {k, p} : pq'[s] = pq[s]
  BY <1>1, <1>2, ExchUsed
<1>4. Used' = Used
  BY <1>1 DEF Used
<1>5. Contents' = Contents
  BY <1>2, <1>3, <1>4 DEF Contents
<1>6. BagOf = Contents \ {pq[k]} /\ TopOf = pq[1]
  BY <1>1, <1>2 DEF BagOf, TopOf, Pending, Going
<1>7. CASE p # 1
  <2>1. pq'[1] = pq[1]
    BY <1>2, <1>3, <1>7
  <2>2. BagOf' = Contents \ {pq[k]} /\ TopOf' = pq[1]
    BY <1>1, <1>2, <1>3, <1>5, <1>7, <2>1 DEF BagOf, TopOf, Pending, Going
  <2>. QED
    BY <1>1, <1>6, <2>2
<1>8. CASE p = 1
  <2>1. pq[k] \in Items /\ pq[k] \in Contents /\ key \in [Items -> Nat]
    BY <1>1, <1>2 DEF NoDuplicates, HeapTypeOK, Contents
  <2>2. BagOf' = Contents /\ TopOf' = pq[k]
    BY <1>1, <1>2, <1>3, <1>5, <1>8 DEF BagOf, TopOf, Pending, Going
  <2>3. Bag!SetKey(pq[k])
    BY <1>1, <1>6, <2>1 DEF Bag!SetKey
  <2>4. pq[k] \in Bag!Tops(Contents', key')
    BY <1>1, <1>2, <1>3, <1>8, TopIsLeast
  <2>5. Bag!Put(pq[k])
    BY <1>5, <1>6, <2>1, <2>2, <2>3, <2>4 DEF Bag!Put
  <2>. QED
    BY <2>1, <2>5
<1>. QED
  BY <1>7, <1>8

LEMMA BagSwimEnds ==
  ASSUME HeapInv, HeapInv', SwimEnds
  PROVE  (\E x \in Items : Bag!Put(x)) \/ UNCHANGED <<BagOf, TopOf, key>>
<1>1. /\ HeapTypeOK /\ NoDuplicates /\ LoopOK /\ op = "swim" /\ op' = "none"
      /\ UNCHANGED <<pq, nalloc, size, key>>
  BY DEF HeapInv, SwimEnds
<1>2. nalloc \in Nat /\ k \in Used /\ nalloc > 0
  BY <1>1, SMT DEF HeapTypeOK, LoopOK, Used, Slots
<1>3. Contents' = Contents /\ BagOf' = Contents /\ TopOf' = pq[1] /\ TopOf = pq[1]
  BY <1>1, <1>2 DEF BagOf, TopOf, Pending, Going, Contents, Used
<1>4. CASE k = 1
  BY <1>1, <1>3, <1>4 DEF BagOf, Pending, Going
<1>5. CASE k # 1
  <2>1. BagOf = Contents \ {pq[k]}
    BY <1>1, <1>5 DEF BagOf, Pending, Going
  <2>2. pq[k] \in Items /\ pq[k] \in Contents /\ key \in [Items -> Nat]
    BY <1>1, <1>2 DEF NoDuplicates, HeapTypeOK, Contents
  <2>3. Bag!SetKey(pq[k])
    BY <1>1, <2>1, <2>2 DEF Bag!SetKey
  <2>4. pq[1] \in Bag!Tops(Contents', key')
    BY <1>1, <1>2, TopIsLeast
  <2>5. Bag!Put(pq[k])
    BY <1>3, <2>1, <2>2, <2>3, <2>4 DEF Bag!Put
  <2>. QED
    BY <2>2, <2>5
<1>. QED
  BY <1>4, <1>5

LEMMA BagDelMin ==
  ASSUME HeapInv, HeapInv', DelMin
  PROVE  UNCHANGED <<BagOf, TopOf, key>>
<1>1. /\ HeapTypeOK /\ NoDuplicates /\ nalloc > 0 /\ op = "none" /\ op' = "sink"
      /\ nalloc' = nalloc - 1 /\ pq' = Exch(pq, 1, nalloc) /\ UNCHANGED <<size, key>>
  BY DEF HeapInv, DelMin
<1>2. /\ nalloc \in Nat /\ nalloc # 0 /\ nalloc' + 1 = nalloc
      /\ 1 \in Used /\ nalloc \in Used /\ Used \subseteq Slots /\ Used' = Used \ {nalloc}
  BY <1>1, SMT DEF HeapTypeOK, Used, Slots
<1>3. pq'[1] = pq[nalloc] /\ pq'[nalloc] = pq[1] /\ \A s \in Used \ {1, nalloc} : pq'[s] = pq[s]
  BY <1>1, <1>2, ExchFacts
<1>4. Contents' \cup {pq[1]} = Contents
  BY <1>2, <1>3 DEF Contents
<1>5. BagOf = Contents /\ TopOf = pq[1]
  BY <1>1, <1>2 DEF BagOf, TopOf, Pending, Going
<1>6. BagOf' = Contents' \cup {pq[1]} /\ TopOf' = pq[1]
  BY <1>1, <1>2, <1>3 DEF BagOf, TopOf, Pending, Going
<1>. QED
  BY <1>1, <1>4, <1>5, <1>6

LEMMA BagSink ==
  ASSUME HeapInv, HeapInv', Sink
  PROVE  UNCHANGED <<BagOf, TopOf, key>>
<1>. DEFINE j == SmallerChild
<1>1. /\ LoopOK /\ op = "sink" /\ op' = "sink" /\ 2 * k <= nalloc
      /\ pq' = Exch(pq, j, k) /\ UNCHANGED <<nalloc, size, key>>
  BY DEF HeapInv, Sink, Sinks
<1>2. k \in Used /\ j \in Used
  BY <1>1, SmallerChildFacts
<1>. HIDE DEF j
<1>3. /\ pq'[j] = pq[k] /\ pq'[k] = pq[j] /\ \A s \in Slots \ {j, k} : pq'[s] = pq[s]
      /\ Used \subseteq Slots /\ nalloc \in Nat
  BY <1>1, <1>2, ExchUsed
<1>4. nalloc + 1 \in Slots \ {j, k}
  BY <1>1, <1>2, <1>3, SMT DEF LoopOK, Used
<1>5. Used' = Used
  BY <1>1 DEF Used
<1>6. Contents' = Contents /\ pq'[nalloc + 1] = pq[nalloc + 1]
  BY <1>2, <1>3, <1>4, <1>5 DEF Contents
<1>. QED
  BY <1>1, <1>6 DEF BagOf, TopOf, Pending, Going

LEMMA BagSinkEnds ==
  ASSUME HeapInv, HeapInv', SinkEnds
  PROVE  Bag!Take
<1>1. LoopOK /\ op = "sink" /\ op' = "none" /\ UNCHANGED <<nalloc, key>>
  BY DEF HeapInv, SinkEnds
<1>2. nalloc \in Nat /\ Used' = Used
  BY <1>1, SMT DEF HeapInv, HeapTypeOK, Slots, Used
<1>3. \A i \in Used : pq'[i] = pq[i]
  BY SinkEndsArray
<1>4. Contents' = Contents
  BY <1>2, <1>3 DEF Contents
<1>5. BagOf = Contents \cup {pq[nalloc + 1]} /\ TopOf = pq[nalloc + 1]
  BY <1>1 DEF BagOf, TopOf, Pending, Going
<1>6. pq[nalloc + 1] \notin Contents
  BY <1>1 DEF LoopOK, Contents
<1>7. BagOf' = Contents
  BY <1>1, <1>4 DEF BagOf, Pending, Going
<1>8. TopOf' \in Bag!Tops(Contents', key')
  <2>1. CASE nalloc = 0
    <3>1. Used = {}
      BY <2>1, SMT DEF Used
    <3>2. Contents' = {} /\ TopOf' = Nil
      BY <1>1, <1>4, <2>1, <3>1 DEF Contents, TopOf, Going
    <3>. QED
      BY <3>2 DEF Bag!Tops
  <2>2. CASE nalloc # 0
    <3>1. nalloc' > 0 /\ TopOf' = pq'[1]
      BY <1>1, <1>2, <2>2 DEF TopOf, Going
    <3>. QED
      BY <1>1, <3>1, TopIsLeast
  <2>. QED
    BY <2>1, <2>2
<1>. QED
  BY <1>1, <1>4, <1>5, <1>6, <1>7, <1>8 DEF Bag!Take

LEMMA BagInitially == HeapInit => Bag!BagInit
<1>. SUFFICES ASSUME HeapInit PROVE Bag!BagInit
  OBVIOUS
<1>1. nalloc = 0 /\ op = "none" /\ key \in [Items -> Nat]
  BY DEF HeapInit
<1>2. Used = {}
  BY <1>1, SMT DEF Used
<1>. QED
  BY <1>1, <1>2 DEF Bag!BagInit, BagOf, TopOf, Pending, Going, Contents

LEMMA BagStep ==
  ASSUME HeapInv, HeapInv', [HeapNext]_heap
  PROVE  [Bag!BagNext]_<<BagOf, TopOf, key>>
<1>1. ASSUME NEW x \in Items, NEW kx \in Nat, Insert(x, kx) \/ InsertFails(x, kx)
      PROVE  Bag!BagNext
  BY <1>1, BagInsert, BagInsertFails DEF Bag!BagNext
<1>2. CASE Swim \/ SwimEnds
  BY <1>2, BagSwim, BagSwimEnds DEF Bag!BagNext
<1>3. CASE Sink \/ DelMin
  BY <1>3, BagSink, BagDelMin
<1>4. CASE SinkEnds
  BY <1>4, BagSinkEnds DEF Bag!BagNext
<1>5. CASE UNCHANGED heap
  BY <1>5 DEF heap, BagOf, TopOf, Pending, Going, Contents, Used
<1>. QED
  BY <1>1, <1>2, <1>3, <1>4, <1>5 DEF HeapNext, HeapStep

\* What src/priority_queue.c offers is an ordered bag: an item put in stays until it is
\* the least and is taken, and lan_pq_min returns the least of all.
THEOREM HeapImplements == HeapSpec => ImplementsOrderedBag
<1>1. HeapInit => Bag!BagInit
  BY BagInitially
<1>2. HeapInv /\ HeapInv' /\ [HeapNext]_heap => [Bag!BagNext]_<<BagOf, TopOf, key>>
  BY BagStep
<1>3. HeapSpec => []HeapInv
  BY HeapInvariant
<1>. QED
  BY <1>1, <1>2, <1>3, PTL DEF HeapSpec, ImplementsOrderedBag, Bag!BagSpec, Bag!bagVars
=============================================================================
