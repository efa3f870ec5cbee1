----------------------------- MODULE TimerProofs -----------------------------
(***************************************************************************)
(* The timers of Timer, for every set of connections, nodes and timeouts,  *)
(* and every clock: the heap stays a heap and an ordered bag under the     *)
(* calls timer.c makes, and the safety properties of the timers hold.      *)
(*                                                                         *)
(* That a connection has its one timer rests on what lazy deletion leaves  *)
(* behind: nodes in the heap that are marked, and a node outside of it     *)
(* about to be freed, to which no r->timer may point.                      *)
(***************************************************************************)
EXTENDS Timer, PriorityQueueProofs

Waiting(q) == conn[q] \in {"open", "broken"}

\* Where the loop is, what it holds there, and which loop of the heap may run.
PhaseOK ==
  /\ op = "swim" => pc = "handle"
  /\ op = "sink" => pc \in {"findfree", "expirefree"}
  /\ IF pc \in {"findfree", "expirefree"} THEN node \in alloc \ Contents ELSE node = Nil
  /\ pc \in {"find", "findfree", "wait"} => batch = {}
  /\ pc = "serve" => r \in Requests \ batch /\ conn[r] = "open"

\* r->timer and node->rq belong together; no r->timer points to a node that goes.
TimersOK ==
  /\ Contents \subseteq alloc
  /\ \A q \in Requests : IF Waiting(q)
                           THEN /\ timer[q] \in alloc /\ rq[timer[q]] = q
                                /\ pc # "crashed" =>
                                     (timer[q] \in deleted <=> InService(q))
                           ELSE timer[q] = Nil
  /\ \A q \in Requests : node # Nil => timer[q] # node
  /\ \A n \in Live : /\ rq[n] \in Requests /\ Waiting(rq[n])
                     /\ timer[rq[n]] = n /\ key[n] = due[rq[n]]

SleepOK ==
  pc = "wait" =>
    IF Live = {} THEN time = Infinite
    ELSE /\ time \in Nat
         /\ \A n \in Live : clock + time <= key[n] \/ time = 0
         /\ \E n \in Live : key[n] <= clock + time

TInv == TypeOK /\ HeapInv /\ PhaseOK /\ TimersOK /\ SleepOK /\ OnlyLateEventsCrash

-----------------------------------------------------------------------------
(* What the calls into the heap do to its contents *)

LEMMA SameHeap ==
  ASSUME HeapInv, UNCHANGED heap
  PROVE  HeapInv' /\ Contents' = Contents /\ UNCHANGED <<op, key, nalloc, pq>>
<1>1. HeapInv'
  BY HeapStutterInv
<1>. QED
  BY <1>1 DEF heap, Contents, Used

LEMMA FirstIsLeast ==
  ASSUME HeapInv, op = "none", nalloc > 0
  PROVE  Min \in Contents /\ \A n \in Contents : key[Min] <= key[n]
<1>1. nalloc \in Nat
  BY SMT DEF HeapInv, HeapTypeOK, Slots
<1>2. \A i \in 1 .. nalloc : key[pq[i]] \in Nat
  BY DEF HeapInv, HeapTypeOK, NoDuplicates, Used
<1>3. \A i \in (1 .. nalloc) \ {1} : key[pq[Parent(i)]] <= key[pq[i]]
  BY DEF HeapInv, HeapOrder, InOrder, Used
<1>4. \A i \in 1 .. nalloc : key[pq[1]] <= key[pq[i]]
  BY <1>1, <1>2, <1>3, RootIsLeast
<1>5. 1 \in 1 .. nalloc
  BY <1>1, SMT
<1>. QED
  BY <1>4, <1>5 DEF Contents, Used, Min

LEMMA EmptyHeap ==
  ASSUME nalloc = 0
  PROVE  Contents = {}
<1>1. Used = {}
  BY SMT DEF Used
<1>. QED
  BY <1>1 DEF Contents

\* swim and sink only exchange items that are in the queue.
LEMMA HeapStepEffect ==
  ASSUME HeapInv, HeapStep
  PROVE  /\ HeapInv' /\ Contents' = Contents /\ key' = key
         /\ (op = "swim" /\ op' \in {"swim", "none"}) \/ (op = "sink" /\ op' \in {"sink", "none"})
<1>1. ASSUME NEW i \in Used, NEW j \in Used, pq' = Exch(pq, i, j), UNCHANGED <<nalloc, size, key>>
      PROVE  Contents' = Contents
  <2>1. /\ pq'[i] = pq[j] /\ pq'[j] = pq[i] /\ \A s \in Slots \ {i, j} : pq'[s] = pq[s]
        /\ Used \subseteq Slots
    BY <1>1, ExchUsed
  <2>2. Used' = Used
    BY <1>1 DEF Used
  <2>. QED
    BY <2>1, <2>2 DEF Contents
<1>2. CASE Swim
  <2>1. k > 1 /\ k \in 1 .. nalloc /\ nalloc \in Nat
    BY <1>2, SMT DEF Swim, Rises, HeapInv, LoopOK, HeapTypeOK, Slots
  <2>2. Parent(k) \in Used /\ k \in Used
    BY <2>1, Halves, SMT DEF Used
  <2>3. pq' = Exch(pq, k, Parent(k)) /\ UNCHANGED <<nalloc, size, key, op>> /\ op = "swim"
    BY <1>2 DEF Swim, Parent
  <2>. QED
    BY <1>1, <1>2, <2>2, <2>3, SwimInv
<1>3. CASE SwimEnds
  <2>1. Contents' = Contents
    BY <1>3 DEF SwimEnds, Contents, Used
  <2>. QED
    BY <1>3, <2>1, SwimEndsInv DEF SwimEnds
<1>4. CASE Sink
  <2>1. 2 * k <= nalloc /\ UNCHANGED <<nalloc, size, key, op>> /\ op = "sink"
        /\ pq' = Exch(pq, SmallerChild, k) /\ LoopOK
    BY <1>4 DEF Sink, Sinks, HeapInv
  <2>2. k \in Used /\ SmallerChild \in Used
    BY <2>1, SmallerChildFacts
  <2>. QED
    BY <1>1, <1>4, <2>1, <2>2, SinkInv
<1>5. CASE SinkEnds
  <2>1. \A i \in Used : pq'[i] = pq[i]
    BY <1>5, SinkEndsArray
  <2>2. nalloc' = nalloc /\ key' = key /\ op = "sink" /\ op' = "none"
    BY <1>5 DEF SinkEnds
  <2>3. Contents' = Contents
    BY <2>1, <2>2 DEF Contents, Used
  <2>. QED
    BY <1>5, <2>2, <2>3, SinkEndsInv
<1>. QED
  BY <1>2, <1>3, <1>4, <1>5 DEF HeapStep

LEMMA DelMinEffect ==
  ASSUME HeapInv, DelMin
  PROVE  /\ HeapInv' /\ Min \in Contents /\ Contents' = Contents \ {Min}
         /\ key' = key /\ op' = "sink"
<1>1. /\ NoDuplicates /\ HeapTypeOK /\ nalloc > 0 /\ op = "none" /\ op' = "sink"
      /\ nalloc' = nalloc - 1 /\ pq' = Exch(pq, 1, nalloc) /\ UNCHANGED <<size, key>>
  BY DEF HeapInv, DelMin
<1>2. /\ nalloc \in Nat
      /\ 1 \in Used /\ nalloc \in Used /\ Used \subseteq Slots /\ Used' = Used \ {nalloc}
  BY <1>1, SMT DEF HeapTypeOK, Used, Slots
<1>3. pq'[1] = pq[nalloc] /\ pq'[nalloc] = pq[1] /\ \A s \in Used \ {1, nalloc} : pq'[s] = pq[s]
  BY <1>1, <1>2, ExchFacts
<1>4. \A s, t \in Used : pq[s] = pq[t] => s = t
  BY <1>1 DEF NoDuplicates
<1>5. \A s \in Used' : pq'[s] # pq[1]
  BY <1>2, <1>3, <1>4
<1>6. \A s \in Used' : pq'[s] \in Contents
  BY <1>2, <1>3 DEF Contents
<1>7. \A x \in Contents \ {pq[1]} : \E s \in Used' : pq'[s] = x
  BY <1>2, <1>3 DEF Contents
<1>8. Contents' = Contents \ {pq[1]}
  BY <1>5, <1>6, <1>7 DEF Contents
<1>. QED
  BY <1>1, <1>2, <1>8, DelMinInv DEF Contents, Min

LEMMA InsertEffect ==
  ASSUME HeapInv, NEW x \in Items, NEW kx \in Nat, Insert(x, kx) \/ InsertFails(x, kx)
  PROVE  /\ HeapInv' /\ Contents' \in {Contents, Contents \cup {x}} /\ x \notin Contents
         /\ key' = [key EXCEPT ![x] = kx] /\ op' \in {"swim", "none"} /\ op = "none"
<1>1. CASE Insert(x, kx)
  <2>1. /\ \A i \in Used : pq'[i] = pq[i]
        /\ nalloc \in Nat /\ nalloc' = nalloc + 1 /\ pq'[nalloc + 1] = x
    BY <1>1, InsertArray
  <2>2. Used' = Used \cup {nalloc + 1}
    BY <2>1, SMT DEF Used
  <2>3. Contents' = Contents \cup {x}
    BY <2>1, <2>2 DEF Contents
  <2>. QED
    BY <1>1, <2>3, InsertInv DEF Insert
<1>2. CASE InsertFails(x, kx)
  <2>1. Contents' = Contents
    BY <1>2 DEF InsertFails, Contents, Used
  <2>. QED
    BY <1>2, <2>1, InsertFailsInv DEF InsertFails
<1>. QED
  BY <1>1, <1>2

\* Writing the key of an item that is not in the queue disturbs nothing.
LEMMA KeyEffect ==
  ASSUME HeapInv, NEW x \in Items \ Contents, NEW kx \in Nat,
         key' = [key EXCEPT ![x] = kx], UNCHANGED <<pq, nalloc, size, op, k>>
  PROVE  HeapInv' /\ Contents' = Contents
<1>1. /\ HeapTypeOK /\ NoDuplicates /\ LoopOK /\ HeapOrder
  BY DEF HeapInv
<1>2. HeapTypeOK' /\ NoDuplicates' /\ LoopOK'
  BY <1>1 DEF HeapTypeOK, NoDuplicates, LoopOK, Slots, Used
<1>3. \A i \in Used : key'[pq[i]] = key[pq[i]]
  BY <1>1 DEF NoDuplicates, HeapTypeOK, Contents
<1>4. nalloc \in Nat
  BY <1>1, SMT DEF HeapTypeOK, Slots
<1>5. \A i \in Used \ {1} : Parent(i) \in Used
  BY <1>4, Halves, SMT DEF Used
<1>6. op # "none" => k \in Nat /\ k # 0
  BY <1>1, SMT DEF HeapTypeOK
<1>7. HeapOrder'
  BY <1>1, <1>3, <1>5, <1>6 DEF HeapOrder, InOrder, Used, Parent
<1>. QED
  BY <1>2, <1>7 DEF HeapInv, Contents, Used

LEMMA ContentsAreItems ==
  ASSUME HeapInv
  PROVE  Contents \subseteq Items /\ key \in [Items -> Nat] /\ Nil \notin Contents
BY NilAssumption DEF HeapInv, HeapTypeOK, NoDuplicates, Contents

-----------------------------------------------------------------------------
(* The steps of the loop *)

LEMMA InitTInv == Init => TInv
<1>. SUFFICES ASSUME Init
              PROVE  TInv
  OBVIOUS
<1>1. HeapInv
  BY HeapInitInv DEF Init
<1>2. Contents = {} /\ op = "none"
  BY EmptyHeap DEF Init, HeapInit
<1>. QED
  BY <1>1, <1>2 DEF Init, TInv, TypeOK, HeapInv, PhaseOK, TimersOK, SleepOK, Live,
     Waiting, OnlyLateEventsCrash

LEMMA StutterTInv ==
  ASSUME TInv, UNCHANGED tvars
  PROVE  TInv'
<1>1. HeapInv' /\ Contents' = Contents /\ UNCHANGED <<op, key>>
  BY SameHeap DEF TInv, tvars
<1>. QED
  BY <1>1 DEF TInv, tvars, timers, loop, TypeOK, HeapInv, PhaseOK, TimersOK, SleepOK, Live,
     Waiting, InService, OnlyLateEventsCrash

LEMMA HeapRunsTInv ==
  ASSUME TInv, HeapRuns
  PROVE  TInv'
<1>1. /\ HeapInv' /\ Contents' = Contents /\ key' = key
      /\ (op = "swim" /\ op' \in {"swim", "none"}) \/ (op = "sink" /\ op' \in {"sink", "none"})
  BY HeapStepEffect DEF TInv, HeapRuns
<1>. QED
  BY <1>1 DEF TInv, HeapRuns, timers, loop, TypeOK, HeapInv, PhaseOK, TimersOK, SleepOK, Live,
     Waiting, InService, OnlyLateEventsCrash

\* Steps that touch neither the heap nor a timer nor a connection.
Quiet ==
  \/ FindNothing \/ FindMin \/ Wakes \/ ExpireDone \/ AcceptsDone \/ HandleDone \/ Tick
  \/ \E q \in Requests : HandleFreed(q)

LEMMA QuietTInv ==
  ASSUME TInv, Quiet
  PROVE  TInv'
<1>1. HeapInv' /\ Contents' = Contents /\ UNCHANGED <<op, key, nalloc>> /\ UNCHANGED heap
  <2>1. UNCHANGED heap
    BY DEF Quiet, FindNothing, FindMin, Wakes, ExpireDone, AcceptsDone, HandleDone, Tick,
       HandleFreed
  <2>. QED
    BY <2>1, SameHeap DEF TInv
<1>2. /\ UNCHANGED <<alloc, deleted, rq, timer, conn, node, r, due>>
      /\ pc \notin {"serve", "crashed"} /\ pc' # "serve" /\ pc \notin {"findfree", "expirefree"}
      /\ pc' \notin {"findfree", "expirefree"}
  BY DEF Quiet, FindNothing, FindMin, Wakes, ExpireDone, AcceptsDone, HandleDone, Tick,
     HandleFreed, timers
<1>3. TimersOK' /\ Live' = Live
  BY <1>1, <1>2 DEF TInv, TimersOK, Live, Waiting, InService
<1>4. TypeOK'
  <2>1. /\ time' \in Nat \cup {Infinite} /\ batch' \subseteq Requests \cup {Listener}
        /\ clock' \in Nat
        /\ pc' \in {"find", "findfree", "wait", "expire", "expirefree", "handle", "serve", "crashed"}
    <3>1. CASE FindMin
      <4>1. key[Min] \in Nat
        BY <3>1, FirstIsLeast, ContentsAreItems DEF FindMin, Ready, TInv
      <4>. QED
        BY <3>1, <4>1, SMT DEF FindMin, TInv, TypeOK
    <3>2. CASE Tick
      BY <3>2, SMT DEF Tick, TInv, TypeOK, Infinite
    <3>3. CASE Wakes
      BY <3>3 DEF Wakes, Watched, TInv, TypeOK
    <3>. QED
      BY <3>1, <3>2, <3>3 DEF Quiet, FindNothing, ExpireDone, AcceptsDone, HandleDone,
         HandleFreed, TInv, TypeOK
  <2>. QED
    BY <1>1, <1>2, <2>1 DEF TInv, TypeOK, HeapInv
<1>5. PhaseOK'
  <2>1. \/ pc = "wait" /\ pc' = "expire"
        \/ pc' = "crashed" /\ pc = "handle" /\ op = "none"
        \/ pc = pc' /\ pc = "handle" /\ op = "none"
        \/ pc = pc' /\ pc = "wait" /\ batch' = batch
        \/ pc = "find" /\ pc' = "wait" /\ batch' = batch
        \/ pc = "handle" /\ pc' = "find" /\ batch' = {} /\ op = "none"
        \/ pc = "expire" /\ pc' = "handle"
    BY DEF Quiet, FindNothing, FindMin, Wakes, ExpireDone, AcceptsDone, HandleDone, Tick,
       HandleFreed, Ready
  <2>. QED
    BY <1>1, <1>2, <2>1 DEF TInv, PhaseOK
<1>6. SleepOK'
  <2>1. CASE FindNothing
    BY <1>3, <2>1, EmptyHeap DEF FindNothing, SleepOK, Live
  <2>2. CASE FindMin
    <3>1. /\ Min \in Contents /\ \A n \in Contents : key[Min] <= key[n]
          /\ Contents \subseteq Items /\ key \in [Items -> Nat] /\ Nil \notin Contents
      BY <2>2, FirstIsLeast, ContentsAreItems DEF FindMin, Ready, TInv
    <3>2. node = Nil /\ clock \in Nat
      BY <1>2 DEF TInv, PhaseOK, TypeOK
    <3>3. Min \in Live /\ Live \subseteq Contents
      BY <2>2, <3>1, <3>2 DEF FindMin, Live
    <3>4. /\ time' = IF key[Min] > clock THEN key[Min] - clock ELSE 0
          /\ clock' = clock
      BY <2>2 DEF FindMin
    <3>5. time' \in Nat /\ key[Min] \in Nat
      BY <3>1, <3>2, <3>4, SMT
    <3>6. \A n \in Live : clock + time' <= key[n] \/ time' = 0
      <4>. TAKE n \in Live
      <4>1. key[n] \in Nat /\ key[Min] <= key[n]
        BY <3>1, <3>3
      <4>. QED
        BY <3>2, <3>4, <3>5, <4>1, SMT
    <3>7. key[Min] <= clock + time'
      BY <3>2, <3>4, <3>5, SMT
    <3>. QED
      BY <1>1, <1>3, <3>3, <3>4, <3>5, <3>6, <3>7 DEF SleepOK
  <2>3. CASE Tick
    <3>1. CASE pc = "wait"
      <4>1. CASE Live = {}
        BY <1>3, <2>3, <3>1, <4>1, SMT DEF Tick, TInv, SleepOK, Infinite
      <4>2. CASE Live # {}
        <5>1. /\ time \in Nat /\ clock \in Nat /\ clock' = clock + 1
              /\ time' = IF time > 0 THEN time - 1 ELSE time
          BY <2>3, <3>1, <4>2 DEF Tick, TInv, SleepOK, TypeOK
        <5>2. \A n \in Live : key[n] \in Nat
          BY ContentsAreItems DEF TInv, Live
        <5>3. /\ \A n \in Live : clock + time <= key[n] \/ time = 0
              /\ \E n \in Live : key[n] <= clock + time
          BY <3>1, <4>2 DEF TInv, SleepOK
        <5>4. time' \in Nat
          BY <5>1, SMT
        <5>5. \A n \in Live : clock' + time' <= key[n] \/ time' = 0
          BY <5>1, <5>2, <5>3, SMT
        <5>6. \E n \in Live : key[n] <= clock' + time'
          BY <5>1, <5>2, <5>3, SMT
        <5>. QED
          BY <1>1, <1>3, <4>2, <5>4, <5>5, <5>6 DEF SleepOK
      <4>. QED
        BY <4>1, <4>2
    <3>2. CASE pc # "wait"
      BY <2>3, <3>2 DEF Tick, SleepOK
    <3>. QED
      BY <3>1, <3>2
  <2>. QED
    BY <2>1, <2>2, <2>3 DEF Quiet, Wakes, ExpireDone, AcceptsDone, HandleDone, HandleFreed, SleepOK
<1>7. OnlyLateEventsCrash'
  <2>1. CASE Tick
    BY <1>2, <2>1, SMT DEF Tick, TInv, TypeOK, OnlyLateEventsCrash
  <2>2. CASE Wakes
    BY <1>2, <2>2 DEF Wakes, Watched, OnlyLateEventsCrash
  <2>3. CASE FindNothing \/ FindMin
    BY <1>2, <2>3 DEF FindNothing, FindMin, TInv, PhaseOK, OnlyLateEventsCrash
  <2>. QED
    BY <1>2, <2>1, <2>2, <2>3 DEF Quiet, ExpireDone, AcceptsDone, HandleDone, HandleFreed, TInv,
       OnlyLateEventsCrash
<1>. QED
  BY <1>1, <1>3, <1>4, <1>5, <1>6, <1>7 DEF TInv

\* A marked node leaves the heap and waits outside of it to be freed.
LEMMA DropTInv ==
  ASSUME TInv, FindDeleted \/ ExpireDeleted
  PROVE  TInv'
<1>1. /\ DelMin /\ Min \in deleted /\ node' = Min
      /\ (pc = "find" /\ pc' = "findfree") \/ (pc = "expire" /\ pc' = "expirefree")
      /\ UNCHANGED <<alloc, deleted, rq, timer, conn, time, batch, r, clock, due>>
  BY DEF FindDeleted, ExpireDeleted, timers
<1>2. /\ HeapInv' /\ Min \in Contents /\ Contents' = Contents \ {Min} /\ key' = key /\ op' = "sink"
      /\ Contents \subseteq Items /\ Nil \notin Contents
  BY <1>1, DelMinEffect, ContentsAreItems DEF TInv
<1>3. node = Nil
  BY <1>1 DEF TInv, PhaseOK
<1>4. Live' = Live
  BY <1>1, <1>2, <1>3 DEF Live
<1>5. \A q \in Requests : timer[q] # Min
  BY <1>1, <1>2 DEF TInv, TimersOK, InService
<1>6. TimersOK'
  BY <1>1, <1>2, <1>4, <1>5 DEF TInv, TimersOK, Waiting, InService
<1>7. TypeOK' /\ SleepOK'
  BY <1>1, <1>2 DEF TInv, TypeOK, HeapInv, SleepOK
<1>8. PhaseOK'
  <2>1. node' \in alloc' \ Contents'
    BY <1>1, <1>2 DEF TInv, TimersOK
  <2>. QED
    BY <1>1, <1>2, <2>1 DEF TInv, PhaseOK
<1>9. OnlyLateEventsCrash'
  BY <1>1 DEF TInv, OnlyLateEventsCrash
<1>. QED
  BY <1>2, <1>6, <1>7, <1>8, <1>9 DEF TInv

\* A timer runs out: its connection is the only one that had it.
LEMMA FireTInv ==
  ASSUME TInv, ExpireFires
  PROVE  TInv'
<1> DEFINE q0 == rq[Min]
<1>1. /\ DelMin /\ Min \notin deleted /\ key[Min] <= clock + 0 /\ node' = Min
      /\ pc = "expire" /\ pc' = "expirefree"
      /\ conn' = [conn EXCEPT ![q0] = "freed"] /\ timer' = [timer EXCEPT ![q0] = Nil]
      /\ due' = IF q0 \in batch THEN due ELSE [due EXCEPT ![q0] = 0]
      /\ UNCHANGED <<alloc, deleted, rq, time, batch, r, clock>>
  BY DEF ExpireFires, ExpireAnyway, FreeRequest
<1>2. /\ HeapInv' /\ Min \in Contents /\ Contents' = Contents \ {Min} /\ key' = key /\ op' = "sink"
      /\ Contents \subseteq Items /\ key \in [Items -> Nat] /\ Nil \notin Contents
  BY <1>1, DelMinEffect, ContentsAreItems DEF TInv
<1>3. node = Nil
  BY <1>1 DEF TInv, PhaseOK
<1>4. Min \in Live /\ Live' = Live \ {Min}
  BY <1>1, <1>2, <1>3 DEF Live
<1>5. q0 \in Requests /\ Waiting(q0) /\ timer[q0] = Min /\ key[Min] = due[q0]
  BY <1>4 DEF TInv, TimersOK
<1>6. /\ conn \in [Requests -> {"none", "open", "broken", "freed"}]
      /\ timer \in [Requests -> Items \cup {Nil}] /\ due \in [Requests -> Nat] /\ clock \in Nat
  BY DEF TInv, TypeOK
<1>7. TypeOK'
  BY <1>1, <1>2, <1>5, <1>6 DEF TInv, TypeOK, HeapInv
<1>8. PhaseOK'
  BY <1>1, <1>2, <1>4 DEF TInv, PhaseOK, TimersOK
<1>9. SleepOK'
  BY <1>1 DEF SleepOK
<1>10. TimersOK'
  <2>1. \A q \in Requests \ {q0} : /\ conn'[q] = conn[q] /\ timer'[q] = timer[q] /\ due'[q] = due[q]
    BY <1>1, <1>6
  <2>2. /\ conn'[q0] = "freed" /\ timer'[q0] = Nil
    BY <1>1, <1>5, <1>6
  <2>3. \A q \in Requests : InService(q) <=> InService(q)'
    BY <1>1 DEF InService
  <2>4. \A q \in Requests : timer'[q] # node'
    <3>1. \A q \in Requests \ {q0} : timer[q] # Min
      BY <1>2 DEF TInv, TimersOK
    <3>. QED
      BY <1>1, <1>2, <2>1, <2>2, <3>1
  <2>5. \A n \in Live' : /\ rq[n] \in Requests \ {q0} /\ Waiting(rq[n])
                         /\ timer[rq[n]] = n /\ key[n] = due[rq[n]]
    BY <1>4, <1>5 DEF TInv, TimersOK
  <2>6. \A n \in Live' : /\ rq'[n] \in Requests /\ Waiting(rq[n])'
                         /\ timer'[rq[n]] = n /\ key'[n] = due'[rq[n]]
    BY <1>1, <1>2, <2>1, <2>5 DEF Waiting
  <2>7. \A q \in Requests : IF q = q0 THEN ~Waiting(q)' ELSE Waiting(q)' <=> Waiting(q)
    BY <2>1, <2>2 DEF Waiting
  <2>8. \A q \in Requests : IF Waiting(q)'
                              THEN /\ timer'[q] \in alloc' /\ rq'[timer'[q]] = q
                                   /\ timer'[q] \in deleted' <=> InService(q)'
                              ELSE timer'[q] = Nil
    BY <1>1, <2>1, <2>2, <2>3, <2>7 DEF TInv, TimersOK
  <2>9. Contents' \subseteq alloc'
    BY <1>1, <1>2 DEF TInv, TimersOK
  <2>. QED
    BY <1>1, <2>4, <2>6, <2>8, <2>9 DEF TimersOK
<1>11. OnlyLateEventsCrash'
  <2>1. CASE q0 \in batch
    <3>1. due' = due /\ due[q0] <= clock
      BY <1>1, <1>5, <1>6, <2>1, SMT
    <3>. QED
      BY <1>1, <1>6, <3>1 DEF TInv, OnlyLateEventsCrash
  <2>2. CASE q0 \notin batch
    <3>1. \A q \in Requests \ {q0} : conn'[q] = conn[q] /\ due'[q] = due[q]
      BY <1>1, <1>6
    <3>. QED
      BY <1>1, <2>2, <3>1 DEF TInv, TypeOK, OnlyLateEventsCrash
  <2>. QED
    BY <2>1, <2>2
<1>. QED
  BY <1>2, <1>7, <1>8, <1>9, <1>10, <1>11 DEF TInv

LEMMA FreeNodeTInv ==
  ASSUME TInv, FindFrees \/ ExpireFrees
  PROVE  TInv'
<1>1. /\ FreeNode /\ op = "none"
      /\ (pc = "findfree" /\ pc' = "find") \/ (pc = "expirefree" /\ pc' = "expire")
      /\ UNCHANGED <<conn, time, batch, r, clock, due>>
  BY DEF FindFrees, ExpireFrees, Ready
<1>2. node \in alloc \ Contents /\ alloc \subseteq Items /\ 0 \in Nat
  BY <1>1, SMT DEF TInv, PhaseOK, TypeOK
<1>3. /\ alloc' = alloc \ {node} /\ deleted' = deleted \ {node} /\ node' = Nil
      /\ rq' = [rq EXCEPT ![node] = Nil] /\ key' = [key EXCEPT ![node] = 0]
      /\ UNCHANGED <<pq, nalloc, size, op, k, timer>>
  BY <1>1 DEF FreeNode
<1>4. HeapInv' /\ Contents' = Contents
  BY <1>2, <1>3, KeyEffect DEF TInv
<1>5. Contents \subseteq Items /\ Nil \notin Contents /\ key \in [Items -> Nat]
  BY ContentsAreItems DEF TInv
<1>6. Live' = Live
  BY <1>2, <1>3, <1>4, <1>5 DEF Live
<1>7. rq \in [Items -> Requests \cup {Nil}] /\ node # Nil
  BY <1>2, NilAssumption DEF TInv, TypeOK
<1>8. \A n \in Items \ {node} : rq'[n] = rq[n] /\ key'[n] = key[n]
  BY <1>3, <1>5, <1>7
<1>9. TimersOK'
  <2>1. Live \subseteq Items \ {node} /\ Contents \subseteq alloc'
    BY <1>2, <1>3, <1>5 DEF Live, TInv, TimersOK
  <2>2. \A q \in Requests : timer[q] # node
    BY <1>7 DEF TInv, TimersOK
  <2>. QED
    BY <1>1, <1>2, <1>3, <1>4, <1>6, <1>8, <2>1, <2>2 DEF TInv, TimersOK, Waiting, InService
<1>10. TypeOK'
  BY <1>1, <1>3, <1>4, <1>7 DEF TInv, TypeOK, HeapInv
<1>11. PhaseOK' /\ SleepOK'
  BY <1>1, <1>3 DEF TInv, PhaseOK, SleepOK
<1>12. OnlyLateEventsCrash'
  BY <1>1 DEF TInv, PhaseOK, OnlyLateEventsCrash
<1>. QED
  BY <1>4, <1>9, <1>10, <1>11, <1>12 DEF TInv

\* A connection that has no timer, or a marked one, gets a new node.
LEMMA AddTimerTInv ==
  ASSUME TInv, NEW q \in Requests, NEW timeout \in Timeouts, AddTimer(q, timeout),
         pc \in {"handle", "serve"}, pc' = "handle", pc = "serve" => r = q,
         q \notin batch, Waiting(q) => timer[q] \in deleted,
         conn' = [conn EXCEPT ![q] = "open"], r' \in Requests \cup {Nil},
         UNCHANGED <<node, time, batch, clock>>
  PROVE  TInv'
<1> DEFINE f == Fresh
<1>1. /\ alloc \subseteq Items /\ deleted \subseteq alloc /\ clock \in Nat /\ timeout \in Nat
      /\ conn \in [Requests -> {"none", "open", "broken", "freed"}]
      /\ timer \in [Requests -> Items \cup {Nil}] /\ due \in [Requests -> Nat]
      /\ rq \in [Items -> Requests \cup {Nil}] /\ node = Nil
  BY TimesAssumption DEF TInv, TypeOK, PhaseOK
<1>2. f \in Items \ alloc
  BY <1>1 DEF AddTimer, Fresh
<1>3. /\ alloc' = alloc \cup {f} /\ timer' = [timer EXCEPT ![q] = f]
      /\ rq' = [rq EXCEPT ![f] = q] /\ due' = [due EXCEPT ![q] = clock + timeout]
      /\ Insert(f, clock + timeout) \/ InsertFails(f, clock + timeout)
      /\ deleted' = deleted
  BY DEF AddTimer
<1>4. clock + timeout \in Nat
  BY <1>1, SMT
<1>5. /\ HeapInv' /\ Contents' \in {Contents, Contents \cup {f}}
      /\ key' = [key EXCEPT ![f] = clock + timeout] /\ op' \in {"swim", "none"} /\ op = "none"
  BY <1>2, <1>3, <1>4, InsertEffect DEF TInv
<1>6. Contents \subseteq Items /\ Nil \notin Contents /\ key \in [Items -> Nat]
  BY ContentsAreItems DEF TInv
<1>7. f # Nil /\ Live' \subseteq Live \cup {f}
  BY <1>1, <1>2, <1>3, <1>5, NilAssumption DEF Live
<1>8. \A p \in Requests \ {q} : /\ conn'[p] = conn[p] /\ timer'[p] = timer[p] /\ due'[p] = due[p]
                                /\ ~InService(p) /\ ~InService(p)'
  BY <1>1, <1>3 DEF InService
<1>9. /\ conn'[q] = "open" /\ timer'[q] = f /\ due'[q] = clock + timeout /\ ~InService(q)'
      /\ rq'[f] = q /\ key'[f] = clock + timeout
  BY <1>1, <1>2, <1>3, <1>5, <1>6 DEF InService
<1>10. \A n \in Items \ {f} : rq'[n] = rq[n] /\ key'[n] = key[n]
  BY <1>1, <1>3, <1>5, <1>6
<1>11. TimersOK'
  <2>1. Contents' \subseteq alloc'
    BY <1>3, <1>5 DEF TInv, TimersOK
  <2>2. ASSUME NEW p \in Requests
        PROVE  IF Waiting(p)' THEN /\ timer'[p] \in alloc' /\ rq'[timer'[p]] = p
                                   /\ timer'[p] \in deleted' <=> InService(p)'
                              ELSE timer'[p] = Nil
    <3>1. CASE p = q
      BY <1>1, <1>2, <1>3, <1>9, <3>1 DEF Waiting
    <3>2. CASE p # q
      <4>1. Waiting(p)' <=> Waiting(p)
        BY <1>8, <3>2 DEF Waiting
      <4>2. CASE Waiting(p)
        <5>1. timer[p] \in alloc /\ rq[timer[p]] = p /\ timer[p] \notin deleted
          BY <1>8, <3>2, <4>2 DEF TInv, TimersOK
        <5>. QED
          BY <1>1, <1>2, <1>3, <1>8, <1>10, <3>2, <4>1, <4>2, <5>1
      <4>3. CASE ~Waiting(p)
        BY <1>8, <3>2, <4>1, <4>3 DEF TInv, TimersOK
      <4>. QED
        BY <4>2, <4>3
    <3>. QED
      BY <3>1, <3>2
  <2>3. ASSUME NEW n \in Live'
        PROVE  /\ rq'[n] \in Requests /\ Waiting(rq[n])'
               /\ timer'[rq'[n]] = n /\ key'[n] = due'[rq'[n]]
    <3>1. CASE n = f
      BY <1>9, <3>1 DEF Waiting
    <3>2. CASE n # f
      <4>1. n \in Live /\ n \in Items \ {f} /\ n \notin deleted
        BY <1>6, <1>7, <2>3, <3>2 DEF Live
      <4>2. /\ rq[n] \in Requests /\ Waiting(rq[n]) /\ timer[rq[n]] = n /\ key[n] = due[rq[n]]
        BY <4>1 DEF TInv, TimersOK
      <4>3. rq[n] # q
        BY <4>1, <4>2
      <4>. QED
        BY <1>8, <1>10, <4>1, <4>2, <4>3 DEF Waiting
    <3>. QED
      BY <3>1, <3>2
  <2>. QED
    BY <1>1, <2>1, <2>2, <2>3 DEF TimersOK
<1>12. TypeOK'
  BY <1>1, <1>2, <1>3, <1>4, <1>5 DEF TInv, TypeOK, HeapInv
<1>13. PhaseOK'
  BY <1>1, <1>5 DEF PhaseOK
<1>14. SleepOK'
  BY DEF SleepOK
<1>15. OnlyLateEventsCrash'
  <2>1. \A p \in batch' \ {Listener} : p \in Requests /\ conn'[p] = conn[p] /\ due'[p] = due[p]
    BY <1>8 DEF TInv, TypeOK
  <2>. QED
    BY <2>1 DEF TInv, OnlyLateEventsCrash
<1>. QED
  BY <1>5, <1>11, <1>12, <1>13, <1>14, <1>15 DEF TInv

LEMMA AcceptTInv ==
  ASSUME TInv, NEW q \in Requests, Accept(q)
  PROVE  TInv'
<1>1. PICK timeout \in Timeouts : AddTimer(q, timeout)
  BY DEF Accept
<1>2. /\ pc = "handle" /\ conn[q] = "none" /\ conn' = [conn EXCEPT ![q] = "open"]
      /\ UNCHANGED <<pc, node, time, batch, r, clock>>
  BY DEF Accept, loop
<1>3. q \notin batch /\ ~Waiting(q) /\ r \in Requests \cup {Nil}
  BY <1>2, RequestsAssumption DEF TInv, OnlyLateEventsCrash, Waiting, TypeOK
<1>. QED
  BY <1>1, <1>2, <1>3, AddTimerTInv

LEMMA ServeKeepsTInv ==
  ASSUME TInv, ServeKeeps
  PROVE  TInv'
<1>1. PICK timeout \in Timeouts : AddTimer(r, timeout)
  BY DEF ServeKeeps
<1>2. pc = "serve" /\ pc' = "handle" /\ r' = Nil /\ UNCHANGED <<conn, node, time, batch, clock>>
  BY DEF ServeKeeps
<1>3. r \in Requests \ batch /\ conn[r] = "open" /\ timer[r] \in deleted
  BY <1>2 DEF TInv, PhaseOK, TimersOK, Waiting, InService
<1>4. conn' = [conn EXCEPT ![r] = "open"]
  BY <1>2, <1>3 DEF TInv, TypeOK
<1>. QED
  BY <1>1, <1>2, <1>3, <1>4, AddTimerTInv

LEMMA HandleBrokenTInv ==
  ASSUME TInv, NEW q \in Requests, HandleBroken(q)
  PROVE  TInv'
<1>1. /\ pc = "handle" /\ op = "none" /\ conn[q] = "open" /\ conn' = [conn EXCEPT ![q] = "broken"]
      /\ batch' = batch \ {q}
      /\ UNCHANGED heap /\ UNCHANGED <<alloc, deleted, rq, timer, pc, node, time, r, clock, due>>
  BY DEF HandleBroken, timers, Ready
<1>2. HeapInv' /\ Contents' = Contents /\ UNCHANGED <<op, key>>
  BY <1>1, SameHeap DEF TInv
<1>3. conn \in [Requests -> {"none", "open", "broken", "freed"}]
  BY DEF TInv, TypeOK
<1>4. /\ \A p \in Requests : /\ Waiting(p)' <=> Waiting(p)
                             /\ InService(p)' <=> InService(p)
      /\ \A p \in Requests \ {q} : conn'[p] = conn[p]
  BY <1>1, <1>3 DEF Waiting, InService
<1>5. Live' = Live
  BY <1>1, <1>2 DEF Live
<1>6. TimersOK'
  BY <1>1, <1>2, <1>4, <1>5 DEF TInv, TimersOK
<1>7. TypeOK' /\ PhaseOK' /\ SleepOK'
  BY <1>1, <1>2, <1>3 DEF TInv, TypeOK, HeapInv, PhaseOK, SleepOK
<1>8. OnlyLateEventsCrash'
  BY <1>1, <1>4 DEF TInv, TypeOK, OnlyLateEventsCrash
<1>. QED
  BY <1>2, <1>6, <1>7, <1>8 DEF TInv

LEMMA HandleDataTInv ==
  ASSUME TInv, NEW q \in Requests, HandleData(q)
  PROVE  TInv'
<1>1. /\ pc = "handle" /\ pc' = "serve" /\ op = "none" /\ conn[q] = "open" /\ r' = q
      /\ batch' = batch \ {q} /\ deleted' = deleted \cup {timer[q]}
      /\ UNCHANGED heap /\ UNCHANGED <<alloc, rq, timer, conn, node, time, clock, due>>
  BY DEF HandleData, DelTimer, Ready
<1>2. HeapInv' /\ Contents' = Contents /\ UNCHANGED <<op, key>>
  BY <1>1, SameHeap DEF TInv
<1>3. /\ \A p \in Requests : Waiting(p)' <=> Waiting(p)
      /\ \A p \in Requests : ~InService(p) /\ (InService(p)' <=> p = q)
      /\ Live' = Live \ {timer[q]} /\ Waiting(q)
  BY <1>1, <1>2 DEF Waiting, InService, Live
<1>4. timer[q] \in alloc /\ rq[timer[q]] = q
  BY <1>3 DEF TInv, TimersOK
<1>5. TimersOK'
  BY <1>1, <1>2, <1>3, <1>4 DEF TInv, TimersOK
<1>6. TypeOK' /\ SleepOK'
  BY <1>1, <1>2, <1>4 DEF TInv, TypeOK, HeapInv, SleepOK
<1>7. PhaseOK'
  BY <1>1, <1>2 DEF TInv, PhaseOK
<1>8. OnlyLateEventsCrash'
  BY <1>1 DEF TInv, OnlyLateEventsCrash
<1>. QED
  BY <1>2, <1>5, <1>6, <1>7, <1>8 DEF TInv

LEMMA ServeClosesTInv ==
  ASSUME TInv, ServeCloses
  PROVE  TInv'
<1>1. /\ pc = "serve" /\ pc' = "handle" /\ r' = Nil
      /\ conn' = [conn EXCEPT ![r] = "freed"] /\ timer' = [timer EXCEPT ![r] = Nil]
      /\ due' = IF r \in batch THEN due ELSE [due EXCEPT ![r] = 0]
      /\ UNCHANGED heap /\ UNCHANGED <<alloc, deleted, rq, node, time, batch, clock>>
  BY DEF ServeCloses, FreeRequest
<1>2. HeapInv' /\ Contents' = Contents /\ UNCHANGED <<op, key>>
  BY <1>1, SameHeap DEF TInv
<1>3. /\ conn \in [Requests -> {"none", "open", "broken", "freed"}]
      /\ timer \in [Requests -> Items \cup {Nil}] /\ due \in [Requests -> Nat]
      /\ r \in Requests \ batch /\ Waiting(r) /\ timer[r] \in deleted
  BY <1>1 DEF TInv, TypeOK, PhaseOK, TimersOK, Waiting, InService
<1>4. /\ conn'[r] = "freed" /\ timer'[r] = Nil
      /\ \A p \in Requests \ {r} : /\ conn'[p] = conn[p] /\ timer'[p] = timer[p] /\ due'[p] = due[p]
                                   /\ Waiting(p)' <=> Waiting(p)
                                   /\ ~InService(p) /\ ~InService(p)'
  BY <1>1, <1>3 DEF Waiting, InService
<1>5. Live' = Live
  BY <1>1, <1>2 DEF Live
<1>6. node = Nil
  BY <1>1 DEF TInv, PhaseOK
<1>7. TimersOK'
  <2>1. ASSUME NEW n \in Live
        PROVE  /\ rq[n] \in Requests \ {r} /\ Waiting(rq[n])
               /\ timer[rq[n]] = n /\ key[n] = due[rq[n]]
    BY <1>3, <2>1 DEF TInv, TimersOK, Live
  <2>2. ASSUME NEW n \in Live'
        PROVE  /\ rq'[n] \in Requests /\ Waiting(rq[n])'
               /\ timer'[rq'[n]] = n /\ key'[n] = due'[rq'[n]]
    <3>1. conn'[rq[n]] = conn[rq[n]]
      BY <1>4, <1>5, <2>1
    <3>. QED
      BY <1>1, <1>2, <1>4, <1>5, <2>1, <3>1 DEF Waiting
  <2>3. ASSUME NEW p \in Requests
        PROVE  IF Waiting(p)' THEN /\ timer'[p] \in alloc' /\ rq'[timer'[p]] = p
                                   /\ timer'[p] \in deleted' <=> InService(p)'
                              ELSE timer'[p] = Nil
    <3>1. CASE p = r
      BY <1>4, <3>1 DEF Waiting
    <3>2. CASE p # r
      BY <1>1, <1>4, <3>2 DEF TInv, TimersOK
    <3>. QED
      BY <3>1, <3>2
  <2>. QED
    BY <1>1, <1>2, <1>6, <2>2, <2>3 DEF TInv, TimersOK
<1>8. TypeOK'
  BY <1>1, <1>2, <1>3 DEF TInv, TypeOK, HeapInv
<1>9. PhaseOK' /\ SleepOK'
  BY <1>1, <1>2, <1>6 DEF TInv, PhaseOK, SleepOK
<1>10. OnlyLateEventsCrash'
  <2>1. \A p \in batch \ {Listener} : p \in Requests \ {r}
    BY <1>3 DEF TInv, TypeOK
  <2>. QED
    BY <1>1, <1>4, <2>1 DEF TInv, OnlyLateEventsCrash
<1>. QED
  BY <1>2, <1>7, <1>8, <1>9, <1>10 DEF TInv

\* A crash for want of memory leaves everything as it was.
LEMMA CrashTInv ==
  ASSUME TInv, AddTimerCrashes
  PROVE  TInv'
<1>1. /\ pc \in {"serve", "handle"} /\ pc' = "crashed" /\ UNCHANGED heap
      /\ UNCHANGED <<alloc, deleted, rq, timer, conn, node, time, batch, r, clock, due>>
      /\ pc = "handle" => op = "none"
  BY DEF AddTimerCrashes, timers, Ready
<1>2. HeapInv' /\ Contents' = Contents /\ UNCHANGED <<op, key>>
  BY <1>1, SameHeap DEF TInv
<1>3. TimersOK'
  BY <1>1, <1>2 DEF TInv, TimersOK, Live, Waiting
<1>4. TypeOK' /\ PhaseOK' /\ SleepOK' /\ OnlyLateEventsCrash'
  BY <1>1, <1>2 DEF TInv, TypeOK, HeapInv, PhaseOK, SleepOK, OnlyLateEventsCrash
<1>. QED
  BY <1>2, <1>3, <1>4 DEF TInv

LEMMA StepTInv ==
  ASSUME TInv, [Next]_tvars
  PROVE  TInv'
<1>1. CASE UNCHANGED tvars
  BY <1>1, StutterTInv
<1>2. CASE HeapRuns
  BY <1>2, HeapRunsTInv
<1>3. CASE Finder \/ Wakes \/ Expirer \/ Tick
  BY <1>3, QuietTInv, DropTInv, FireTInv, FreeNodeTInv DEF Finder, Expirer, Quiet
<1>4. CASE Handler
  BY <1>4, AcceptTInv, HandleBrokenTInv, HandleDataTInv, ServeKeepsTInv, ServeClosesTInv, QuietTInv,
     CrashTInv
     DEF Handler, Quiet
<1>. QED
  BY <1>1, <1>2, <1>3, <1>4 DEF Next, Server

LEMMA TimerInductive == Spec => []TInv
<1>1. TInv /\ [Next]_tvars => TInv'
  BY StepTInv
<1>. QED
  BY InitTInv, <1>1, PTL DEF Spec

-----------------------------------------------------------------------------
(* The theorems *)

\* Every variable of the timers and of the heap under them has its type.
THEOREM TimersTyped == Spec => []TypeOK
BY TimerInductive, PTL DEF TInv

\* The calls timer.c makes leave the heap of src/priority_queue.c in order.
THEOREM TimersKeepTheHeap == Spec => []HeapOrder
BY TimerInductive, PTL DEF TInv, HeapInv

\* lan_add_timer and lan_del_timer leave each waiting connection with the one timer
\* its request points to, and a connection that is gone with none.
THEOREM OneTimer == Spec => []OneTimerEach
<1>1. TInv => OneTimerEach
  BY DEF TInv, TimersOK, OneTimerEach, Waiting
<1>. QED
  BY <1>1, TimerInductive, PTL

\* What lan_find_timer gives epoll_wait ends with the first timer that is set.
THEOREM WakesForTheFirst == Spec => []SleepsToTheFirst
<1>1. TInv => SleepsToTheFirst
  BY DEF TInv, SleepOK, SleepsToTheFirst
<1>. QED
  BY <1>1, TimerInductive, PTL

\* The only event that meets a freed request is that of a connection whose timer ran
\* out after the event was fetched.
THEOREM NoOtherCrash == Spec => []OnlyLateEventsCrash
BY TimerInductive, PTL DEF TInv

\* lan_handle_expire_timers closes no connection before its time.
THEOREM NeverEarly == Spec => NotBeforeDue
<1> DEFINE Due == \A q \in Requests :
                    pc = "expire" /\ conn[q] # "freed" /\ conn'[q] = "freed" => due[q] <= clock
<1>1. ASSUME TInv, [Next]_tvars
      PROVE  [Due]_tvars
  <2>1. CASE ExpireFires
    <3>1. /\ Min \in Contents \ deleted /\ key[Min] <= clock + 0 /\ pc = "expire"
          /\ conn' = [conn EXCEPT ![rq[Min]] = "freed"]
      BY <1>1, <2>1, FirstIsLeast DEF TInv, ExpireFires, ExpireAnyway, FreeRequest, Ready
    <3>2. Min \in Live /\ clock \in Nat
      BY <1>1, <3>1, ContentsAreItems DEF TInv, PhaseOK, Live, TypeOK
    <3>3. /\ rq[Min] \in Requests /\ key[Min] = due[rq[Min]]
          /\ conn \in [Requests -> {"none", "open", "broken", "freed"}]
          /\ due \in [Requests -> Nat]
      BY <1>1, <3>2 DEF TInv, TimersOK, TypeOK
    <3>4. due[rq[Min]] <= clock
      BY <3>1, <3>2, <3>3, SMT
    <3>. QED
      BY <3>1, <3>3, <3>4
  <2>2. CASE UNCHANGED conn \/ pc # "expire"
    BY <2>2
  <2>. QED
    BY <1>1, <2>1, <2>2 DEF Next, Server, Finder, Expirer, Handler, HeapRuns, FindNothing,
       FindDeleted, FindFrees, FindMin, Wakes, ExpireDeleted, ExpireFrees, ExpireDone, Accept,
       HandleFreed, HandleBroken, HandleData, AcceptsDone, ServeKeeps, ServeCloses, HandleDone,
       AddTimerCrashes, Tick, tvars
<1>. QED
  BY <1>1, TimerInductive, PTL DEF Spec, NotBeforeDue

\* Seen through the calls of timer.c, the heap is an ordered bag: that a node is freed
\* is the only thing that happens to it otherwise.
THEOREM TimersUseABag == Spec => ImplementsOrderedBag
<1>1. Init => Bag!BagInit
  BY BagInitially DEF Init
<1>2. ASSUME TInv, TInv', [Next]_tvars
      PROVE  [Bag!BagNext]_<<BagOf, TopOf, key>>
  <2>1. CASE [HeapNext]_heap
    BY <1>2, <2>1, BagStep DEF TInv
  <2>2. CASE FindFrees \/ ExpireFrees
    <3>1. /\ key' = [key EXCEPT ![node] = 0] /\ op = "none"
          /\ UNCHANGED <<pq, nalloc, size, op, k>> /\ pc \in {"findfree", "expirefree"}
      BY <2>2 DEF FindFrees, ExpireFrees, FreeNode, Ready
    <3>2. node \in Items \ Contents /\ key \in [Items -> Nat]
      BY <1>2, <3>1, ContentsAreItems DEF TInv, PhaseOK, TypeOK
    <3>3. BagOf = Contents /\ UNCHANGED <<BagOf, TopOf>>
      BY <3>1 DEF BagOf, TopOf, Pending, Going, Contents, Used
    <3>4. Bag!Wait(node)
      BY <3>1, <3>2, <3>3, SMT DEF Bag!Wait, Bag!SetKey
    <3>. QED
      BY <3>2, <3>4 DEF Bag!BagNext
  <2>3. ASSUME NEW q \in Requests, NEW timeout \in Timeouts, AddTimer(q, timeout)
        PROVE  [HeapNext]_heap
    <3>1. alloc \subseteq Items /\ clock \in Nat /\ timeout \in Nat
      BY <1>2, TimesAssumption DEF TInv, TypeOK
    <3>2. Fresh \in Items /\ clock + timeout \in Nat
      BY <2>3, <3>1, SMT DEF AddTimer, Fresh
    <3>. QED
      BY <2>3, <3>2 DEF AddTimer, HeapNext
  <2>4. CASE \E q \in Requests : Accept(q)
    BY <2>1, <2>3, <2>4 DEF Accept
  <2>5. CASE ServeKeeps
    <3>1. r \in Requests
      BY <1>2, <2>5 DEF ServeKeeps, TInv, PhaseOK
    <3>. QED
      BY <2>1, <2>3, <2>5, <3>1 DEF ServeKeeps
  <2>. QED
    BY <1>2, <2>1, <2>2, <2>4, <2>5 DEF Next, Server, Finder, Expirer, Handler, HeapRuns, HeapNext,
       FindNothing, FindDeleted, FindMin, Wakes, ExpireDeleted, ExpireFires, ExpireAnyway,
       ExpireDone, HandleFreed, HandleBroken, HandleData, AcceptsDone, ServeCloses, HandleDone,
       AddTimerCrashes, Tick, tvars
<1>. QED
  BY <1>1, <1>2, TimerInductive, PTL DEF Spec, ImplementsOrderedBag, Bag!BagSpec, Bag!bagVars
=============================================================================
