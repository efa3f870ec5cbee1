-------------------------- MODULE ThreadPoolProofs --------------------------
(***************************************************************************)
(* The safety of the thread pool for any number of workers, of tasks and   *)
(* of callers of threadpool_add and threadpool_destroy, and every fault    *)
(* the model admits.                                                       *)
(*                                                                         *)
(* That a graceful shutdown drains the queue rests on the life cycle of    *)
(* the workers: the first one to exit saw an empty queue under the lock,   *)
(* nothing is added after that, and what the others had taken they run     *)
(* before they exit in turn.                                               *)
(*                                                                         *)
(* The last part shows that the pool implements TaskPool, step by step.    *)
(***************************************************************************)
EXTENDS ThreadPool, TLAPS, FiniteSetTheorems

\* Threads that were created and have not exited.
Running == {w \in Workers : wpc[w] \in {"lock", "check", "wait", "run"}}

CountsOK ==
  /\ Len(queue) <= queueSize
  /\ started = Cardinality(Running)

\* Nobody shuts down a pool that is being set up; only threadpool_init itself
\* shuts down one that could not be.
InitOK ==
  /\ init = "creating" => shutdown = 0 /\ \A d \in Closers : dpc[d] = "idle"
  /\ init = "ready" => Created = Workers
  /\ init = "failed" => \A d \in Destroyers : dpc[d] = "idle"
  /\ dgrace[Main] = Immediate

\* A worker holds a task exactly while it runs it, and sleeps only in wait.
WorkersOK ==
  /\ \A w \in Workers : wpc[w] = "run" <=> hand[w] # Nobody
  /\ \A w \in waiting : wpc[w] = "wait"

\* The caller that announced the shutdown is the one that joins.
ShutdownOK ==
  \A d \in Closers : dpc[d] = "join" \/ (dpc[d] = "done" /\ dres[d] = Ok) =>
    shutdown = dgrace[d]

\* Workers exit on an empty queue, or leave it to an immediate shutdown.
ExitOK ==
  \A w \in Workers : wpc[w] = "exited" =>
    shutdown = Immediate \/ (shutdown = Graceful /\ queueSize = 0)

\* Nothing is accepted before its threadpool_add returns.
AddOK == \A t \in Tasks : t \in accepted => apc[t] = "done"

ControlOK == InitOK /\ WorkersOK /\ ShutdownOK /\ ExitOK /\ AddOK

\* Who is inside a critical section has the mutex.
MutexOK ==
  /\ \A w \in Workers : wpc[w] = "check" => lock = w
  /\ \A t \in Tasks : apc[t] = "held" => lock = t
  /\ \A d \in Closers : dpc[d] = "held" => lock = d

IInv == /\ TypeOK /\ CountsOK /\ ControlOK /\ OnePlace
        /\ NoSleeperAfterShutdown /\ NoWorkerAfterDestroy

-----------------------------------------------------------------------------
(* The queue: a task is added and taken at the head. *)

LEMMA PushFacts ==
  ASSUME NEW q \in Seq(Tasks), NEW t \in Tasks
  PROVE  /\ <<t>> \o q \in Seq(Tasks)
         /\ Len(<<t>> \o q) = Len(q) + 1
         /\ \A i \in 1 .. Len(q) + 1 : (<<t>> \o q)[i] = IF i = 1 THEN t ELSE q[i - 1]
  OBVIOUS

LEMMA PopFacts ==
  ASSUME NEW q \in Seq(Tasks), q # <<>>
  PROVE  /\ Head(q) = q[1] /\ Head(q) \in Tasks
         /\ Tail(q) \in Seq(Tasks)
         /\ Len(Tail(q)) = Len(q) - 1 /\ Len(q) \in Nat \ {0}
         /\ \A i \in 1 .. Len(q) - 1 : Tail(q)[i] = q[i + 1]
  OBVIOUS

LEMMA PushQueue ==
  ASSUME queue \in Seq(Tasks), NEW t \in Tasks, queue' = <<t>> \o queue
  PROVE  \A u \in Tasks : InQueue(u)' <=> u = t \/ InQueue(u)
<1>1. /\ queue' \in Seq(Tasks) /\ Len(queue') = Len(queue) + 1 /\ Len(queue) \in Nat
      /\ \A i \in 1 .. Len(queue) + 1 : queue'[i] = IF i = 1 THEN t ELSE queue[i - 1]
  BY PushFacts
<1>2. DOMAIN queue' = 1 .. Len(queue) + 1 /\ DOMAIN queue = 1 .. Len(queue)
  BY <1>1
<1>3. queue'[1] = t /\ \A i \in 1 .. Len(queue) : i + 1 \in DOMAIN queue' /\ queue'[i + 1] = queue[i]
  BY <1>1, <1>2
<1>4. \A i \in DOMAIN queue' : queue'[i] = t \/ (i - 1 \in DOMAIN queue /\ queue'[i] = queue[i - 1])
  BY <1>1, <1>2
<1>5. 1 \in DOMAIN queue'
  BY <1>1, <1>2
<1>. QED
  BY <1>2, <1>3, <1>4, <1>5 DEF InQueue

LEMMA PopQueue ==
  ASSUME queue \in Seq(Tasks), OnePlace, queue # <<>>, queue' = Tail(queue)
  PROVE  /\ queue[1] \in Tasks /\ InQueue(queue[1])
         /\ \A u \in Tasks : InQueue(u)' <=> InQueue(u) /\ u # queue[1]
<1>1. /\ queue[1] \in Tasks /\ Len(queue) \in Nat \ {0} /\ Len(queue') = Len(queue) - 1
      /\ queue' \in Seq(Tasks) /\ \A i \in 1 .. Len(queue) - 1 : queue'[i] = queue[i + 1]
  BY PopFacts
<1>2. /\ DOMAIN queue = 1 .. Len(queue) /\ DOMAIN queue' = 1 .. Len(queue) - 1
      /\ \A i, j \in DOMAIN queue : queue[i] = queue[j] => i = j
  BY <1>1 DEF OnePlace
<1>3. \A i \in DOMAIN queue' : i + 1 \in DOMAIN queue /\ i + 1 # 1 /\ queue'[i] = queue[i + 1]
  BY <1>1, <1>2
<1>4. \A i \in DOMAIN queue : i = 1 \/ (i - 1 \in DOMAIN queue' /\ queue'[i - 1] = queue[i])
  BY <1>1, <1>2
<1>5. 1 \in DOMAIN queue
  BY <1>1, <1>2
<1>6. ASSUME NEW u \in Tasks
      PROVE  InQueue(u)' <=> InQueue(u) /\ u # queue[1]
  <2>1. ASSUME NEW i \in DOMAIN queue', queue'[i] = u
        PROVE  InQueue(u) /\ u # queue[1]
    BY <1>2, <1>3, <1>5, <2>1 DEF InQueue
  <2>2. ASSUME NEW i \in DOMAIN queue, queue[i] = u, u # queue[1]
        PROVE  InQueue(u)'
    BY <1>4, <2>2 DEF InQueue
  <2>. QED
    BY <2>1, <2>2 DEF InQueue
<1>7. InQueue(queue[1])
  BY <1>5 DEF InQueue
<1>. QED
  BY <1>1, <1>6, <1>7

\* What the rest of the invariant needs to know of the shutdown: once the caller
\* that announced it has joined the workers, a graceful one has left no task.
LEMMA DrainedWhenJoined ==
  ASSUME IInv, NEW d \in Closers, shutdown = dgrace[d], dgrace[d] = Graceful,
         dpc[d] # "idle", \A w \in Created : wpc[w] = "exited"
  PROVE  queue = <<>> /\ \A w \in Workers : hand[w] = Nobody
<1>1. d # Main /\ d \in Destroyers
  BY DEF IInv, ControlOK, InitOK, Immediate, Graceful, Closers
<1>2. init = "ready"
  BY <1>1 DEF IInv, TypeOK, ControlOK, InitOK
<1>3. \A w \in Workers : wpc[w] = "exited"
  BY <1>2 DEF IInv, ControlOK, InitOK
<1>4. queueSize = 0
  BY <1>3, FiniteAssumption DEF IInv, ControlOK, ExitOK, Immediate, Graceful
<1>5. queue = <<>>
  BY <1>4 DEF IInv, TypeOK, CountsOK
<1>6. QED
  BY <1>3, <1>5 DEF IInv, ControlOK, WorkersOK

LEMMA RunningFinite == IsFiniteSet(Running) /\ Cardinality(Running) \in Nat
<1>1. Running \subseteq Workers
  BY DEF Running
<1>2. IsFiniteSet(Running)
  BY <1>1, FiniteAssumption, FS_Subset
<1>3. QED
  BY <1>2, FS_CardinalityType

\* The mutex excludes, and is never unlocked once a call has left it locked.
LEMMA MutexStep ==
  ASSUME IInv, MutexOK, [Next]_vars
  PROVE  MutexOK' /\ (LockAbandoned => LockAbandoned')
<1>1. Nobody \notin Threads /\ Workers \cap Tasks = {} /\ Workers \cap Closers = {}
      /\ Tasks \cap Closers = {}
  BY NobodyAssumption, DistinctAssumption
<1>2. /\ wpc \in [Workers -> {"none", "lock", "check", "wait", "run", "exited"}]
      /\ apc \in [Tasks -> {"idle", "lock", "held", "done"}]
      /\ dpc \in [Closers -> {"idle", "lock", "held", "join", "done"}]
  BY DEF IInv, TypeOK
<1> USE DEF MutexOK, LockAbandoned, Threads
<1>3. ASSUME UNCHANGED <<lock, apc, dpc>>, NEW w \in Workers,
             NEW pc \in {"lock", "run", "none", "wait", "exited"}, wpc' = [wpc EXCEPT ![w] = pc]
      PROVE  MutexOK' /\ (LockAbandoned => LockAbandoned')
  BY <1>2, <1>3
<1>4. ASSUME NEW w \in Workers, CreateThread(w) \/ WorkerRuns(w)
      PROVE  MutexOK' /\ (LockAbandoned => LockAbandoned')
  BY <1>3, <1>4 DEF CreateThread, WorkerRuns, calls
<1>5. ASSUME NEW w \in Workers, WorkerLocks(w)
      PROVE  MutexOK' /\ (LockAbandoned => LockAbandoned')
  BY <1>1, <1>2, <1>5 DEF WorkerLocks, Free, calls
<1>6. ASSUME NEW w \in Workers, WorkerWaits(w) \/ WorkerExits(w) \/ WorkerTakes(w)
      PROVE  MutexOK' /\ (LockAbandoned => LockAbandoned')
  <2>1. /\ lock = w /\ lock' = Nobody /\ UNCHANGED <<apc, dpc>>
        /\ \E pc \in {"wait", "exited", "lock", "run"} : wpc' = [wpc EXCEPT ![w] = pc]
    BY <1>6 DEF WorkerWaits, WorkerExits, WorkerTakes, calls
  <2>2. QED
    BY <1>1, <1>2, <2>1
<1>7. ASSUME NEW t \in Tasks, Add(t) \/ AddTooLate(t)
      PROVE  MutexOK' /\ (LockAbandoned => LockAbandoned')
  BY <1>2, <1>7 DEF Add, AddTooLate, AddReturns
<1>8. ASSUME NEW t \in Tasks, AddLocks(t)
      PROVE  MutexOK' /\ (LockAbandoned => LockAbandoned')
  BY <1>1, <1>2, <1>8 DEF AddLocks, Free
<1>9. ASSUME NEW t \in Tasks, AddRefused(t) \/ AddNoMem(t) \/ AddPush(t)
      PROVE  MutexOK' /\ (LockAbandoned => LockAbandoned')
  <2>1. /\ lock = t /\ lock' = Nobody /\ UNCHANGED <<wpc, dpc>>
        /\ apc' = [apc EXCEPT ![t] = "done"]
    BY <1>9 DEF AddRefused, AddNoMem, AddPush, AddReturns
  <2>2. QED
    BY <1>1, <1>2, <2>1
<1>10. ASSUME NEW d \in Closers, Destroy(d) \/ DestroyTooLate(d) \/ DestroyFrees(d)
       PROVE  MutexOK' /\ (LockAbandoned => LockAbandoned')
  <2>1. /\ UNCHANGED <<lock, wpc, apc>> /\ dpc[d] # "done"
        /\ \E pc \in {"lock", "done"} : dpc' = [dpc EXCEPT ![d] = pc]
    BY <1>10 DEF Destroy, DestroyTooLate, DestroyFrees, DestroyReturns
  <2>2. QED
    BY <1>2, <2>1
<1>11. ASSUME NEW d \in Closers, DestroyLocks(d)
       PROVE  MutexOK' /\ (LockAbandoned => LockAbandoned')
  BY <1>1, <1>2, <1>11 DEF DestroyLocks, Free
<1>12. ASSUME NEW d \in Closers, DestroyAgain(d) \/ DestroyBroadcastFails(d)
       PROVE  MutexOK' /\ (LockAbandoned => LockAbandoned')
  BY <1>2, <1>12 DEF DestroyAgain, DestroyBroadcastFails, DestroyReturns
<1>13. ASSUME NEW d \in Closers, DestroyShuts(d)
       PROVE  MutexOK' /\ (LockAbandoned => LockAbandoned')
  BY <1>1, <1>2, <1>13 DEF DestroyShuts
<1>14. CASE CreateFails
  <2>1. /\ UNCHANGED <<lock, wpc, apc>> /\ dpc' = [dpc EXCEPT ![Main] = "lock"]
        /\ \A d \in Closers : dpc[d] = "idle"
    BY <1>14 DEF CreateFails, IInv, ControlOK, InitOK
  <2>2. QED
    BY <1>2, <2>1
<1>15. CASE InitReturns \/ UNCHANGED vars \/ \E w \in Workers : SpuriousWakeup(w)
  BY <1>15 DEF InitReturns, SpuriousWakeup, vars, calls
<1>16. QED
  BY <1>4, <1>5, <1>6, <1>7, <1>8, <1>9, <1>10, <1>11, <1>12, <1>13, <1>14, <1>15
     DEF Next, Worker, Adder, Closer

LEMMA InitIInv == Init => IInv /\ MutexOK
<1> SUFFICES ASSUME Init PROVE IInv /\ MutexOK
  OBVIOUS
<1>1. Running = {}
  BY DEF Init, Running
<1>2. Cardinality(Running) = 0
  BY <1>1, FS_EmptySet
<1>3. TypeOK
  BY SpuriousAssumption DEF Init, TypeOK, Ok, Immediate, Graceful, AlreadyShutdown, Closers, Threads
<1>4. CountsOK /\ ControlOK
  BY <1>2 DEF Init, CountsOK, ControlOK, InitOK, WorkersOK, ShutdownOK, ExitOK, AddOK,
     Created, Closers
<1>5. OnePlace /\ NoSleeperAfterShutdown /\ NoWorkerAfterDestroy
  BY NobodyAssumption
     DEF Init, Threads, OnePlace, InQueue, InHand, NoSleeperAfterShutdown, NoWorkerAfterDestroy
<1>6. MutexOK
  BY DEF Init, MutexOK
<1>7. QED
  BY <1>3, <1>4, <1>5, <1>6 DEF IInv

\* The frame of the invariant: a step that leaves the queue, the workers and the
\* shutdown alone keeps everything but what it says of callers.
LEMMA Frame ==
  ASSUME IInv, UNCHANGED <<pool, wpc, hand, accepted, ran>>, waiting' \subseteq waiting,
         LockAbandoned => LockAbandoned'
  PROVE  /\ CountsOK' /\ WorkersOK' /\ ExitOK' /\ OnePlace' /\ NoSleeperAfterShutdown'
         /\ Created' = Created
<1>1. Running' = Running /\ Created' = Created
  BY DEF Running, Created
<1>2. CountsOK' /\ WorkersOK' /\ ExitOK'
  BY <1>1 DEF pool, IInv, CountsOK, ControlOK, WorkersOK, ExitOK
<1>3. OnePlace'
  BY DEF pool, IInv, OnePlace, InQueue, InHand
<1>4. NoSleeperAfterShutdown'
  BY DEF pool, IInv, NoSleeperAfterShutdown
<1>5. QED
  BY <1>1, <1>2, <1>3, <1>4

\* A worker that moves between states that count as running changes no count.
LEMMA StillRunning ==
  ASSUME IInv, NEW w \in Workers, NEW pc \in {"lock", "check", "wait", "run"},
         w \in Running, wpc' = [wpc EXCEPT ![w] = pc]
  PROVE  Running' = Running /\ Created' = Created
BY DEF IInv, TypeOK, Running, Created

LEMMA StepIInv == IInv /\ MutexOK /\ [Next]_vars => IInv'
<1> SUFFICES ASSUME IInv, MutexOK, [Next]_vars PROVE IInv'
  OBVIOUS
<1> USE DEF Ok, Invalid, LockFail, AlreadyShutdown, CondBroadcast, Immediate, Graceful
<1>a. /\ TypeOK /\ CountsOK /\ InitOK /\ WorkersOK /\ ShutdownOK /\ ExitOK /\ AddOK
      /\ OnePlace /\ NoSleeperAfterShutdown /\ NoWorkerAfterDestroy
  BY DEF IInv, ControlOK
<1>c. LockAbandoned => LockAbandoned'
  BY MutexStep
<1>b. Main \in Closers /\ Destroyers \subseteq Closers
  BY DEF Closers
<1>1. ASSUME NEW w \in Workers, CreateThread(w) PROVE IInv'
  <2>1. Running' = Running \cup {w} /\ w \notin Running /\ w \notin Created
    BY <1>1, <1>a DEF CreateThread, TypeOK, Running, Created
  <2>2. Cardinality(Running') = Cardinality(Running) + 1
    BY <2>1, RunningFinite, FS_AddElement
  <2>3. TypeOK' /\ CountsOK'
    BY <1>1, <1>a, <2>2 DEF CreateThread, calls, TypeOK, CountsOK
  <2>4. ControlOK'
    BY <1>1, <1>a DEF CreateThread, calls, TypeOK, ControlOK, InitOK, WorkersOK, ShutdownOK,
       ExitOK, AddOK
  <2>5. OnePlace' /\ NoSleeperAfterShutdown' /\ NoWorkerAfterDestroy'
    BY <1>c, <1>1, <1>a DEF CreateThread, calls, TypeOK, InitOK, OnePlace, InQueue, InHand,
       NoSleeperAfterShutdown, NoWorkerAfterDestroy
  <2>6. QED
    BY <2>3, <2>4, <2>5 DEF IInv
<1>2. CASE CreateFails
  <2>1. /\ UNCHANGED <<mutex, lock, waiting, pool, wpc, hand, apc, ares, dgrace, dres, spurious,
                      accepted, ran>>
        /\ init = "creating" /\ init' = "failed" /\ dpc' = [dpc EXCEPT ![Main] = "lock"]
    BY <1>2 DEF CreateFails
  <2>2. /\ CountsOK' /\ WorkersOK' /\ ExitOK' /\ OnePlace' /\ NoSleeperAfterShutdown'
        /\ Created' = Created
    BY <1>c, <2>1, Frame
  <2>3. TypeOK'
    BY <2>1, <1>a, <1>b DEF pool, TypeOK
  <2>4. InitOK' /\ AddOK'
    BY <2>1, <1>a, <1>b, DistinctAssumption DEF pool, TypeOK, InitOK, AddOK
  <2>5. \A d \in Closers : dpc'[d] \in {"idle", "lock"}
    BY <2>1, <1>a, <1>b DEF TypeOK, InitOK
  <2>6. ShutdownOK' /\ NoWorkerAfterDestroy'
    BY <2>5 DEF ShutdownOK, NoWorkerAfterDestroy
  <2>7. QED
    BY <2>2, <2>3, <2>4, <2>6 DEF IInv, ControlOK
<1>3. CASE InitReturns
  BY <1>c, <1>3, <1>a, Frame DEF InitReturns, pool, calls, IInv, TypeOK, ControlOK, InitOK, ShutdownOK,
     AddOK, NoWorkerAfterDestroy
<1>4. ASSUME NEW t \in Tasks, Add(t) \/ AddLocks(t) \/ AddTooLate(t) \/ AddRefused(t) \/ AddNoMem(t)
      PROVE  IInv'
  <2>1. /\ UNCHANGED <<waiting, pool, init, wpc, hand, dpc, dgrace, dres, spurious, accepted, ran>>
        /\ apc' \in [Tasks -> {"idle", "lock", "held", "done"}]
        /\ ares' \in [Tasks -> {Ok, Invalid, AlreadyShutdown}]
        /\ \A u \in Tasks : apc[u] = "done" => apc'[u] = "done"
        /\ mutex' = mutex /\ lock' \in Threads \cup {Nobody}
    BY <1>4, <1>a DEF Add, AddLocks, AddTooLate, AddRefused, AddNoMem, AddReturns, TypeOK, Threads
  <2>2. QED
    BY <1>c, <2>1, <1>a, Frame DEF pool, IInv, TypeOK, ControlOK, InitOK, ShutdownOK,
       AddOK, NoWorkerAfterDestroy
<1>5. ASSUME NEW t \in Tasks, AddPush(t) PROVE IInv'
  <2>1. /\ queue' \in Seq(Tasks) /\ Len(queue') = Len(queue) + 1
        /\ \A i \in 1 .. Len(queue) + 1 : queue'[i] = IF i = 1 THEN t ELSE queue[i - 1]
    BY <1>5, <1>a, PushFacts DEF AddPush, TypeOK
  <2>2. waiting' \subseteq waiting
    BY <1>5 DEF AddPush, Signal
  <2>3. t \notin accepted /\ ~InQueue(t) /\ ~InHand(t) /\ ran[t] = 0
    BY <1>5, <1>a DEF AddPush, AddOK, OnePlace, TypeOK
  <2>4. TypeOK'
    BY <1>5, <1>a, <2>1, <2>2 DEF AddPush, AddReturns, TypeOK
  <2>5. Running' = Running /\ Created' = Created
    BY <1>5 DEF AddPush, Running, Created
  <2>6. CountsOK'
    BY <1>5, <1>a, <2>1, <2>5 DEF AddPush, TypeOK, CountsOK
  <2>7. ControlOK'
    BY <1>5, <1>a, <2>2, <2>5 DEF AddPush, AddReturns, TypeOK, ControlOK, InitOK, WorkersOK,
       ShutdownOK, ExitOK, AddOK
  <2>8. \A u \in Tasks : InQueue(u)' <=> u = t \/ InQueue(u)
    BY <1>5, <1>a, PushQueue DEF AddPush, TypeOK
  <2>9. \A i, j \in DOMAIN queue' : queue'[i] = queue'[j] => i = j
    <3> SUFFICES ASSUME NEW i \in DOMAIN queue', NEW j \in DOMAIN queue', queue'[i] = queue'[j]
                 PROVE  i = j
      OBVIOUS
    <3>1. i \in 1 .. Len(queue) + 1 /\ j \in 1 .. Len(queue) + 1 /\ Len(queue) \in Nat
      BY <1>a, <2>1 DEF TypeOK
    <3>2. \A k \in 1 .. Len(queue) : queue[k] # t
      BY <1>a, <2>3 DEF InQueue, TypeOK
    <3>3. \A k, l \in 1 .. Len(queue) : queue[k] = queue[l] => k = l
      BY <1>a DEF OnePlace, TypeOK
    <3>4. CASE i = 1 \/ j = 1
      <4>1. ASSUME NEW k \in 1 .. Len(queue) + 1, k # 1
            PROVE  queue'[k] # t
        <5>1. k - 1 \in 1 .. Len(queue) /\ queue'[k] = queue[k - 1]
          BY <2>1, <3>1, <4>1
        <5>. QED
          BY <3>2, <5>1
      <4>2. queue'[1] = t
        BY <2>1, <3>1
      <4>. QED
        BY <3>1, <3>4, <4>1, <4>2
    <3>5. CASE i # 1 /\ j # 1
      <4>1. /\ i - 1 \in 1 .. Len(queue) /\ j - 1 \in 1 .. Len(queue)
            /\ queue[i - 1] = queue[j - 1]
        BY <2>1, <3>1, <3>5
      <4>2. i - 1 = j - 1
        BY <3>3, <4>1
      <4>. QED
        BY <3>1, <4>2
    <3>6. QED
      BY <3>4, <3>5
  <2>10. OnePlace'
    BY <1>5, <1>a, <2>3, <2>8, <2>9 DEF AddPush, OnePlace, InHand, TypeOK
  <2>11. NoSleeperAfterShutdown' /\ NoWorkerAfterDestroy'
    BY <1>c, <1>5, <1>a, <2>5 DEF AddPush, AddReturns, NoSleeperAfterShutdown, NoWorkerAfterDestroy
  <2>12. QED
    BY <2>4, <2>6, <2>7, <2>10, <2>11 DEF IInv
<1>6. ASSUME NEW w \in Workers, SpuriousWakeup(w) PROVE IInv'
  <2>1. TypeOK' /\ waiting' \subseteq waiting
    BY <1>6, <1>a, SpuriousAssumption DEF SpuriousWakeup, pool, calls, TypeOK
  <2>2. QED
    BY <1>c, <1>6, <1>a, <2>1, Frame DEF SpuriousWakeup, pool, calls, IInv, ControlOK, InitOK, ShutdownOK,
       AddOK, NoWorkerAfterDestroy
<1>7. ASSUME NEW w \in Workers, WorkerLocks(w) PROVE IInv'
  <2>1. wpc[w] \in {"lock", "wait"} /\ w \notin waiting /\ wpc' = [wpc EXCEPT ![w] = "check"]
    BY <1>7, <1>a DEF WorkerLocks, WorkersOK
  <2>2. Running' = Running /\ Created' = Created /\ w \in Created
    BY <2>1, StillRunning DEF Running, Created
  <2>3. TypeOK' /\ CountsOK'
    BY <1>7, <1>a, <2>2 DEF WorkerLocks, pool, calls, TypeOK, CountsOK, Threads
  <2>4. ControlOK'
    BY <1>7, <1>a, <2>1, <2>2 DEF WorkerLocks, pool, calls, TypeOK, ControlOK, InitOK, WorkersOK,
       ShutdownOK, ExitOK, AddOK
  <2>5. OnePlace' /\ NoSleeperAfterShutdown'
    BY <1>c, <1>7, <1>a DEF WorkerLocks, pool, OnePlace, InQueue, InHand, NoSleeperAfterShutdown
  <2>6. NoWorkerAfterDestroy'
    BY <1>7, <1>a, <2>1, <2>2 DEF WorkerLocks, pool, calls, NoWorkerAfterDestroy
  <2>7. QED
    BY <2>3, <2>4, <2>5, <2>6 DEF IInv
<1>8. ASSUME NEW w \in Workers, WorkerWaits(w) PROVE IInv'
  <2>1. wpc[w] = "check" /\ wpc' = [wpc EXCEPT ![w] = "wait"] /\ shutdown = 0
    BY <1>8 DEF WorkerWaits
  <2>2. Running' = Running /\ Created' = Created /\ w \in Created
    BY <2>1, StillRunning DEF Running, Created
  <2>3. TypeOK' /\ CountsOK'
    BY <1>8, <1>a, <2>2 DEF WorkerWaits, pool, calls, TypeOK, CountsOK
  <2>4. ControlOK'
    BY <1>8, <1>a, <2>1, <2>2 DEF WorkerWaits, pool, calls, TypeOK, ControlOK, InitOK, WorkersOK,
       ShutdownOK, ExitOK, AddOK
  <2>5. OnePlace' /\ NoSleeperAfterShutdown'
    BY <1>c, <1>8, <1>a DEF WorkerWaits, pool, OnePlace, InQueue, InHand, NoSleeperAfterShutdown
  <2>6. NoWorkerAfterDestroy'
    BY <1>8, <1>a, <2>1, <2>2 DEF WorkerWaits, pool, calls, NoWorkerAfterDestroy
  <2>7. QED
    BY <2>3, <2>4, <2>5, <2>6 DEF IInv
<1>9. ASSUME NEW w \in Workers, WorkerExits(w) PROVE IInv'
  <2>1. wpc[w] = "check" /\ wpc' = [wpc EXCEPT ![w] = "exited"] /\ MustExit
    BY <1>9 DEF WorkerExits
  <2>2. Running' = Running \ {w} /\ w \in Running /\ Created' = Created /\ w \in Created
    BY <1>a, <2>1 DEF Running, Created, TypeOK
  <2>3. Cardinality(Running') = Cardinality(Running) - 1
    BY <2>2, RunningFinite, FS_RemoveElement
  <2>4. Cardinality(Running') \in Nat
    BY <2>2, RunningFinite, FS_RemoveElement, FS_CardinalityType
  <2>5. TypeOK' /\ CountsOK'
    BY <1>9, <1>a, <2>3, <2>4 DEF WorkerExits, calls, TypeOK, CountsOK
  <2>6. ControlOK'
    BY <1>9, <1>a, <2>1, <2>2 DEF WorkerExits, MustExit, calls, TypeOK, ControlOK, InitOK, WorkersOK,
       ShutdownOK, ExitOK, AddOK
  <2>7. OnePlace' /\ NoSleeperAfterShutdown'
    BY <1>c, <1>9, <1>a DEF WorkerExits, OnePlace, InQueue, InHand, NoSleeperAfterShutdown
  <2>8. NoWorkerAfterDestroy'
    BY <1>9, <1>a, <2>1, <2>2 DEF WorkerExits, calls, NoWorkerAfterDestroy
  <2>9. QED
    BY <2>5, <2>6, <2>7, <2>8 DEF IInv
<1>10. ASSUME NEW w \in Workers, WorkerTakes(w) PROVE IInv'
  <2>0. wpc[w] = "check" /\ hand[w] = Nobody
    BY <1>10, <1>a DEF WorkerTakes, WorkersOK
  <2>1. CASE queue = <<>>
    <3>1. wpc' = [wpc EXCEPT ![w] = "lock"] /\ UNCHANGED <<queue, queueSize, hand>>
      BY <1>10, <2>1 DEF WorkerTakes
    <3>2. Running' = Running /\ Created' = Created /\ w \in Created
      BY <2>0, <3>1, StillRunning DEF Running, Created
    <3>3. TypeOK' /\ CountsOK'
      BY <1>10, <1>a, <3>1, <3>2 DEF WorkerTakes, calls, TypeOK, CountsOK
    <3>4. ControlOK'
      BY <1>10, <1>a, <2>0, <3>1, <3>2 DEF WorkerTakes, calls, TypeOK, ControlOK, InitOK, WorkersOK,
         ShutdownOK, ExitOK, AddOK
    <3>5. OnePlace' /\ NoSleeperAfterShutdown'
      BY <1>c, <1>10, <1>a, <3>1 DEF WorkerTakes, OnePlace, InQueue, InHand, NoSleeperAfterShutdown
    <3>6. NoWorkerAfterDestroy'
      BY <1>10, <1>a, <2>0, <3>2 DEF WorkerTakes, calls, NoWorkerAfterDestroy
    <3>7. QED
      BY <3>3, <3>4, <3>5, <3>6 DEF IInv
  <2>2. CASE queue # <<>>
    <3>1. /\ hand' = [hand EXCEPT ![w] = queue[1]] /\ queue[1] \in Tasks
          /\ queue' \in Seq(Tasks) /\ Len(queue) \in Nat \ {0} /\ Len(queue') = Len(queue) - 1
          /\ \A i \in 1 .. Len(queue) - 1 : queue'[i] = queue[i + 1]
          /\ queueSize' = queueSize - 1 /\ wpc' = [wpc EXCEPT ![w] = "run"]
      <4>1. /\ hand' = [hand EXCEPT ![w] = Head(queue)] /\ queue' = Tail(queue)
            /\ queueSize' = queueSize - 1 /\ wpc' = [wpc EXCEPT ![w] = "run"]
        BY <1>10, <2>2 DEF WorkerTakes
      <4>2. queue \in Seq(Tasks)
        BY <1>a DEF TypeOK
      <4>3. QED
        BY <4>1, <4>2, <2>2, PopFacts
    <3>2. Running' = Running /\ Created' = Created /\ w \in Created
      BY <2>0, <3>1, StillRunning DEF Running, Created
    <3>3. queueSize > 0 /\ queueSize \in Nat
      BY <1>a, <3>1 DEF CountsOK, TypeOK
    <3>4. TypeOK' /\ CountsOK'
      BY <1>10, <1>a, <3>1, <3>2, <3>3 DEF WorkerTakes, calls, TypeOK, CountsOK
    <3>5. Nobody \notin Tasks
      BY NobodyAssumption DEF Threads
    <3>6. ControlOK'
      BY <1>10, <1>a, <2>0, <3>1, <3>2, <3>3, <3>5 DEF WorkerTakes, calls, TypeOK, ControlOK, InitOK,
         WorkersOK, ShutdownOK, ExitOK, AddOK
    <3>7. /\ DOMAIN queue = 1 .. Len(queue) /\ DOMAIN queue' = 1 .. Len(queue) - 1
          /\ \A i, j \in DOMAIN queue : queue[i] = queue[j] => i = j
      BY <1>a, <3>1 DEF OnePlace, TypeOK
    <3>8. \A u \in Tasks : InQueue(u)' <=> InQueue(u) /\ u # queue[1]
      BY <1>10, <1>a, <2>2, PopQueue DEF WorkerTakes, TypeOK
    <3>9. \A i, j \in DOMAIN queue' : queue'[i] = queue'[j] => i = j
      <4> SUFFICES ASSUME NEW i \in DOMAIN queue', NEW j \in DOMAIN queue', queue'[i] = queue'[j]
                   PROVE  i = j
        OBVIOUS
      <4>1. i \in Nat /\ j \in Nat /\ i + 1 \in DOMAIN queue /\ j + 1 \in DOMAIN queue
        BY <3>1, <3>7
      <4>2. queue[i + 1] = queue[j + 1]
        BY <3>1, <3>7
      <4>3. i + 1 = j + 1
        BY <3>7, <4>1, <4>2
      <4>4. QED
        BY <4>1, <4>3
    <3>10. InQueue(queue[1]) /\ ~InHand(queue[1])
      BY <1>a, <3>1, <3>7 DEF InQueue, OnePlace
    <3>11. \A u \in Tasks : InHand(u)' <=> InHand(u) \/ u = queue[1]
      BY <1>a, <2>0, <3>1, <3>5 DEF InHand, TypeOK
    <3>12. \A v, x \in Workers : hand'[v] = hand'[x] /\ hand'[v] # Nobody => v = x
      BY <1>a, <3>1, <3>10 DEF InHand, OnePlace, TypeOK
    <3>13. OnePlace'
      BY <1>10, <1>a, <3>1, <3>8, <3>9, <3>10, <3>11, <3>12 DEF WorkerTakes, OnePlace
    <3>14. NoSleeperAfterShutdown' /\ NoWorkerAfterDestroy'
      BY <1>c, <1>10, <1>a, <2>0, <3>2 DEF WorkerTakes, calls, NoSleeperAfterShutdown, NoWorkerAfterDestroy
    <3>15. QED
      BY <3>4, <3>6, <3>13, <3>14 DEF IInv
  <2>3. QED
    BY <2>1, <2>2
<1>11. ASSUME NEW w \in Workers, WorkerRuns(w) PROVE IInv'
  <2>1. wpc[w] = "run" /\ wpc' = [wpc EXCEPT ![w] = "lock"] /\ hand' = [hand EXCEPT ![w] = Nobody]
    BY <1>11 DEF WorkerRuns
  <2>2. Running' = Running /\ Created' = Created /\ w \in Created
    BY <2>1, StillRunning DEF Running, Created
  <2>3. PICK t \in Tasks : hand[w] = t
    BY <1>a, <2>1 DEF WorkersOK, TypeOK
  <2>4. ran' = [ran EXCEPT ![t] = @ + 1] /\ ran[t] = 0 /\ t \in accepted /\ ~InQueue(t)
    BY <1>11, <1>a, <2>3 DEF WorkerRuns, OnePlace, InHand
  <2>5. TypeOK' /\ CountsOK'
    BY <1>11, <1>a, <2>2, <2>4 DEF WorkerRuns, pool, calls, TypeOK, CountsOK
  <2>6. ControlOK'
    BY <1>11, <1>a, <2>1, <2>2 DEF WorkerRuns, pool, calls, TypeOK, ControlOK, InitOK, WorkersOK,
       ShutdownOK, ExitOK, AddOK
  <2>7. Nobody \notin Tasks
    BY NobodyAssumption DEF Threads
  <2>8. \A u \in Tasks : InHand(u)' <=> InHand(u) /\ u # t
    BY <1>a, <2>1, <2>3, <2>7 DEF InHand, OnePlace, TypeOK
  <2>9. \A u \in Tasks : InQueue(u)' <=> InQueue(u)
    BY <1>11 DEF WorkerRuns, pool, InQueue
  <2>10. OnePlace'
    BY <1>11, <1>a, <2>1, <2>4, <2>8, <2>9 DEF WorkerRuns, pool, OnePlace, TypeOK
  <2>11. NoSleeperAfterShutdown' /\ NoWorkerAfterDestroy'
    BY <1>c, <1>11, <1>a, <2>1, <2>2 DEF WorkerRuns, pool, calls, NoSleeperAfterShutdown, NoWorkerAfterDestroy
  <2>12. QED
    BY <2>5, <2>6, <2>10, <2>11 DEF IInv
<1>12. ASSUME NEW d \in Closers, Destroy(d) \/ DestroyLocks(d) \/ DestroyTooLate(d) \/ DestroyAgain(d)
       PROVE  IInv'
  <2>1. /\ UNCHANGED <<mutex, waiting, pool, init, wpc, hand, apc, ares, spurious, accepted, ran>>
        /\ lock' \in Threads \cup {Nobody}
        /\ dpc' \in [Closers -> {"idle", "lock", "held", "join", "done"}]
        /\ dgrace' \in [Closers -> {1, 2}]
        /\ dres' \in [Closers -> {0, -2, -3, -4}]
    BY <1>12, <1>a DEF Destroy, DestroyLocks, DestroyTooLate, DestroyAgain, DestroyReturns, TypeOK,
       Threads
  <2>2. \A c \in Closers : dpc'[c] = "join" \/ (dpc'[c] = "done" /\ dres'[c] = 0) =>
          dpc'[c] = dpc[c] /\ dres'[c] = dres[c] /\ dgrace'[c] = dgrace[c]
    BY <1>12, <1>a DEF Destroy, DestroyLocks, DestroyTooLate, DestroyAgain, DestroyReturns, TypeOK
  <2>3. /\ CountsOK' /\ WorkersOK' /\ ExitOK' /\ OnePlace' /\ NoSleeperAfterShutdown'
        /\ Created' = Created
    BY <1>c, <2>1, Frame
  <2>4. TypeOK'
    BY <2>1, <1>a DEF pool, TypeOK
  <2>5. InitOK'
    <3>1. init # "creating"
      BY <1>12, <1>a DEF Destroy, DestroyLocks, DestroyTooLate, DestroyAgain, InitOK
    <3>2. init = "failed" => d \notin Destroyers
      BY <1>12, <1>a DEF Destroy, DestroyLocks, DestroyTooLate, DestroyAgain, InitOK
    <3>3. \A c \in Closers : c # d => dpc'[c] = dpc[c]
      BY <1>12, <1>a DEF Destroy, DestroyLocks, DestroyTooLate, DestroyAgain, DestroyReturns, TypeOK
    <3>4. dgrace'[Main] = Immediate
      BY <1>12, <1>a, <1>b DEF Destroy, DestroyLocks, DestroyTooLate, DestroyAgain, DestroyReturns, TypeOK,
         InitOK
    <3>5. QED
      BY <1>a, <1>b, <2>1, <2>3, <3>1, <3>2, <3>3, <3>4 DEF InitOK
  <2>6. ShutdownOK' /\ AddOK'
    BY <1>a, <2>1, <2>2 DEF pool, ShutdownOK, AddOK
  <2>7. NoWorkerAfterDestroy'
    BY <1>a, <2>1, <2>2, <2>3 DEF pool, NoWorkerAfterDestroy
  <2>8. QED
    BY <2>3, <2>4, <2>5, <2>6, <2>7 DEF IInv, ControlOK
<1>13. ASSUME NEW d \in Closers, DestroyBroadcastFails(d) \/ DestroyShuts(d) PROVE IInv'
  <2>1. /\ UNCHANGED <<mutex, queue, queueSize, started, init, wpc, hand, apc, ares, dgrace, spurious,
                       accepted, ran>>
        /\ dpc[d] = "held" /\ shutdown = 0 /\ shutdown' = dgrace[d]
        /\ waiting' \subseteq waiting /\ lock' \in {lock, Nobody}
    BY <1>13 DEF DestroyBroadcastFails, DestroyShuts, DestroyReturns, Broadcast
  <2>2. /\ dpc' \in [Closers -> {"idle", "lock", "held", "join", "done"}]
        /\ dres' \in [Closers -> {0, -2, -3, -4}]
        /\ \A c \in Closers : c # d => dpc'[c] = dpc[c] /\ dres'[c] = dres[c]
        /\ dpc'[d] = "join" \/ (dpc'[d] = "done" /\ dres'[d] = -4)
    BY <1>13, <1>a DEF DestroyBroadcastFails, DestroyShuts, DestroyReturns, TypeOK
  <2>3. \A c \in Closers : ~(dpc[c] = "join" \/ (dpc[c] = "done" /\ dres[c] = 0))
    <3>1. \A c \in Closers : dgrace[c] # 0
      <4>1. dgrace \in [Closers -> {1, 2}]
        BY <1>a DEF TypeOK
      <4>2. QED
        BY <4>1
    <3>2. QED
      BY <1>a, <2>1, <3>1 DEF ShutdownOK
  <2>4. \A w \in Workers : wpc[w] # "exited"
    BY <1>a, <2>1 DEF ExitOK
  <2>5. TypeOK'
    BY <1>a, <2>1, <2>2 DEF TypeOK
  <2>6. Running' = Running /\ Created' = Created
    BY <2>1 DEF Running, Created
  <2>7. CountsOK' /\ WorkersOK' /\ ExitOK' /\ AddOK'
    BY <1>a, <2>1, <2>4, <2>6 DEF CountsOK, WorkersOK, ExitOK, AddOK
  <2>8. InitOK'
    <3>1. init # "creating" /\ (init = "failed" => d \notin Destroyers)
      BY <1>a, <2>1 DEF InitOK
    <3>2. QED
      BY <1>a, <1>b, <2>1, <2>2, <2>6, <3>1 DEF InitOK
  <2>9. ShutdownOK' /\ NoWorkerAfterDestroy'
    BY <2>1, <2>2, <2>3 DEF ShutdownOK, NoWorkerAfterDestroy
  <2>10. OnePlace'
    BY <1>a, <2>1 DEF OnePlace, InQueue, InHand
  <2>11. NoSleeperAfterShutdown'
    <3>1. CASE DestroyShuts(d)
      BY <3>1 DEF DestroyShuts, Broadcast, NoSleeperAfterShutdown
    <3>2. CASE DestroyBroadcastFails(d)
      <4>1. lock' = d
        BY <2>1, <3>2 DEF DestroyBroadcastFails, MutexOK
      <4>2. dpc'[d] = "done"
        BY <1>a, <3>2 DEF DestroyBroadcastFails, DestroyReturns, TypeOK
      <4>3. QED
        BY <4>1, <4>2 DEF NoSleeperAfterShutdown, LockAbandoned
    <3>3. QED
      BY <1>13, <3>1, <3>2
  <2>12. QED
    BY <2>5, <2>7, <2>8, <2>9, <2>10, <2>11 DEF IInv, ControlOK
<1>14. ASSUME NEW d \in Closers, DestroyFrees(d) PROVE IInv'
  <2>1. /\ UNCHANGED <<lock, waiting, queueSize, shutdown, started, init, wpc, hand, apc, ares, dgrace,
                       spurious, accepted, ran>>
        /\ mutex' \in {mutex, "destroyed"} /\ dpc[d] = "join" /\ Joined
        /\ dpc' = [dpc EXCEPT ![d] = "done"] /\ dres' = [dres EXCEPT ![d] = 0]
        /\ queue' \in {queue, <<>>}
    BY <1>14 DEF DestroyFrees, DestroyReturns
  <2>2. shutdown = dgrace[d]
    BY <1>a, <2>1 DEF ShutdownOK
  <2>3. Running' = Running /\ Created' = Created
    BY <2>1 DEF Running, Created
  <2>4. Running = {}
    BY <2>1 DEF Running, Joined, Created
  <2>5. started = 0
    BY <1>a, <2>4, FS_EmptySet DEF CountsOK
  <2>6. TypeOK'
    <3>1. queue' \in Seq(Tasks)
      <4>1. queue \in Seq(Tasks) /\ <<>> \in Seq(Tasks)
        BY <1>a DEF TypeOK
      <4>2. QED
        BY <2>1, <4>1
    <3>2. dpc' \in [Closers -> {"idle", "lock", "held", "join", "done"}]
      BY <1>a, <2>1 DEF TypeOK
    <3>3. dres' \in [Closers -> {0, -2, -3, -4}]
      BY <1>a, <2>1 DEF TypeOK
    <3>4. QED
      BY <1>a, <2>1, <3>1, <3>2, <3>3 DEF TypeOK
  <2>7. Len(queue') <= queueSize /\ CountsOK'
    BY <1>a, <2>1, <2>3 DEF CountsOK, TypeOK
  <2>8. ControlOK'
    <3>1. init # "creating" /\ (init = "failed" => d \notin Destroyers)
      BY <1>a, <2>1 DEF InitOK
    <3>2. InitOK'
      BY <1>a, <1>b, <2>1, <2>3, <3>1 DEF InitOK, TypeOK
    <3>3. WorkersOK' /\ ExitOK' /\ AddOK'
      BY <1>a, <2>1 DEF WorkersOK, ExitOK, AddOK
    <3>4. ShutdownOK'
      BY <1>a, <2>1, <2>2 DEF ShutdownOK, TypeOK
    <3>5. QED
      BY <3>2, <3>3, <3>4 DEF ControlOK
  <2>9. NoSleeperAfterShutdown'
    BY <1>c, <1>a, <2>1 DEF NoSleeperAfterShutdown
  <2>10. NoWorkerAfterDestroy'
    BY <1>a, <2>1, <2>3, <2>5 DEF NoWorkerAfterDestroy, Joined, TypeOK
  <2>11. OnePlace'
    <3>1. CASE shutdown = Immediate
      BY <1>a, <2>1, <3>1 DEF OnePlace, InQueue, InHand
    <3>2. CASE shutdown # Immediate
      <4>1. dgrace[d] = Graceful
        BY <1>a, <2>2, <3>2 DEF TypeOK
      <4>2. queue = <<>>
        BY <2>1, <2>2, <4>1, DrainedWhenJoined DEF Joined
      <4>3. queue' = queue
        BY <2>1, <4>2
      <4>4. QED
        BY <1>a, <2>1, <4>3 DEF OnePlace, InQueue, InHand
    <3>3. QED
      BY <3>1, <3>2
  <2>12. QED
    BY <2>6, <2>7, <2>8, <2>9, <2>10, <2>11 DEF IInv
<1>15. CASE UNCHANGED vars
  BY <1>c, <1>15, <1>a DEF vars, pool, calls, IInv, TypeOK, CountsOK, Running, ControlOK, InitOK, Created,
     WorkersOK, ShutdownOK, ExitOK, AddOK, OnePlace, InQueue, InHand, NoSleeperAfterShutdown,
     NoWorkerAfterDestroy
<1>16. QED
  BY <1>1, <1>2, <1>3, <1>4, <1>5, <1>6, <1>7, <1>8, <1>9, <1>10, <1>11, <1>12, <1>13, <1>14, <1>15
     DEF Next, Worker, Adder, Closer

-----------------------------------------------------------------------------
LEMMA Inductive == Spec => []IInv
<1>1. Init => IInv /\ MutexOK
  BY InitIInv
<1>2. IInv /\ MutexOK /\ [Next]_vars => IInv' /\ MutexOK'
  BY StepIInv, MutexStep
<1>3. QED
  BY <1>1, <1>2, PTL DEF Spec

\* The values the pool, its workers and its callers take.
THEOREM TypeCorrect == Spec => []TypeOK
<1>1. IInv => TypeOK
  BY DEF IInv
<1>2. QED
  BY <1>1, Inductive, PTL

\* A task that was accepted is in one place, and no task is run twice, whatever
\* the number of workers that share the list (threadpool_add, threadpool_worker).
THEOREM TasksAreInOnePlace == Spec => []OnePlace
<1>1. IInv => OnePlace
  BY DEF IInv
<1>2. QED
  BY <1>1, Inductive, PTL

\* No worker sleeps through a shutdown: the flag is set and broadcast under the
\* lock under which a worker decides to wait.
THEOREM NobodySleepsThrough == Spec => []NoSleeperAfterShutdown
<1>1. IInv => NoSleeperAfterShutdown
  BY DEF IInv
<1>2. QED
  BY <1>1, Inductive, PTL

\* The mutex and the condition variable are destroyed after the last worker left,
\* when pool->started is back to 0.
THEOREM WorkersAreGone == Spec => []NoWorkerAfterDestroy
<1>1. IInv => NoWorkerAfterDestroy
  BY DEF IInv
<1>2. QED
  BY <1>1, Inductive, PTL

\* A graceful threadpool_destroy that returns 0 has seen every accepted task run.
THEOREM GracefulShutdownDrains == Spec => []GracefulDrains
<1>1. IInv => GracefulDrains
  <2> SUFFICES ASSUME IInv, NEW d \in Closers, dpc[d] = "done", dres[d] = Ok, dgrace[d] = Graceful,
                      NEW t \in accepted
               PROVE  ran[t] = 1
    BY DEF GracefulDrains
  <2>1. shutdown = Graceful /\ t \in Tasks
    BY DEF IInv, TypeOK, ControlOK, ShutdownOK
  <2>2. \A w \in Created : wpc[w] = "exited"
    BY DEF IInv, NoWorkerAfterDestroy
  <2>3. queue = <<>> /\ \A w \in Workers : hand[w] = Nobody
    BY <2>1, <2>2, DrainedWhenJoined
  <2>4. ~InQueue(t) /\ ~InHand(t)
    BY <2>1, <2>3, NobodyAssumption DEF InQueue, InHand, Threads
  <2>5. QED
    BY <2>1, <2>4 DEF IInv, OnePlace, Immediate, Graceful
<1>2. QED
  BY <1>1, Inductive, PTL
-----------------------------------------------------------------------------
(* One signal per task *)

LEMMA AwakeFinite == IsFiniteSet(Awake) /\ Cardinality(Awake) \in Nat
<1>1. Awake \subseteq Workers
  BY DEF Awake
<1>. QED
  BY <1>1, FiniteAssumption, FS_Subset, FS_CardinalityType

\* As long as no worker but those on their way to the queue takes from it, there are as
\* many of them as before.
LEMMA AwakeGrows ==
  ASSUME TypeOK, Awake \subseteq Awake', Awake' \subseteq Workers
  PROVE  Cardinality(Awake) <= Cardinality(Awake') /\ Cardinality(Awake') \in Nat
<1>1. IsFiniteSet(Awake')
  BY FiniteAssumption, FS_Subset
<1>. QED
  BY <1>1, FS_Subset, FS_CardinalityType

LEMMA ConservingStep == IInv /\ WorkConserving /\ [Next]_vars => WorkConserving'
<1>. SUFFICES ASSUME IInv, WorkConserving, [Next]_vars
              PROVE  WorkConserving'
  OBVIOUS
<1>a. /\ wpc \in [Workers -> {"none", "lock", "check", "wait", "run", "exited"}]
      /\ waiting \subseteq Workers /\ queueSize \in Nat
      /\ \A w \in waiting : wpc[w] = "wait"
      /\ Cardinality(Awake) \in Nat /\ IsFiniteSet(Awake) /\ Awake' \subseteq Workers
      /\ TypeOK
  BY AwakeFinite DEF IInv, TypeOK, ControlOK, WorkersOK, Awake
<1>1. ASSUME Awake \subseteq Awake', waiting' \subseteq waiting, UNCHANGED <<queueSize, shutdown>>
      PROVE  WorkConserving'
  BY <1>a, <1>1, AwakeGrows, SMT DEF WorkConserving
<1>2. ASSUME NEW t \in Tasks, AddPush(t)
      PROVE  WorkConserving'
  <2>1. queueSize' = queueSize + 1 /\ shutdown' = shutdown /\ Signal /\ wpc' = wpc
    BY <1>2 DEF AddPush
  <2>2. CASE waiting = {}
    BY <2>1, <2>2 DEF Signal, WorkConserving
  <2>3. CASE waiting # {}
    <3>1. PICK v \in waiting : waiting' = waiting \ {v}
      BY <2>1, <2>3 DEF Signal
    <3>2. v \notin Awake /\ Awake' = Awake \cup {v}
      BY <1>a, <2>1, <3>1 DEF Awake
    <3>3. Cardinality(Awake') = Cardinality(Awake) + 1
      BY <1>a, <3>2, FS_AddElement
    <3>. QED
      BY <1>a, <2>1, <2>3, <3>3, SMT DEF WorkConserving
  <2>. QED
    BY <2>2, <2>3
<1>3. ASSUME NEW w \in Workers, WorkerTakes(w)
      PROVE  WorkConserving'
  <2>1. wpc[w] = "check" /\ UNCHANGED <<waiting, shutdown>> /\ w \in Awake
    BY <1>3 DEF WorkerTakes, Awake
  <2>2. CASE queue = <<>>
    <3>1. wpc' = [wpc EXCEPT ![w] = "lock"] /\ queueSize' = queueSize
      BY <1>3, <2>2 DEF WorkerTakes
    <3>2. Awake \subseteq Awake'
      BY <1>a, <2>1, <3>1 DEF Awake
    <3>. QED
      BY <1>1, <2>1, <3>1, <3>2
  <2>3. CASE queue # <<>>
    <3>1. wpc' = [wpc EXCEPT ![w] = "run"] /\ queueSize' = queueSize - 1
      BY <1>3, <2>3 DEF WorkerTakes
    <3>2. Awake' = Awake \ {w}
      BY <1>a, <2>1, <3>1 DEF Awake
    <3>3. Cardinality(Awake') = Cardinality(Awake) - 1
      BY <1>a, <2>1, <3>2, FS_RemoveElement
    <3>. QED
      BY <1>a, <2>1, <3>1, <3>3, SMT DEF WorkConserving
  <2>. QED
    BY <2>2, <2>3
<1>4. ASSUME NEW w \in Workers, WorkerWaits(w)
      PROVE  WorkConserving'
  <2>1. queueSize' = 0
    BY <1>4 DEF WorkerWaits, pool
  <2>2. IsFiniteSet(Awake')
    BY <1>a, FiniteAssumption, FS_Subset
  <2>3. Cardinality(Awake') \in Nat
    BY <2>2, FS_CardinalityType
  <2>. QED
    BY <2>1, <2>3, SMT DEF WorkConserving
<1>5. ASSUME NEW w \in Workers, WorkerExits(w)
      PROVE  WorkConserving'
  BY <1>5 DEF WorkerExits, MustExit, WorkConserving, Immediate, Graceful
<1>6. ASSUME NEW w \in Workers, CreateThread(w) \/ WorkerLocks(w) \/ WorkerRuns(w) \/ SpuriousWakeup(w)
      PROVE  WorkConserving'
  <2>1. waiting' \subseteq waiting /\ UNCHANGED <<queueSize, shutdown>>
    BY <1>6 DEF CreateThread, WorkerLocks, WorkerRuns, SpuriousWakeup, pool
  <2>2. Awake \subseteq Awake'
    BY <1>6, <1>a DEF CreateThread, WorkerLocks, WorkerRuns, SpuriousWakeup, Awake
  <2>. QED
    BY <1>1, <2>1, <2>2
<1>7. ASSUME NEW d \in Closers, DestroyBroadcastFails(d) \/ DestroyShuts(d)
      PROVE  WorkConserving'
  <2>1. shutdown' = dgrace[d] /\ dgrace[d] \in {Immediate, Graceful}
    BY <1>7, <1>a DEF DestroyBroadcastFails, DestroyShuts, TypeOK
  <2>. QED
    BY <2>1, SMT DEF WorkConserving, Immediate, Graceful
<1>8. ASSUME UNCHANGED <<waiting, queueSize, shutdown, wpc>>
      PROVE  WorkConserving'
  BY <1>1, <1>8 DEF Awake
<1>9. ASSUME NEW t \in Tasks, Add(t) \/ AddLocks(t) \/ AddTooLate(t) \/ AddRefused(t) \/ AddNoMem(t)
      PROVE  WorkConserving'
  BY <1>8, <1>9 DEF Add, AddLocks, AddTooLate, AddRefused, AddNoMem, pool
<1>10. ASSUME NEW d \in Closers, \/ Destroy(d) \/ DestroyLocks(d) \/ DestroyTooLate(d)
                                 \/ DestroyAgain(d) \/ DestroyFrees(d)
       PROVE  WorkConserving'
  BY <1>8, <1>10 DEF Destroy, DestroyLocks, DestroyTooLate, DestroyAgain, DestroyFrees, pool
<1>11. CASE CreateFails \/ InitReturns \/ UNCHANGED vars
  BY <1>8, <1>11 DEF CreateFails, InitReturns, vars, pool
<1>. QED
  BY <1>2, <1>3, <1>4, <1>5, <1>6, <1>7, <1>9, <1>10, <1>11 DEF Next, Worker, Adder, Closer

\* One pthread_cond_signal per task is enough: while a worker sleeps, each task in the
\* queue has a worker of its own that will look at the queue before it sleeps.
THEOREM OneSignalIsEnough == Spec => []WorkConserving
<1>1. Init => WorkConserving
  BY DEF Init, WorkConserving
<1>. QED
  BY <1>1, ConservingStep, Inductive, PTL DEF Spec

-----------------------------------------------------------------------------
(* ThreadPool implements TaskPool, for any number of workers, of tasks and *)
(* of concurrent callers: each step of a thread is one step of the         *)
(* abstract pool or changes nothing there.                                 *)

\* Callers of threadpool_destroy that set pool->shutdown and got the broadcast out.
Announced == {d \in Closers : dpc[d] = "join" \/ (dpc[d] = "done" /\ dres[d] = Ok)}
OneAnnounces == \A c, d \in Announced : c = d

Returned == \E d \in Closers : dpc[d] = "done" /\ dres[d] = Ok

LEMMA AnnouncedMeansShut ==
  ASSUME IInv
  PROVE  \A d \in Announced : shutdown = dgrace[d] /\ shutdown # 0
<1>1. dgrace \in [Closers -> {Immediate, Graceful}]
  BY DEF IInv, TypeOK
<1>2. \A d \in Announced : shutdown = dgrace[d] /\ d \in Closers
  BY DEF IInv, ControlOK, ShutdownOK, Announced
<1>. QED
  BY <1>1, <1>2 DEF Immediate, Graceful

LEMMA AnnounceStep == IInv /\ OneAnnounces /\ [Next]_vars => OneAnnounces'
<1>. SUFFICES ASSUME IInv, OneAnnounces, [Next]_vars
              PROVE  OneAnnounces'
  OBVIOUS
<1>1. /\ dpc \in [Closers -> {"idle", "lock", "held", "join", "done"}]
      /\ dres \in [Closers -> {Ok, LockFail, AlreadyShutdown, CondBroadcast}]
  BY DEF IInv, TypeOK
<1>2. ASSUME Announced' \subseteq Announced
      PROVE  OneAnnounces'
  BY <1>2 DEF OneAnnounces
<1>3. ASSUME NEW d \in Closers, DestroyShuts(d)
      PROVE  OneAnnounces'
  <2>1. Announced = {}
    BY <1>3, AnnouncedMeansShut DEF DestroyShuts
  <2>2. dpc' = [dpc EXCEPT ![d] = "join"] /\ dres' = dres
    BY <1>3 DEF DestroyShuts
  <2>3. Announced' \subseteq {d}
    BY <1>1, <2>1, <2>2 DEF Announced
  <2>. QED
    BY <2>3 DEF OneAnnounces
<1>4. ASSUME NEW d \in Closers, DestroyFrees(d)
      PROVE  OneAnnounces'
  BY <1>1, <1>2, <1>4 DEF DestroyFrees, DestroyReturns, Announced
<1>5. ASSUME NEW d \in Closers, \/ Destroy(d) \/ DestroyLocks(d) \/ DestroyTooLate(d)
                                \/ DestroyAgain(d) \/ DestroyBroadcastFails(d)
      PROVE  OneAnnounces'
  <2>1. \/ \E pc \in {"lock", "held"} : dpc' = [dpc EXCEPT ![d] = pc] /\ dres' = dres
        \/ \E res \in {LockFail, AlreadyShutdown, CondBroadcast} :
             dpc' = [dpc EXCEPT ![d] = "done"] /\ dres' = [dres EXCEPT ![d] = res]
    BY <1>5 DEF Destroy, DestroyLocks, DestroyTooLate, DestroyAgain, DestroyBroadcastFails,
       DestroyReturns
  <2>2. Announced' \subseteq Announced
    BY <1>1, <2>1 DEF Announced, Ok, LockFail, AlreadyShutdown, CondBroadcast
  <2>. QED
    BY <1>2, <2>2
<1>6. CASE CreateFails
  BY <1>1, <1>2, <1>6 DEF CreateFails, Announced
<1>7. CASE UNCHANGED <<dpc, dres>>
  BY <1>2, <1>7 DEF Announced
<1>. QED
  BY <1>3, <1>4, <1>5, <1>6, <1>7 DEF Next, Worker, Adder, Closer, CreateThread, InitReturns,
     WorkerLocks, WorkerWaits, WorkerExits, WorkerTakes, WorkerRuns, SpuriousWakeup, Add, AddLocks,
     AddTooLate, AddRefused, AddNoMem, AddPush, AddReturns, vars, calls

-----------------------------------------------------------------------------
(* The steps *)

StatusMap == [t \in Tasks |-> Status(t)]

LEMMA StepsNothing ==
  ASSUME UNCHANGED <<queue, shutdown, hand, accepted, ran>>,
         \A t \in Tasks : apc'[t] = "done" <=> apc[t] = "done",
         Returned' <=> Returned
  PROVE  UNCHANGED <<StatusMap, Phase>>
<1>1. \A t \in Tasks : Status(t)' = Status(t)
  BY DEF Status, InHand, InQueue
<1>2. Phase' = Phase
  BY DEF Phase, Returned
<1>. QED
  BY <1>1, <1>2 DEF StatusMap

\* What a change of one task is to TaskPool.
LEMMA Becoming ==
  ASSUME NEW t \in Tasks, NEW v, Status(t)' = v, \A u \in Tasks \ {t} : Status(u)' = Status(u)
  PROVE  Abstract!Becomes(t, Status(t), v)
BY DEF Abstract!Becomes

LEMMA PhaseStays ==
  ASSUME UNCHANGED <<shutdown, dpc, dres>>
  PROVE  Phase' = Phase
BY DEF Phase

LEMMA AddSteps ==
  ASSUME IInv, NEW t \in Tasks, Adder(t)
  PROVE  Abstract!PoolNext \/ UNCHANGED <<StatusMap, Phase>>
<1>1. /\ apc \in [Tasks -> {"idle", "lock", "held", "done"}] /\ queue \in Seq(Tasks)
      /\ ran \in [Tasks -> Nat]
  BY DEF IInv, TypeOK
<1>2. CASE AddLocks(t)
  BY <1>1, <1>2, StepsNothing DEF AddLocks, pool, Returned
<1>3. apc[t] # "done" => Status(t) = "new"
  BY <1>1 DEF IInv, ControlOK, AddOK, OnePlace, Status
<1>4. CASE AddTooLate(t) \/ AddRefused(t) \/ AddNoMem(t)
  <2>1. /\ apc[t] # "done" /\ apc' = [apc EXCEPT ![t] = "done"]
        /\ UNCHANGED <<queue, shutdown, dpc, dres, hand, accepted, ran>>
    BY <1>4 DEF AddTooLate, AddRefused, AddNoMem, AddReturns, pool
  <2>2. Status(t)' = "refused" /\ \A u \in Tasks \ {t} : Status(u)' = Status(u)
    BY <1>1, <2>1 DEF IInv, ControlOK, AddOK, OnePlace, Status, InHand, InQueue
  <2>3. Abstract!Becomes(t, "new", "refused") /\ Phase' = Phase
    BY <1>3, <2>1, <2>2, Becoming, PhaseStays
  <2>. QED
    BY <2>3 DEF Abstract!PoolNext, Abstract!Refuse
<1>5. CASE AddPush(t)
  <2>1. /\ apc[t] # "done" /\ apc' = [apc EXCEPT ![t] = "done"] /\ shutdown = 0
        /\ queue' = <<t>> \o queue /\ accepted' = accepted \cup {t}
        /\ UNCHANGED <<shutdown, dpc, dres, hand, ran>>
    BY <1>5 DEF AddPush, AddReturns
  <2>2. \A u \in Tasks : InQueue(u)' <=> u = t \/ InQueue(u)
    BY <1>1, <2>1, PushQueue
  <2>3. Status(t)' = "queued" /\ \A u \in Tasks \ {t} : Status(u)' = Status(u)
    BY <1>1, <2>1, <2>2 DEF IInv, ControlOK, AddOK, OnePlace, Status, InHand
  <2>4. Abstract!Becomes(t, "new", "queued") /\ Phase' = Phase
    BY <1>3, <2>1, <2>3, Becoming, PhaseStays
  <2>5. Phase = "open"
    BY <2>1, AnnouncedMeansShut DEF Phase, Announced
  <2>. QED
    BY <2>4, <2>5 DEF Abstract!PoolNext, Abstract!Accept
<1>. QED
  BY <1>2, <1>4, <1>5 DEF Adder

LEMMA WorkerSteps ==
  ASSUME IInv, NEW w \in Workers, Worker(w)
  PROVE  Abstract!PoolNext \/ UNCHANGED <<StatusMap, Phase>>
<1>1. /\ queue \in Seq(Tasks) /\ ran \in [Tasks -> Nat] /\ hand \in [Workers -> Tasks \cup {Nobody}]
      /\ Nobody \notin Tasks
  BY NobodyAssumption DEF IInv, TypeOK, Threads
<1>2. CASE WorkerLocks(w) \/ WorkerWaits(w) \/ WorkerExits(w)
  BY <1>2, StepsNothing DEF WorkerLocks, WorkerWaits, WorkerExits, pool, calls, Returned
<1>3. CASE WorkerTakes(w)
  <2>1. /\ wpc[w] = "check" /\ ~MustExit /\ UNCHANGED <<shutdown, apc, dpc, dres, accepted, ran>>
        /\ hand[w] = Nobody
    BY <1>3 DEF WorkerTakes, calls, IInv, ControlOK, WorkersOK
  <2>2. CASE queue = <<>>
    BY <1>3, <2>1, <2>2, StepsNothing DEF WorkerTakes, Returned
  <2>3. CASE queue # <<>>
    <3>1. hand' = [hand EXCEPT ![w] = Head(queue)] /\ queue' = Tail(queue)
      BY <1>3, <2>3 DEF WorkerTakes
    <3>2. PICK t \in Tasks : t = queue[1]
      BY <1>1, <2>3, <3>1, PopQueue DEF IInv
    <3>3. InQueue(t) /\ \A u \in Tasks : InQueue(u)' <=> InQueue(u) /\ u # t
      BY <1>1, <2>3, <3>1, <3>2, PopQueue DEF IInv
    <3>4. hand' = [hand EXCEPT ![w] = t]
      BY <1>1, <2>3, <3>1, <3>2, PopFacts
    <3>5. \A u \in Tasks : InHand(u)' <=> InHand(u) \/ u = t
      BY <1>1, <2>1, <3>4 DEF InHand
    <3>6. \A u \in Tasks \ {t} : Status(u)' = Status(u)
      BY <2>1, <3>3, <3>5 DEF Status
    <3>7. ran[t] = 0 /\ ~InHand(t)
      BY <3>3 DEF IInv, OnePlace
    <3>8. Status(t) = "queued" /\ Status(t)' = "running"
      BY <2>1, <3>3, <3>5, <3>7 DEF Status
    <3>9. Phase \in {"open", "graceful"}
      <4>1. w \in Created /\ ~Returned
        BY <2>1 DEF Created, IInv, NoWorkerAfterDestroy, Returned
      <4>. QED
        BY <2>1, <4>1 DEF Phase, Returned, MustExit, IInv, TypeOK
    <3>. QED
      BY <2>1, <3>6, <3>8, <3>9, Becoming, PhaseStays DEF Abstract!PoolNext, Abstract!Start
  <2>. QED
    BY <2>2, <2>3
<1>4. CASE WorkerRuns(w)
  <2>1. /\ wpc[w] = "run" /\ hand[w] # Nobody /\ ran' = [ran EXCEPT ![hand[w]] = @ + 1]
        /\ hand' = [hand EXCEPT ![w] = Nobody]
        /\ UNCHANGED <<queue, shutdown, apc, dpc, dres, accepted>>
    BY <1>4 DEF WorkerRuns, calls, pool, IInv, ControlOK, WorkersOK
  <2>2. PICK t \in Tasks : hand[w] = t
    BY <1>1, <2>1
  <2>3. \A u \in Tasks : InHand(u)' <=> InHand(u) /\ u # t
    BY <1>1, <2>1, <2>2 DEF IInv, OnePlace, InHand
  <2>4. InHand(t) /\ ran[t] = 0
    BY <2>2 DEF IInv, OnePlace, InHand
  <2>5. ran'[t] = 1 /\ \A u \in Tasks \ {t} : ran'[u] = ran[u]
    BY <1>1, <2>1, <2>2, <2>4
  <2>6. \A u \in Tasks : InQueue(u)' <=> InQueue(u)
    BY <2>1 DEF InQueue
  <2>7. \A u \in Tasks \ {t} : Status(u)' = Status(u)
    BY <2>1, <2>3, <2>5, <2>6 DEF Status
  <2>8. Status(t) = "running" /\ Status(t)' = "ran"
    BY <2>4, <2>5, SMT DEF Status
  <2>. QED
    BY <2>1, <2>7, <2>8, Becoming, PhaseStays DEF Abstract!PoolNext, Abstract!Finish
<1>. QED
  BY <1>2, <1>3, <1>4 DEF Worker

\* The last worker has been joined: what is left in the queue is given up.
LEMMA FreeStep ==
  ASSUME IInv, OneAnnounces, NEW d \in Closers, DestroyFrees(d)
  PROVE  Abstract!Return
<1>1. /\ dpc[d] = "join" /\ Joined /\ queue' = IF started > 0 THEN queue ELSE <<>>
      /\ dpc' = [dpc EXCEPT ![d] = "done"] /\ dres' = [dres EXCEPT ![d] = Ok]
      /\ UNCHANGED <<shutdown, hand, apc, accepted, ran>>
  BY DEF DestroyFrees, DestroyReturns
<1>2. /\ dpc \in [Closers -> {"idle", "lock", "held", "join", "done"}]
      /\ dres \in [Closers -> {Ok, LockFail, AlreadyShutdown, CondBroadcast}]
      /\ dgrace \in [Closers -> {Immediate, Graceful}] /\ ran \in [Tasks -> Nat]
  BY DEF IInv, TypeOK
<1>3. d \in Announced /\ shutdown = dgrace[d] /\ shutdown # 0
  BY <1>1, AnnouncedMeansShut DEF Announced
<1>4. ~Returned /\ Returned'
  BY <1>1, <1>2, <1>3 DEF Returned, OneAnnounces, Announced
<1>5. Running = {}
  BY <1>1 DEF Running, Joined, Created
<1>6. started = 0 /\ queue' = <<>>
  BY <1>1, <1>5, FS_EmptySet DEF IInv, CountsOK
<1>7. \A t \in Tasks : ~InHand(t) /\ ~InHand(t)' /\ ~InQueue(t)'
  <2>1. \A w \in Workers : hand[w] = Nobody /\ hand'[w] = Nobody
    BY <1>1 DEF Joined, Created, IInv, ControlOK, WorkersOK
  <2>. QED
    BY <1>6, <2>1, NobodyAssumption DEF InHand, InQueue, Threads
<1>8. \A t \in Tasks : Status(t)' = IF Status(t) = "queued" THEN "dropped" ELSE Status(t)
  BY <1>1, <1>7 DEF Status, IInv, OnePlace
<1>9. /\ \A t \in Tasks : Status(t) # "running"
      /\ Phase = (IF shutdown = Graceful THEN "graceful" ELSE "immediate") /\ Phase' = "returned"
  BY <1>3, <1>4, <1>7 DEF Status, Phase, Returned
<1>10. Phase = "graceful" => \A t \in Tasks : Status(t) # "queued"
  <2>1. CASE shutdown = Graceful
    <3>1. queue = <<>>
      BY <1>1, <1>3, <2>1, DrainedWhenJoined DEF Joined
    <3>. QED
      BY <3>1 DEF Status, InQueue
  <2>2. CASE shutdown # Graceful
    BY <1>9, <2>2
  <2>. QED
    BY <2>1, <2>2
<1>. QED
  BY <1>8, <1>9, <1>10 DEF Abstract!Return

LEMMA CloserSteps ==
  ASSUME IInv, OneAnnounces, NEW d \in Closers, Closer(d)
  PROVE  Abstract!PoolNext \/ UNCHANGED <<StatusMap, Phase>>
<1>1. /\ dpc \in [Closers -> {"idle", "lock", "held", "join", "done"}]
      /\ dres \in [Closers -> {Ok, LockFail, AlreadyShutdown, CondBroadcast}]
      /\ dgrace \in [Closers -> {Immediate, Graceful}]
  BY DEF IInv, TypeOK
<1>2. CASE DestroyLocks(d) \/ DestroyTooLate(d) \/ DestroyAgain(d)
  <2>1. /\ UNCHANGED <<queue, shutdown, hand, accepted, ran, apc>>
        /\ dpc[d] \in {"lock", "held"}
        /\ \/ dpc' = [dpc EXCEPT ![d] = "held"] /\ dres' = dres
           \/ \E res \in {LockFail, AlreadyShutdown} :
                dpc' = [dpc EXCEPT ![d] = "done"] /\ dres' = [dres EXCEPT ![d] = res]
    BY <1>2 DEF DestroyLocks, DestroyTooLate, DestroyAgain, DestroyReturns, pool
  <2>2. Returned' <=> Returned
    BY <1>1, <2>1 DEF Returned, Ok, LockFail, AlreadyShutdown
  <2>. QED
    BY <2>1, <2>2, StepsNothing
<1>3. CASE DestroyBroadcastFails(d) \/ DestroyShuts(d)
  <2>1. /\ UNCHANGED <<queue, hand, accepted, ran, apc>>
        /\ dpc[d] = "held" /\ shutdown = 0 /\ shutdown' = dgrace[d]
        /\ \/ dpc' = [dpc EXCEPT ![d] = "join"] /\ dres' = dres
           \/ dpc' = [dpc EXCEPT ![d] = "done"] /\ dres' = [dres EXCEPT ![d] = CondBroadcast]
    BY <1>3 DEF DestroyBroadcastFails, DestroyShuts, DestroyReturns
  <2>2. ~Returned
    BY <2>1, AnnouncedMeansShut DEF Returned, Announced
  <2>3. ~Returned'
    BY <1>1, <2>1, <2>2 DEF Returned, Ok, CondBroadcast
  <2>4. Phase = "open" /\ Phase' \in {"graceful", "immediate"}
    BY <1>1, <2>1, <2>2, <2>3 DEF Phase, Returned, Immediate, Graceful
  <2>5. \A t \in Tasks : Status(t)' = Status(t)
    BY <2>1 DEF Status, InHand, InQueue
  <2>. QED
    BY <2>4, <2>5 DEF Abstract!PoolNext, Abstract!ShutDown
<1>4. CASE DestroyFrees(d)
  BY <1>4, FreeStep DEF Abstract!PoolNext
<1>. QED
  BY <1>2, <1>3, <1>4 DEF Closer

LEMMA PoolStep ==
  ASSUME IInv, OneAnnounces, [Next]_vars
  PROVE  Abstract!PoolNext \/ UNCHANGED <<StatusMap, Phase>>
<1>1. ASSUME NEW w \in Workers, CreateThread(w) \/ SpuriousWakeup(w)
      PROVE  UNCHANGED <<StatusMap, Phase>>
  BY <1>1, StepsNothing DEF CreateThread, SpuriousWakeup, pool, calls, Returned
<1>2. ASSUME NEW t \in Tasks, Add(t)
      PROVE  UNCHANGED <<StatusMap, Phase>>
  <2>1. apc \in [Tasks -> {"idle", "lock", "held", "done"}]
    BY DEF IInv, TypeOK
  <2>. QED
    BY <1>2, <2>1, StepsNothing DEF Add, pool, Returned
<1>3. ASSUME NEW d \in Closers, Destroy(d)
      PROVE  UNCHANGED <<StatusMap, Phase>>
  <2>1. dpc \in [Closers -> {"idle", "lock", "held", "join", "done"}]
    BY DEF IInv, TypeOK
  <2>2. Returned' <=> Returned
    BY <1>3, <2>1 DEF Destroy, Returned
  <2>. QED
    BY <1>3, <2>2, StepsNothing DEF Destroy, pool
<1>4. CASE CreateFails
  <2>1. dpc[Main] = "idle" /\ dpc \in [Closers -> {"idle", "lock", "held", "join", "done"}]
    BY <1>4 DEF CreateFails, IInv, TypeOK, ControlOK, InitOK, Closers
  <2>2. Returned' <=> Returned
    BY <1>4, <2>1 DEF CreateFails, Returned
  <2>. QED
    BY <1>4, <2>2, StepsNothing DEF CreateFails, pool
<1>5. CASE InitReturns \/ UNCHANGED vars
  BY <1>5, StepsNothing DEF InitReturns, vars, pool, calls, Returned
<1>. QED
  BY <1>1, <1>2, <1>3, <1>4, <1>5, AddSteps, WorkerSteps, CloserSteps DEF Next

LEMMA PoolInitially == Init => Abstract!PoolInit /\ OneAnnounces
<1>. SUFFICES ASSUME Init
              PROVE  Abstract!PoolInit /\ OneAnnounces
  OBVIOUS
<1>1. \A t \in Tasks : Status(t) = "new"
  BY NobodyAssumption DEF Init, Status, InHand, InQueue, Threads
<1>2. Phase = "open" /\ Announced = {}
  BY DEF Init, Phase, Announced
<1>. QED
  BY <1>1, <1>2 DEF Abstract!PoolInit, OneAnnounces

\* To its callers src/threadpool.c is the pool of TaskPool: an accepted task is started
\* at most once and not after an immediate shutdown, and a graceful shutdown returns
\* when all have run.
THEOREM PoolImplements == Spec => ImplementsTaskPool
<1>1. Init => Abstract!PoolInit /\ OneAnnounces
  BY PoolInitially
<1>2. IInv /\ OneAnnounces /\ [Next]_vars => OneAnnounces'
  BY AnnounceStep
<1>3. IInv /\ OneAnnounces /\ [Next]_vars => [Abstract!PoolNext]_<<StatusMap, Phase>>
  BY PoolStep
<1>4. Abstract!PoolSpec <=> Abstract!PoolInit /\ [][Abstract!PoolNext]_<<StatusMap, Phase>>
  BY PTL DEF Abstract!PoolSpec, Abstract!poolVars, StatusMap
<1>. QED
  BY <1>1, <1>2, <1>3, <1>4, Inductive, PTL DEF Spec, ImplementsTaskPool
=============================================================================
