----------------------------- MODULE ThreadPool -----------------------------
(***************************************************************************)
(* The thread pool of src/threadpool.c: its mutex, its condition variable, *)
(* the LIFO queue behind the dummy head, the worker threads, and any       *)
(* number of threads that call threadpool_add and threadpool_destroy at    *)
(* the same time.  The shared fields are only touched under the lock, so   *)
(* what a thread does between taking and releasing it is one step; the     *)
(* lock and the waiters of the condition variable are explicit.            *)
(***************************************************************************)
EXTENDS Integers, Sequences, FiniteSets

CONSTANTS
  Workers,     \* the thread_num threads of the pool
  Tasks,       \* each is added once, by a caller of its own
  Destroyers,  \* callers of threadpool_destroy
  Main,        \* the thread that calls threadpool_init
  Nobody,      \* no thread, no task
  Faults,      \* calls that may fail: subset of {"malloc", "create", "broadcast"}
  MaxSpurious  \* bound: spurious wake-ups of pthread_cond_wait

Closers == Destroyers \cup {Main}
Threads == Workers \cup Tasks \cup Closers

ASSUME FaultsAssumption   == Faults \subseteq {"malloc", "create", "broadcast"}
ASSUME NobodyAssumption   == Nobody \notin Threads
ASSUME DistinctAssumption ==
  /\ Workers \cap (Tasks \cup Closers) = {} /\ Tasks \cap Closers = {}
  /\ Main \notin Destroyers
ASSUME FiniteAssumption   == IsFiniteSet(Workers) /\ Workers # {}
ASSUME SpuriousAssumption == MaxSpurious \in Nat

VARIABLES
  \* lan_threadpool_t
  mutex,      \* pool->lock: "ready", "destroyed"
  lock,       \* its owner
  waiting,    \* threads blocked on pool->cond
  queue,      \* tasks behind pool->head, the first to be taken first
  queueSize, shutdown, started,
  \* the threads
  init,       \* threadpool_init: "creating", "ready", "failed"
  wpc,        \* worker: "none", "lock", "check", "wait", "run", "exited"
  hand,       \* the task a worker has taken
  apc,        \* caller of threadpool_add: "idle", "lock", "held", "done"
  ares,       \* and what it was returned
  dpc,        \* caller of threadpool_destroy: "idle", "lock", "held", "join", "done"
  dgrace,     \* its argument
  dres,       \* and what it was returned
  spurious,   \* spurious wake-ups so far
  \* history
  accepted,   \* tasks that were put in the queue
  ran         \* how often a task was run

pool  == <<queue, queueSize, shutdown, started>>
calls == <<apc, ares, dpc, dgrace, dres>>
vars  == <<mutex, lock, waiting, pool, init, wpc, hand, calls, spurious, accepted, ran>>

\* lan_threadpool_error_t, and the error_none that is 0
Ok == 0
Invalid == -1
LockFail == -2
AlreadyShutdown == -3
CondBroadcast == -4

\* lan_threadpool_sd_t
Immediate == 1
Graceful == 2

\* pthread_mutex_lock would return at once.
Free == mutex = "ready" /\ lock = Nobody

Created == {w \in Workers : wpc[w] # "none"}

TypeOK ==
  /\ mutex \in {"ready", "destroyed"}
  /\ lock \in Threads \cup {Nobody}
  /\ waiting \subseteq Workers
  /\ queue \in Seq(Tasks)
  /\ queueSize \in Nat
  /\ shutdown \in {0, Immediate, Graceful}
  /\ started \in Nat
  /\ init \in {"creating", "ready", "failed"}
  /\ wpc \in [Workers -> {"none", "lock", "check", "wait", "run", "exited"}]
  /\ hand \in [Workers -> Tasks \cup {Nobody}]
  /\ apc \in [Tasks -> {"idle", "lock", "held", "done"}]
  /\ ares \in [Tasks -> {Ok, Invalid, AlreadyShutdown}]
  /\ dpc \in [Closers -> {"idle", "lock", "held", "join", "done"}]
  /\ dgrace \in [Closers -> {Immediate, Graceful}]
  /\ dres \in [Closers -> {Ok, LockFail, AlreadyShutdown, CondBroadcast}]
  /\ spurious \in 0 .. MaxSpurious
  /\ accepted \subseteq Tasks
  /\ ran \in [Tasks -> Nat]

\* threadpool_init has set up the pool and is about to create the threads.
Init ==
  /\ mutex = "ready" /\ lock = Nobody /\ waiting = {}
  /\ queue = <<>> /\ queueSize = 0 /\ shutdown = 0 /\ started = 0
  /\ init = "creating"
  /\ wpc  = [w \in Workers |-> "none"]
  /\ hand = [w \in Workers |-> Nobody]
  /\ apc  = [t \in Tasks |-> "idle"]
  /\ ares = [t \in Tasks |-> Ok]
  /\ dpc  = [d \in Closers |-> "idle"]
  /\ dgrace = [d \in Closers |-> Immediate]
  /\ dres = [d \in Closers |-> Ok]
  /\ spurious = 0
  /\ accepted = {}
  /\ ran  = [t \in Tasks |-> 0]

-----------------------------------------------------------------------------
(* threadpool_init *)

CreateThreadUncounted(w) ==   \* faulty variant: pool->started is not counted
  /\ init = "creating" /\ wpc[w] = "none"
  /\ wpc' = [wpc EXCEPT ![w] = "lock"]
  /\ UNCHANGED <<mutex, lock, waiting, pool, init, hand, calls, spurious, accepted, ran>>

\* pthread_create succeeds: the new thread may run at once.
CreateThread(w) ==
  /\ init = "creating" /\ wpc[w] = "none"
  /\ wpc' = [wpc EXCEPT ![w] = "lock"]
  /\ started' = started + 1
  /\ UNCHANGED <<mutex, lock, waiting, queue, queueSize, shutdown, init, hand, calls, spurious,
                 accepted, ran>>

\* pthread_create fails: the pool is destroyed with what was created so far.
CreateFails ==
  /\ "create" \in Faults
  /\ init = "creating" /\ Created # Workers
  /\ init' = "failed"
  /\ dpc'  = [dpc EXCEPT ![Main] = "lock"]
  /\ UNCHANGED <<mutex, lock, waiting, pool, wpc, hand, apc, ares, dgrace, dres, spurious,
                 accepted, ran>>

InitReturns ==
  /\ init = "creating" /\ Created = Workers
  /\ init' = "ready"
  /\ UNCHANGED <<mutex, lock, waiting, pool, wpc, hand, calls, spurious, accepted, ran>>

-----------------------------------------------------------------------------
(* threadpool_add *)

Add(t) ==
  /\ init = "ready" /\ apc[t] = "idle"
  /\ apc' = [apc EXCEPT ![t] = "lock"]
  /\ UNCHANGED <<mutex, lock, waiting, pool, init, wpc, hand, ares, dpc, dgrace, dres, spurious,
                 accepted, ran>>

AddLocks(t) ==
  /\ apc[t] = "lock" /\ Free
  /\ lock' = t
  /\ apc'  = [apc EXCEPT ![t] = "held"]
  /\ UNCHANGED <<mutex, waiting, pool, init, wpc, hand, ares, dpc, dgrace, dres, spurious,
                 accepted, ran>>

AddReturns(t, res) ==
  /\ apc'  = [apc EXCEPT ![t] = "done"]
  /\ ares' = [ares EXCEPT ![t] = res]
  /\ UNCHANGED <<dpc, dgrace, dres>>

\* pthread_mutex_lock of a destroyed mutex fails.
AddTooLate(t) ==
  /\ apc[t] = "lock" /\ mutex = "destroyed"
  /\ AddReturns(t, Invalid)
  /\ UNCHANGED <<mutex, lock, waiting, pool, init, wpc, hand, spurious, accepted, ran>>

AddRefused(t) ==
  /\ apc[t] = "held" /\ shutdown # 0
  /\ lock' = Nobody
  /\ AddReturns(t, AlreadyShutdown)
  /\ UNCHANGED <<mutex, waiting, pool, init, wpc, hand, spurious, accepted, ran>>

\* malloc of the task fails: "goto out" with err still 0.
AddNoMem(t) ==
  /\ "malloc" \in Faults
  /\ apc[t] = "held" /\ shutdown = 0
  /\ lock' = Nobody
  /\ AddReturns(t, Ok)
  /\ UNCHANGED <<mutex, waiting, pool, init, wpc, hand, spurious, accepted, ran>>

SignalFirst ==   \* faulty variant: signals only when the queue was empty
  IF waiting = {} \/ queueSize > 0 THEN UNCHANGED waiting
  ELSE \E w \in waiting : waiting' = waiting \ {w}
SignalNone == UNCHANGED waiting   \* faulty variant: no signal
\* pthread_cond_signal: one of the waiters, if there are any, wakes up.
Signal ==
  IF waiting = {} THEN UNCHANGED waiting
  ELSE \E w \in waiting : waiting' = waiting \ {w}

AddPushUnlocked(t) ==   \* faulty variant: tests pool->shutdown before it locks
  /\ apc[t] = "held"
  /\ queue' = <<t>> \o queue
  /\ queueSize' = queueSize + 1
  /\ Signal
  /\ accepted' = accepted \cup {t}
  /\ lock' = Nobody
  /\ AddReturns(t, Ok)
  /\ UNCHANGED <<mutex, shutdown, started, init, wpc, hand, spurious, ran>>

AddPush(t) ==
  /\ apc[t] = "held" /\ shutdown = 0
  /\ queue' = <<t>> \o queue
  /\ queueSize' = queueSize + 1
  /\ Signal
  /\ accepted' = accepted \cup {t}
  /\ lock' = Nobody
  /\ AddReturns(t, Ok)
  /\ UNCHANGED <<mutex, shutdown, started, init, wpc, hand, spurious, ran>>

-----------------------------------------------------------------------------
(* threadpool_worker *)

\* The mutex is free for a worker at the top of its loop, or for one that was
\* woken from pthread_cond_wait.
WorkerLocks(w) ==
  /\ wpc[w] = "lock" \/ (wpc[w] = "wait" /\ w \notin waiting)
  /\ Free
  /\ lock' = w
  /\ wpc'  = [wpc EXCEPT ![w] = "check"]
  /\ UNCHANGED <<mutex, waiting, pool, init, hand, calls, spurious, accepted, ran>>

WorkerWaits(w) ==
  /\ wpc[w] = "check" /\ queueSize = 0 /\ shutdown = 0
  /\ waiting' = waiting \cup {w}
  /\ wpc'  = [wpc EXCEPT ![w] = "wait"]
  /\ lock' = Nobody
  /\ UNCHANGED <<mutex, pool, init, hand, calls, spurious, accepted, ran>>

SpuriousWakeup(w) ==
  /\ w \in waiting /\ spurious < MaxSpurious
  /\ waiting'  = waiting \ {w}
  /\ spurious' = spurious + 1
  /\ UNCHANGED <<mutex, lock, pool, init, wpc, hand, calls, accepted, ran>>

MustExitAny == shutdown # 0   \* faulty variant: leaves the queue to nobody
MustExit == shutdown = Immediate \/ (shutdown = Graceful /\ queueSize = 0)

WorkerExits(w) ==
  /\ wpc[w] = "check" /\ MustExit
  /\ started' = started - 1
  /\ wpc'  = [wpc EXCEPT ![w] = "exited"]
  /\ lock' = Nobody
  /\ UNCHANGED <<mutex, waiting, queue, queueSize, shutdown, init, hand, calls, spurious,
                 accepted, ran>>

WorkerTakesKeeps(w) ==   \* faulty variant: the task stays at the head of the queue
  /\ wpc[w] = "check" /\ ~MustExit /\ ~(queueSize = 0 /\ shutdown = 0)
  /\ queue # <<>>
  /\ hand' = [hand EXCEPT ![w] = Head(queue)]
  /\ queueSize' = queueSize - 1
  /\ wpc' = [wpc EXCEPT ![w] = "run"]
  /\ lock' = Nobody
  /\ UNCHANGED <<mutex, waiting, queue, shutdown, started, init, calls, spurious, accepted, ran>>

\* The head of the queue is taken; if there is none the worker starts over.
WorkerTakes(w) ==
  /\ wpc[w] = "check" /\ ~MustExit /\ ~(queueSize = 0 /\ shutdown = 0)
  /\ IF queue = <<>>
       THEN /\ wpc' = [wpc EXCEPT ![w] = "lock"]
            /\ UNCHANGED <<queue, queueSize, hand>>
       ELSE /\ hand' = [hand EXCEPT ![w] = Head(queue)]
            /\ queue' = Tail(queue)
            /\ queueSize' = queueSize - 1
            /\ wpc' = [wpc EXCEPT ![w] = "run"]
  /\ lock' = Nobody
  /\ UNCHANGED <<mutex, waiting, shutdown, started, init, calls, spurious, accepted, ran>>

WorkerRuns(w) ==
  /\ wpc[w] = "run"
  /\ ran'  = [ran EXCEPT ![hand[w]] = @ + 1]
  /\ hand' = [hand EXCEPT ![w] = Nobody]
  /\ wpc'  = [wpc EXCEPT ![w] = "lock"]
  /\ UNCHANGED <<mutex, lock, waiting, pool, init, calls, spurious, accepted>>

-----------------------------------------------------------------------------
(* threadpool_destroy *)

Destroy(d) ==
  /\ init = "ready" /\ d # Main /\ dpc[d] = "idle"
  /\ dpc' = [dpc EXCEPT ![d] = "lock"]
  /\ \E how \in {Immediate, Graceful} : dgrace' = [dgrace EXCEPT ![d] = how]
  /\ UNCHANGED <<mutex, lock, waiting, pool, init, wpc, hand, apc, ares, dres, spurious,
                 accepted, ran>>

DestroyLocks(d) ==
  /\ dpc[d] = "lock" /\ Free
  /\ lock' = d
  /\ dpc'  = [dpc EXCEPT ![d] = "held"]
  /\ UNCHANGED <<mutex, waiting, pool, init, wpc, hand, apc, ares, dgrace, dres, spurious,
                 accepted, ran>>

DestroyReturns(d, res) ==
  /\ dpc'  = [dpc EXCEPT ![d] = "done"]
  /\ dres' = [dres EXCEPT ![d] = res]
  /\ UNCHANGED <<apc, ares, dgrace>>

DestroyTooLate(d) ==
  /\ dpc[d] = "lock" /\ mutex = "destroyed"
  /\ DestroyReturns(d, LockFail)
  /\ UNCHANGED <<mutex, lock, waiting, pool, init, wpc, hand, spurious, accepted, ran>>

\* "break" with the lock taken: nothing unlocks it.
DestroyAgain(d) ==
  /\ dpc[d] = "held" /\ shutdown # 0
  /\ DestroyReturns(d, AlreadyShutdown)
  /\ UNCHANGED <<mutex, lock, waiting, pool, init, wpc, hand, spurious, accepted, ran>>

DestroyBroadcastFails(d) ==
  /\ "broadcast" \in Faults
  /\ dpc[d] = "held" /\ shutdown = 0
  /\ shutdown' = dgrace[d]
  /\ DestroyReturns(d, CondBroadcast)
  /\ UNCHANGED <<mutex, lock, waiting, queue, queueSize, started, init, wpc, hand, spurious,
                 accepted, ran>>

BroadcastOne == {w \in waiting : w # CHOOSE v \in waiting : TRUE}   \* faulty variant
Broadcast == {}

DestroyShuts(d) ==
  /\ dpc[d] = "held" /\ shutdown = 0
  /\ shutdown' = dgrace[d]
  /\ waiting' = Broadcast
  /\ lock' = Nobody
  /\ dpc'  = [dpc EXCEPT ![d] = "join"]
  /\ UNCHANGED <<mutex, queue, queueSize, started, init, wpc, hand, apc, ares, dgrace, dres,
                 spurious, accepted, ran>>

JoinedOne == \E w \in Created : wpc[w] = "exited"   \* faulty variant: joins one thread
Joined == \A w \in Created : wpc[w] = "exited"

\* Every thread has been joined: the mutex is destroyed unless somebody holds
\* it (EBUSY is not looked at), and threadpool_free empties the queue.
DestroyFrees(d) ==
  /\ dpc[d] = "join" /\ Joined
  /\ mutex' = IF lock = Nobody THEN "destroyed" ELSE mutex
  /\ queue' = IF started > 0 THEN queue ELSE <<>>
  /\ DestroyReturns(d, Ok)
  /\ UNCHANGED <<lock, waiting, queueSize, shutdown, started, init, wpc, hand, spurious,
                 accepted, ran>>

-----------------------------------------------------------------------------
Worker(w) == WorkerLocks(w) \/ WorkerWaits(w) \/ WorkerExits(w) \/ WorkerTakes(w) \/ WorkerRuns(w)
Adder(t)  == AddLocks(t) \/ AddTooLate(t) \/ AddRefused(t) \/ AddNoMem(t) \/ AddPush(t)
Closer(d) == \/ DestroyLocks(d) \/ DestroyTooLate(d) \/ DestroyAgain(d)
             \/ DestroyBroadcastFails(d) \/ DestroyShuts(d) \/ DestroyFrees(d)

Next ==
  \/ CreateFails \/ InitReturns
  \/ \E w \in Workers : CreateThread(w) \/ Worker(w) \/ SpuriousWakeup(w)
  \/ \E t \in Tasks : Add(t) \/ Adder(t)
  \/ \E d \in Closers : Destroy(d) \/ Closer(d)

Spec == Init /\ [][Next]_vars

\* Every thread that can run does, a call that was begun goes on, a task that
\* was started ends.  Nobody has to call add or destroy.
FairSpec ==
  /\ Spec
  /\ \A w \in Workers : WF_vars(Worker(w)) /\ WF_vars(CreateThread(w))
  /\ WF_vars(InitReturns)
  /\ \A t \in Tasks : WF_vars(Adder(t))
  /\ \A d \in Closers : WF_vars(Closer(d))

-----------------------------------------------------------------------------
(* Properties *)

\* A task that was accepted is in exactly one place: in the queue, once, in the
\* hands of one worker, run, or dropped by a shutdown.  So it is run at most
\* once, although the queue is a bare linked list shared by all workers.
InQueue(t) == \E i \in DOMAIN queue : queue[i] = t
InHand(t)  == \E w \in Workers : hand[w] = t
OnePlace ==
  /\ \A i, j \in DOMAIN queue : queue[i] = queue[j] => i = j
  /\ \A v, w \in Workers : hand[v] = hand[w] /\ hand[v] # Nobody => v = w
  /\ \A t \in Tasks :
       /\ ~(InQueue(t) /\ InHand(t))
       /\ InQueue(t) \/ InHand(t) => ran[t] = 0 /\ t \in accepted
       /\ ran[t] <= 1 /\ (ran[t] = 1 => t \in accepted)
       /\ t \in accepted /\ shutdown # Immediate =>
            InQueue(t) \/ InHand(t) \/ ran[t] = 1

\* Workers that will look at the queue before they sleep.
Awake == {w \in Workers : \/ wpc[w] \in {"lock", "check"}
                          \/ wpc[w] = "wait" /\ w \notin waiting}

\* One signal per task is enough: while a worker sleeps, every task in the queue
\* has a worker of its own on the way to it.
WorkConserving ==
  waiting # {} /\ shutdown = 0 => queueSize <= Cardinality(Awake)

\* A threadpool_destroy that failed has left the mutex locked: nothing in the pool
\* goes on from there.
LockAbandoned == \E d \in Closers : lock = d /\ dpc[d] = "done"

\* The flag of the pool and the broadcast go together: no worker is asleep, nor
\* falls asleep, once a shutdown has been announced.
NoSleeperAfterShutdown == shutdown # 0 /\ ~LockAbandoned => waiting = {}

\* The mutex and the condition variable outlive every worker, and a worker is
\* never left holding a task of a pool that was freed.
NoWorkerAfterDestroy ==
  \A d \in Closers : dpc[d] = "done" /\ dres[d] = Ok =>
    /\ \A w \in Created : wpc[w] = "exited"
    /\ started = 0

\* threadpool_destroy(pool, 1) returns 0 only after every accepted task has been
\* run (tests/thread_pool_test.c relies on it for its sum).
GracefulDrains ==
  \A d \in Closers : dpc[d] = "done" /\ dres[d] = Ok /\ dgrace[d] = Graceful =>
    \A t \in accepted : ran[t] = 1

\* What TaskPool says of a task and of the pool, read off this state.
Status(t) ==
  IF ran[t] > 0 THEN "ran"
  ELSE IF InHand(t) THEN "running"
  ELSE IF InQueue(t) THEN "queued"
  ELSE IF t \in accepted THEN "dropped"
  ELSE IF apc[t] = "done" THEN "refused" ELSE "new"
Phase ==
  IF \E d \in Closers : dpc[d] = "done" /\ dres[d] = Ok THEN "returned"
  ELSE IF shutdown = 0 THEN "open"
  ELSE IF shutdown = Graceful THEN "graceful" ELSE "immediate"

Abstract == INSTANCE TaskPool WITH status <- [t \in Tasks |-> Status(t)], phase <- Phase

\* Whatever the interleaving of callers and workers, the pool does what TaskPool
\* says.
ImplementsTaskPool == Abstract!PoolSpec

\* tests/thread_pool_test.c:31 takes a result of 0 for "the task was added".
AddedMeansAccepted ==
  \A t \in Tasks : apc[t] = "done" /\ ares[t] = Ok => t \in accepted

\* An accepted task is eventually run, unless an immediate shutdown begins.
AcceptedRuns ==
  \A t \in Tasks : t \in accepted ~> \/ ran[t] = 1
                                    \/ shutdown = Immediate \/ LockAbandoned

\* "set the showdown flag of pool and wake up all thread" (src/threadpool.c:145):
\* after a shutdown was announced every worker exits.
ShutdownEndsWorkers == shutdown # 0 ~> \A w \in Created : wpc[w] = "exited"

\* They do, and the call that has to join them returns, if no call of
\* threadpool_destroy keeps the mutex.
WorkersEnd ==
  shutdown # 0 ~> \/ LockAbandoned
                 \/ /\ \A w \in Created : wpc[w] = "exited"
                    /\ \A d \in Closers : dpc[d] # "join"
=============================================================================
