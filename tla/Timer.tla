------------------------------- MODULE Timer -------------------------------
(***************************************************************************)
(* The timers of src/timer.c over the heap of PriorityQueue, with the loop *)
(* they were written for: main of src/gulan.c and do_request of src/http.c *)
(* call them at the places where the calls are now commented out, with     *)
(* lan_http_close_conn as the handler.  That loop is the environment here, *)
(* reduced to what concerns timers: connections are accepted, have events, *)
(* and are kept, closed or broken.                                         *)
(*                                                                         *)
(* A timer node is an item of the heap.  Deleting a timer only marks its   *)
(* node; the node is dropped and freed when it has come to the top.        *)
(***************************************************************************)
EXTENDS PriorityQueue, FiniteSets

CONSTANTS
  Requests,   \* connections, each with its lan_http_request_t
  Listener,   \* the request of the listening socket
  Timeouts,   \* what lan_add_timer may be asked for
  Horizon     \* bound: the last moment at which sockets have events

ASSUME RequestsAssumption == Listener \notin Requests /\ Nil \notin Requests
ASSUME TimesAssumption    == Timeouts \subseteq Nat /\ Horizon \in Nat

VARIABLES
  \* lan_timer_node, beside its key
  alloc,      \* nodes that have been allocated and not been freed
  deleted,    \* node->deleted
  rq,         \* node->rq
  \* the requests
  conn,       \* "none", "open", "broken" (fd closed on EPOLLERR), "freed"
  timer,      \* r->timer
  \* the loop
  pc,         \* "find", "wait", "expire", "handle", "serve", "crashed", and
              \* "findfree", "expirefree": back from lan_pq_delmin
  node,       \* timer_node of lan_find_timer and lan_handle_expire_timers
  time,       \* what lan_find_timer returned, and what is left of it in epoll_wait
  batch,      \* the events still to be handled
  r,          \* the request do_request is at work for
  \* the world
  clock,      \* gettimeofday
  due         \* history: when the timer that was last set for a request runs out

timers == <<alloc, deleted, rq, timer>>
loop   == <<pc, node, time, batch, r>>
tvars  == <<heap, timers, conn, loop, clock, due>>

MaxOf(S) == CHOOSE x \in S : \A y \in S : y <= x
MaxClock == Horizon + MaxOf(Timeouts)
Infinite == -1   \* LAN_TIMER_INFINITE

TypeOK ==
  /\ HeapTypeOK
  /\ alloc \subseteq Items /\ deleted \subseteq alloc
  /\ rq \in [Items -> Requests \cup {Nil}]
  /\ conn \in [Requests -> {"none", "open", "broken", "freed"}]
  /\ timer \in [Requests -> Items \cup {Nil}]
  /\ pc \in {"find", "findfree", "wait", "expire", "expirefree", "handle", "serve", "crashed"}
  /\ node \in Items \cup {Nil}
  /\ time \in Nat \cup {Infinite}
  /\ batch \subseteq Requests \cup {Listener}
  /\ r \in Requests \cup {Nil}
  /\ clock \in Nat
  /\ due \in [Requests -> Nat]

\* lan_timer_init; the loop has not begun.
Init ==
  /\ HeapInit
  /\ alloc = {} /\ deleted = {} /\ rq = [n \in Items |-> Nil]
  /\ clock = 0
  /\ conn = [q \in Requests |-> "none"] /\ timer = [q \in Requests |-> Nil]
  /\ pc = "find" /\ node = Nil /\ time = 0 /\ batch = {} /\ r = Nil
  /\ due = [q \in Requests |-> 0]

\* A call into the heap has returned.
Ready == op = "none"

HeapRuns == HeapStep /\ UNCHANGED <<timers, conn, loop, clock, due>>

\* lan_current_msec is not a variable: whoever reads it calls lan_time_update just
\* before.  A step of the clock elsewhere in the loop could as well come before or
\* after.  Once the sockets are quiet only the wait takes time.
Tick ==
  /\ Ready /\ pc \in {"wait", "handle"}
  /\ clock < (IF pc = "wait" THEN MaxClock ELSE Horizon)
  /\ clock' = clock + 1
  /\ time' = IF time > 0 THEN time - 1 ELSE time
  /\ UNCHANGED <<heap, timers, conn, pc, node, batch, r, due>>

-----------------------------------------------------------------------------
(* lan_add_timer, lan_del_timer, and freeing a node *)

\* Connections whose sockets are watched, and connections still to come.
Watched == {q \in Requests : conn[q] = "open"}
Unborn  == {q \in Requests : conn[q] = "none"}

\* Which free node malloc returns makes no difference: addresses are not compared.
Fresh == CHOOSE n \in Items : n \notin alloc

\* lan_add_timer, while there are at most as many nodes as Items (a bound).  A
\* node that cannot be inserted stays the timer of its request.
AddTimer(q, timeout) ==
  /\ alloc # Items
  /\ alloc' = alloc \cup {Fresh}
  /\ timer' = [timer EXCEPT ![q] = Fresh]
  /\ rq' = [rq EXCEPT ![Fresh] = q]
  /\ due' = [due EXCEPT ![q] = clock + timeout]
  /\ Insert(Fresh, clock + timeout) \/ InsertFails(Fresh, clock + timeout)
  /\ UNCHANGED deleted

\* malloc of the node fails ("node" in Faults): that is only logged, and the fields of the
\* NULL node are written next, by the accept loop or by do_request.
AddTimerCrashes ==
  /\ "node" \in Faults
  /\ pc = "serve" \/ (pc = "handle" /\ Ready /\ Listener \in batch /\ Unborn # {})
  /\ pc' = "crashed"
  /\ UNCHANGED <<heap, timers, conn, node, time, batch, r, clock, due>>

DelTimerNone(q) == UNCHANGED deleted   \* faulty variant: forgets to mark
\* lan_del_timer
DelTimer(q) == deleted' = deleted \cup {timer[q]}

\* free(timer_node).  Nothing is kept of the fields of a freed node.
FreeNode ==
  /\ alloc' = alloc \ {node} /\ deleted' = deleted \ {node}
  /\ rq' = [rq EXCEPT ![node] = Nil] /\ key' = [key EXCEPT ![node] = 0]
  /\ node' = Nil
  /\ UNCHANGED <<pq, nalloc, size, op, k, timer>>

\* lan_http_close_conn: nothing is kept of the request, save for OnlyLateEventsCrash.
FreeRequest(q) ==
  /\ conn' = [conn EXCEPT ![q] = "freed"]
  /\ timer' = [timer EXCEPT ![q] = Nil]
  /\ due' = IF q \in batch THEN due ELSE [due EXCEPT ![q] = 0]

-----------------------------------------------------------------------------
(* lan_find_timer *)

FindNothing ==
  /\ pc = "find" /\ Ready /\ nalloc = 0
  /\ time' = Infinite /\ pc' = "wait"
  /\ UNCHANGED <<heap, timers, conn, node, batch, r, clock, due>>

FindDeleted ==
  /\ pc = "find" /\ Ready /\ nalloc > 0 /\ Min \in deleted
  /\ node' = Min /\ DelMin
  /\ pc' = "findfree"
  /\ UNCHANGED <<timers, conn, time, batch, r, clock, due>>

FindFrees ==
  /\ pc = "findfree" /\ Ready
  /\ FreeNode
  /\ pc' = "find"
  /\ UNCHANGED <<conn, time, batch, r, clock, due>>

FindAnyMin ==   \* faulty variant: does not look at node->deleted
  /\ pc = "find" /\ Ready /\ nalloc > 0
  /\ time' = IF key[Min] > clock THEN key[Min] - clock ELSE 0
  /\ pc' = "wait"
  /\ UNCHANGED <<heap, timers, conn, node, batch, r, clock, due>>

FindMin ==
  /\ pc = "find" /\ Ready /\ nalloc > 0 /\ Min \notin deleted
  /\ time' = IF key[Min] > clock THEN key[Min] - clock ELSE 0
  /\ pc' = "wait"
  /\ UNCHANGED <<heap, timers, conn, node, batch, r, clock, due>>

-----------------------------------------------------------------------------
(* epoll_wait(time) *)

\* Some sockets have events, or the time is over.
Wakes ==
  /\ pc = "wait"
  /\ \E ready \in SUBSET (Watched \cup IF Unborn # {} THEN {Listener} ELSE {}) :
       /\ ready # {} => clock <= Horizon
       /\ ready = {} => time = 0
       /\ batch' = ready
  /\ pc' = "expire" /\ time' = 0
  /\ UNCHANGED <<heap, timers, conn, node, r, clock, due>>

-----------------------------------------------------------------------------
(* lan_handle_expire_timers *)

ExpireDeleted ==
  /\ pc = "expire" /\ Ready /\ nalloc > 0 /\ Min \in deleted
  /\ node' = Min /\ DelMin
  /\ pc' = "expirefree"
  /\ UNCHANGED <<timers, conn, time, batch, r, clock, due>>

ExpireAnyway(early) ==
  /\ pc = "expire" /\ Ready /\ nalloc > 0 /\ Min \notin deleted /\ key[Min] <= clock + early
  /\ node' = Min /\ DelMin
  /\ FreeRequest(rq[Min])
  /\ pc' = "expirefree"
  /\ UNCHANGED <<alloc, deleted, rq, time, batch, r, clock>>
ExpireEarly == ExpireAnyway(1)   \* faulty variant: a millisecond too early

\* The handler, lan_http_close_conn, closes the connection and frees its request.
ExpireFires == ExpireAnyway(0)

ExpireFrees ==
  /\ pc = "expirefree" /\ Ready
  /\ FreeNode
  /\ pc' = "expire"
  /\ UNCHANGED <<conn, time, batch, r, clock, due>>

ExpireDone ==
  /\ pc = "expire" /\ Ready
  /\ nalloc > 0 => Min \notin deleted /\ key[Min] > clock
  /\ pc' = "handle"
  /\ UNCHANGED <<heap, timers, conn, node, time, batch, r, clock, due>>

-----------------------------------------------------------------------------
(* The events of the batch *)

Accept(q) ==
  /\ pc = "handle" /\ Ready /\ Listener \in batch /\ conn[q] = "none"
  /\ conn' = [conn EXCEPT ![q] = "open"]
  /\ \E timeout \in Timeouts : AddTimer(q, timeout)
  /\ UNCHANGED <<loop, clock>>

AcceptsDone ==
  /\ pc = "handle" /\ Ready /\ Listener \in batch
  /\ batch' = batch \ {Listener}
  /\ UNCHANGED <<heap, timers, conn, pc, node, time, r, clock, due>>

\* An event of a connection that lan_handle_expire_timers has freed since the
\* event was fetched: its request is read after it was freed, and its timer is
\* written through a stale pointer.
HandleFreed(q) ==
  /\ pc = "handle" /\ Ready /\ q \in batch /\ conn[q] = "freed"
  /\ pc' = "crashed"
  /\ UNCHANGED <<heap, timers, conn, node, time, batch, r, clock, due>>

HandleBrokenStops(q) ==   \* faulty variant: stops the timer that would free the request
  /\ pc = "handle" /\ Ready /\ q \in batch /\ conn[q] = "open"
  /\ DelTimer(q)
  /\ conn' = [conn EXCEPT ![q] = "broken"]
  /\ batch' = batch \ {q}
  /\ UNCHANGED <<heap, alloc, rq, timer, pc, node, time, r, clock, due>>

\* EPOLLERR or EPOLLHUP: close(fd), and nothing else.
HandleBroken(q) ==
  /\ pc = "handle" /\ Ready /\ q \in batch /\ conn[q] = "open"
  /\ conn' = [conn EXCEPT ![q] = "broken"]
  /\ batch' = batch \ {q}
  /\ UNCHANGED <<heap, timers, pc, node, time, r, clock, due>>

\* do_request begins by deleting the timer.
HandleData(q) ==
  /\ pc = "handle" /\ Ready /\ q \in batch /\ conn[q] = "open"
  /\ DelTimer(q)
  /\ pc' = "serve" /\ r' = q /\ batch' = batch \ {q}
  /\ UNCHANGED <<heap, alloc, rq, timer, conn, node, time, clock, due>>

\* do_request re-arms the connection and sets a new timer.
ServeKeeps ==
  /\ pc = "serve"
  /\ \E timeout \in Timeouts : AddTimer(r, timeout)
  /\ pc' = "handle" /\ r' = Nil
  /\ UNCHANGED <<conn, node, time, batch, clock>>

\* do_request closes the connection.
ServeCloses ==
  /\ pc = "serve"
  /\ FreeRequest(r)
  /\ pc' = "handle" /\ r' = Nil
  /\ UNCHANGED <<heap, alloc, deleted, rq, node, time, batch, clock>>

HandleDone ==
  /\ pc = "handle" /\ Ready /\ batch = {}
  /\ pc' = "find"
  /\ UNCHANGED <<heap, timers, conn, node, time, batch, r, clock, due>>

-----------------------------------------------------------------------------
Finder  == FindNothing \/ FindDeleted \/ FindFrees \/ FindMin
Expirer == ExpireDeleted \/ ExpireFires \/ ExpireFrees \/ ExpireDone
Handler ==
  \/ \E q \in Requests : Accept(q) \/ HandleFreed(q) \/ HandleBroken(q) \/ HandleData(q)
  \/ AcceptsDone \/ ServeKeeps \/ ServeCloses \/ HandleDone \/ AddTimerCrashes

Server == HeapRuns \/ Finder \/ Wakes \/ Expirer \/ Handler
Next == Server \/ Tick

Spec == Init /\ [][Next]_tvars

\* The thread runs, and time passes: a step of the clock that is possible again and
\* again is taken, however busy the loop is.
FairSpec == Spec /\ WF_tvars(Server) /\ SF_tvars(Tick)

-----------------------------------------------------------------------------
(* Properties *)

\* Timers that are set: in the heap, or on their way to the top, and not deleted.
Live == (Contents \ deleted) \ {node}
InService(q) == pc = "serve" /\ r = q

\* A request whose timer could not be inserted (only logged, src/timer.c:110).
Untimed(q) ==
  /\ conn[q] \in {"open", "broken"}
  /\ rq[timer[q]] = q /\ timer[q] \notin Contents \cup deleted

\* Each connection that waits for its peer has one timer, which r->timer points
\* to, so that lan_del_timer marks that one and no other; and no connection that
\* is gone has one.  What is in the heap has not been freed: the comparator reads no
\* freed node.
OneTimerEach ==
  pc # "crashed" =>
    /\ Contents \subseteq alloc
    /\ \A q \in Requests : conn[q] \in {"open", "broken"} =>
         /\ timer[q] \in alloc /\ rq[timer[q]] = q
         /\ timer[q] \in deleted <=> InService(q)
    /\ \A n \in Live : conn[rq[n]] \in {"open", "broken"} /\ timer[rq[n]] = n

\* lan_find_timer looks past the timers that were deleted: epoll_wait sleeps until
\* the first one that is set runs out, not longer and not shorter.
SleepsToTheFirst ==
  pc = "wait" =>
    IF Live = {} THEN time = Infinite
    ELSE /\ \A n \in Live : clock + time <= key[n] \/ time = 0
         /\ \E n \in Live : key[n] <= clock + time

\* A connection is closed by its timer only when nothing has happened on it for
\* the whole of its timeout.
NotBeforeDue ==
  [][\A q \in Requests :
       pc = "expire" /\ conn[q] # "freed" /\ conn'[q] = "freed" => due[q] <= clock]_tvars

\* An event is handled for a connection that was freed only when its timer ran out
\* between the fetching of the event and its turn: mx_debug/README.md describes the
\* crash.  The one other is for want of memory (AddTimerCrashes).
OnlyLateEventsCrash ==
  \A q \in batch \ {Listener} :
    conn[q] # "open" => conn[q] = "freed" /\ due[q] <= clock /\ pc \notin {"find", "wait"}

\* A connection on which nothing happens any more is closed and freed, as is one
\* whose socket was closed on an error and nothing else.
NobodyLingers ==
  \A q \in Requests :
    conn[q] \in {"open", "broken"} ~> (conn[q] = "freed" \/ Untimed(q) \/ pc = "crashed")
=============================================================================
