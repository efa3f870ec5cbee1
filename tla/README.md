# gulan in TLA+

gulan is a small HTTP server for Linux: one thread, an edge-triggered epoll
loop, a request parser over a ring buffer, and three components that are built
but not called at this commit (a thread pool, timers and the priority queue
under them).  This directory holds a TLA+ model of it, the configurations that
check the model with TLC, and proofs of its main invariants for TLAPS.  Paths
in this text and in the comments of the modules are relative to the root of
the repository.

## The system

| component | code | state | operations | uses |
|---|---|---|---|---|
| event loop | `src/gulan.c`, `src/epoll.c` | epoll set, `events[]`, one `lan_http_request_t` per connection | wait, dispatch, accept, close a broken connection | the kernel; `do_request` |
| request parsing | `src/http.c`, `src/http_parse.c`, `src/http_request.c` | ring buffer `buf`, `pos`, `last`, parser `state`, pointers into the ring, header list | read, parse request line, parse headers, answer, re-arm or close | `rio.c`, `list.h`; called by the event loop with a bare pointer |
| responses | `src/http.c`, `src/http_request.c`, `src/gulan.c` | `lan_http_out_t`, the mapping of the index page, a mapped file | stat, handle the headers, write header and body, error page | files; `rio.c`, `list.h` |
| robust I/O | `src/rio.c` | none for writing | write all of a buffer | the socket |
| list | `src/list.h` | doubly linked ring | add, delete, walk | header list |
| thread pool | `src/threadpool.c` | mutex, condition variable, LIFO queue, `shutdown`, `started` | init, add, destroy, worker loop | pthreads; meant to call `do_request` (the call is commented out) |
| timers | `src/timer.c` | heap of timer nodes, current time | add, delete (lazily), find next, handle expired | priority queue; calls `lan_http_close_conn` (not in use) |
| priority queue | `src/priority_queue.c` | array, count, allocated size | insert, delmin, min, resize | timers |
| configuration | `src/util.c` | none | read the file, open the socket | start of `main` |

What is hard to test in it:

- *Two clocks.*  The peers and the kernel act between any two system calls of
  the loop.  Events are delivered once (edge-triggered, one-shot): one that is
  lost is lost for good, and one that is delivered twice or late carries a
  pointer to an object that may have been freed and a descriptor number that
  may have been reused.
- *Segmentation.*  The client's bytes may be cut anywhere, several requests may
  arrive in one read, and the ring wraps.  Two parsers share one state variable
  and one position, and responses are computed through pointers into the ring.
- *Files that change.*  A response speaks of a file three times: at `stat`, in
  the mapping it writes the body from, and, for the index page, at the start of
  the server.  Others replace and remove files in between.
- *Slow clients.*  A response that does not fit into the send buffer is cut,
  and the connection is used on.
- *Threads.*  Workers, callers of `threadpool_add` and of `threadpool_destroy`
  meet at one mutex and one condition variable, with one signal per task.
- *Time.*  A deleted timer stays in the heap; a timer may run out while the
  event that would delete it waits in `events[]`.
- *Failure.*  `accept`, `malloc`, `epoll_ctl`, `open`, `write`,
  `pthread_create` and `pthread_cond_broadcast` fail in the middle of
  something.

What makes each component correct: the event loop never handles a stale event,
loses none and gives every descriptor back; a connection answers every request
once, in order, with the data of that request, whatever the segmentation; a
response is on the wire as a whole and is what its header says; the pool runs
an accepted task once and is drained by a graceful shutdown; a connection has
one timer, which closes it when it has been idle for its time and not before.

`PROJECT.json` lists every component with its status, every hazard at its line
with the properties that watch it, and the lines each definition stands for.

## Modules

`EventLoop` is the server as a whole.  Peers connect, send, and hang up at any
time; the kernel keeps the accept queue, the descriptor table, the epoll
registrations and the ready list; the loop of `main` goes through its batch of
events, accepts, and runs `do_request` one system call per step.  What the
parser makes of the bytes of one `read` is a free choice there (again, error, a
whole request), so the results hold for any parser.  `pc` is where the thread
stands, `batch` the part of `events[]` not yet handled, `errs` the entries of
it with `EPOLLERR`; `req` and `rfd` are the request objects and their `fd`.
That a descriptor number may be closed and reused within one batch is part of
the model: `CloseFd` closes whatever has that number.

`Connection` is one connection in detail.  The client delivers the bytes of its
stream in pieces; `Read` copies as much as `remain_size` admits into the ring,
`LineByte` and `BodyByte` take one transition of the two parsers each, given as
a table of rows <<state, bytes, next state>> (a byte without a row is a parse
error), `ParseAgain` saves position and state, `ServeError` and `ServeStatic`
are the two ways to answer.  `uriStart`, `uriEnd` and the header fields are
slots of the ring, as the code's pointers are.  It refines the choice
`EventLoop` leaves open: `Wake` is the delivery of an event that `EventLoop`
shows not to be lost.  The relation of the two is by reading, not by a
refinement mapping.

`Dialogue` is what the client of a connection is promised, with no ring, no
parsers and no headers: bytes arrive, a request that arrived whole is answered in
its turn and as it asked, the server closes with the answer that announces no
keep-alive, or else after the client has, and then not on a request of a client
that waits for its answers.  `Connection` implements it under the mapping
`closed <- pc = "closed"`, the other variables being its own.  `StreamParse` says
what the bytes of a stream mean when they lie in memory as a whole: one pass of
the two tables from the first byte to the last, with no reads, no ring and
nothing left over from earlier requests (`IsPass`), and from it the status and
the connection each request calls for (`Expected`).  `Orderly` names the streams
and rings for which the promise is kept.

A text in the ring is read through a pointer and a length, as the code reads it
(`Text`): where the length is negative, because the text crosses the end of
`buf`, it goes on to the end of the array and into the padding behind it, up to
the first NUL.  The padding is what `malloc` left there, a NUL or text that names
nothing (`Padding`), chosen anew for each response; `Spells` is what a C string
is.

`Response` takes over where `Connection` has one step: a request line has been
parsed, the client asks for a file.  `Stat`, one round of the header loop
(`HandleHeader`), each `write` of `rio_writen` (`Write`, `WriteFails`), `Open`
and the end of the body are steps of their own, between which files are
replaced and removed and the client reads or does not.  Bytes of a body are
pairs <<version of the file, place in it>>, so that a byte from the wrong file
or the wrong place can be told; `cache` is what the client has kept of earlier
responses and asks with `If-Modified-Since` for.  The headers are the nodes of
`HeaderList`, the ring of `src/list.h` with its pointers.  The loop of
`lan_http_handle_header` frees the header it stands on and then reads the next
one from the freed header (`src/http_request.c:80`, then `src/list.h:72`).  What
it reads is what `list_del` left there, or `Junk` if `free` has overwritten it:
`DropHeader` chooses.  A loop that has read `Junk` is `Lost` and its behaviour is
not followed further.

`ThreadPool` is the pool with its lock, the set of waiters, and per-thread
program counters of workers, callers of `threadpool_add` and callers of
`threadpool_destroy`.  The shared fields are only touched under the lock, so a
critical section is one step between taking and releasing it; taking the lock
is a step of its own.  `TaskPool` is what callers are promised, with no threads
and no lock: a task is accepted or refused, started once, finished; a shutdown
returns when nothing runs and, if graceful, nothing waits.  `ThreadPool`
implements it under the mapping `status <- [t \in Tasks |-> Status(t)]`,
`phase <- Phase`.

`PriorityQueue` is the heap as an array: `Insert` and `DelMin` begin a call,
with `resize` and its failure, `SwimStep` and `SinkStep` are one round of the
loops each.  `OrderedBag` is its promise: a set of items with keys, of which
the least is given.  `Timer` composes the heap with `src/timer.c` and with the
loop timers were written for, the one with the calls that are commented out at
this commit (`src/gulan.c:147`, `169`, `172`, `223` and `src/http.c:54`, `151`).
That loop is reduced to what concerns timers: connections are accepted, have
events, are kept, closed, or broken by `EPOLLERR`.  `Tick` is the clock.

`MCEventLoop`, `MCConnection`, `MCRequests`, `MCThreadPool`, `MCTimer` and
`MCResponse` are the modules TLC is run on; they hold symmetry sets and the byte
streams of clients.  The operators marked "faulty variant" next to a definition
are plausible mistakes in it; each property is broken by one of them.

## What the runs check

| run | instance | checks |
|---|---|---|
| `eventloop_safety` | 3 connections, 2 descriptors, `MAXEVENTS` 2, 1 unread byte, failing `accept`, `malloc` and `epoll_ctl` (`ADD` and `MOD`) | `TypeOK`, `NoStaleEvent`, `ExclusiveHandling`, `NoLostEvent`, `NoStrandedBacklog`, `RequestsMatchSockets` |
| `eventloop_live` | 2 connections, 2 descriptors, 2 unread bytes, fair | `NoStarvation`, `DescriptorReleased`, `BacklogAccepted` |
| `connection_stream` | ring of 28 bytes; three requests in a row (200, 404, 200), one with unusual spacing and digits, one that is not HTTP; cut anywhere, pipelined | `TypeOK`, `RoomForRead`, `UnreadIntact`, `AnswersAreEarned` |
| `connection_requests` | ring of 90 bytes, seven clients with two or three requests (200, 304, 403, 404; kept and not), of which four wait for each answer; fair | `AnsweredInOrder`, `ImplementsDialogue`, `AllAnswered` |
| `connection_split`, `connection_wrap`, `connection_errpage` | one client each | violated: see below |
| `response` | 2 files with three versions each (older, newer, same date), of size 1 or 3 with pages of 2; 2 headers; header of 2, send buffer of 3; `open` fails; fair | `TypeOK`, `RingIsSound`, `InFrame`, `BodyIsAsDated`, `HeadersAllHandled`, `NotModifiedIsTrue`, `Answered` |
| `threadpool_shared` | 2 workers, 3 tasks, 2 callers of destroy, every fault, 1 spurious wake-up, fair | `TypeOK`, `OnePlace`, `WorkConserving`, `NoSleeperAfterShutdown`, `NoWorkerAfterDestroy`, `GracefulDrains`, `ImplementsTaskPool`, `AcceptedRuns`, `WorkersEnd` |
| `threadpool_twodestroys`, `threadpool_nomem` | as small as the case needs | violated: see below |
| `timer` | 2 connections, 4 nodes, array of initially 2, timeouts 1 and 2, events up to time 1, `resize` and `malloc` of a node fail; fair | `TypeOK`, `HeapOrder`, `OneTimerEach`, `SleepsToTheFirst`, `OnlyLateEventsCrash`, `ImplementsOrderedBag`, `NotBeforeDue`, `NobodyLingers` |

Why the bounds are enough.  *Event loop:* more connections than descriptors
makes numbers be reused within a batch and `EMFILE` happen; a batch smaller than
the ready list makes events wait in the kernel while others are handled; one
unread byte distinguishes readable from not, two let a read take part of what is
there.  *Connection:* a ring of 28 bytes is shorter than the streams of requests
(34 and 66 bytes), so every slot is reused, the parsers lag behind the reader at
each offset, and there is room for bytes of the next request to lie where
`parse_uri` writes its NUL; a ring of 90 holds all requests of a client, which
separates the questions about order from those about wrapping.  In the runs with
`Segments = "line"` a request may be cut anywhere in its request line, not in
its headers: `connection_split` shows what happens there.  *Response:* the send
buffer holds a header and a piece of a body, so each write may be whole, cut or
refused; sizes 1 and 3 with pages of 2 give files that shrink and grow over a
page and a mapping whose last page is not full; two replacements of each file
put a change between any two of its uses and let a file get an older date, and
then the date it had at first; two headers are the shortest list with a first
and a last one.  *Pool:* two workers and three tasks are enough for a worker
that is signalled to find its task taken by another, and for a task added while
one runs and one waits; two callers of destroy meet in every order.  *Timer:*
two connections have up to four nodes, because deleted ones stay, which makes
the array of three slots grow to six and shrink again, and the heap three levels
deep; timeouts 1 and 2 let a later timer run out first.  `Horizon` bounds the
time at which sockets have events; after it only timers are left, and they must
finish.

No run checks for deadlock: peers need not send, callers need not call, and
when they are done the system rests.

**Fairness.**  `EventLoop`: the server thread takes a step whenever it can.
Peers owe nothing.  Since `do_request` reads until `EAGAIN`, one peer that
always has another byte keeps the only thread; the liveness properties are
about executions in which the loop returns to `epoll_wait` again and again
(`NoMonopoly`), and fail without that.  `Connection`: the server handles the
event of a readable connection.  `Response`: only the server thread, so
`Answered` does not depend on a client that reads.  `ThreadPool`: a thread that
can run does, a call that was begun goes on, and a task that was started ends;
weak fairness of each thread suffices because the number of calls is finite.
Nobody has to call `threadpool_destroy`.  `Timer`: the server thread (weak) and
the clock, strongly: a step of time that is possible again and again is taken,
however busy the loop is.

## Where code and text disagree

- `connection_split`: a request cut inside its headers is closed without an
  answer.  The header parser returns `LAN_AGAIN` after saving its state, and
  the next round of `do_request` (`src/http.c:80`) starts with the parser of
  the request line, in a state number that means something else to it.
- `connection_wrap`: when the URI crosses the end of the ring, `uri_end -
  uri_start` (`src/http.c:112`) is negative and another name is looked up.  The
  ring of 25 bytes puts the `/` of the second request in the last slot and its
  `X`, a file that may not be read, in the first: what is looked up is `/`, or
  `/` with what the padding holds, and the answer is a 200 or a 404 for a 403.
- `connection_errpage`: after a 404 or 403 the headers stay in the list and are
  applied to the next request, in spite of the check at `src/http.c:129`.
- `threadpool_twodestroys`: the second `threadpool_destroy` returns with the
  mutex locked (`src/threadpool.c:148`); the workers never exit.
- `threadpool_nomem`: `threadpool_add` returns 0 for a task that was not queued
  for want of memory (`src/threadpool.c:87`).

Other limits of the code are stated in properties that hold:

- `NoStrandedBacklog` says that connections are left pending with no event to
  come only after `accept` or `malloc` failed, for want of descriptors or
  otherwise: the edge-triggered listener does not announce them again
  (`src/gulan.c:202`).
- `NoLostEvent` leaves out the connections whose `EPOLL_CTL_ADD`
  (`src/gulan.c:222`) or `EPOLL_CTL_MOD` (`src/http.c:150`) failed, which is
  only logged (`deaf`): they are open and have no event to come.
- `RequestsMatchSockets` leaves out the descriptor accepted when `malloc` fails
  (`src/gulan.c:213`), which nothing closes; the request object of a connection
  that ends with `EPOLLERR` is `"leaked"` (`src/gulan.c:231`).
- `UnreadIntact` leaves out one byte in one case (`lineCut`): a request line
  that was cut behind its URI lets a read put later bytes into the slot of
  `uri_end`, one of which the NUL of `parse_uri` (`src/http.c:162`) then
  replaces.  This happens in `connection_stream`: the parser meets the NUL in
  the next request.
- `Dialogue` lets requests of a client that does not wait for its answers stay
  in the ring until more bytes come (`src/http.c:68`), and drops them at the end
  of the stream.
- `RingIsSound`, `HeadersAllHandled` and `Answered` speak of a walk that is a
  use after free (`src/http_request.c:80`).  They hold up to the point where it
  reads a word that `free` has overwritten (`Lost`); that this does not happen
  is a matter of the allocator, not of the code.
- `InFrame` holds until a write has failed on the connection: `rio_writen` gives
  up on `EAGAIN`, the rest of the response is dropped, and a connection that is
  kept goes on with the next (`src/rio.c:42`).
- `BodyIsAsDated` and `NotModifiedIsTrue` leave out an index page other than the
  one at the start of the server: its size and date are those `stat` reports
  now, its contents those of the mapping of the start (`src/http.c:268`).
  `BodyIsAsDated` also leaves out responses whose file was replaced between
  `stat` and `open` (`src/http.c:275`).  `NotModifiedIsTrue` does not, but
  leaves out dates that two versions of a file share, since `st_mtime` in
  seconds is all the server compares (`src/http.c:126`), and connections with
  headers left over from a request that got an error page.
- `AcceptedRuns` and `WorkersEnd` except a `threadpool_destroy` that returned
  with the mutex locked (`LockAbandoned`).
- `OnlyLateEventsCrash` says in which case alone the loop with timers handles a
  freed request: the timer ran out after the event was fetched and before its
  turn.  `src/mx_debug/README.md` describes this crash.
- `NobodyLingers` leaves out a connection whose timer could not be inserted
  (`Untimed`): the failure is only logged (`src/timer.c:110`), and executions
  that have crashed, by the race above or because `malloc` of a node failed: the
  NULL node is logged and then written (`src/timer.c:99`, `AddTimerCrashes`).
- `NoWorkerAfterDestroy` is about workers.  A caller that waits for the mutex
  when `threadpool_destroy` destroys it (`src/threadpool.c:174`) is undefined
  behaviour, which the model does not follow.

## What is proved

The theorems hold for every value of the constants that satisfies the named
assumptions of the modules (sets of connections, descriptors, workers, tasks,
timer nodes and headers of any size, any ring size from 2, any client stream;
the assumptions on streams are named below).

`EventLoopProofs`: the six properties of `eventloop_safety`.  None is inductive
alone.  That a queued event points to a live request rests on one-shot delivery
(`QueuesOK`, `HandlingOK`: what is fetched or handled is disarmed, what is ready
is armed, so closing a connection leaves no event of it behind), which rests on
the life cycle of descriptors and request objects (`ObjectsOK`) and on no two
sockets sharing a number (`DistinctFds`: `close(fd)` closes the connection it is
meant for and no other).  `NoStrandedBacklog` follows from `BacklogOK`: pending
connections have an event, an accept loop under way, or an error behind them.

`ConnectionProofs`: the type invariant (positions, slots and states stay in
range; `pos` and the parser never pass `last`, `last` never passes what was
sent), and that `read` is never offered an empty buffer.  A read may fill the
ring up to one byte, so `RoomForRead` is not inductive: the invariant `FillOK`
bounds `last - pos` by the place where `do_request` stands, and uses that every
pass through the parsers advances `pos`, to the end of what was read or past a
request line.  `UnreadIntact` is inductive beside it: `SlotsDiffer` says that
bytes less than a ring apart have different slots, `SlotsFollow` that a read
lays its bytes down in the order in which the parsers fetch them, and `FillOK`
that the unread bytes and the new ones lie less than a ring apart.  For the NUL of
`parse_uri`, `UriOK` says that `uri_end` is the slot of a byte the parsers have
passed, less than a ring behind the unread ones, unless `LAN_AGAIN` was last
returned behind the URI (`lineCut`); so the NUL hits no unread byte otherwise.
`AnswersAreEarned` holds for any stream whose blank lines behind headers end its
requests (`MarksAssumption`, which states what `end` means).  `SeenOK` says what
the parser of the headers has seen in each of its states: behind a colon, at LF,
at LF CR; so it stops at the end of a request, and at none before the next
(`EarnedOK`).  The only foreign byte it can meet in the ring, the NUL of
`parse_uri`, is neither.

`DialogueProofs`: `AnsweredInOrder` and `ImplementsDialogue`, for every stream,
every ring and every segmentation that `Orderly` admits.  Neither is inductive:
what is answered depends on pointers that were set many bytes earlier, and on
what has become of the ring since.  `ParseInv` compares `do_request` with the
pass of `StreamParse`: when `n` bytes are parsed, its parser and state
(`Control`), its pointers and its headers (`At`) are those of the pass behind
`n` bytes; the texts found lie one behind the other in the current request
(`Placed`), whose bytes are still in the ring (`Whole`).  The two differ in
three ways, and each needs a reason.  A parser starts again at each read with
the saved state, and `do_request` starts with the parser of the request line: no
read ends inside headers (`Outside`).  Headers of requests that got an error
page stay in the list: they are none the server acts on (`Old`), and remain so
because no read writes to a slot twice, so the key of such a header can only
turn into NUL. `parse_uri` writes a NUL: at the end of the URI, in front of the
headers of its request and of all that is parsed later.  So at `"serve"` the
lookups in the ring find what the pass finds, and since the pass met no other
end of a request on the way, the request is the next to be answered. 
`NothingIsOverdue` and `NothingIsDropped` add `Patient`: a client that waits has
at most one request under way, so when nothing is unread and the loop is back at
`read`, that request has its answer, and no end of stream drops it. 
`NothingIsOverdue` is the safety half of `AllAnswered`; what remains of it is
that the server thread gets on.

`Orderly` excludes streams that are not HTTP, which the server closes on, and
what the findings above show: requests that are cut
inside their headers (`connection_split`), a ring in which a URI may cross the
end (`connection_wrap`; streams longer than the ring are covered by
`AnswersAreEarned`, `UnreadIntact` and `RoomForRead` only), and headers the server
acts on in a request that gets an error page (`connection_errpage`).  That it is
satisfied is checked: `RequestStreamsAreOrderly` of `MCRequests` computes the pass
for each stream of `connection_requests`, and the other two conditions are the
constants of that run.

`ThreadPoolProofs`: no task is lost or run twice (`OnePlace`), no worker sleeps
through a shutdown, no worker is left when destroy returns 0, and a graceful
destroy that returns 0 has seen every accepted task run.  The invariant adds
the life cycle of the workers: one that has exited saw, under the lock, either
an immediate shutdown or an empty queue in a graceful one; nothing is added
after that; `started` counts the workers that run; the caller that joins is the
one that announced the shutdown.  `GracefulDrains` follows: once all workers
have exited `queueSize` is 0, it bounds the length of the queue, no worker holds
a task, and `OnePlace` leaves "run" as the only place of an accepted task.
`WorkConserving` is a count: while a worker sleeps, the queue is not longer than
the number of workers that will look at it before they sleep (`Awake`).  A
signal adds one to that count as `threadpool_add` adds one to the queue, a
worker that leaves it takes a task with it, and one that goes to sleep has seen
the queue empty under the lock.

`PoolImplements`: every step of `ThreadPool` is a step of `TaskPool` or none of
its concern.  The invariant above is used for the tasks (one that is taken is in
no other place) and `OneAnnounces` for the shutdown: of several callers one
alone announces it, so the mode of the abstract pool is set once.

`PriorityQueueProofs`: `HeapInv` says that slots hold items (`HeapTypeOK`), no
item is twice in the array (`NoDuplicates`), `swim` and `sink` are at a slot
they may be at, with the deleted item still behind the last one while `sink`
runs (`LoopOK`), and no item is above a smaller one but for the one on its way,
whose new neighbours are in order with each other (`HeapOrder`).  From it the
root is least: of the slots that hold something smaller the least would have a
parent that holds something smaller still.  With this `HeapImplements` shows
that the array implements `OrderedBag`: `lan_pq_min` returns a least element of
what was put in and not taken, for any size of the array and any failure of
`resize`. The conjuncts speak of the heap variables alone, so `TimerProofs` uses
the same lemmas for the calls `timer.c` makes.

`TimerProofs`: `TInv` adds to the heap where the loop stands (`PhaseOK`), that
the one node of a connection that is not deleted is the one `r->timer` points to
(`TimersOK`), that the wait computed by `lan_find_timer` ends with the first
timer that counts (`SleepOK`), and the condition under which alone a freed
request is handled (`OnlyLateEventsCrash`).  It gives the four invariants of
run `timer` and `NotBeforeDue`: the root is least, so a timer that is handled
because the root is due was due itself, and marked nodes are dropped without
their handler.

`ResponseProofs`: the header list is a chain from the head back to the head that
visits each live entry once.  `list_del` of the entry under the loop keeps the
chain and leaves in the entry the pointer to the chain's new front.  The loop
reads that pointer after the entry was freed.  So if `free` left it alone the
loop stands at the front of the chain again, and otherwise it is `Lost`: nothing
is assumed of `free`, and nothing better can be proved of the code
(`RingIsSound`). Since a loop that is lost gets no further in the model, one
that ends has emptied the list (`HeadersAllHandled`).

`BodyProofs`: four invariants beside the type.  `FrameOK` says how far the
response is on the wire at each place in the code; at the end this is `InFrame`.
`OutOK` says which status, date and size the code can have found at each place.
`SourceOK` says that what is about to be mapped or written is the version the
head is dated with, as long as nothing was replaced meanwhile; it contains
`BodyIsAsDated`.  `CacheOK` says why a copy that is not what its date says
cannot be confirmed: its date is that of a version the file no longer has (or,
for the index page, that of a version other than the one mapped at the start),
versions do not come back, and 304 is sent only for the date `stat` reports; it
contains `NotModifiedIsTrue`.  Dates are any function of the versions: later
versions may have earlier or equal dates, and `DateTells` excludes only the 304
for a date that does not tell versions apart.

## What is only model-checked

- All liveness (`NoStarvation`, `DescriptorReleased`, `BacklogAccepted`,
  `AllAnswered`, `AcceptedRuns`, `WorkersEnd`, `NobodyLingers`, `Answered`):
  the proof system has no rule for fairness and `ENABLED`.
- That a given stream has a pass that describes its requests.  The proofs take
  this from `Orderly`; for the streams of the runs TLC computes it.  To derive it
  from the shape of the requests is an induction over their bytes, which the
  installed provers cannot do.

## What is not modelled

- In `Connection`: resets (they are in `EventLoop`), failing `malloc`, query
  strings and names longer than `SHORTLINE / 2`, the request method (it is
  parsed and never used), requests without headers, names in the ring that go on
  behind the first byte of the padding.
- In `Response`: what a loop does that has followed a word of a freed header
  (`Lost`), files that are edited in place (they are replaced or removed), a
  version that comes back with its date, empty files, the text of the responses,
  the `lan_http_out_t` that an error page leaks.
- In `rio.c`: `rio_readn` and the buffered readers, which nothing calls.  In
  `list.h`: `list_add_tail` and `list_for_each_prev`, which only a test uses.
- In the heap: `lan_pq_sink`, which nothing calls, and return values, which
  callers only log.
- In `ThreadPool`: failures of the allocations in `threadpool_init`, of
  `pthread_join`, `pthread_cond_signal` and `pthread_mutex_unlock`.  An unlock
  by the owner and a join of a thread that was created and not joined do not
  fail.
- In `EventLoop`: a failing `fcntl` in `make_socket_non_blocking` (it is only
  logged), signals, and what comes before the loop of `main`.
- In `Timer`: descriptors; that a connection closed twice closes the socket of
  another one needs `EventLoop` and `Timer` together.
- `read_conf` and `open_listenfd`, tables, logging and the load generator: they
  keep no state after the server has started.

## What could follow

1. `Orderly` derived from a grammar of requests, where an induction can be had:
   then the hypothesis would speak of requests and not of a pass.
2. `PooledServer`: event loop and pool with the call at `src/gulan.c:236`, which
   is commented out at this commit; what `EPOLLONESHOT` gives when several
   workers run `do_request`, and what the accept loop may touch meanwhile.
3. `Timer` over the whole event loop, with descriptors: a late event may then
   close a descriptor that has been given to another connection.
4. Streams with requests without headers and with query strings in
   `Connection`; files that change in place in `Response`.
5. Resets by the client while `rio_writen` writes, and the signal they raise.
