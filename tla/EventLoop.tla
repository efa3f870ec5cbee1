----------------------------- MODULE EventLoop -----------------------------
(***************************************************************************)
(* The single-threaded server: the epoll loop of main() in src/gulan.c,    *)
(* the wrappers of src/epoll.c, the accept loop, and do_request of         *)
(* src/http.c at the granularity of its system calls.  The peers and the   *)
(* kernel (sockets, descriptor table, epoll interest and ready lists) run  *)
(* concurrently with it.                                                   *)
(*                                                                         *)
(* Abstractions: bytes are counted, not named; what the parser makes of    *)
(* the bytes of one read() is a nondeterministic verdict (module           *)
(* Connection is the detailed model of it); the kernel's accept queue and  *)
(* ready list are sets, so every order of delivery is explored.            *)
(***************************************************************************)
EXTENDS Naturals, FiniteSets

CONSTANTS
  Conns,      \* the connections peers will open, each opened at most once
  Listener,   \* stands for the lan_http_request_t of the listening socket
  Fds,        \* the descriptors left for connections (ulimit -n)
  NoFd,       \* no descriptor
  MaxEvents,  \* MAXEVENTS of src/epoll.h
  MaxRx,      \* bound: bytes that wait unread in one socket
  Faults      \* which calls may fail: subset of CallNames

CallNames == {"accept", "malloc", "epoll_add", "epoll_mod"}

ASSUME ListenerAssumption  == Listener \notin Conns
ASSUME NoFdAssumption      == NoFd \notin Fds
ASSUME MaxEventsAssumption == MaxEvents \in Nat \ {0}
ASSUME MaxRxAssumption     == MaxRx \in Nat \ {0}
ASSUME FaultsAssumption    == Faults \subseteq CallNames

VARIABLES
  \* the peers and the kernel
  peer,      \* what the peer has done with its end: "up", "fin", "reset"
  sock,      \* the server's end: "none", "backlog", "open", "closed"
  rx,        \* bytes received and not yet read
  fdOf,      \* descriptor table: the number an open socket is known by
  interest,  \* epoll registration: "off", "armed", "fired" (EPOLLONESHOT)
  ready,     \* epoll ready list
  \* the server
  pc,        \* where the loop stands
  cur,       \* the request whose event is being handled
  batch,     \* entries of events[] not yet handled
  errs,      \* those of them that carry EPOLLERR or EPOLLHUP
  req,       \* lan_http_request_t of a connection: "none", "live", "leaked", "freed"
  rfd,       \* r->fd
  \* history, for the properties
  backlog,   \* what the last accept loop left: "drained", "abandoned"
  deaf       \* the connections whose EPOLL_CTL_ADD or EPOLL_CTL_MOD failed

kernel == <<peer, sock, rx, fdOf, interest, ready>>
server == <<pc, cur, batch, errs, req, rfd, backlog, deaf>>
vars   == <<kernel, server>>

TypeOK ==
  /\ peer     \in [Conns -> {"up", "fin", "reset"}]
  /\ sock     \in [Conns -> {"none", "backlog", "open", "closed"}]
  /\ rx       \in [Conns -> 0..MaxRx]
  /\ fdOf     \in [Conns -> Fds \cup {NoFd}]
  /\ interest \in [Conns -> {"off", "armed", "fired"}]
  /\ ready    \subseteq Conns \cup {Listener}
  /\ pc       \in {"wait", "dispatch", "accept", "read", "respond", "rearm", "close"}
  /\ cur      \in Conns \cup {Listener}
  /\ batch    \subseteq Conns \cup {Listener}
  /\ errs     \subseteq batch \cap Conns
  /\ req      \in [Conns -> {"none", "live", "leaked", "freed"}]
  /\ rfd      \in [Conns -> Fds \cup {NoFd}]
  /\ backlog  \in {"drained", "abandoned"}
  /\ deaf     \subseteq Conns

\* The state in which main() enters its loop: the listening socket is in the
\* epoll set (edge-triggered), nothing else exists yet.
Init ==
  /\ peer     = [c \in Conns |-> "up"]
  /\ sock     = [c \in Conns |-> "none"]
  /\ rx       = [c \in Conns |-> 0]
  /\ fdOf     = [c \in Conns |-> NoFd]
  /\ interest = [c \in Conns |-> "off"]
  /\ ready    = {}
  /\ pc       = "wait"
  /\ cur      = Listener
  /\ batch    = {}
  /\ errs     = {}
  /\ req      = [c \in Conns |-> "none"]
  /\ rfd      = [c \in Conns |-> NoFd]
  /\ backlog  = "drained"
  /\ deaf     = {}

-----------------------------------------------------------------------------
(* The kernel and the peers *)

\* read() on the socket would not return EAGAIN.
Readable(c) == rx[c] > 0 \/ peer[c] # "up"

InBacklog == {c \in Conns : sock[c] = "backlog"}

FreeFds == Fds \ {fdOf[c] : c \in Conns}

\* The wake-up callback of an epoll item: an armed registration becomes ready.
Notify(c) == ready' = IF interest[c] = "armed" THEN ready \cup {c} ELSE ready

\* A handshake completes.  Each one is a new edge on the listening socket.
Connect(c) ==
  /\ sock[c] = "none"
  /\ sock'  = [sock EXCEPT ![c] = "backlog"]
  /\ ready' = ready \cup {Listener}
  /\ UNCHANGED <<peer, rx, fdOf, interest, server>>

PeerMay(c) == sock[c] \in {"backlog", "open"}

Send(c) ==
  /\ PeerMay(c) /\ peer[c] = "up"
  /\ rx[c] < MaxRx
  /\ rx' = [rx EXCEPT ![c] = @ + 1]
  /\ Notify(c)
  /\ UNCHANGED <<peer, sock, fdOf, interest, server>>

\* The peer shuts down its end (FIN) or resets the connection (RST), at once or
\* after a FIN, as it does when it has closed and is still sent a response.
Hangup(c) ==
  /\ PeerMay(c) /\ peer[c] # "reset"
  /\ \E how \in {"fin", "reset"} \ {peer[c]} : peer' = [peer EXCEPT ![c] = how]
  /\ Notify(c)
  /\ UNCHANGED <<sock, rx, fdOf, interest, server>>

\* close(fd): whatever socket has that number goes, and with it its epoll
\* registration ("closing a file descriptor will cause it to be removed from
\* all epoll sets automatically", src/http_request.c:85).
CloseFd(fd) ==
  LET gone == {c \in Conns : fdOf[c] = fd}
  IN  /\ sock'     = [c \in Conns |-> IF c \in gone THEN "closed" ELSE sock[c]]
      /\ fdOf'     = [c \in Conns |-> IF c \in gone THEN NoFd ELSE fdOf[c]]
      /\ interest' = [c \in Conns |-> IF c \in gone THEN "off" ELSE interest[c]]
      /\ ready'    = ready \ gone
      /\ UNCHANGED <<peer, rx>>

-----------------------------------------------------------------------------
(* main(): the epoll loop *)

\* What the delivery of an event leaves of a connection's registration: every
\* EPOLL_CTL_ADD and EPOLL_CTL_MOD of a connection asks for EPOLLONESHOT.
AfterDeliveryNoOneShot == "armed"  \* faulty variant: registered without EPOLLONESHOT
AfterDelivery == "fired"

\* epoll_wait returns up to MAXEVENTS ready entries.  The listening socket is
\* edge-triggered and stays armed; a connection is one-shot and is disarmed.
EpollWait ==
  /\ pc = "wait"
  /\ ready # {}
  /\ \E taken \in SUBSET ready :
       /\ IF Cardinality(ready) <= MaxEvents
            THEN taken = ready
            ELSE Cardinality(taken) = MaxEvents
       /\ batch'    = taken
       /\ errs'     = {c \in taken \cap Conns : peer[c] = "reset"}
       /\ ready'    = ready \ taken
       /\ interest' = [c \in Conns |-> IF c \in taken THEN AfterDelivery ELSE interest[c]]
  /\ pc' = "dispatch"
  /\ UNCHANGED <<peer, sock, rx, fdOf, cur, req, rfd, backlog, deaf>>

BatchDone ==
  /\ pc = "dispatch"
  /\ batch = {}
  /\ pc' = "wait"
  /\ UNCHANGED <<kernel, cur, batch, errs, req, rfd, backlog, deaf>>

DispatchListener ==
  /\ pc = "dispatch"
  /\ Listener \in batch
  /\ batch' = batch \ {Listener}
  /\ cur'   = Listener
  /\ pc'    = "accept"
  /\ UNCHANGED <<kernel, errs, req, rfd, backlog, deaf>>

\* Faulty variant: the "continue" after close(fd) is missing.
DispatchBrokenFallsThrough(c) ==
  /\ pc = "dispatch"
  /\ c \in errs
  /\ batch' = batch \ {c}
  /\ errs'  = errs \ {c}
  /\ CloseFd(rfd[c])
  /\ cur'   = c
  /\ pc'    = "read"
  /\ UNCHANGED <<req, rfd, backlog, deaf>>

\* Faulty variant: the broken connection is skipped but its descriptor kept.
DispatchBrokenKeepsFd(c) ==
  /\ pc = "dispatch"
  /\ c \in errs
  /\ batch' = batch \ {c}
  /\ errs'  = errs \ {c}
  /\ req'   = [req EXCEPT ![c] = "leaked"]
  /\ UNCHANGED <<kernel, pc, cur, rfd, backlog, deaf>>

\* EPOLLERR, EPOLLHUP or no EPOLLIN: main() closes the descriptor itself and
\* goes on with the next event; the request object is not freed.
DispatchBroken(c) ==
  /\ pc = "dispatch"
  /\ c \in errs
  /\ batch' = batch \ {c}
  /\ errs'  = errs \ {c}
  /\ CloseFd(rfd[c])
  /\ req'   = [req EXCEPT ![c] = "leaked"]
  /\ UNCHANGED <<pc, cur, rfd, backlog, deaf>>

\* Faulty variant: the event's EPOLLERR and EPOLLHUP bits are not looked at.
DispatchRequestUnchecked(c) ==
  /\ pc = "dispatch"
  /\ c \in batch \ {Listener}
  /\ batch' = batch \ {c}
  /\ cur'   = c
  /\ pc'    = "read"
  /\ UNCHANGED <<kernel, errs, req, rfd, backlog, deaf>>

DispatchRequest(c) ==
  /\ pc = "dispatch"
  /\ c \in batch \ (errs \cup {Listener})
  /\ batch' = batch \ {c}
  /\ cur'   = c
  /\ pc'    = "read"
  /\ UNCHANGED <<kernel, errs, req, rfd, backlog, deaf>>

-----------------------------------------------------------------------------
(* main(): the accept loop *)

\* accept() succeeds: the socket gets a descriptor, which may be one that was
\* closed earlier in the same batch of events.
Accepted(c, fd) ==
  /\ pc = "accept"
  /\ c \in InBacklog
  /\ fd \in FreeFds
  /\ sock' = [sock EXCEPT ![c] = "open"]
  /\ fdOf' = [fdOf EXCEPT ![c] = fd]

\* Faulty variant: one accept() per event of the edge-triggered listener.
AcceptConnOnce(c, fd) ==
  /\ Accepted(c, fd)
  /\ req' = [req EXCEPT ![c] = "live"]
  /\ rfd' = [rfd EXCEPT ![c] = fd]
  /\ interest' = [interest EXCEPT ![c] = "armed"]
  /\ ready' = IF Readable(c) THEN ready \cup {c} ELSE ready
  /\ pc' = "dispatch"
  /\ UNCHANGED <<peer, rx, cur, batch, errs, backlog, deaf>>

\* ... and a request object, and is added to the epoll set.  EPOLL_CTL_ADD
\* queues the entry at once when the socket is readable already.  A failed
\* EPOLL_CTL_ADD is only logged.
AcceptConn(c, fd) ==
  /\ Accepted(c, fd)
  /\ req' = [req EXCEPT ![c] = "live"]
  /\ rfd' = [rfd EXCEPT ![c] = fd]
  /\ \/ /\ interest' = [interest EXCEPT ![c] = "armed"]
        /\ ready' = IF Readable(c) THEN ready \cup {c} ELSE ready
        /\ UNCHANGED deaf
     \/ /\ "epoll_add" \in Faults
        /\ deaf' = deaf \cup {c}
        /\ UNCHANGED <<interest, ready>>
  /\ UNCHANGED <<peer, rx, pc, cur, batch, errs, backlog>>

\* accept() returns EAGAIN: every pending connection has been taken.
AcceptDrained ==
  /\ pc = "accept"
  /\ InBacklog = {}
  /\ pc'      = "dispatch"
  /\ backlog' = "drained"
  /\ UNCHANGED <<kernel, cur, batch, errs, req, rfd, deaf>>

\* accept() fails for want of a descriptor, or otherwise (ENFILE, ENOMEM ...): any
\* errno but EAGAIN stops the loop, whatever is pending.
AcceptFails ==
  /\ pc = "accept"
  /\ FreeFds = {} \/ "accept" \in Faults
  /\ pc'      = "dispatch"
  /\ backlog' = "abandoned"
  /\ UNCHANGED <<kernel, cur, batch, errs, req, rfd, deaf>>

\* malloc of the request object fails: the loop is left, the accepted
\* descriptor stays open and is in no epoll set.
AcceptNoMem(c, fd) ==
  /\ "malloc" \in Faults
  /\ Accepted(c, fd)
  /\ pc'      = "dispatch"
  /\ backlog' = "abandoned"
  /\ UNCHANGED <<peer, rx, interest, ready, cur, batch, errs, req, rfd, deaf>>

-----------------------------------------------------------------------------
(* do_request *)

\* read() returns bytes and they are parsed: LAN_AGAIN (read again), a parse
\* error (close) or a whole request (respond).
ReadBytes ==
  /\ pc = "read"
  /\ \E n \in 1..rx[cur] : rx' = [rx EXCEPT ![cur] = @ - n]
  /\ pc' \in {"read", "close", "respond"}
  /\ UNCHANGED <<peer, sock, fdOf, interest, ready, cur, batch, errs, req, rfd, backlog, deaf>>

\* Faulty variant: every n <= 0 is taken for EAGAIN.
ReadEndAsAgain ==
  /\ pc = "read"
  /\ rx[cur] = 0 /\ peer[cur] # "up"
  /\ pc' = "rearm"
  /\ UNCHANGED <<kernel, cur, batch, errs, req, rfd, backlog, deaf>>

\* read() returns 0 (FIN) or fails with ECONNRESET.
ReadEnd ==
  /\ pc = "read"
  /\ rx[cur] = 0 /\ peer[cur] # "up"
  /\ pc' = "close"
  /\ UNCHANGED <<kernel, cur, batch, errs, req, rfd, backlog, deaf>>

\* Faulty variant: do_request returns on EAGAIN without lan_epoll_mod.
ReadAgainNoRearm ==
  /\ pc = "read"
  /\ ~Readable(cur)
  /\ pc' = "dispatch"
  /\ UNCHANGED <<kernel, cur, batch, errs, req, rfd, backlog, deaf>>

\* read() fails with EAGAIN: leave the loop and re-arm.
ReadAgain ==
  /\ pc = "read"
  /\ ~Readable(cur)
  /\ pc' = "rearm"
  /\ UNCHANGED <<kernel, cur, batch, errs, req, rfd, backlog, deaf>>

\* The response is written.  After an error page or with keep-alive the loop
\* reads again, otherwise the connection is closed.
Respond ==
  /\ pc = "respond"
  /\ pc' \in {"read", "close"}
  /\ UNCHANGED <<kernel, cur, batch, errs, req, rfd, backlog, deaf>>

\* EPOLL_CTL_MOD re-arms the one-shot registration and queues the entry at
\* once if the socket became readable since the EAGAIN.  A failed EPOLL_CTL_MOD
\* is only logged, and the connection stays disarmed.
Rearm ==
  /\ pc = "rearm"
  /\ \/ /\ interest' = [interest EXCEPT ![cur] = "armed"]
        /\ ready' = IF Readable(cur) THEN ready \cup {cur} ELSE ready
        /\ UNCHANGED deaf
     \/ /\ "epoll_mod" \in Faults
        /\ deaf' = deaf \cup {cur}
        /\ UNCHANGED <<interest, ready>>
  /\ pc' = "dispatch"
  /\ UNCHANGED <<peer, sock, rx, fdOf, cur, batch, errs, req, rfd, backlog>>

\* lan_http_close_conn: close(r->fd); free(r).
CloseConn ==
  /\ pc = "close"
  /\ CloseFd(rfd[cur])
  /\ req' = [req EXCEPT ![cur] = "freed"]
  /\ pc'  = "dispatch"
  /\ UNCHANGED <<cur, batch, errs, rfd, backlog, deaf>>

-----------------------------------------------------------------------------
DoRequest == ReadBytes \/ ReadEnd \/ ReadAgain \/ Respond \/ Rearm \/ CloseConn

ServerStep ==
  \/ EpollWait \/ BatchDone \/ DispatchListener
  \/ AcceptDrained \/ AcceptFails
  \/ \E c \in Conns : DispatchBroken(c) \/ DispatchRequest(c)
  \/ \E c \in Conns, fd \in Fds : AcceptConn(c, fd) \/ AcceptNoMem(c, fd)
  \/ DoRequest

PeerStep == \E c \in Conns : Connect(c) \/ Send(c) \/ Hangup(c)

Next == ServerStep \/ PeerStep

Spec == Init /\ [][Next]_vars

\* The server thread is never denied the processor.  Nothing is assumed of
\* the peers.
FairSpec == Spec /\ WF_vars(ServerStep)

-----------------------------------------------------------------------------
(* Safety *)

Handling == pc \in {"read", "respond", "rearm", "close"}

\* Conns the loop still holds or may be given a pointer to.
Referenced == ((batch \cup ready) \cap Conns) \cup (IF Handling THEN {cur} ELSE {})

\* Events carry a bare pointer to the request object and do_request frees that
\* object.  Every pointer that is in the ready list, in events[] or being
\* handled is to an object not yet freed, whose r->fd is still the number of
\* its own open socket (and not of a connection that reused the number).
NoStaleEvent ==
  \A c \in Referenced :
    /\ req[c] = "live"
    /\ sock[c] = "open"
    /\ rfd[c] = fdOf[c] /\ fdOf[c] # NoFd

\* EPOLLONESHOT: while a connection's event is being handled, or waits in
\* events[], no second event for it is queued anywhere.
ExclusiveHandling ==
  /\ Handling => cur \notin batch
  /\ \A c \in (batch \cap Conns) \cup (IF Handling THEN {cur} ELSE {}) :
       interest[c] = "fired" /\ c \notin ready

\* Edge-triggered one-shot delivery loses nothing: a connection that is neither
\* being handled nor about to be is armed, and if it has become readable (even
\* between the EAGAIN and the re-arming) its event is queued.  Only a connection whose
\* EPOLL_CTL_ADD or EPOLL_CTL_MOD failed is in no queue and has no event to come.
NoLostEvent ==
  \A c \in Conns :
    (req[c] = "live" /\ c \notin batch /\ ~(Handling /\ cur = c)) =>
      \/ interest[c] = "armed" /\ (Readable(c) <=> c \in ready)
      \/ c \in deaf /\ interest[c] # "armed"

\* The listener is edge-triggered, so the accept loop must drain the backlog:
\* whenever the loop sleeps with connections pending and no event queued for
\* them, the last accept loop was stopped by an error.
NoStrandedBacklog ==
  (pc = "wait" /\ InBacklog # {} /\ Listener \notin ready) => backlog = "abandoned"

\* Descriptors and request objects are released together: an open descriptor
\* has a live request object and no descriptor outlives the end of its
\* request, except for a descriptor accepted when no memory was left.
RequestsMatchSockets ==
  \A c \in Conns :
    /\ req[c] = "live" => sock[c] = "open"
    /\ sock[c] = "open" => req[c] = "live" \/ (req[c] = "none" /\ "malloc" \in Faults)
    /\ req[c] \in {"leaked", "freed"} => sock[c] = "closed"

-----------------------------------------------------------------------------
(* Liveness.  do_request reads until EAGAIN, so one peer that never stops     *)
(* sending keeps the only thread: the properties are about executions in     *)
(* which no peer does that, that is, the loop returns to epoll_wait again    *)
(* and again.                                                                *)

NoMonopoly == []<>(pc = "wait")

\* Bytes, an end of file or a reset that arrive on an open connection are
\* eventually consumed or the connection closed.
NoStarvation ==
  NoMonopoly => \A c \in Conns :
    (sock[c] = "open" /\ Readable(c)) ~> (sock[c] = "closed" \/ ~Readable(c))

\* A connection whose peer is gone gives its descriptor back.
DescriptorReleased ==
  NoMonopoly => \A c \in Conns :
    (sock[c] = "open" /\ peer[c] # "up") ~> sock[c] = "closed"

\* With descriptors for all, every connection is eventually accepted.
BacklogAccepted ==
  NoMonopoly => \A c \in Conns : sock[c] = "backlog" ~> sock[c] = "open"
=============================================================================
