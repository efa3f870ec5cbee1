-------------------------- MODULE EventLoopProofs --------------------------
(***************************************************************************)
(* The safety invariants of EventLoop hold for every set of connections    *)
(* and descriptors, every MAXEVENTS and every fault the model admits.      *)
(*                                                                         *)
(* None of them is inductive alone: that an event points to a live request *)
(* rests on one-shot delivery (a request being handled is in no queue),    *)
(* which rests on the life cycle of descriptors and request objects.       *)
(***************************************************************************)
EXTENDS EventLoop, TLAPS

\* Life cycle of a connection's socket, descriptor and request object.
ObjectsOK ==
  \A c \in Conns :
    /\ sock[c] = "open" <=> fdOf[c] # NoFd
    /\ interest[c] # "off" => req[c] = "live"
    /\ req[c] = "live" => sock[c] = "open" /\ rfd[c] = fdOf[c]
    /\ sock[c] \in {"none", "backlog"} => req[c] = "none"
    /\ sock[c] = "open" => req[c] = "live" \/ (req[c] = "none" /\ "malloc" \in Faults)

\* No two sockets share a descriptor.
DistinctFds ==
  \A c, d \in Conns : fdOf[c] = fdOf[d] /\ fdOf[c] # NoFd => c = d

\* The request being handled is live, disarmed and in no queue.
HandlingOK ==
  Handling => /\ cur \in Conns \ batch
              /\ req[cur] = "live"
              /\ interest[cur] = "fired"

\* Fetched events are disarmed, queued events are armed.
QueuesOK ==
  /\ \A c \in batch \cap Conns : req[c] = "live" /\ interest[c] = "fired"
  /\ \A c \in ready \cap Conns : interest[c] = "armed"
  /\ pc = "wait" => batch = {}

\* Pending connections have an event, an accept loop, or an error before them.
BacklogOK ==
  InBacklog # {} => \/ Listener \in ready \cup batch
                    \/ pc = "accept"
                    \/ backlog = "abandoned"

IInv == /\ TypeOK /\ ObjectsOK /\ DistinctFds /\ HandlingOK
        /\ QueuesOK /\ NoLostEvent /\ BacklogOK
-----------------------------------------------------------------------------
\* close() of the descriptor of an open connection closes that connection and
\* no other.
LEMMA CloseFdOwn ==
  ASSUME IInv, NEW c \in Conns, req[c] = "live", CloseFd(rfd[c])
  PROVE  /\ sock'     = [sock EXCEPT ![c] = "closed"]
         /\ fdOf'     = [fdOf EXCEPT ![c] = NoFd]
         /\ interest' = [interest EXCEPT ![c] = "off"]
         /\ ready'    = ready \ {c}
         /\ UNCHANGED <<peer, rx>>
<1>1. {d \in Conns : fdOf[d] = rfd[c]} = {c}
  BY DEF IInv, ObjectsOK, DistinctFds
<1>2. QED
  BY <1>1 DEF CloseFd, IInv, TypeOK

LEMMA InitIInv == Init => IInv
  BY ListenerAssumption, NoFdAssumption, MaxRxAssumption
     DEF Init, IInv, TypeOK, ObjectsOK, DistinctFds, HandlingOK, Handling,
         QueuesOK, NoLostEvent, BacklogOK, InBacklog

LEMMA StepIInv == IInv /\ [Next]_vars => IInv'
<1> SUFFICES ASSUME IInv, [Next]_vars PROVE IInv'
  OBVIOUS
<1> USE ListenerAssumption, NoFdAssumption, MaxRxAssumption
<1>1. ASSUME NEW c \in Conns, Connect(c) PROVE IInv'
  BY <1>1 DEF Connect, server, IInv, TypeOK, ObjectsOK, DistinctFds, HandlingOK,
     Handling, QueuesOK, NoLostEvent, Readable, BacklogOK, InBacklog
<1>2. ASSUME NEW c \in Conns, Send(c) PROVE IInv'
  BY <1>2 DEF Send, Notify, PeerMay, server, IInv, TypeOK, ObjectsOK, DistinctFds,
     HandlingOK, Handling, QueuesOK, NoLostEvent, Readable, BacklogOK, InBacklog
<1>3. ASSUME NEW c \in Conns, Hangup(c) PROVE IInv'
  BY <1>3 DEF Hangup, Notify, PeerMay, server, IInv, TypeOK, ObjectsOK, DistinctFds,
     HandlingOK, Handling, QueuesOK, NoLostEvent, Readable, BacklogOK, InBacklog
<1>4. CASE EpollWait
  BY <1>4 DEF EpollWait, AfterDelivery, IInv, TypeOK, ObjectsOK, DistinctFds,
     HandlingOK, Handling, QueuesOK, NoLostEvent, Readable, BacklogOK, InBacklog
<1>5. CASE BatchDone
  BY <1>5 DEF BatchDone, kernel, IInv, TypeOK, ObjectsOK, DistinctFds, HandlingOK,
     Handling, QueuesOK, NoLostEvent, Readable, BacklogOK, InBacklog
<1>6. CASE DispatchListener
  BY <1>6 DEF DispatchListener, kernel, IInv, TypeOK, ObjectsOK, DistinctFds,
     HandlingOK, Handling, QueuesOK, NoLostEvent, Readable, BacklogOK, InBacklog
<1>7. ASSUME NEW c \in Conns, DispatchBroken(c) PROVE IInv'
  <2>1. c \in batch \cap Conns /\ req[c] = "live"
    BY <1>7 DEF DispatchBroken, IInv, TypeOK, QueuesOK
  <2>2. QED
    BY <1>7, <2>1, CloseFdOwn
       DEF DispatchBroken, IInv, TypeOK, ObjectsOK, DistinctFds, HandlingOK,
           Handling, QueuesOK, NoLostEvent, Readable, BacklogOK, InBacklog
<1>8. ASSUME NEW c \in Conns, DispatchRequest(c) PROVE IInv'
  BY <1>8 DEF DispatchRequest, kernel, IInv, TypeOK, ObjectsOK, DistinctFds,
     HandlingOK, Handling, QueuesOK, NoLostEvent, Readable, BacklogOK, InBacklog
<1>9. ASSUME NEW c \in Conns, NEW fd \in Fds, AcceptConn(c, fd) PROVE IInv'
  BY <1>9 DEF AcceptConn, Accepted, FreeFds, IInv, TypeOK, ObjectsOK, DistinctFds,
     HandlingOK, Handling, QueuesOK, NoLostEvent, Readable, BacklogOK, InBacklog
<1>10. CASE AcceptDrained
  BY <1>10 DEF AcceptDrained, kernel, IInv, TypeOK, ObjectsOK, DistinctFds,
     HandlingOK, Handling, QueuesOK, NoLostEvent, Readable, BacklogOK, InBacklog
<1>11. CASE AcceptFails
  BY <1>11 DEF AcceptFails, kernel, IInv, TypeOK, ObjectsOK, DistinctFds,
     HandlingOK, Handling, QueuesOK, NoLostEvent, Readable, BacklogOK, InBacklog
<1>12. ASSUME NEW c \in Conns, NEW fd \in Fds, AcceptNoMem(c, fd) PROVE IInv'
  BY <1>12 DEF AcceptNoMem, Accepted, FreeFds, IInv, TypeOK, ObjectsOK, DistinctFds,
     HandlingOK, Handling, QueuesOK, NoLostEvent, Readable, BacklogOK, InBacklog
<1>13. CASE ReadBytes
  BY <1>13 DEF ReadBytes, IInv, TypeOK, ObjectsOK, DistinctFds, HandlingOK,
     Handling, QueuesOK, NoLostEvent, Readable, BacklogOK, InBacklog
<1>14. CASE ReadEnd \/ ReadAgain \/ Respond
  BY <1>14 DEF ReadEnd, ReadAgain, Respond, kernel, IInv, TypeOK, ObjectsOK,
     DistinctFds, HandlingOK, Handling, QueuesOK, NoLostEvent, Readable, BacklogOK,
     InBacklog
<1>15. CASE Rearm
  BY <1>15 DEF Rearm, IInv, TypeOK, ObjectsOK, DistinctFds, HandlingOK, Handling,
     QueuesOK, NoLostEvent, Readable, BacklogOK, InBacklog
<1>16. CASE CloseConn
  <2>1. cur \in Conns \ batch /\ req[cur] = "live"
    BY <1>16 DEF CloseConn, IInv, HandlingOK, Handling
  <2>2. QED
    BY <1>16, <2>1, CloseFdOwn
       DEF CloseConn, IInv, TypeOK, ObjectsOK, DistinctFds, HandlingOK, Handling,
           QueuesOK, NoLostEvent, Readable, BacklogOK, InBacklog
<1>17. CASE UNCHANGED vars
  BY <1>17 DEF vars, kernel, server, IInv, TypeOK, ObjectsOK, DistinctFds,
     HandlingOK, Handling, QueuesOK, NoLostEvent, Readable, BacklogOK, InBacklog
<1>18. QED
  BY <1>1, <1>2, <1>3, <1>4, <1>5, <1>6, <1>7, <1>8, <1>9, <1>10, <1>11, <1>12,
     <1>13, <1>14, <1>15, <1>16, <1>17
     DEF Next, ServerStep, PeerStep, DoRequest

LEMMA Inductive == Spec => []IInv
  BY InitIInv, StepIInv, PTL DEF Spec

\* The state of EventLoop always has its type.
THEOREM TypeCorrect == Spec => []TypeOK
<1>1. IInv => TypeOK
  BY DEF IInv
<1>2. QED
  BY Inductive, <1>1, PTL

\* No event of the ready list, of events[] or in handling refers to a freed
\* request or to a descriptor that is not the request's own.
THEOREM EventsAreFresh == Spec => []NoStaleEvent
<1>1. IInv => NoStaleEvent
  BY DEF IInv, TypeOK, ObjectsOK, HandlingOK, QueuesOK, NoStaleEvent, Referenced
<1>2. QED
  BY Inductive, <1>1, PTL

\* No connection has a second event queued while one is being handled.
THEOREM HandlingIsExclusive == Spec => []ExclusiveHandling
<1>1. IInv => ExclusiveHandling
  BY DEF IInv, TypeOK, HandlingOK, QueuesOK, ExclusiveHandling
<1>2. QED
  BY Inductive, <1>1, PTL

\* Edge-triggered one-shot delivery never loses the readiness of a connection whose
\* EPOLL_CTL_ADD and EPOLL_CTL_MOD succeeded.
THEOREM EventsAreNotLost == Spec => []NoLostEvent
<1>1. IInv => NoLostEvent
  BY DEF IInv
<1>2. QED
  BY Inductive, <1>1, PTL

\* The loop sleeps on a non-empty backlog only after accept() or malloc failed.
THEOREM BacklogIsDrained == Spec => []NoStrandedBacklog
<1>1. IInv => NoStrandedBacklog
  BY DEF IInv, QueuesOK, BacklogOK, NoStrandedBacklog
<1>2. QED
  BY Inductive, <1>1, PTL

\* Open descriptors and live request objects correspond.
THEOREM ObjectsMatch == Spec => []RequestsMatchSockets
<1>1. IInv => RequestsMatchSockets
  BY NoFdAssumption DEF IInv, TypeOK, ObjectsOK, RequestsMatchSockets
<1>2. QED
  BY Inductive, <1>1, PTL
=============================================================================
