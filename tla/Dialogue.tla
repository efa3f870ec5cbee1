------------------------------ MODULE Dialogue ------------------------------
(***************************************************************************)
(* What do_request of src/http.c promises to the client of one connection, *)
(* with no ring, no parsers and no headers: each request that arrived as a *)
(* whole is answered once, in its turn and as it asked, and the server     *)
(* closes with the response that announces no keep-alive, or else after    *)
(* the client has.                                                         *)
(***************************************************************************)
EXTENDS Integers, Sequences

CONSTANT Streams   \* what a client may send, as in Connection

VARIABLES
  stream, sent, fin,   \* what the client sends, how much of it has arrived, whether it closed
  answers,             \* the responses so far
  closed               \* whether the server has closed

dialogueVars == <<stream, sent, fin, answers, closed>>

DialogueInit ==
  stream \in Streams /\ sent = 0 /\ fin = FALSE /\ answers = <<>> /\ closed = FALSE

Turn == Len(answers) + 1
Waiting == Turn \in DOMAIN stream.reqs /\ sent >= stream.reqs[Turn].end

Arrive == ~closed /\ ~fin /\ sent' \in sent + 1 .. Len(stream.bytes)
          /\ UNCHANGED <<stream, fin, answers, closed>>
Finish == ~closed /\ ~fin /\ fin' = TRUE /\ UNCHANGED <<stream, sent, answers, closed>>

Reply ==
  /\ ~closed /\ Waiting
  /\ LET q == stream.reqs[Turn] IN
       /\ answers' = Append(answers, [status |-> q.status, connection |-> q.connection])
       /\ closed' = (q.connection = "none")
  /\ UNCHANGED <<stream, sent, fin>>

\* Requests that were sent before the answer to an earlier one may be left.
HangUp == ~closed /\ fin /\ (Waiting => stream.pipelined)
          /\ closed' = TRUE /\ UNCHANGED <<stream, sent, fin, answers>>

DialogueNext == Arrive \/ Finish \/ Reply \/ HangUp

DialogueSpec == DialogueInit /\ [][DialogueNext]_dialogueVars
=============================================================================
