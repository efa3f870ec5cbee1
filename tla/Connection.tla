----------------------------- MODULE Connection -----------------------------
(***************************************************************************)
(* One connection: do_request of src/http.c with the ring buffer and the   *)
(* parser state of lan_http_request_t, the two parsers of                  *)
(* src/http_parse.c byte by byte, and the header list and handlers of      *)
(* src/http_request.c.  Module EventLoop shows that a readable connection  *)
(* always has its event; here that is action Wake.                         *)
(*                                                                         *)
(* Abstractions: a byte is a member of Bytes, where "G" stands for a run   *)
(* of capital letters, "a" for any text, "F", "X" and "N" for the name of  *)
(* a file that can be served, may not be read, does not exist; "K" and "I" *)
(* for (a prefix of) Connection and If-Modified-Since, "V" for keep-alive  *)
(* and "D" "E" for the two halves of a date equal to the mtime of the      *)
(* file.  A response is one record, written in one piece.                  *)
(***************************************************************************)
EXTENDS Integers, Sequences

CONSTANTS
  BufSize,    \* MAX_BUF of src/http_request.h
  Streams,    \* what a client may send: records with the bytes, and for each
              \* request in them where its request line (head) and where the
              \* whole of it ends, and how it should be answered; and whether
              \* the client is pipelined: does not wait for an answer before it
              \* sends the next request
  Segments    \* where the bytes may be split on their way: "anywhere", or
              \* inside a "line", between requests and not in or before headers

Bytes == {"cr", "lf", "sp", "/", ":", ".", "1", "0", "G", "H", "T", "P",
          "a", "F", "X", "N", "K", "I", "V", "D", "E", "nul"}
Upper == {"G", "H", "T", "P"}
Digit == {"0", "1"}

Request == [head : Nat, end : Nat, status : {200, 304, 403, 404},
            connection : {"keep-alive", "close", "none"}]

ASSUME BufSizeAssumption == BufSize \in Nat /\ BufSize >= 2
ASSUME StreamsAssumption ==
  \A s \in Streams : /\ s.bytes \in Seq(Bytes) /\ s.reqs \in Seq(Request)
                      /\ s.pipelined \in BOOLEAN
\* Requests end one behind the other, and a blank line, but for those between two
\* requests, is the end of one.
ASSUME MarksAssumption ==
  \A s \in Streams :
    /\ \A j, k \in DOMAIN s.reqs : j < k => s.reqs[j].end < s.reqs[k].end
    /\ \A n \in 3 .. Len(s.bytes) :
         s.bytes[n - 2] = "lf" /\ s.bytes[n - 1] = "cr" /\ s.bytes[n] = "lf" =>
           \E k \in DOMAIN s.reqs :
             s.reqs[k].end <= n /\ \A i \in s.reqs[k].end + 1 .. n : s.bytes[i] \in {"cr", "lf"}
ASSUME SegmentsAssumption == Segments \in {"anywhere", "line"}

VARIABLES
  \* the client and the socket
  stream,    \* what this client sends
  sent,      \* how many bytes of it have reached the server's socket
  fin,       \* the client has closed its end
  answers,   \* the responses written so far
  \* lan_http_request_t
  buf, pos, last,
  rstate,    \* r->state, shared by the two parsers
  uriStart, uriEnd,   \* r->uri_start, r->uri_end, as slots of buf
  field,     \* the cur_header_* pointers, as slots of buf
  hdrs,      \* r->list
  \* do_request
  pc, pi, state,      \* where it stands, and the parser's locals
  \* history, for the properties
  lineCut    \* LAN_AGAIN last left a state behind the end of the URI

client == <<stream, sent, fin>>
vars   == <<client, answers, buf, pos, last, rstate, uriStart, uriEnd, field, hdrs,
            pc, pi, state, lineCut>>

Slots  == 0 .. BufSize - 1
Field  == [ks : Slots, ke : Slots, vs : Slots, ve : Slots]
Answer == [status : {200, 304, 403, 404}, connection : {"keep-alive", "close", "none"}]

TypeOK ==
  /\ stream \in Streams
  /\ sent \in 0 .. Len(stream.bytes) /\ fin \in BOOLEAN
  /\ answers \in Seq(Answer)
  /\ buf \in [Slots -> Bytes]
  /\ last \in 0 .. sent /\ pos \in 0 .. last /\ pi \in 0 .. last
  /\ rstate \in 0..14 /\ state \in 0..14
  /\ uriStart \in Slots /\ uriEnd \in Slots
  /\ field \in Field
  /\ hdrs \subseteq Field
  /\ pc \in {"idle", "read", "line", "body", "serve", "closed"}
  /\ lineCut \in BOOLEAN

\* lan_init_request_t, called by the accept loop; the socket is then registered
\* with epoll.  What malloc leaves in the other fields is never looked at.
Init ==
  /\ stream \in Streams
  /\ sent = 0 /\ fin = FALSE
  /\ answers = <<>>
  /\ buf = [s \in Slots |-> "nul"]
  /\ pos = 0 /\ last = 0 /\ rstate = 0
  /\ uriStart = 0 /\ uriEnd = 0
  /\ field = [ks |-> 0, ke |-> 0, vs |-> 0, ve |-> 0]
  /\ hdrs = {}
  /\ pc = "idle" /\ pi = 0 /\ state = 0 /\ lineCut = FALSE

-----------------------------------------------------------------------------
(* The client *)

\* The bytes up to the n-th reach the socket.
Deliver(n) ==
  /\ ~fin /\ pc # "closed"
  /\ n \in sent + 1 .. Len(stream.bytes)
  /\ Segments = "line" => \A k \in DOMAIN stream.reqs :
                            n < stream.reqs[k].head \/ n >= stream.reqs[k].end
  /\ ~stream.pipelined => \A k \in DOMAIN stream.reqs :
                     n > stream.reqs[k].end => Len(answers) >= k
  /\ sent' = n
  /\ UNCHANGED <<stream, fin, answers, buf, pos, last, rstate, uriStart, uriEnd, field,
                 hdrs, pc, pi, state, lineCut>>

Finish ==
  /\ ~fin /\ pc # "closed"
  /\ fin' = TRUE
  /\ UNCHANGED <<stream, sent, answers, buf, pos, last, rstate, uriStart, uriEnd, field,
                 hdrs, pc, pi, state, lineCut>>

-----------------------------------------------------------------------------
(* Reading into the ring buffer *)

Readable == sent > last \/ fin

Smaller(m, n) == IF m < n THEN m ELSE n

RemainNoUnread == BufSize - (last % BufSize)   \* faulty variant: forgets unread bytes
\* remain_size of do_request: what is free, up to the end of the array.
Remain == Smaller(BufSize - (last - pos) - 1, BufSize - (last % BufSize))

\* The epoll event of a readable connection is handled.
Wake ==
  /\ pc = "idle" /\ Readable
  /\ pc' = "read"
  /\ UNCHANGED <<client, answers, buf, pos, last, rstate, uriStart, uriEnd, field, hdrs,
                 pi, state, lineCut>>

\* read() fills the free slots from last on; the request line parser runs next,
\* from pos and with the state that was saved, whichever parser saved it.
Read ==
  /\ pc = "read" /\ Remain > 0 /\ sent > last
  /\ LET n   == Smaller(Remain, sent - last)
         off == last % BufSize
     IN  /\ buf' = [s \in Slots |-> IF s \in off .. off + n - 1
                                      THEN stream.bytes[last + 1 + s - off]
                                      ELSE buf[s]]
         /\ last' = last + n
  /\ pc' = "line" /\ pi' = pos /\ state' = rstate
  /\ UNCHANGED <<client, answers, pos, rstate, uriStart, uriEnd, field, hdrs, lineCut>>

\* read() returns 0: at the end of the stream, and whenever it is asked for
\* no bytes.
ReadZero ==
  /\ pc = "read"
  /\ Remain = 0 \/ (sent = last /\ fin)
  /\ pc' = "closed"
  /\ UNCHANGED <<client, answers, buf, pos, last, rstate, uriStart, uriEnd, field, hdrs,
                 pi, state, lineCut>>

\* read() fails with EAGAIN: the connection is re-armed and do_request returns.
ReadAgain ==
  /\ pc = "read" /\ Remain > 0 /\ sent = last /\ ~fin
  /\ pc' = "idle"
  /\ UNCHANGED <<client, answers, buf, pos, last, rstate, uriStart, uriEnd, field, hdrs,
                 pi, state, lineCut>>

-----------------------------------------------------------------------------
(* The parsers.  A row is <<state, bytes, next state>>; a byte for which a    *)
(* state has no row is a parse error.                                         *)

LineDone == 15
LineRows ==
  { <<0, {"cr", "lf"}, 0>>,    <<0, Upper, 1>>,                 \* sw_start
    <<1, {"sp"}, 2>>,          <<1, Upper, 1>>,                 \* sw_method
    <<2, {"sp"}, 2>>,          <<2, {"/"}, 3>>,                 \* sw_spaces_before_uri
    <<3, {"sp"}, 4>>,          <<3, Bytes \ {"sp"}, 3>>,        \* sw_after_slash_in_uri
    <<4, {"sp"}, 4>>,          <<4, {"H"}, 5>>,                 \* sw_http
    <<5, {"T"}, 6>>, <<6, {"T"}, 7>>, <<7, {"P"}, 8>>, <<8, {"/"}, 9>>,
    <<9, {"1"}, 10>>,                                           \* sw_first_major_digit
    <<10, {"."}, 11>>,         <<10, Digit, 10>>,               \* sw_major_digit
    <<11, Digit, 12>>,                                          \* sw_first_minor_digit
    <<12, {"cr"}, 14>>,        <<12, {"lf"}, LineDone>>,        \* sw_minor_digit
    <<12, {"sp"}, 13>>,        <<12, Digit, 12>>,
    <<13, {"sp"}, 13>>,        <<13, {"cr"}, 14>>,              \* sw_spaces_after_digit
    <<13, {"lf"}, LineDone>>,
    <<14, {"lf"}, LineDone>> }                                  \* sw_almost_done

BodyDone == 8
\* Faulty variant: the headers end at the CR of the empty line.
BodyRowsEarly ==
  { <<0, {"cr", "lf"}, 0>>,    <<0, Bytes \ {"cr", "lf"}, 1>>,
    <<1, {"sp"}, 2>>, <<1, {":"}, 3>>, <<1, Bytes \ {"sp", ":"}, 1>>,
    <<2, {"sp"}, 2>>, <<2, {":"}, 3>>,
    <<3, {"sp"}, 3>>, <<3, Bytes \ {"sp"}, 4>>,
    <<4, {"cr"}, 5>>, <<4, {"lf"}, 6>>, <<4, Bytes \ {"cr", "lf"}, 4>>,
    <<5, {"lf"}, 6>>, <<6, {"cr"}, BodyDone>>, <<6, Bytes \ {"cr"}, 1>> }
BodyRows ==
  { <<0, {"cr", "lf"}, 0>>,    <<0, Bytes \ {"cr", "lf"}, 1>>,  \* sw_start
    <<1, {"sp"}, 2>>,          <<1, {":"}, 3>>,                 \* sw_key
    <<1, Bytes \ {"sp", ":"}, 1>>,
    <<2, {"sp"}, 2>>,          <<2, {":"}, 3>>,                 \* sw_spaces_before_colon
    <<3, {"sp"}, 3>>,          <<3, Bytes \ {"sp"}, 4>>,        \* sw_spaces_after_colon
    <<4, {"cr"}, 5>>,          <<4, {"lf"}, 6>>,                \* sw_value
    <<4, Bytes \ {"cr", "lf"}, 4>>,
    <<5, {"lf"}, 6>>,                                           \* sw_cr
    <<6, {"cr"}, 7>>,          <<6, Bytes \ {"cr"}, 1>>,        \* sw_crlf
    <<7, {"lf"}, BodyDone>> }                                   \* sw_crlfcr

Slot == pi % BufSize
Byte == buf[Slot]

Matches(rows) == {row \in rows : row[1] = state /\ Byte \in row[2]}

DonePosStale == pos   \* faulty variant: "done" forgets r->pos
DonePos == pi + 1

\* One byte of the request line.
LineByte ==
  /\ pc = "line" /\ pi < last
  /\ \E row \in Matches(LineRows) :
       /\ uriStart' = IF state = 2 /\ row[3] = 3 THEN Slot ELSE uriStart
       /\ uriEnd'   = IF state = 3 /\ row[3] = 4 THEN Slot ELSE uriEnd
       /\ IF row[3] = LineDone
            THEN pc' = "body" /\ pos' = DonePos /\ rstate' = 0 /\ state' = 0
            ELSE state' = row[3] /\ UNCHANGED <<pc, pos, rstate>>
  /\ pi' = pi + 1
  /\ UNCHANGED <<client, answers, buf, last, field, hdrs, lineCut>>

\* One byte of the headers.  A header is saved at the LF after its CR; one that
\* ends in a bare LF is not.
BodyByte ==
  /\ pc = "body" /\ pi < last
  /\ \E row \in Matches(BodyRows) :
       /\ field' = [ks |-> IF state \in {0, 6} /\ row[3] = 1 THEN Slot ELSE field.ks,
                    ke |-> IF state = 1 /\ row[3] \in {2, 3} THEN Slot ELSE field.ke,
                    vs |-> IF state = 3 /\ row[3] = 4 THEN Slot ELSE field.vs,
                    ve |-> IF state = 4 /\ row[3] \in {5, 6} THEN Slot ELSE field.ve]
       /\ hdrs' = IF state = 5 THEN hdrs \cup {field} ELSE hdrs
       /\ IF row[3] = BodyDone
            THEN pc' = "serve" /\ pos' = DonePos /\ rstate' = 0 /\ state' = 0
            ELSE state' = row[3] /\ UNCHANGED <<pc, pos, rstate>>
  /\ pi' = pi + 1
  /\ UNCHANGED <<client, answers, buf, last, uriStart, uriEnd, lineCut>>

ParseAgainOffByOne ==   \* faulty variant: resumes behind the next byte
  /\ pc \in {"line", "body"} /\ pi = last
  /\ pos' = pi + 1 /\ rstate' = state /\ lineCut' = (state >= 4)
  /\ pc' = "read"
  /\ UNCHANGED <<client, answers, buf, last, uriStart, uriEnd, field, hdrs, pi, state>>

ParseAgainForgets ==   \* faulty variant: r->state is not saved
  /\ pc \in {"line", "body"} /\ pi = last
  /\ pos' = pi /\ lineCut' = (state >= 4)
  /\ pc' = "read"
  /\ UNCHANGED <<client, answers, buf, last, rstate, uriStart, uriEnd, field, hdrs, pi, state>>

\* Either parser runs out of bytes: LAN_AGAIN.
ParseAgain ==
  /\ pc \in {"line", "body"} /\ pi = last
  /\ pos' = pi /\ rstate' = state /\ lineCut' = (state >= 4)
  /\ pc' = "read"
  /\ UNCHANGED <<client, answers, buf, last, uriStart, uriEnd, field, hdrs, pi, state>>

\* Either parser meets a byte it has no use for: the connection is closed.
ParseError ==
  /\ pc \in {"line", "body"} /\ pi < last
  /\ Matches(IF pc = "line" THEN LineRows ELSE BodyRows) = {}
  /\ pc' = "closed"
  /\ UNCHANGED <<client, answers, buf, pos, last, rstate, uriStart, uriEnd, field, hdrs,
                 pi, state, lineCut>>

-----------------------------------------------------------------------------
(* The response *)

\* parse_uri ends the URI with a NUL in the ring itself, before anything else is
\* looked at.
Terminated == [buf EXCEPT ![uriEnd] = "nul"]

\* The bytes between two pointers into buf.
Span(from, to) == [i \in 1 .. to - from |-> Terminated[from + i - 1]]

\* What lies behind buf in lan_http_request_t: padding, which malloc left as it was.
Padding == {"nul", "a"}

\* What is read from a pointer and a length.  A text that crosses the end of buf has a
\* negative length, which strncat and strncmp take for a huge one: they read on to the
\* end of buf and into the padding, up to the first NUL.
Text(from, to, pad) ==
  IF from <= to THEN Span(from, to) ELSE Span(from, BufSize) \o <<pad>>

\* A C string ends at its first NUL.
Spells(text, name) ==
  \/ text = name
  \/ /\ Len(text) > Len(name) /\ SubSeq(text, 1, Len(name)) = name
     /\ text[Len(name) + 1] = "nul"

IndexUris  == {<<>>, <<"/">>}
ServedUris == IndexUris \cup {<<"/", "F">>}

\* The outcome of parse_uri, stat and the checks of its result.
Lookup(pad) ==
  LET uri == Text(uriStart, uriEnd, pad)
  IN  IF \E name \in ServedUris : Spells(uri, name) THEN 200
      ELSE IF Spells(uri, <<"/", "X">>)             THEN 403
      ELSE 404

\* strncmp(key_start, name, key_end - key_start)
KeyIs(h, name, pad) == h.ks # h.ke /\ Spells(Text(h.ks, h.ke, pad), <<name>>)

AsksKeepAlive(pad) == \E h \in hdrs :
  KeyIs(h, "K", pad) /\ Spells(Text(h.vs, h.ve, pad), <<"V">>)

\* strptime reads on from value_start, whatever the length.
AsksUnmodified(pad) == \E h \in hdrs :
  KeyIs(h, "I", pad) /\ h.vs + 1 < BufSize /\ Span(h.vs, h.vs + 2) = <<"D", "E">>

\* do_error, then "continue".
ServeError ==
  /\ pc = "serve"
  /\ \E pad \in Padding :
       /\ Lookup(pad) # 200
       /\ answers' = Append(answers, [status |-> Lookup(pad), connection |-> "close"])
  /\ buf' = Terminated
  /\ pc' = "read"
  /\ UNCHANGED <<client, pos, last, rstate, uriStart, uriEnd, field, hdrs, pi, state, lineCut>>

KeptHeadersAll == hdrs   \* faulty variant: handled headers stay in the list
KeptHeaders == {}

AfterStaticAlways(pad) == "read"   \* faulty variant: every connection is kept
AfterStatic(pad) == IF AsksKeepAlive(pad) THEN "read" ELSE "closed"

\* lan_http_handle_header, which empties the list, and serve_static.
ServeStatic ==
  /\ pc = "serve"
  /\ \E pad \in Padding :
       /\ Lookup(pad) = 200
       /\ answers' = Append(answers,
            [status     |-> IF AsksUnmodified(pad) THEN 304 ELSE 200,
             connection |-> IF AsksKeepAlive(pad) THEN "keep-alive" ELSE "none"])
       /\ pc' = AfterStatic(pad)
  /\ buf' = Terminated
  /\ hdrs' = KeptHeaders
  /\ UNCHANGED <<client, pos, last, rstate, uriStart, uriEnd, field, pi, state, lineCut>>

-----------------------------------------------------------------------------
Server == \/ Wake \/ Read \/ ReadZero \/ ReadAgain
          \/ LineByte \/ BodyByte \/ ParseAgain \/ ParseError
          \/ ServeError \/ ServeStatic

Client == Finish \/ \E n \in 1 .. Len(stream.bytes) : Deliver(n)

Next == Server \/ Client

Spec == Init /\ [][Next]_vars

\* The server thread runs and, as EventLoop shows, handles every event.
FairSpec == Spec /\ WF_vars(Server)

-----------------------------------------------------------------------------
(* Properties *)

EndOf(k) == stream.reqs[k].end

\* read() returning 0 is taken for the end of the stream, so do_request must
\* never offer it an empty buffer: the ring has room whenever it reads, however
\* far the parsing has fallen behind what was read.
RoomForRead == pc = "read" => Remain > 0

\* The bytes between pos and last, read and not yet parsed, are those the client
\* sent, although later reads and the NUL of parse_uri (src/http.c:162) go to the same
\* ring.  They may lose a byte to that NUL in one case only: the request line was cut
\* behind its URI, so that later bytes could be read into the slot of uri_end.
UnreadIntact ==
  \A i \in pos .. last - 1 :
    \/ buf[i % BufSize] = stream.bytes[i + 1]
    \/ lineCut /\ buf[i % BufSize] = "nul"

\* However the bytes are cut and wherever they lie in the ring, the k-th response
\* is written only when the whole k-th request has been parsed.
AnswersAreEarned ==
  \A k \in DOMAIN answers : k \in DOMAIN stream.reqs /\ pos >= EndOf(k)

\* The k-th response has the status the k-th request calls for: its own URI, its
\* own If-Modified-Since.
AnsweredInOrder ==
  \A k \in DOMAIN answers : k \in DOMAIN stream.reqs /\ answers[k].status = stream.reqs[k].status

Promised == INSTANCE Dialogue WITH closed <- pc = "closed"

\* Whatever the segmentation, do_request does what Dialogue says: it closes on its own
\* account exactly with the response to a request for a file without keep-alive, and
\* never on a whole request of a client that waits for its answers.
ImplementsDialogue == Promised!DialogueSpec

\* The client may expect an answer to its k-th request.
Due(k) == /\ sent >= EndOf(k)
          /\ \A j \in 1 .. k - 1 : stream.reqs[j].connection # "none"

\* The connection is never closed on a request that arrived whole, if the client
\* waits for its answers.
NoSilentDrop ==
  pc = "closed" /\ ~stream.pipelined => \A k \in DOMAIN stream.reqs : Due(k) => Len(answers) >= k

\* Once a request has been answered no header of it is left in the list: the
\* check at src/http.c:129 says "header list should be empty".
HeaderListEmptied == [][Len(answers') > Len(answers) => hdrs' = {}]_vars

\* Every request that arrived whole is eventually answered, if the client waits
\* for its answers: one that is already in the ring when the answer before it is
\* written is looked at only when more bytes arrive.
AllAnswered ==
  \A k \in 1 .. 3 : (~stream.pipelined /\ k \in DOMAIN stream.reqs /\ Due(k))
                      ~> Len(answers) >= k
=============================================================================
