--------------------------- MODULE DialogueProofs ---------------------------
(***************************************************************************)
(* do_request keeps the promise of module Dialogue, for every ring, every  *)
(* set of orderly streams (module StreamParse) and every segmentation that *)
(* splits no headers: each request is answered in its turn, as it asks,    *)
(* and the connection is closed when it should be.                         *)
(*                                                                         *)
(* The argument compares do_request with the pass over the stream: what    *)
(* the pass is at behind n bytes, run[n], is what do_request has in its    *)
(* variables when it has parsed n bytes.  The two differ in what the ring  *)
(* adds.  The parsers start again at each read; they do so with the state  *)
(* and the place they were left with, because no read ends in headers.     *)
(* The header list may hold headers of requests that got an error page;    *)
(* these never look like one the server acts on.  The NUL of parse_uri     *)
(* lies in front of every header of its request and behind none that is    *)
(* parsed later.  So at "serve" the URI and the headers in the ring are    *)
(* those of the pass, and the request that ends there is the next one to   *)
(* be answered, for the pass has met no other end on the way.              *)
(***************************************************************************)
EXTENDS ConnectionProofs, StreamParse

-----------------------------------------------------------------------------
(* The invariant *)

\* How many bytes do_request has parsed, and where the pass is there.
Cur == IF pc \in {"line", "body"} THEN pi ELSE pos
Here(run) == IF pc = "serve" THEN run[pos] ELSE Fresh(run[Cur])

\* No header, nor the line end before one, is split behind the n-th byte.
Outside(n) == \A k \in DOMAIN stream.reqs : n < stream.reqs[k].head \/ n >= stream.reqs[k].end

\* The answers so far are the right ones.
Answered == /\ Len(answers) <= Len(stream.reqs)
            /\ \A k \in DOMAIN answers : /\ answers[k].status = stream.reqs[k].status
                                         /\ answers[k].connection = stream.reqs[k].connection

\* A header of an earlier request, which is none of those the server acts on.
Old(h) == h.ks < last /\ buf[h.ks] \notin {"K", "I"}

\* The pointers and the list are those of the pass, but for what is left over.
At(d) == /\ uriStart = d.uriStart /\ uriEnd = d.uriEnd /\ field = d.field
         /\ d.hdrs \subseteq hdrs /\ \A h \in hdrs \ d.hdrs : Old(h)

\* The texts the pass at n has found lie one behind the other, in the current request.
PlacedLine(d, n) ==
  /\ d.at = "line" => d.hdrs = {}
  /\ d.at # "line" \/ d.state >= 3 => Base <= d.uriStart /\ d.uriStart < n
  /\ d.at # "line" \/ d.state >= 4 => d.uriStart < d.uriEnd /\ d.uriEnd < n
PlacedField(d, n) ==
  d.at = "body" =>
      /\ d.state \in 1..7 => d.uriEnd < d.field.ks /\ d.field.ks < n
      /\ d.state \in 2..7 => d.field.ks < d.field.ke /\ d.field.ke < n
      /\ d.state \in 4..7 => d.field.ke < d.field.vs /\ d.field.vs < n
      /\ d.state \in 5..7 => d.field.vs < d.field.ve /\ d.field.ve < n
PlacedHdrs(d, n) ==
  \A h \in d.hdrs : /\ d.uriEnd < h.ks /\ h.ks < h.ke /\ h.ke < h.vs /\ h.vs < h.ve /\ h.ve < n
Placed(d, n) == PlacedLine(d, n) /\ PlacedField(d, n) /\ PlacedHdrs(d, n)

\* do_request is in the parser and the state the pass is in, and the pass has met no
\* end of a request but the one that is served.
Control(run) ==
  /\ pc \in {"idle", "read"} => Here(run).at = "line" /\ Here(run).state = rstate
  /\ pc \in {"line", "body"} => Here(run).at = pc /\ Here(run).state = state
  /\ pc = "serve" => Here(run).at = "done" /\ Here(run).state = 0 /\ rstate = 0 /\ pos > Base
  /\ Base <= pos
  /\ \A n \in Base + 1 .. Cur : run[n].at = "done" => n = Cur /\ pc = "serve"

\* What was read of the current request and those behind it is in the ring.
Whole == \A i \in Base .. last - 1 : buf[i] = stream.bytes[i + 1]

Parsing(run) == Control(run) /\ At(Here(run)) /\ Placed(Here(run), Cur) /\ Whole

Follows(run) == /\ Outside(sent) /\ Outside(last) /\ Answered
                /\ pc # "closed" => Parsing(run)

Pass(run) == IsPass(stream, run) /\ Describes(stream, run)

ParseInv == \E run \in [0 .. Len(stream.bytes) -> Config] : Pass(run) /\ Follows(run)

-----------------------------------------------------------------------------
(* The tables as functions, and one byte of the pass *)

\* The next state: the rows for a state and a byte agree on it.
LineNext(s, b) ==
  CASE s = 0 -> IF b \in {"cr", "lf"} THEN 0 ELSE 1
    [] s = 1 -> IF b = "sp" THEN 2 ELSE 1
    [] s = 2 -> IF b = "sp" THEN 2 ELSE 3
    [] s = 3 -> IF b = "sp" THEN 4 ELSE 3
    [] s = 4 -> IF b = "sp" THEN 4 ELSE 5
    [] s \in 5 .. 9 -> s + 1
    [] s = 10 -> IF b = "." THEN 11 ELSE 10
    [] s = 11 -> 12
    [] s \in {12, 13} -> IF b = "lf" THEN LineDone
                         ELSE IF b = "cr" THEN 14 ELSE IF b = "sp" THEN 13 ELSE 12
    [] s = 14 -> LineDone

\* Two rows of the request line that fit agree on the next state.
LEMMA LineIsFunction ==
  \A row \in LineRows : \A b \in row[2] : row[3] = LineNext(row[1], b)
BY DEF LineRows, LineNext, LineDone, Upper, Digit

BodyNext(s, b) ==
  CASE s = 0 -> IF b \in {"cr", "lf"} THEN 0 ELSE 1
    [] s \in {1, 2} -> IF b = "sp" THEN 2 ELSE IF b = ":" THEN 3 ELSE 1
    [] s = 3 -> IF b = "sp" THEN 3 ELSE 4
    [] s = 4 -> IF b = "cr" THEN 5 ELSE IF b = "lf" THEN 6 ELSE 4
    [] s = 5 -> 6
    [] s = 6 -> IF b = "cr" THEN 7 ELSE 1
    [] s = 7 -> BodyDone

\* The same for the headers.
LEMMA BodyIsFunction ==
  \A row \in BodyRows : \A b \in row[2] : row[3] = BodyNext(row[1], b)
BY DEF BodyRows, BodyNext, BodyDone

\* States are entered in the order of the texts they belong to.
LEMMA LineOrder ==
  \A row \in LineRows : /\ row[3] >= 3 => row[1] >= 3 \/ (row[1] = 2 /\ row[3] = 3)
                        /\ row[3] >= 4 => row[1] >= 4 \/ (row[1] = 3 /\ row[3] = 4)
                        /\ row[1] = 3 => row[3] \in {3, 4}
                        /\ row[1] = 2 => row[3] \in {2, 3}
                        /\ row[1] >= 4 => row[3] >= 4
BY DEF LineRows, LineDone

\* The same for the headers; a header has its four places before it is saved.
LEMMA BodyOrder ==
  \A row \in BodyRows :
     /\ row[3] = 1 => row[1] \in {0, 1, 6}
     /\ row[3] = 2 => row[1] \in {1, 2}
     /\ row[3] = 3 => row[1] \in {1, 2, 3}
     /\ row[3] = 4 => row[1] \in {3, 4}
     /\ row[3] = 5 => row[1] = 4
     /\ row[3] = 6 => row[1] \in {4, 5}
     /\ row[3] = 7 => row[1] = 6
     /\ row[3] = 8 => row[1] = 7
     /\ row[3] \in 0 .. 8 /\ (row[1] = 0 => row[3] \in {0, 1})
BY DEF BodyRows, BodyDone

\* What a byte of the request line does to each part of where the pass stands.
LEMMA LineAdvance ==
  ASSUME NEW c \in Config, c.at = "line", NEW n \in Nat, NEW row \in LineRows, row[1] = c.state
  PROVE  LET d == Advance(c, n, row) IN
           /\ d.at = (IF row[3] = LineDone THEN "body" ELSE "line")
           /\ d.state = (IF row[3] = LineDone THEN 0 ELSE row[3])
           /\ d.uriStart = (IF c.state = 2 /\ row[3] = 3 THEN n ELSE c.uriStart)
           /\ d.uriEnd = (IF c.state = 3 /\ row[3] = 4 THEN n ELSE c.uriEnd)
           /\ d.field = c.field /\ d.hdrs = c.hdrs
BY DEF Advance, Config

\* What a byte of the headers does.
LEMMA BodyAdvance ==
  ASSUME NEW c \in Config, c.at = "body", NEW n \in Nat, NEW row \in BodyRows, row[1] = c.state
  PROVE  LET d == Advance(c, n, row) IN
           /\ d.at = (IF row[3] = BodyDone THEN "done" ELSE "body")
           /\ d.state = (IF row[3] = BodyDone THEN 0 ELSE row[3])
           /\ d.uriStart = c.uriStart /\ d.uriEnd = c.uriEnd
           /\ d.field = [ks |-> IF c.state \in {0, 6} /\ row[3] = 1 THEN n ELSE c.field.ks,
                         ke |-> IF c.state = 1 /\ row[3] \in {2, 3} THEN n ELSE c.field.ke,
                         vs |-> IF c.state = 3 /\ row[3] = 4 THEN n ELSE c.field.vs,
                         ve |-> IF c.state = 4 /\ row[3] \in {5, 6} THEN n ELSE c.field.ve]
           /\ d.hdrs = (IF c.state = 5 THEN c.hdrs \cup {c.field} ELSE c.hdrs)
BY DEF Advance, Config

\* A request begins with no headers and with everything else as it was left.
LEMMA FreshType ==
  ASSUME NEW c \in Config
  PROVE  /\ Fresh(c) \in Config /\ Fresh(c).at # "done"
         /\ c.at # "done" => Fresh(c) = c
         /\ c.at = "done" => Fresh(c).at = "line" /\ Fresh(c).hdrs = {}
         /\ Fresh(c).state = c.state /\ Fresh(c).uriStart = c.uriStart
         /\ Fresh(c).uriEnd = c.uriEnd /\ Fresh(c).field = c.field
BY DEF Fresh, Config

-----------------------------------------------------------------------------
(* Each step follows the pass *)

\* The slot of a byte of a stream that is shorter than the ring is its place.
LEMMA SmallSlot ==
  ASSUME NEW n \in Nat, n < BufSize
  PROVE  n % BufSize = n
<1>1. /\ n \div BufSize \in Nat /\ n % BufSize \in 0 .. BufSize - 1
      /\ n = BufSize * (n \div BufSize) + (n % BufSize)
  BY DivMod
<1> DEFINE q == n \div BufSize
           r == n % BufSize
<1>2. q \in Nat /\ r \in 0 .. BufSize - 1 /\ n = BufSize * q + r
  BY <1>1
<1>. HIDE DEF q, r
<1>3. q >= 1 => BufSize * q >= BufSize
  BY <1>2, BufSizeAssumption
<1>4. q = 0 => BufSize * q = 0
  BY BufSizeAssumption
<1>5. BufSize * q \in Int
  BY <1>2, BufSizeAssumption
<1>6. r = n
  BY <1>2, <1>3, <1>4, <1>5, BufSizeAssumption
<1>. QED
  BY <1>6 DEF r

\* The types the steps need, and that the whole stream fits into the ring.
LEMMA Context ==
  ASSUME Orderly, IInv
  PROVE  /\ stream \in Streams /\ stream.bytes \in Seq(Bytes) /\ Len(stream.bytes) \in Nat
         /\ stream.reqs \in Seq(Request) /\ Len(stream.reqs) \in Nat
         /\ Len(stream.bytes) < BufSize /\ BufSize \in Nat
         /\ last \in Nat /\ pos \in Nat /\ pi \in Nat /\ sent \in Nat
         /\ pos <= last /\ pi <= last /\ last <= sent /\ sent <= Len(stream.bytes)
         /\ pc \in {"line", "body"} => pos <= pi
         /\ buf \in [Slots -> Bytes] /\ Slots = 0 .. BufSize - 1
         /\ answers \in Seq(Answer) /\ Len(answers) \in Nat
         /\ Segments = "line" /\ hdrs \subseteq Field /\ Cur \in Nat /\ Cur <= last
         /\ pc \in {"idle", "read", "line", "body", "serve", "closed"}
BY StreamsAssumption, BufSizeAssumption DEF Orderly, IInv, TypeOK, FillOK, Cur, Slots

LEMMA BaseType ==
  ASSUME Orderly, IInv, Answered
  PROVE  Base \in Nat
BY Context, EndsAreNumbers DEF Answered, Base

\* The places of do_request are places of the pass.
LEMMA HereType ==
  ASSUME Orderly, IInv, NEW run, Pass(run)
  PROVE  Here(run) \in Config /\ run[Cur] \in Config
<1>1. Cur \in 0 .. Len(stream.bytes) /\ pos \in 0 .. Len(stream.bytes)
  BY Context
<1>2. run[Cur] \in Config /\ run[pos] \in Config
  BY <1>1 DEF Pass, IsPass
<1>. QED
  BY <1>2, FreshType DEF Here

\* The byte the parser looks at is the one the pass looks at, and it has a row.
LEMMA Walk ==
  ASSUME Orderly, IInv, NEW run, Pass(run), Answered, Parsing(run),
         pc \in {"line", "body"}, pi < last
  PROVE  /\ Slot = pi /\ Byte = stream.bytes[pi + 1]
         /\ run[pi + 1] \in Config
         /\ \E row \in IF pc = "line" THEN LineRows ELSE BodyRows :
              row[1] = state /\ Byte \in row[2] /\ run[pi + 1] = Advance(Here(run), pi, row)
<1>1. pi \in Nat /\ pi < BufSize /\ pi >= Base /\ Base \in Nat /\ pi + 1 <= Len(stream.bytes)
  BY Context, BaseType DEF Parsing, Control
<1>2. Slot = pi
  BY <1>1, SmallSlot DEF Slot
<1>3. Byte = stream.bytes[pi + 1]
  <2>1. pi \in Base .. last - 1
    BY <1>1, Context
  <2>2. Whole
    BY DEF Parsing
  <2>. QED
    BY ONLY <1>2, <2>1, <2>2 DEF Byte, Whole
<1>4. pi \in 0 .. Len(stream.bytes) - 1 /\ pi + 1 \in 0 .. Len(stream.bytes)
  BY <1>1, Context
<1>5. run[pi + 1] \in Config
  BY <1>4 DEF Pass, IsPass
<1>6. PICK row \in RowsFor(Fresh(run[pi]), stream.bytes[pi + 1]) :
        run[pi + 1] = Advance(Fresh(run[pi]), pi, row)
  BY <1>4 DEF Pass, IsPass
<1>7. Here(run) = Fresh(run[pi]) /\ Here(run).at = pc /\ Here(run).state = state
  BY DEF Here, Cur, Parsing, Control
<1>8. /\ row \in IF pc = "line" THEN LineRows ELSE BodyRows
      /\ row[1] = state /\ Byte \in row[2]
  BY <1>3, <1>6, <1>7 DEF RowsFor
<1>. QED
  BY <1>2, <1>3, <1>5, <1>6, <1>7, <1>8

\* A step of the client, or one that only moves do_request between its calls.
LEMMA QuietStep ==
  ASSUME Orderly, IInv, NEW run, Pass(run), Follows(run), pc # "closed", pc' # "closed",
         UNCHANGED <<stream, answers, buf, pos, last, rstate, uriStart, uriEnd, field, hdrs>>,
         Outside(sent)',
         \/ UNCHANGED <<pc, pi, state>>
         \/ pc \in {"idle", "read"} /\ pc' \in {"idle", "read"}
  PROVE  Follows(run)'
<1>1. Cur' = Cur /\ Here(run)' = Here(run) /\ Base' = Base
  BY DEF Cur, Here, Base, EndOf
<1>2. Answered' /\ Outside(last)' 
  BY DEF Follows, Answered, Outside
<1>4. Control(run)'
  BY <1>1 DEF Follows, Parsing, Control
<1>5. At(Here(run))'
  BY <1>1 DEF Follows, Parsing, At, Old
<1>6. Placed(Here(run), Cur)'
  BY <1>1 DEF Follows, Parsing, Placed, PlacedLine, PlacedField, PlacedHdrs
<1>7. Whole'
  BY <1>1 DEF Follows, Parsing, Whole
<1>. QED
  BY <1>2, <1>4, <1>5, <1>6, <1>7 DEF Follows, Parsing

\* A read takes in all that was sent.
LEMMA ReadStep ==
  ASSUME Orderly, IInv, NEW run, Pass(run), Follows(run), Read
  PROVE  Follows(run)'
<1> USE Context
<1>0. Base \in Nat /\ Base <= pos
  BY BaseType DEF Follows, Parsing, Control, Read
<1>1. last < BufSize /\ last % BufSize = last
  <2>1. last \in Nat /\ last < BufSize
    OBVIOUS
  <2>. QED
    BY ONLY <2>1, SmallSlot
<1>2. Smaller(Remain, sent - last) = sent - last
  <2>1. Remain = Smaller(BufSize - (last - pos) - 1, BufSize - last)
    BY <1>1 DEF Remain
  <2>2. Remain \in Int /\ sent - last <= Remain
    <3>1. /\ sent \in Nat /\ last \in Nat /\ pos \in Nat /\ BufSize \in Nat
          /\ pos <= last /\ last <= sent /\ sent < BufSize
      OBVIOUS
    <3>2. /\ sent - last <= BufSize - (last - pos) - 1 /\ sent - last <= BufSize - last
          /\ BufSize - (last - pos) - 1 \in Int /\ BufSize - last \in Int
      BY ONLY <3>1
    <3>. QED
      BY ONLY <2>1, <3>2 DEF Smaller
  <2>. QED
    BY <2>2 DEF Smaller
<1>3. /\ last' = sent /\ pc' = "line" /\ pi' = pos /\ state' = rstate /\ pc = "read"
      /\ UNCHANGED <<stream, sent, fin, answers, pos, rstate, uriStart, uriEnd, field, hdrs>>
  BY <1>2 DEF Read, client
<1>4. buf' = [s \in Slots |-> IF s \in last .. sent - 1 THEN stream.bytes[s + 1] ELSE buf[s]]
  <2>1. buf' = [s \in Slots |-> IF s \in last .. last + (sent - last) - 1
                                  THEN stream.bytes[last + 1 + s - last] ELSE buf[s]]
    BY <1>1, <1>2 DEF Read
  <2>2. /\ last + (sent - last) - 1 = sent - 1
        /\ \A s \in Slots : last + 1 + s - last = s + 1
    OBVIOUS
  <2>. QED
    BY <2>1, <2>2
<1>5. Cur' = Cur /\ Here(run)' = Here(run) /\ Base' = Base
  BY <1>3 DEF Cur, Here, Base, EndOf
<1>6. Answered' /\ Outside(last)' /\ Outside(sent)'
  BY <1>3 DEF Follows, Answered, Outside
<1>7. Control(run)'
  BY <1>3, <1>5 DEF Follows, Parsing, Control
<1>8. At(Here(run))'
  <2>1. \A h \in hdrs : Old(h) => Old(h)'
    BY <1>3, <1>4 DEF Old, Field
  <2>. QED
    BY <1>3, <1>5, <2>1 DEF Follows, Parsing, At
<1>9. Placed(Here(run), Cur)'
  BY <1>3, <1>5 DEF Follows, Parsing, Placed, PlacedLine, PlacedField, PlacedHdrs
<1>10. Whole'
  <2>1. \A i \in Base .. last - 1 : buf[i] = stream.bytes[i + 1]
    BY <1>3 DEF Follows, Parsing, Whole
  <2>2. /\ Base \in Nat /\ last \in Nat /\ sent \in Nat /\ last <= sent /\ sent < BufSize
        /\ BufSize \in Nat /\ Slots = 0 .. BufSize - 1
    BY <1>0
  <2>3. ASSUME NEW i \in Base .. sent - 1
        PROVE  buf'[i] = stream.bytes[i + 1]
    <3>1. i \in Slots /\ (i \in last .. sent - 1 \/ i \in Base .. last - 1)
      BY ONLY <2>2, <2>3
    <3>. QED
      BY ONLY <1>4, <2>1, <3>1
  <2>. QED
    BY <1>3, <1>5, <2>3 DEF Whole
<1>. QED
  BY <1>3, <1>6, <1>7, <1>8, <1>9, <1>10 DEF Follows, Parsing

\* A byte of the request line.
LEMMA LineStep ==
  ASSUME Orderly, IInv, NEW run, Pass(run), Follows(run), LineByte
  PROVE  Follows(run)'
<1> DEFINE c == Here(run)
           d == run[pi + 1]
<1>0. /\ pi \in Nat /\ pi < last /\ pos \in Nat /\ pos <= pi /\ last \in Nat /\ Base \in Nat
      /\ pc = "line" /\ Parsing(run) /\ Answered /\ c \in Config
  BY Context, BaseType, HereType DEF Follows, LineByte
<1>1. /\ Slot = pi /\ d \in Config
      /\ \E row \in LineRows : row[1] = state /\ Byte \in row[2] /\ d = Advance(c, pi, row)
  BY <1>0, Walk
<1>2. PICK r \in LineRows : r[1] = state /\ Byte \in r[2] /\ d = Advance(c, pi, r)
  BY <1>1
<1>3. PICK row \in Matches(LineRows) :
        /\ uriStart' = IF state = 2 /\ row[3] = 3 THEN Slot ELSE uriStart
        /\ uriEnd'   = IF state = 3 /\ row[3] = 4 THEN Slot ELSE uriEnd
        /\ IF row[3] = LineDone
             THEN pc' = "body" /\ pos' = DonePos /\ rstate' = 0 /\ state' = 0
             ELSE state' = row[3] /\ UNCHANGED <<pc, pos, rstate>>
  BY DEF LineByte
<1>4. row[3] = r[3]
  BY <1>2, <1>3, LineIsFunction DEF Matches
<1>5. c.at = "line" /\ c.state = state /\ Base <= pos
  BY <1>0 DEF Parsing, Control
<1>6. /\ d.at = (IF r[3] = LineDone THEN "body" ELSE "line")
      /\ d.state = (IF r[3] = LineDone THEN 0 ELSE r[3])
      /\ d.uriStart = (IF state = 2 /\ r[3] = 3 THEN pi ELSE c.uriStart)
      /\ d.uriEnd = (IF state = 3 /\ r[3] = 4 THEN pi ELSE c.uriEnd)
      /\ d.field = c.field /\ d.hdrs = c.hdrs
  <2>1. c \in Config /\ c.at = "line" /\ r[1] = c.state /\ pi \in Nat
    BY <1>0, <1>2, <1>5
  <2>. HIDE DEF c
  <2>2. LET e == Advance(c, pi, r) IN
           /\ e.at = (IF r[3] = LineDone THEN "body" ELSE "line")
           /\ e.state = (IF r[3] = LineDone THEN 0 ELSE r[3])
           /\ e.uriStart = (IF c.state = 2 /\ r[3] = 3 THEN pi ELSE c.uriStart)
           /\ e.uriEnd = (IF c.state = 3 /\ r[3] = 4 THEN pi ELSE c.uriEnd)
           /\ e.field = c.field /\ e.hdrs = c.hdrs
    BY <2>1, LineAdvance
  <2>. QED
    BY <1>2, <1>5, <2>2
<1>7. /\ pi' = pi + 1 /\ pc' = d.at /\ state' = d.state
      /\ uriStart' = d.uriStart /\ uriEnd' = d.uriEnd
      /\ pos' = IF d.at = "body" THEN pi + 1 ELSE pos
      /\ UNCHANGED <<stream, sent, fin, answers, buf, last, field, hdrs>>
  <2>1. uriStart = c.uriStart /\ uriEnd = c.uriEnd
    BY <1>0 DEF Parsing, At
  <2>. HIDE DEF c, d
  <2>. QED
    BY <1>0, <1>1, <1>3, <1>4, <1>6, <2>1 DEF LineByte, client, DonePos
<1>8. r[3] \in 0..15 /\ d.at \in {"line", "body"}
  BY <1>6, LineRowsType
<1>9. Cur' = pi + 1 /\ Here(run)' = d /\ Base' = Base
  <2>1. Fresh(d) = d
    BY <1>1, <1>8, FreshType
  <2>2. Cur' = pi + 1 /\ Base' = Base
    BY <1>7, <1>8 DEF Cur, Base, EndOf
  <2>. QED
    BY <1>7, <1>8, <2>1, <2>2 DEF Here
<1>10. Answered' /\ Outside(last)' /\ Outside(sent)'
  BY <1>0, <1>7, <1>8 DEF Follows, Answered, Outside
<1>. HIDE DEF c, d
<1>11. Control(run)'
  <2>1. \A n \in Base + 1 .. pi : run[n].at = "done" => FALSE
    <3>1. Cur = pi
      BY <1>0 DEF Cur
    <3>. QED
      BY <1>0, <3>1 DEF Parsing, Control
  <2>2. \A n \in Base + 1 .. pi + 1 : run[n].at = "done" => FALSE
    BY <1>0, <1>8, <2>1 DEF d
  <2>. QED
    BY <1>0, <1>5, <1>7, <1>8, <1>9, <2>2 DEF Control
<1>12. At(Here(run))'
  <2>1. field = c.field /\ c.hdrs \subseteq hdrs /\ \A h \in hdrs \ c.hdrs : Old(h)
    BY <1>0 DEF Parsing, At, c
  <2>2. \A h \in hdrs : Old(h) => Old(h)'
    BY <1>7 DEF Old
  <2>. QED
    BY <1>6, <1>7, <1>9, <2>1, <2>2 DEF At
<1>13. PlacedLine(d, pi + 1)
  <2>1. PlacedLine(c, pi)
    BY <1>0 DEF Parsing, Placed, c, Cur
  <2>2. d.uriStart \in Nat /\ d.uriEnd \in Nat /\ c.uriStart \in Nat /\ c.uriEnd \in Nat
    BY <1>0, <1>1 DEF Config
  <2>3. c.state \in 0..14 /\ d.hdrs = {}
    BY <1>0, <1>5, <1>6, <2>1 DEF Config, PlacedLine
  <2>4. d.at = "body" => r[3] = 15
    BY <1>6 DEF LineDone
  <2>5. d.at # "line" \/ d.state >= 3 => r[3] >= 3
    BY <1>6, <2>4, <1>8 DEF LineDone
  <2>6. d.at # "line" \/ d.state >= 4 => r[3] >= 4
    BY <1>6, <2>4, <1>8 DEF LineDone
  <2>7. r[3] >= 3 => Base <= d.uriStart /\ d.uriStart < pi + 1
    BY <1>0, <1>2, <1>5, <1>6, <2>1, <2>2, <2>3, LineOrder DEF PlacedLine
  <2>8. r[3] >= 4 => d.uriStart < d.uriEnd /\ d.uriEnd < pi + 1
    BY <1>0, <1>2, <1>5, <1>6, <2>1, <2>2, <2>3, LineOrder DEF PlacedLine
  <2>. QED
    BY <2>3, <2>5, <2>6, <2>7, <2>8 DEF PlacedLine
<1>14. PlacedField(d, pi + 1) /\ PlacedHdrs(d, pi + 1)
  <2>1. d.hdrs = {}
    BY <1>0, <1>5, <1>6 DEF Parsing, Placed, PlacedLine, c
  <2>. QED
    BY <1>6, <2>1 DEF PlacedField, PlacedHdrs
<1>15. Placed(Here(run), Cur)'
  BY <1>9, <1>13, <1>14 DEF Placed, PlacedLine, PlacedField, PlacedHdrs
<1>16. Whole'
  BY <1>0, <1>7, <1>9 DEF Parsing, Whole
<1>. QED
  BY <1>10, <1>11, <1>12, <1>15, <1>16 DEF Follows, Parsing

\* Only the request line is ever left to the next read.
LEMMA AgainStep ==
  ASSUME Orderly, IInv, NEW run, Pass(run), Follows(run), ParseAgain
  PROVE  Follows(run)'
<1>0. /\ pi \in Nat /\ pi = last /\ pos \in Nat /\ pos <= pi /\ last \in Nat /\ Base \in Nat
      /\ pc \in {"line", "body"} /\ Parsing(run) /\ Outside(last)
  BY Context, BaseType DEF Follows, ParseAgain
<1>1. pi \in 0 .. Len(stream.bytes)
  BY <1>0, Context
<1>2. pc = "line"
  <2>1. Fresh(run[pi]).at = pc /\ run[pi] \in Config
    BY <1>0, <1>1 DEF Parsing, Control, Here, Cur, Pass, IsPass
  <2>2. pc = "body" => run[pi].at = "body"
    BY <2>1, FreshType
  <2>3. pc = "body" => \E k \in DOMAIN stream.reqs : pi \in stream.reqs[k].head .. stream.reqs[k].end - 1
    BY <1>1, <2>2 DEF Pass, Describes
  <2>4. \A k \in DOMAIN stream.reqs : stream.reqs[k].end \in Int /\ stream.reqs[k].head \in Int
    <3>1. \A k \in DOMAIN stream.reqs : /\ stream.reqs[k].head \in 1 .. stream.reqs[k].end - 1
                                         /\ stream.reqs[k].end \in 1 .. Len(stream.bytes)
      BY DEF Pass, Describes
    <3>. QED
      BY <3>1
  <2>. QED
    BY <1>0, <2>3, <2>4 DEF Outside
<1>3. /\ pos' = pi /\ rstate' = state /\ pc' = "read"
      /\ UNCHANGED <<stream, sent, fin, answers, buf, last, uriStart, uriEnd, field, hdrs>>
  BY DEF ParseAgain, client
<1>4. Cur' = Cur /\ Cur = pi /\ Here(run)' = Here(run) /\ Base' = Base
  BY <1>2, <1>3 DEF Cur, Here, Base, EndOf
<1>5. Answered' /\ Outside(last)' /\ Outside(sent)'
  BY <1>2, <1>3 DEF Follows, Answered, Outside
<1>6. Control(run)'
  BY <1>0, <1>2, <1>3, <1>4 DEF Parsing, Control
<1>7. At(Here(run))'
  BY <1>0, <1>3, <1>4 DEF Parsing, At, Old
<1>8. Placed(Here(run), Cur)'
  BY <1>0, <1>4 DEF Parsing, Placed, PlacedLine, PlacedField, PlacedHdrs
<1>9. Whole'
  BY <1>0, <1>3, <1>4 DEF Parsing, Whole
<1>. QED
  BY <1>5, <1>6, <1>7, <1>8, <1>9 DEF Follows, Parsing

\* An orderly stream has no parse error.
LEMMA NeverError ==
  ASSUME Orderly, IInv, NEW run, Pass(run), Follows(run), ParseError
  PROVE  FALSE
<1>1. pc \in {"line", "body"} /\ pi < last /\ Parsing(run) /\ Answered
  BY DEF ParseError, Follows
<1>2. \E row \in IF pc = "line" THEN LineRows ELSE BodyRows : row[1] = state /\ Byte \in row[2]
  BY <1>1, Walk
<1>. QED
  BY <1>2 DEF ParseError, Matches

\* A byte of the headers; the last one ends the request.
LEMMA BodyStep ==
  ASSUME Orderly, IInv, NEW run, Pass(run), Follows(run), BodyByte
  PROVE  Follows(run)'
<1> DEFINE c == Here(run)
           d == run[pi + 1]
<1>0. /\ pi \in Nat /\ pi < last /\ pos \in Nat /\ pos <= pi /\ last \in Nat /\ Base \in Nat
      /\ pc = "body" /\ Parsing(run) /\ Answered /\ c \in Config
  BY Context, BaseType, HereType DEF Follows, BodyByte
<1>1. /\ Slot = pi /\ d \in Config
      /\ \E row \in BodyRows : row[1] = state /\ Byte \in row[2] /\ d = Advance(c, pi, row)
  BY <1>0, Walk
<1>2. PICK r \in BodyRows : r[1] = state /\ Byte \in r[2] /\ d = Advance(c, pi, r)
  BY <1>1
<1>3. PICK row \in Matches(BodyRows) :
        /\ field' = [ks |-> IF state \in {0, 6} /\ row[3] = 1 THEN Slot ELSE field.ks,
                     ke |-> IF state = 1 /\ row[3] \in {2, 3} THEN Slot ELSE field.ke,
                     vs |-> IF state = 3 /\ row[3] = 4 THEN Slot ELSE field.vs,
                     ve |-> IF state = 4 /\ row[3] \in {5, 6} THEN Slot ELSE field.ve]
        /\ hdrs' = IF state = 5 THEN hdrs \cup {field} ELSE hdrs
        /\ IF row[3] = BodyDone
             THEN pc' = "serve" /\ pos' = DonePos /\ rstate' = 0 /\ state' = 0
             ELSE state' = row[3] /\ UNCHANGED <<pc, pos, rstate>>
  BY DEF BodyByte
<1>4. row[3] = r[3]
  BY <1>2, <1>3, BodyIsFunction DEF Matches
<1>5. c.at = "body" /\ c.state = state /\ Base <= pos
  BY <1>0 DEF Parsing, Control
<1>6. /\ d.at = (IF r[3] = BodyDone THEN "done" ELSE "body")
      /\ d.state = (IF r[3] = BodyDone THEN 0 ELSE r[3])
      /\ d.uriStart = c.uriStart /\ d.uriEnd = c.uriEnd
      /\ d.field = [ks |-> IF state \in {0, 6} /\ r[3] = 1 THEN pi ELSE c.field.ks,
                    ke |-> IF state = 1 /\ r[3] \in {2, 3} THEN pi ELSE c.field.ke,
                    vs |-> IF state = 3 /\ r[3] = 4 THEN pi ELSE c.field.vs,
                    ve |-> IF state = 4 /\ r[3] \in {5, 6} THEN pi ELSE c.field.ve]
      /\ d.hdrs = (IF state = 5 THEN c.hdrs \cup {c.field} ELSE c.hdrs)
  <2>1. c \in Config /\ c.at = "body" /\ r[1] = c.state /\ pi \in Nat
    BY <1>0, <1>2, <1>5
  <2>. HIDE DEF c
  <2>2. LET e == Advance(c, pi, r) IN
           /\ e.at = (IF r[3] = BodyDone THEN "done" ELSE "body")
           /\ e.state = (IF r[3] = BodyDone THEN 0 ELSE r[3])
           /\ e.uriStart = c.uriStart /\ e.uriEnd = c.uriEnd
           /\ e.field = [ks |-> IF c.state \in {0, 6} /\ r[3] = 1 THEN pi ELSE c.field.ks,
                         ke |-> IF c.state = 1 /\ r[3] \in {2, 3} THEN pi ELSE c.field.ke,
                         vs |-> IF c.state = 3 /\ r[3] = 4 THEN pi ELSE c.field.vs,
                         ve |-> IF c.state = 4 /\ r[3] \in {5, 6} THEN pi ELSE c.field.ve]
           /\ e.hdrs = (IF c.state = 5 THEN c.hdrs \cup {c.field} ELSE c.hdrs)
    BY <2>1, BodyAdvance
  <2>. QED
    BY <1>2, <1>5, <2>2
<1>7. /\ pi' = pi + 1 /\ pc' = (IF r[3] = BodyDone THEN "serve" ELSE "body") /\ state' = d.state
      /\ field' = d.field
      /\ hdrs' = (IF state = 5 THEN hdrs \cup {c.field} ELSE hdrs)
      /\ pos' = (IF r[3] = BodyDone THEN pi + 1 ELSE pos)
      /\ r[3] = BodyDone => rstate' = 0
      /\ UNCHANGED <<stream, sent, fin, answers, buf, last, uriStart, uriEnd>>
  <2>1. field = c.field
    BY <1>0 DEF Parsing, At
  <2>. HIDE DEF c, d
  <2>. QED
    BY <1>0, <1>1, <1>3, <1>4, <1>6, <2>1 DEF BodyByte, client, DonePos
<1>8. r[3] \in 0..8 /\ d.at \in {"body", "done"} /\ state \in 0..7 /\ r[1] = state
  BY <1>2, <1>6, BodyRowsType
<1>9. Cur' = pi + 1 /\ Here(run)' = d /\ Base' = Base /\ Cur = pi
  <2>1. d.at # "done" => Fresh(d) = d
    BY <1>1, FreshType
  <2>2. Cur' = pi + 1 /\ Base' = Base /\ Cur = pi
    BY <1>0, <1>7, <1>8 DEF Cur, Base, EndOf
  <2>. QED
    BY <1>6, <1>7, <1>8, <2>1, <2>2 DEF Here
<1>10. Answered' /\ Outside(last)' /\ Outside(sent)'
  BY <1>0, <1>7, <1>8 DEF Follows, Answered, Outside
<1>. HIDE DEF c, d
<1>11. Control(run)'
  <2>1. \A n \in Base + 1 .. pi : run[n].at = "done" => FALSE
    BY <1>0, <1>9 DEF Parsing, Control
  <2>2. \A n \in Base + 1 .. pi + 1 : run[n].at = "done" => n = pi + 1 /\ r[3] = BodyDone
    BY <1>0, <1>6, <2>1 DEF d
  <2>. QED
    BY <1>0, <1>5, <1>6, <1>7, <1>8, <1>9, <2>2 DEF Control
<1>12. At(Here(run))'
  <2>1. /\ uriStart = c.uriStart /\ uriEnd = c.uriEnd
        /\ c.hdrs \subseteq hdrs /\ \A h \in hdrs \ c.hdrs : Old(h)
    BY <1>0 DEF Parsing, At, c
  <2>2. \A h \in hdrs : Old(h) => Old(h)'
    BY <1>7 DEF Old
  <2>3. d.hdrs \subseteq hdrs' /\ \A h \in hdrs' \ d.hdrs : h \in hdrs \ c.hdrs
    BY <1>6, <1>7, <2>1
  <2>. QED
    BY <1>6, <1>7, <1>9, <2>1, <2>2, <2>3 DEF At
<1>13. PlacedLine(d, pi + 1)
  <2>1. PlacedLine(c, pi)
    BY <1>0, <1>9 DEF Parsing, Placed, c
  <2>2. c.uriStart \in Nat /\ c.uriEnd \in Nat
    BY <1>0 DEF Config
  <2>. QED
    BY <1>0, <1>5, <1>6, <1>8, <2>1, <2>2 DEF PlacedLine
<1>14. PlacedField(c, pi) /\ PlacedHdrs(c, pi) /\ c.uriEnd < pi
  BY <1>0, <1>5, <1>9 DEF Parsing, Placed, PlacedLine, c
<1>15. /\ c.field.ks \in Nat /\ c.field.ke \in Nat /\ c.field.vs \in Nat /\ c.field.ve \in Nat
       /\ c.uriEnd \in Nat
  BY <1>0 DEF Config, Positions
<1>16. PlacedField(d, pi + 1)
  <2>. SUFFICES ASSUME d.at = "body"
                PROVE  /\ d.state \in 1..7 => d.uriEnd < d.field.ks /\ d.field.ks < pi + 1
                       /\ d.state \in 2..7 => d.field.ks < d.field.ke /\ d.field.ke < pi + 1
                       /\ d.state \in 4..7 => d.field.ke < d.field.vs /\ d.field.vs < pi + 1
                       /\ d.state \in 5..7 => d.field.vs < d.field.ve /\ d.field.ve < pi + 1
    BY DEF PlacedField
  <2>1. d.state = r[3] /\ r[3] \in 0..7 /\ d.uriEnd = c.uriEnd
    BY <1>6, <1>8 DEF BodyDone
  <2>2. /\ state \in 1..7 => c.uriEnd < c.field.ks /\ c.field.ks < pi
        /\ state \in 2..7 => c.field.ks < c.field.ke /\ c.field.ke < pi
        /\ state \in 4..7 => c.field.ke < c.field.vs /\ c.field.vs < pi
        /\ state \in 5..7 => c.field.vs < c.field.ve /\ c.field.ve < pi
    BY <1>5, <1>14 DEF PlacedField
  <2>3. /\ d.field.ks = (IF state \in {0, 6} /\ r[3] = 1 THEN pi ELSE c.field.ks)
        /\ d.field.ke = (IF state = 1 /\ r[3] \in {2, 3} THEN pi ELSE c.field.ke)
        /\ d.field.vs = (IF state = 3 /\ r[3] = 4 THEN pi ELSE c.field.vs)
        /\ d.field.ve = (IF state = 4 /\ r[3] \in {5, 6} THEN pi ELSE c.field.ve)
    BY <1>6
  <2>4. /\ r[3] = 1 => state \in {0, 1, 6}
        /\ r[3] = 2 => state \in {1, 2}
        /\ r[3] = 3 => state \in {1, 2, 3}
        /\ r[3] = 4 => state \in {3, 4}
        /\ r[3] = 5 => state = 4
        /\ r[3] = 6 => state \in {4, 5}
        /\ r[3] = 7 => state = 6
    BY <1>8, BodyOrder
  <2>. HIDE DEF c, d
  <2>5. d.state \in 1..7 => d.uriEnd < d.field.ks /\ d.field.ks < pi + 1
    BY <1>0, <1>8, <1>14, <1>15, <2>1, <2>2, <2>3, <2>4
  <2>6. d.state \in 2..7 => d.field.ks < d.field.ke /\ d.field.ke < pi + 1
    BY <1>0, <1>8, <1>14, <1>15, <2>1, <2>2, <2>3, <2>4
  <2>7. d.state \in 4..7 => d.field.ke < d.field.vs /\ d.field.vs < pi + 1
    BY <1>0, <1>8, <1>14, <1>15, <2>1, <2>2, <2>3, <2>4
  <2>8. d.state \in 5..7 => d.field.vs < d.field.ve /\ d.field.ve < pi + 1
    BY <1>0, <1>8, <1>14, <1>15, <2>1, <2>2, <2>3, <2>4
  <2>. QED
    BY <2>5, <2>6, <2>7, <2>8
<1>17. PlacedHdrs(d, pi + 1)
  <2>1. \A h \in c.hdrs : /\ c.uriEnd < h.ks /\ h.ks < h.ke /\ h.ke < h.vs /\ h.vs < h.ve
                          /\ h.ve \in Nat /\ h.ve < pi + 1
    BY <1>0, <1>14 DEF PlacedHdrs, Config, Positions
  <2>2. state = 5 => LET h == c.field IN
          /\ c.uriEnd < h.ks /\ h.ks < h.ke /\ h.ke < h.vs /\ h.vs < h.ve /\ h.ve < pi + 1
    BY <1>0, <1>5, <1>14, <1>15 DEF PlacedField
  <2>. QED
    BY <1>6, <2>1, <2>2 DEF PlacedHdrs
<1>18. Placed(Here(run), Cur)'
  BY <1>9, <1>13, <1>16, <1>17 DEF Placed, PlacedLine, PlacedField, PlacedHdrs
<1>19. Whole'
  BY <1>0, <1>7, <1>9 DEF Parsing, Whole
<1>. QED
  BY <1>10, <1>11, <1>12, <1>18, <1>19 DEF Follows, Parsing

-----------------------------------------------------------------------------
(* The answer *)

\* The request that is served is the first one that has no answer.
LEMMA ServedRequest ==
  ASSUME Orderly, IInv, NEW run, Pass(run), Follows(run), pc = "serve"
  PROVE  Len(answers) + 1 \in DOMAIN stream.reqs /\ stream.reqs[Len(answers) + 1].end = pos
<1> DEFINE j == Len(answers) + 1
<1>1. /\ run[pos].at = "done" /\ pos > Base /\ Base \in Nat /\ Answered /\ Cur = pos
      /\ \A n \in Base + 1 .. pos : run[n].at = "done" => n = pos
  BY BaseType DEF Follows, Parsing, Control, Here, Cur
<1>2. /\ pos \in 0 .. Len(stream.bytes) /\ pos \in Nat /\ stream.reqs \in Seq(Request)
      /\ Len(stream.reqs) \in Nat /\ Len(answers) \in Nat /\ Len(answers) <= Len(stream.reqs)
      /\ answers \in Seq(Answer) /\ stream \in Streams
  BY <1>1, Context DEF Answered
<1>3. PICK k \in DOMAIN stream.reqs : stream.reqs[k].end = pos
  BY <1>1, <1>2 DEF Pass, Describes
<1>4. \A i \in DOMAIN stream.reqs : stream.reqs[i].end \in Nat
  BY <1>2, EndsAreNumbers DEF EndOf
<1>5. \A a, b \in DOMAIN stream.reqs : a < b => stream.reqs[a].end < stream.reqs[b].end
  BY DEF Pass, Describes
<1>6. k > Len(answers)
  <2>1. Len(answers) > 0 => Base = stream.reqs[Len(answers)].end /\ Len(answers) \in DOMAIN stream.reqs
    BY <1>2 DEF Base, EndOf
  <2>2. Len(answers) \in DOMAIN stream.reqs /\ k < Len(answers) =>
          stream.reqs[k].end < stream.reqs[Len(answers)].end
    BY <1>5
  <2>. QED
    BY <1>1, <1>2, <1>3, <1>4, <2>1, <2>2
<1>7. j \in DOMAIN stream.reqs /\ j <= k
  BY <1>2, <1>6
<1>8. k = j
  <2>. SUFFICES ASSUME j < k
                PROVE  FALSE
    BY <1>2, <1>7
  <2>1. stream.reqs[j].end < pos /\ stream.reqs[j].end \in Nat
    BY <1>3, <1>4, <1>5, <1>7
  <2>2. run[stream.reqs[j].end].at = "done"
    BY <1>7 DEF Pass, Describes
  <2>3. stream.reqs[j].end > Base
    <3>1. Len(answers) = 0 => Base = 0
      BY <1>2 DEF Base
    <3>2. Len(answers) > 0 => Base = stream.reqs[Len(answers)].end /\ Len(answers) \in DOMAIN stream.reqs
      BY <1>2 DEF Base, EndOf
    <3>3. Len(answers) > 0 => stream.reqs[Len(answers)].end < stream.reqs[j].end
      BY <1>2, <1>5, <1>7, <3>2
    <3>4. stream.reqs[j].end \in 1 .. Len(stream.bytes)
      BY <1>7 DEF Pass, Describes
    <3>. QED
      BY <1>2, <3>1, <3>2, <3>3, <3>4
  <2>. QED
    BY <1>1, <1>2, <2>1, <2>2, <2>3
<1>. QED
  BY <1>3, <1>7, <1>8

\* Where no NUL has been written, the ring holds what the client sent.
LEMMA SpanIsSent ==
  ASSUME Orderly, IInv, Base \in Nat, Whole, NEW from \in Nat, NEW to \in Nat,
         Base <= from, from <= to, to <= last,
         uriEnd < from \/ to <= uriEnd
  PROVE  Span(from, to) = Between(stream, from, to)
<1>1. ASSUME NEW i \in 1 .. to - from
      PROVE  Terminated[from + i - 1] = stream.bytes[from + i]
  <2>1. from + i - 1 \in Base .. last - 1 /\ from + i - 1 \in Slots /\ from + i - 1 # uriEnd
    BY <1>1, Context DEF IInv, TypeOK
  <2>2. Terminated[from + i - 1] = buf[from + i - 1]
    BY <2>1, Context DEF Terminated
  <2>3. buf[from + i - 1] = stream.bytes[(from + i - 1) + 1]
    BY <2>1 DEF Whole
  <2>4. (from + i - 1) + 1 = from + i
    BY <1>1
  <2>. QED
    BY <2>2, <2>3, <2>4
<1>. QED
  BY <1>1 DEF Span, Between

\* What spells a name of one byte begins with it.
LEMMA SpelledFirst ==
  ASSUME NEW text \in Seq(Bytes), NEW x, Spells(text, <<x>>)
  PROVE  Len(text) >= 1 /\ text[1] = x
<1>1. CASE text = <<x>>
  BY <1>1
<1>2. CASE Len(text) > 1 /\ SubSeq(text, 1, 1) = <<x>>
  <2>1. SubSeq(text, 1, 1)[1] = text[1] /\ Len(text) >= 1
    BY <1>2
  <2>2. <<x>>[1] = x
    OBVIOUS
  <2>3. SubSeq(text, 1, 1)[1] = x
    BY ONLY <1>2, <2>2
  <2>. QED
    BY <2>1, <2>3
<1>. QED
  BY <1>1, <1>2 DEF Spells

\* What is read from a pointer begins with the byte it points to, also when it crosses
\* the end of buf.
LEMMA TextFirst ==
  ASSUME IInv, NEW from \in Slots, NEW to \in Slots, from # to, NEW pad \in Padding
  PROVE  Text(from, to, pad) \in Seq(Bytes) /\ Text(from, to, pad)[1] = Terminated[from]
<1>1. /\ from \in Nat /\ to \in Nat /\ BufSize \in Nat /\ from < BufSize /\ to < BufSize
      /\ Slots = 0 .. BufSize - 1
  BY BufSizeAssumption DEF Slots
<1>2. Terminated \in [Slots -> Bytes] /\ pad \in Bytes
  BY DEF Terminated, Padding, Bytes, IInv, TypeOK
<1>3. ASSUME NEW n \in Nat, from < n, n <= BufSize
      PROVE  /\ Span(from, n) \in Seq(Bytes) /\ Len(Span(from, n)) = n - from
             /\ Span(from, n)[1] = Terminated[from]
  <2>1. \A i \in 1 .. n - from : from + i - 1 \in Slots
    BY <1>1, <1>3
  <2>2. Span(from, n) \in [1 .. n - from -> Bytes]
    BY <1>2, <2>1 DEF Span
  <2>3. n - from \in Nat /\ 1 \in 1 .. n - from /\ from + 1 - 1 = from
    BY <1>1, <1>3
  <2>4. Span(from, n)[1] = Terminated[from]
    BY <2>3 DEF Span
  <2>. QED
    BY <2>2, <2>3, <2>4
<1>4. CASE from <= to
  BY <1>1, <1>3, <1>4 DEF Text
<1>5. CASE from > to
  <2> DEFINE t == Span(from, BufSize)
  <2>1. t \in Seq(Bytes) /\ Len(t) >= 1 /\ t[1] = Terminated[from]
    BY <1>1, <1>3
  <2>2. Text(from, to, pad) = t \o <<pad>>
    BY <1>1, <1>5 DEF Text
  <2>. HIDE DEF t
  <2>. QED
    BY <1>2, <2>1, <2>2
<1>. QED
  BY <1>1, <1>4, <1>5

\* A header that was left over never looks like one the server acts on.
LEMMA OldIsIgnored ==
  ASSUME IInv, NEW h \in hdrs, Old(h), NEW pad \in Padding
  PROVE  ~KeyIs(h, "K", pad) /\ ~KeyIs(h, "I", pad)
<1>1. h.ks \in Slots /\ h.ke \in Slots
  BY DEF IInv, TypeOK, Field
<1>2. ASSUME NEW x \in {"K", "I"}, KeyIs(h, x, pad)
      PROVE  FALSE
  <2>1. h.ks # h.ke /\ Spells(Text(h.ks, h.ke, pad), <<x>>)
    BY <1>2 DEF KeyIs
  <2>2. Terminated[h.ks] = x
    BY <1>1, <2>1, TextFirst, SpelledFirst
  <2>3. buf[h.ks] = x
    BY <1>1, <2>2 DEF Terminated, IInv, TypeOK
  <2>. QED
    BY <2>3 DEF Old
<1>. QED
  BY <1>2

\* What do_request finds in the ring is what the request asks for.
LEMMA AsAsked ==
  ASSUME Orderly, IInv, NEW run, Pass(run), Follows(run), pc = "serve", NEW pad \in Padding
  PROVE  LET d == run[pos] IN
           /\ Lookup(pad) = IF Found(stream, d) THEN 200 ELSE IF Denied(stream, d) THEN 403 ELSE 404
           /\ AsksKeepAlive(pad) = Keeps(stream, d)
           /\ AsksUnmodified(pad) = Same(stream, d)
<1> DEFINE d == run[pos]
<1>1. /\ Base \in Nat /\ Whole /\ At(d) /\ Placed(d, pos) /\ d.at = "done" /\ d \in Config
      /\ pos \in Nat /\ pos <= last /\ last \in Nat /\ last < BufSize
  BY BaseType, Context, HereType DEF Follows, Parsing, Control, Here, Cur
<1>. HIDE DEF d
<1>2. /\ Base <= uriStart /\ uriStart < uriEnd /\ uriEnd < pos /\ uriStart \in Nat /\ uriEnd \in Nat
      /\ uriStart = d.uriStart /\ uriEnd = d.uriEnd
  BY <1>1 DEF At, Placed, PlacedLine, Config
<1>3. \A h \in d.hdrs : /\ h.ks \in Nat /\ h.ke \in Nat /\ h.vs \in Nat /\ h.ve \in Nat
                        /\ uriEnd < h.ks /\ h.ks < h.ke /\ h.ke < h.vs /\ h.vs < h.ve /\ h.ve < pos
  BY <1>1, <1>2 DEF Placed, PlacedHdrs, Config, Positions
<1>4. Span(uriStart, uriEnd) = Between(stream, d.uriStart, d.uriEnd)
  BY <1>1, <1>2, SpanIsSent
<1>5. Lookup(pad) = IF Found(stream, d) THEN 200 ELSE IF Denied(stream, d) THEN 403 ELSE 404
  <2>1. Text(uriStart, uriEnd, pad) = Between(stream, d.uriStart, d.uriEnd)
    BY <1>2, <1>4 DEF Text
  <2>. QED
    BY <2>1 DEF Lookup, Found, Denied
<1>6. ASSUME NEW h \in d.hdrs, NEW name
      PROVE  KeyIs(h, name, pad) <=> Named(stream, h, name)
  <2>1. Span(h.ks, h.ke) = Between(stream, h.ks, h.ke)
    BY <1>1, <1>2, <1>3, SpanIsSent
  <2>2. h.ks # h.ke /\ h.ks <= h.ke
    BY <1>3
  <2>3. Text(h.ks, h.ke, pad) = Between(stream, h.ks, h.ke)
    BY <2>1, <2>2 DEF Text
  <2>. QED
    BY <2>2, <2>3 DEF KeyIs, Named
<1>7. ASSUME NEW h \in d.hdrs
      PROVE  /\ Text(h.vs, h.ve, pad) = Between(stream, h.vs, h.ve)
             /\ h.vs + 1 < BufSize /\ Span(h.vs, h.vs + 2) = Between(stream, h.vs, h.vs + 2)
  <2>1. /\ h.vs \in Nat /\ h.ve \in Nat /\ h.vs + 2 \in Nat /\ h.vs < h.ve /\ Base <= h.vs
        /\ h.vs + 2 <= last /\ h.ve <= last /\ uriEnd < h.vs /\ h.vs + 1 < BufSize
    <3>1. /\ h.ks \in Nat /\ h.ke \in Nat /\ h.vs \in Nat /\ h.ve \in Nat
          /\ uriEnd < h.ks /\ h.ks < h.ke /\ h.ke < h.vs /\ h.vs < h.ve /\ h.ve < pos
      BY <1>3
    <3>2. BufSize \in Nat
      BY BufSizeAssumption
    <3>. QED
      BY <1>1, <1>2, <3>1, <3>2
  <2>2. Text(h.vs, h.ve, pad) = Between(stream, h.vs, h.ve)
    <3>1. Span(h.vs, h.ve) = Between(stream, h.vs, h.ve)
      BY <1>1, <2>1, SpanIsSent
    <3>. QED
      BY <2>1, <3>1 DEF Text
  <2>3. Span(h.vs, h.vs + 2) = Between(stream, h.vs, h.vs + 2)
    <3> DEFINE to == h.vs + 2
    <3>1. to \in Nat /\ h.vs <= to /\ to <= last
      BY <2>1
    <3>. HIDE DEF to
    <3>2. Span(h.vs, to) = Between(stream, h.vs, to)
      BY <1>1, <2>1, <3>1, SpanIsSent
    <3>. QED
      BY <3>2 DEF to
  <2>. QED
    BY <2>1, <2>2, <2>3
<1>8. d.hdrs \subseteq hdrs /\ \A h \in hdrs : ~(h \in d.hdrs) => ~KeyIs(h, "K", pad) /\ ~KeyIs(h, "I", pad)
  BY <1>1, OldIsIgnored DEF At
<1>9. AsksKeepAlive(pad) = Keeps(stream, d)
  BY <1>6, <1>7, <1>8 DEF AsksKeepAlive, Keeps
<1>10. AsksUnmodified(pad) = Same(stream, d)
  BY <1>6, <1>7, <1>8 DEF AsksUnmodified, Same
<1>. QED
  BY <1>5, <1>9, <1>10 DEF d

\* Both ways to answer give the answer the request calls for, and close as it asks.
LEMMA RightAnswer ==
  ASSUME Orderly, IInv, NEW run, Pass(run), Follows(run), ServeError \/ ServeStatic
  PROVE  LET q == stream.reqs[Len(answers) + 1] IN
           /\ answers' = Append(answers, [status |-> q.status, connection |-> q.connection])
           /\ pc' = (IF q.connection = "none" THEN "closed" ELSE "read")
           /\ ServeError => q.status \in {403, 404}
<1> DEFINE j == Len(answers) + 1
           d == run[pos]
           q == stream.reqs[j]
<1>1. pc = "serve"
  BY DEF ServeError, ServeStatic
<1>2. j \in DOMAIN stream.reqs /\ q.end = pos
  BY <1>1, ServedRequest
<1>3. [status |-> q.status, connection |-> q.connection] = Expected(stream, d)
  <2>1. LET p == stream.reqs[j] IN
          [status |-> p.status, connection |-> p.connection] = Expected(stream, run[p.end])
    BY <1>2 DEF Pass, Describes
  <2>. QED
    BY <1>2, <2>1
<1>4. \A pad \in Padding :
        /\ Lookup(pad) = IF Found(stream, d) THEN 200 ELSE IF Denied(stream, d) THEN 403 ELSE 404
        /\ AsksKeepAlive(pad) = Keeps(stream, d) /\ AsksUnmodified(pad) = Same(stream, d)
  BY <1>1, AsAsked
<1>5. CASE ServeError
  <2>0. PICK pad \in Padding :
          /\ Lookup(pad) # 200
          /\ answers' = Append(answers, [status |-> Lookup(pad), connection |-> "close"])
    BY <1>5 DEF ServeError
  <2> DEFINE status == Lookup(pad)
  <2>1. status # 200 /\ answers' = Append(answers, [status |-> status, connection |-> "close"])
    BY <2>0
  <2>. HIDE DEF status
  <2>2. ~Found(stream, d) /\ status = (IF Denied(stream, d) THEN 403 ELSE 404)
    BY <1>4, <2>1 DEF status
  <2>3. [status |-> q.status, connection |-> q.connection] = [status |-> status, connection |-> "close"]
    BY <1>3, <2>2 DEF Expected
  <2>4. pc' = "read" /\ status \in {403, 404}
    BY <1>5, <2>2 DEF ServeError
  <2>. HIDE DEF q
  <2>5. q.status = status /\ q.connection = "close"
    BY <2>3
  <2>. QED
    BY <2>1, <2>4, <2>5 DEF q
<1>6. CASE ServeStatic
  <2>0. PICK pad \in Padding :
          /\ Lookup(pad) = 200
          /\ answers' = Append(answers,
               [status     |-> IF AsksUnmodified(pad) THEN 304 ELSE 200,
                connection |-> IF AsksKeepAlive(pad) THEN "keep-alive" ELSE "none"])
          /\ pc' = AfterStatic(pad)
    BY <1>6 DEF ServeStatic
  <2> DEFINE a == [status     |-> IF AsksUnmodified(pad) THEN 304 ELSE 200,
                   connection |-> IF AsksKeepAlive(pad) THEN "keep-alive" ELSE "none"]
  <2>1. /\ answers' = Append(answers, a) /\ Lookup(pad) = 200
        /\ pc' = (IF AsksKeepAlive(pad) THEN "read" ELSE "closed")
    BY <2>0 DEF AfterStatic
  <2>2. Found(stream, d)
    BY <1>4, <2>1
  <2>3. a = [status |-> q.status, connection |-> q.connection]
    BY <1>3, <1>4, <2>2 DEF Expected
  <2>4. AsksKeepAlive(pad) <=> a.connection # "none"
    OBVIOUS
  <2>. HIDE DEF a, q
  <2>5. a.connection = q.connection
    BY <2>3
  <2>. QED
    <3>1. ~ServeError
      BY <1>1, <2>1, <1>4, <2>2 DEF ServeError
    <3>. QED
      BY <2>1, <2>3, <2>4, <2>5, <3>1 DEF q
<1>. QED
  BY <1>5, <1>6

\* Behind the right answer the next request begins.
LEMMA AfterAnswer ==
  ASSUME Orderly, IInv, NEW run, Pass(run), Follows(run), pc = "serve",
         ServeError \/ ServeStatic,
         buf' = Terminated,
         UNCHANGED <<stream, sent, fin, pos, last, rstate, uriStart, uriEnd, field>>,
         \A h \in hdrs' : Old(h)'
  PROVE  Follows(run)'
<1> DEFINE j == Len(answers) + 1
           d == run[pos]
           q == stream.reqs[j]
           a == [status |-> q.status, connection |-> q.connection]
<1>0. /\ answers' = Append(answers, a) /\ pc' = (IF q.connection = "none" THEN "closed" ELSE "read")
      /\ a.status = q.status /\ a.connection = q.connection
  BY RightAnswer
<1>2. /\ answers \in Seq(Answer) /\ j \in Nat /\ j \in DOMAIN stream.reqs /\ EndOf(j) = pos
      /\ stream.reqs \in Seq(Request)
  BY Context, ServedRequest DEF EndOf
<1>7. a \in Answer
  <2>1. q \in Request
    BY <1>2
  <2>. HIDE DEF q
  <2>. QED
    BY <2>1 DEF Request, Answer
<1>. HIDE DEF a
<1>1. /\ Parsing(run) /\ Answered /\ Base \in Nat /\ d \in Config /\ d.at = "done"
      /\ Base < pos /\ d.state = 0 /\ rstate = 0 /\ uriStart = d.uriStart /\ uriEnd = d.uriEnd
      /\ field = d.field
  BY BaseType, HereType DEF Follows, Parsing, Control, At, Here, Cur
<1>3. /\ Len(answers') = j /\ answers' # <<>> /\ DOMAIN answers' = 1 .. j /\ answers'[j] = a
      /\ \A k \in 1 .. j : k # j => k \in DOMAIN answers /\ answers'[k] = answers[k]
  BY <1>0, <1>2, <1>7
<1>4. Base' = pos
  <2>1. Base' = IF answers' = <<>> THEN 0 ELSE stream'.reqs[Len(answers')].end
    BY DEF Base, EndOf
  <2>. QED
    BY <1>2, <1>3, <2>1 DEF EndOf
<1>5. Answered'
  <2>1. Len(stream.reqs) \in Nat /\ j \in 1 .. Len(stream.reqs) /\ stream' = stream
    BY <1>2
  <2>2. Len(answers') <= Len(stream'.reqs)
    BY <1>3, <2>1
  <2>3. \A k \in DOMAIN answers' :
          /\ answers'[k].status = stream'.reqs[k].status
          /\ answers'[k].connection = stream'.reqs[k].connection
    <3>1. ASSUME NEW k \in 1 .. j, k # j
          PROVE  /\ answers'[k].status = stream.reqs[k].status
                 /\ answers'[k].connection = stream.reqs[k].connection
      <4>1. k \in DOMAIN answers /\ answers'[k] = answers[k]
        BY <1>3, <3>1
      <4>. QED
        BY <1>1, <4>1 DEF Answered
    <3>2. answers'[j].status = stream.reqs[j].status /\ answers'[j].connection = stream.reqs[j].connection
      BY <1>0, <1>3
    <3>. HIDE DEF j
    <3>. QED
      BY <1>3, <2>1, <3>1, <3>2
  <2>. QED
    BY <2>2, <2>3 DEF Answered
<1>6. Outside(last)' /\ Outside(sent)'
  BY DEF Follows, Outside
<1>. HIDE DEF d, j, q
<1>8. CASE a.connection # "none"
  <2>1. pc' = "read"
    BY <1>0, <1>8
  <2>2. Cur' = pos /\ Here(run)' = Fresh(d)
    BY <2>1 DEF Cur, Here, d
  <2>3. /\ Fresh(d).at = "line" /\ Fresh(d).hdrs = {} /\ Fresh(d).state = 0
        /\ Fresh(d).uriStart = d.uriStart /\ Fresh(d).uriEnd = d.uriEnd /\ Fresh(d).field = d.field
    BY <1>1, FreshType
  <2>4. Control(run)'
    <3>1. \A n \in (Base + 1 .. Cur)' : FALSE
      BY <1>1, <1>4, <2>2, Context
    <3>. QED
      BY <1>1, <1>4, <2>1, <2>2, <2>3, <3>1, Context DEF Control
  <2>5. At(Here(run))'
    BY <1>1, <2>2, <2>3 DEF At
  <2>6. Placed(Here(run), Cur)'
    BY <2>2, <2>3 DEF Placed, PlacedLine, PlacedField, PlacedHdrs
  <2>7. Whole'
    <3>1. uriEnd < pos /\ uriEnd \in Nat
      BY <1>1 DEF Parsing, Placed, PlacedLine, Here, Cur, Config, d
    <3>2. /\ pos \in Nat /\ last \in Nat /\ last < BufSize /\ BufSize \in Nat
          /\ Slots = 0 .. BufSize - 1 /\ buf \in [Slots -> Bytes]
      BY Context
    <3>3. \A i \in pos .. last - 1 : i \in Slots /\ i # uriEnd
      BY ONLY <3>1, <3>2
    <3>4. \A i \in pos .. last - 1 : buf'[i] = buf[i]
      BY <3>2, <3>3 DEF Terminated
    <3>5. \A i \in pos .. last - 1 : i \in Base .. last - 1
      BY ONLY <1>1, <3>2
    <3>6. Whole
      BY <1>1 DEF Parsing
    <3>. QED
      BY <1>4, <3>4, <3>5, <3>6 DEF Whole
  <2>. QED
    BY <1>5, <1>6, <2>4, <2>5, <2>6, <2>7 DEF Follows, Parsing
<1>9. CASE a.connection = "none"
  BY <1>0, <1>5, <1>6, <1>9 DEF Follows
<1>. QED
  BY <1>8, <1>9

\* The headers that stay behind after an error page are none the server acts on.
LEMMA ErrorStep ==
  ASSUME Orderly, IInv, NEW run, Pass(run), Follows(run), ServeError
  PROVE  Follows(run)'
<1> DEFINE j == Len(answers) + 1
           d == run[pos]
           q == stream.reqs[j]
<1>1. pc = "serve" /\ pc' = "read" /\ buf' = Terminated
      /\ UNCHANGED <<stream, sent, fin, pos, last, rstate, uriStart, uriEnd, field, hdrs>>
  BY DEF ServeError, client
<1>3. j \in DOMAIN stream.reqs /\ q.end = pos
  BY <1>1, ServedRequest
<1>4. q.status \in {403, 404}
  BY RightAnswer
<1>5. \A h \in d.hdrs : ~Special(stream, h)
  <2>1. LET p == stream.reqs[j] IN
          p.status \in {403, 404} => \A h \in run[p.end].hdrs : ~Special(stream, h)
    BY <1>3 DEF Pass, Describes
  <2>. QED
    BY <1>3, <1>4, <2>1
<1>7. \A h \in hdrs' : Old(h)'
  <2>0. /\ At(d) /\ Placed(d, pos) /\ Whole /\ Base \in Nat /\ Base <= pos /\ d \in Config
        /\ d.at = "done"
    BY <1>1, BaseType, HereType DEF Follows, Parsing, Control, Here, Cur
  <2>. HIDE DEF d
  <2>1. ASSUME NEW h \in hdrs, Old(h)
        PROVE  Old(h)'
    <3>1. h.ks \in Slots
      BY Context DEF Field
    <3>2. buf'[h.ks] \in {buf[h.ks], "nul"}
      BY <1>1, <3>1, Context DEF Terminated
    <3>. QED
      BY <1>1, <2>1, <3>2 DEF Old
  <2>2. ASSUME NEW h \in d.hdrs
        PROVE  Old(h)'
    <3>1. /\ h.ks \in Nat /\ h.ke \in Nat /\ uriEnd < h.ks /\ Base <= h.ks /\ h.ks < h.ke /\ h.ke < pos
          /\ pos \in Nat /\ pos <= last /\ last \in Nat /\ uriEnd \in Nat
      <4>1. /\ d.uriEnd < h.ks /\ h.ks < h.ke /\ h.ke < h.vs /\ h.vs < h.ve /\ h.ve < pos
            /\ Base <= d.uriStart /\ d.uriStart < d.uriEnd /\ uriEnd = d.uriEnd
        BY <2>0 DEF Placed, PlacedLine, PlacedHdrs, At
      <4>2. h.ks \in Nat /\ h.ke \in Nat /\ h.vs \in Nat /\ h.ve \in Nat /\ d.uriEnd \in Nat /\ d.uriStart \in Nat
        BY <2>0 DEF Config, Positions
      <4>3. pos \in Nat /\ pos <= last /\ last \in Nat
        BY Context
      <4>. QED
        BY <2>0, <4>1, <4>2, <4>3
    <3>2. buf'[h.ks] = buf[h.ks] /\ buf[h.ks] = stream.bytes[h.ks + 1]
      <4>0. last < BufSize /\ BufSize \in Nat /\ Slots = 0 .. BufSize - 1 /\ Base \in Nat
        BY <2>0, Context
      <4>1. h.ks \in Slots /\ h.ks # uriEnd /\ h.ks \in Base .. last - 1
        BY ONLY <3>1, <4>0
      <4>2. buf'[h.ks] = buf[h.ks]
        BY <1>1, <4>1, Context DEF Terminated
      <4>. QED
        BY <2>0, <4>1, <4>2 DEF Whole
    <3>3. stream.bytes[h.ks + 1] \notin {"K", "I"}
      BY <1>5 DEF Special
    <3>. QED
      BY <1>1, <3>1, <3>2, <3>3 DEF Old
  <2>. QED
    BY <1>1, <2>0, <2>1, <2>2 DEF At
<1>. QED
  BY <1>1, <1>7, AfterAnswer

\* After the response with a file the list is empty.
LEMMA StaticStep ==
  ASSUME Orderly, IInv, NEW run, Pass(run), Follows(run), ServeStatic
  PROVE  Follows(run)'
<1>1. /\ pc = "serve" /\ buf' = Terminated /\ hdrs' = {}
      /\ UNCHANGED <<stream, sent, fin, pos, last, rstate, uriStart, uriEnd, field>>
  BY DEF ServeStatic, KeptHeaders, client
<1>. QED
  BY <1>1, AfterAnswer

-----------------------------------------------------------------------------
\* Before the first byte do_request is where the pass starts.
LEMMA InitFollows == Orderly /\ Init => ParseInv
<1>. SUFFICES ASSUME Orderly, Init
              PROVE  ParseInv
  OBVIOUS
<1>0. IInv
  BY InitIInv
<1>1. stream \in Streams
  BY DEF Init
<1>2. PICK run \in [0 .. Len(stream.bytes) -> Config] : IsPass(stream, run) /\ Describes(stream, run)
  BY <1>1 DEF Orderly
<1>3. /\ sent = 0 /\ last = 0 /\ pos = 0 /\ answers = <<>> /\ pc = "idle" /\ hdrs = {}
      /\ rstate = 0 /\ uriStart = 0 /\ uriEnd = 0
      /\ field = [ks |-> 0, ke |-> 0, vs |-> 0, ve |-> 0]
  BY DEF Init
<1>4. Here(run) = Start /\ Cur = 0 /\ Base = 0
  <2>1. Cur = 0 /\ run[0] = Start /\ Base = 0
    BY <1>2, <1>3 DEF IsPass, Cur, Base
  <2>2. Start \in Config
    BY DEF Start, Config, Positions
  <2>3. Fresh(Start) = Start
    BY <2>2, FreshType DEF Start
  <2>. QED
    BY <1>3, <2>1, <2>3 DEF Here
<1>5. Outside(0)
  <2>1. \A k \in DOMAIN stream.reqs : stream.reqs[k].head \in 1 .. stream.reqs[k].end - 1
    BY <1>2 DEF Describes
  <2>. QED
    BY <2>1 DEF Outside
<1>6. /\ Start.at = "line" /\ Start.state = 0 /\ Start.uriStart = 0 /\ Start.uriEnd = 0 /\ Start.hdrs = {}
      /\ Start.field = [ks |-> 0, ke |-> 0, vs |-> 0, ve |-> 0]
  BY DEF Start
<1>7. Control(run)
  BY <1>3, <1>4, <1>6 DEF Control
<1>8. At(Here(run))
  BY <1>3, <1>4, <1>6 DEF At
<1>9. Placed(Here(run), Cur)
  BY <1>4, <1>6 DEF Placed, PlacedLine, PlacedField, PlacedHdrs
<1>10. Whole /\ Answered
  <2>1. stream.reqs \in Seq(Request)
    BY <1>1, StreamsAssumption
  <2>. QED
    BY <1>3, <1>4, <2>1 DEF Whole, Answered
<1>11. Follows(run)
  BY <1>3, <1>5, <1>7, <1>8, <1>9, <1>10 DEF Follows, Parsing
<1>. QED
  BY <1>2, <1>11 DEF ParseInv, Pass

\* What the client sends does not change.
LEMMA SameStream == [Next]_vars => stream' = stream
<1>1. \A n \in 1 .. Len(stream.bytes) : Deliver(n) => stream' = stream
  BY DEF Deliver
<1>2. Finish \/ Wake \/ Read \/ ReadZero \/ ReadAgain => stream' = stream
  BY DEF Finish, Wake, Read, ReadZero, ReadAgain, client
<1>3. LineByte \/ BodyByte \/ ParseAgain \/ ParseError => stream' = stream
  BY DEF LineByte, BodyByte, ParseAgain, ParseError, client
<1>4. ServeError \/ ServeStatic \/ UNCHANGED vars => stream' = stream
  BY DEF ServeError, ServeStatic, vars, client
<1>. QED
  BY <1>1, <1>2, <1>3, <1>4 DEF Next, Server, Client

\* Every step follows the pass.
LEMMA StepFollows == Orderly /\ IInv /\ ParseInv /\ [Next]_vars => ParseInv'
<1>. SUFFICES ASSUME Orderly, IInv, ParseInv, [Next]_vars
              PROVE  ParseInv'
  OBVIOUS
<1>1. PICK run \in [0 .. Len(stream.bytes) -> Config] : Pass(run) /\ Follows(run)
  BY DEF ParseInv
<1>2. Pass(run)
  BY <1>1
<1>3. stream' = stream
  BY SameStream
<1>4. SUFFICES Follows(run)'
  BY <1>1, <1>3 DEF ParseInv, Pass
<1>5. ASSUME NEW n \in 1 .. Len(stream.bytes), Deliver(n)
      PROVE  Follows(run)'
  <2>1. Outside(sent)'
    BY <1>5, Context DEF Deliver, Outside
  <2>. QED
    BY <1>1, <1>2, <1>5, <2>1, QuietStep DEF Deliver
<1>6. CASE Finish
  BY <1>1, <1>2, <1>6, QuietStep DEF Finish, Follows, Outside
<1>7. CASE Wake \/ ReadAgain
  BY <1>1, <1>2, <1>7, QuietStep DEF Wake, ReadAgain, Follows, Outside, client
<1>8. CASE Read
  BY <1>1, <1>2, <1>8, ReadStep
<1>9. CASE ReadZero
  <2>1. fin /\ pc = "read"
    BY <1>9, RemainBounds DEF ReadZero, IInv, FillOK
  <2>. QED
    BY <1>1, <1>9, <2>1 DEF ReadZero, client, Follows, Outside, Answered
<1>10. CASE LineByte
  BY <1>1, <1>2, <1>10, LineStep
<1>11. CASE BodyByte
  BY <1>1, <1>2, <1>11, BodyStep
<1>12. CASE ParseAgain
  BY <1>1, <1>2, <1>12, AgainStep
<1>13. CASE ParseError
  BY <1>1, <1>2, <1>13, NeverError
<1>14. CASE ServeError
  BY <1>1, <1>2, <1>14, ErrorStep
<1>15. CASE ServeStatic
  BY <1>1, <1>2, <1>15, StaticStep
<1>16. CASE UNCHANGED vars
  <2>1. CASE pc = "closed"
    BY <1>1, <1>16, <2>1 DEF vars, client, Follows, Outside, Answered
  <2>2. CASE pc # "closed"
    BY <1>1, <1>2, <1>16, <2>2, QuietStep DEF vars, client, Follows, Outside
  <2>. QED
    BY <2>1, <2>2
<1>. QED
  BY <1>5, <1>6, <1>7, <1>8, <1>9, <1>10, <1>11, <1>12, <1>13, <1>14, <1>15, <1>16
     DEF Next, Server, Client

LEMMA FollowsInductive ==
  ASSUME Orderly
  PROVE  Spec => []ParseInv
<1>1. Init => ParseInv
  BY InitFollows
<1>2. IInv /\ ParseInv /\ [Next]_vars => ParseInv'
  BY StepFollows
<1>. QED
  BY <1>1, <1>2, Inductive, PTL DEF Spec

\* The k-th response has the status the k-th request calls for, for every set of orderly
\* streams and every segmentation that splits no headers.
THEOREM AnswersInOrder ==
  ASSUME Orderly
  PROVE  Spec => []AnsweredInOrder
<1>1. IInv /\ ParseInv => AnsweredInOrder
  BY Context DEF ParseInv, Follows, Answered, AnsweredInOrder
<1>. QED
  BY <1>1, Inductive, FollowsInductive, PTL

-----------------------------------------------------------------------------
(* Clients that wait for their answers *)

\* A client that waits for its answers never has two requests on their way.
Patient ==
  ~stream.pipelined =>
    /\ \A k \in DOMAIN stream.reqs : sent > EndOf(k) => Len(answers) >= k
    /\ pc \in {"idle", "read"} => pos = last

NothingOverdue ==
  pc = "idle" /\ sent = last /\ ~stream.pipelined =>
    \A k \in DOMAIN stream.reqs : Due(k) => Len(answers) >= k

\* The requests on their way are never more than the one being answered.
LEMMA StepPatient == Orderly /\ IInv /\ ParseInv /\ Patient /\ [Next]_vars => Patient'
<1>. SUFFICES ASSUME Orderly, IInv, ParseInv, Patient, [Next]_vars, ~stream.pipelined
              PROVE  Patient'
  BY SameStream DEF Patient
<1>1. ASSUME UNCHANGED <<stream, sent, answers>>, pc' \in {"idle", "read"} => pos' = last'
      PROVE  Patient'
  BY <1>1 DEF Patient, EndOf
<1>2. ASSUME NEW n \in 1 .. Len(stream.bytes), Deliver(n)
      PROVE  Patient'
  BY <1>2 DEF Deliver, Patient, EndOf
<1>3. CASE Finish \/ Wake \/ ReadAgain \/ UNCHANGED vars
  BY <1>1, <1>3 DEF Finish, Wake, ReadAgain, vars, client, Patient
<1>4. CASE Read \/ ReadZero \/ ParseError
  BY <1>1, <1>4 DEF Read, ReadZero, ParseError, client
<1>5. CASE LineByte
  BY <1>1, <1>5 DEF LineByte, client
<1>6. CASE BodyByte
  BY <1>1, <1>6 DEF BodyByte, client
<1>7. CASE ParseAgain
  BY <1>1, <1>7 DEF ParseAgain, client
<1>8. ASSUME pc = "serve", NEW a, answers' = Append(answers, a), UNCHANGED <<stream, sent, pos, last>>
      PROVE  Patient'
  <2> DEFINE j == Len(answers) + 1
  <2>1. PICK run : Pass(run) /\ Follows(run)
    BY DEF ParseInv
  <2>2. j \in DOMAIN stream.reqs /\ EndOf(j) = pos
    BY <1>8, <2>1, ServedRequest DEF EndOf
  <2>3. /\ answers \in Seq(Answer) /\ Len(answers) \in Nat /\ pos \in Nat /\ last \in Nat /\ sent \in Nat
        /\ pos <= last /\ last <= sent
    BY Context
  <2>4. ~(sent > pos)
    BY <2>2, <2>3 DEF Patient
  <2>5. pos = last
    BY <2>3, <2>4
  <2>6. Len(answers') = Len(answers) + 1
    BY <1>8, <2>3
  <2>7. \A k \in DOMAIN stream.reqs : k \in Nat
    BY Context
  <2>8. \A k \in DOMAIN stream.reqs : sent > EndOf(k) => Len(answers') >= k
    BY <2>3, <2>6, <2>7 DEF Patient
  <2>. QED
    BY <1>8, <2>5, <2>8 DEF Patient, EndOf
<1>9. CASE ServeError
  BY <1>8, <1>9 DEF ServeError, client
<1>10. CASE ServeStatic
  BY <1>8, <1>10 DEF ServeStatic, client
<1>. QED
  BY <1>2, <1>3, <1>4, <1>5, <1>6, <1>7, <1>9, <1>10 DEF Next, Server, Client

LEMMA PatientInductive ==
  ASSUME Orderly
  PROVE  Spec => []Patient
<1>1. Init => Patient
  <2>. SUFFICES ASSUME Init
                PROVE  Patient
    OBVIOUS
  <2>1. stream \in Streams /\ sent = 0 /\ pos = last
    BY DEF Init
  <2>2. \A k \in DOMAIN stream.reqs : EndOf(k) \in Nat
    BY <2>1, EndsAreNumbers
  <2>. QED
    BY <2>1, <2>2 DEF Patient
<1>2. IInv /\ ParseInv /\ Patient /\ [Next]_vars => Patient'
  BY StepPatient
<1>. QED
  BY <1>1, <1>2, Inductive, FollowsInductive, PTL DEF Spec

\* Between two reads everything that arrived has been parsed and answered.
LEMMA NothingUnread ==
  ASSUME Orderly, IInv, ParseInv, Patient, ~stream.pipelined, pc \in {"idle", "read"}, sent = last,
         Len(answers) + 1 \in DOMAIN stream.reqs, EndOf(Len(answers) + 1) <= sent
  PROVE  FALSE
<1> DEFINE j == Len(answers) + 1
<1>1. PICK run : Pass(run) /\ Follows(run)
  BY DEF ParseInv
<1>2. /\ answers \in Seq(Answer) /\ Len(answers) \in Nat /\ stream \in Streams
      /\ stream.reqs \in Seq(Request) /\ Len(stream.reqs) \in Nat
      /\ pos \in Nat /\ pos = last /\ sent \in Nat /\ Cur = pos
  BY Context DEF Patient, Cur
<1>3. j \in DOMAIN stream.reqs
  OBVIOUS
<1>4. EndOf(j) \in Nat
  BY <1>2, <1>3, EndsAreNumbers
<1>6. ~(sent > EndOf(j))
  BY <1>2, <1>3 DEF Patient
<1>7. EndOf(j) = pos
  BY <1>2, <1>4, <1>6
<1>8. run[pos].at = "done"
  <2>1. run[EndOf(j)].at = "done" 
    BY <1>1, <1>3 DEF Pass, Describes, EndOf
  <2>. QED
    BY <1>7, <2>1
<1>9. Base \in Nat /\ Base < pos
  <2>1. Base \in Nat
    BY <1>1, BaseType DEF Follows
  <2>2. Len(answers) = 0 => Base = 0
    BY <1>2 DEF Base
  <2>3. Len(answers) > 0 => Len(answers) \in DOMAIN stream.reqs /\ Base = EndOf(Len(answers))
    BY <1>2, <1>3 DEF Base
  <2>4. Len(answers) > 0 => Base < EndOf(j)
    BY <1>2, <1>3, <2>3, MarksAssumption DEF EndOf
  <2>5. EndOf(j) >= 1
    <3>1. stream.reqs[j].end \in 1 .. Len(stream.bytes)
      BY <1>1, <1>3 DEF Pass, Describes
    <3>. QED
      BY <3>1 DEF EndOf
  <2>. QED
    BY <1>2, <1>4, <1>7, <2>1, <2>2, <2>4, <2>5
<1>. QED
  BY <1>1, <1>2, <1>8, <1>9 DEF Follows, Parsing, Control

\* Hence a request that is due then has its answer.
LEMMA DueIsAnswered ==
  ASSUME Orderly, IInv, ParseInv, Patient, ~stream.pipelined, pc \in {"idle", "read"}, sent = last,
         NEW k \in DOMAIN stream.reqs, Due(k)
  PROVE  Len(answers) >= k
<1> DEFINE j == Len(answers) + 1
<1>. SUFFICES ASSUME Len(answers) < k
              PROVE  FALSE
  BY Context
<1>1. /\ answers \in Seq(Answer) /\ Len(answers) \in Nat /\ stream \in Streams /\ sent \in Nat
      /\ stream.reqs \in Seq(Request) /\ Len(stream.reqs) \in Nat
  BY Context
<1>2. j \in DOMAIN stream.reqs /\ k \in DOMAIN stream.reqs /\ (j < k \/ j = k)
  BY <1>1
<1>3. EndOf(j) \in Nat /\ EndOf(k) \in Nat /\ EndOf(j) <= EndOf(k)
  BY <1>1, <1>2, EndsAreNumbers, MarksAssumption DEF EndOf
<1>4. EndOf(j) <= sent
  BY <1>1, <1>3 DEF Due
<1>. QED
  BY <1>2, <1>4, NothingUnread

\* When do_request has gone back to epoll and nothing is unread, no request that arrived
\* whole waits for its answer, if the client waits for its answers.
THEOREM NothingIsOverdue ==
  ASSUME Orderly
  PROVE  Spec => []NothingOverdue
<1>1. IInv /\ ParseInv /\ Patient => NothingOverdue
  BY DueIsAnswered DEF NothingOverdue
<1>. QED
  BY <1>1, Inductive, FollowsInductive, PatientInductive, PTL

\* The connection is closed between two reads, or with the answer that says so.
LEMMA StepNotDropped ==
  Orderly /\ IInv /\ ParseInv /\ ParseInv' /\ Patient /\ NoSilentDrop /\ [Next]_vars => NoSilentDrop'
<1>. SUFFICES ASSUME Orderly, IInv, ParseInv, ParseInv', Patient, NoSilentDrop, [Next]_vars,
                     pc' = "closed", ~stream'.pipelined,
                     NEW k \in DOMAIN stream'.reqs, Due(k)'
              PROVE  Len(answers') >= k
  BY DEF NoSilentDrop
<1>1. CASE UNCHANGED vars
  BY <1>1 DEF vars, client, NoSilentDrop, Due, EndOf
<1>2. CASE ReadZero
  <2>1. fin /\ pc = "read" /\ sent = last /\ UNCHANGED <<stream, sent, answers>>
    BY <1>2, RemainBounds DEF ReadZero, client, IInv, FillOK
  <2>2. Due(k)
    BY <2>1 DEF Due, EndOf
  <2>. QED
    BY <2>1, <2>2, DueIsAnswered
<1>3. CASE ParseError
  <2>1. PICK run : Pass(run) /\ Follows(run)
    BY DEF ParseInv
  <2>. QED
    BY <1>3, <2>1, NeverError
<1>4. CASE ServeStatic
  <2> DEFINE j == Len(answers')
  <2>0. PICK pad \in Padding :
          /\ answers' = Append(answers,
               [status     |-> IF AsksUnmodified(pad) THEN 304 ELSE 200,
                connection |-> IF AsksKeepAlive(pad) THEN "keep-alive" ELSE "none"])
          /\ pc' = AfterStatic(pad)
    BY <1>4 DEF ServeStatic
  <2>1. stream' = stream /\ ~AsksKeepAlive(pad) /\ answers \in Seq(Answer)
    BY <1>4, <2>0, Context DEF ServeStatic, AfterStatic, client
  <2>2. j \in DOMAIN answers' /\ answers'[j].connection = "none" /\ j \in Nat
    BY <2>0, <2>1
  <2>3. Answered'
    BY DEF ParseInv, Follows
  <2>4. stream.reqs[j].connection = "none" /\ j \in Nat /\ j >= 1
    BY <2>1, <2>2, <2>3 DEF Answered
  <2>5. k \in Nat
    BY <2>1, Context
  <2>. QED
    BY <2>1, <2>4, <2>5 DEF Due
<1>5. CASE LineByte
  BY <1>5 DEF LineByte
<1>6. CASE BodyByte
  BY <1>6 DEF BodyByte
<1>7. CASE Wake \/ Read \/ ReadAgain \/ ParseAgain \/ ServeError \/ Finish
  BY <1>7 DEF Wake, Read, ReadAgain, ParseAgain, ServeError, Finish
<1>8. ASSUME NEW n \in 1 .. Len(stream.bytes), Deliver(n)
      PROVE  FALSE
  BY <1>8 DEF Deliver
<1>. QED
  BY <1>1, <1>2, <1>3, <1>4, <1>5, <1>6, <1>7, <1>8 DEF Next, Server, Client

\* No connection is closed on a request that arrived whole, if the client waits for its
\* answers: the drops that the run of connection_split shows need a request cut in its
\* headers.
THEOREM NothingIsDropped ==
  ASSUME Orderly
  PROVE  Spec => []NoSilentDrop
<1>1. Init => NoSilentDrop
  BY DEF Init, NoSilentDrop
<1>2. IInv /\ ParseInv /\ ParseInv' /\ Patient /\ NoSilentDrop /\ [Next]_vars => NoSilentDrop'
  BY StepNotDropped
<1>. QED
  BY <1>1, <1>2, Inductive, FollowsInductive, PatientInductive, PTL DEF Spec

-----------------------------------------------------------------------------
(* Connection implements Dialogue *)

\* Both ways to answer are the reply of the dialogue.
LEMMA ReplyStep ==
  ASSUME Orderly, IInv, ParseInv, ServeError \/ ServeStatic
  PROVE  Promised!Reply
<1> DEFINE j == Len(answers) + 1
           q == stream.reqs[j]
<1>1. PICK run : Pass(run) /\ Follows(run)
  BY DEF ParseInv
<1>2. pc = "serve" /\ UNCHANGED <<stream, sent, fin>>
  BY DEF ServeError, ServeStatic, client
<1>3. j \in DOMAIN stream.reqs /\ q.end = pos
  BY <1>1, <1>2, ServedRequest
<1>4. /\ answers' = Append(answers, [status |-> q.status, connection |-> q.connection])
      /\ pc' = (IF q.connection = "none" THEN "closed" ELSE "read")
  BY <1>1, RightAnswer
<1>5. sent >= q.end
  BY <1>3, Context
<1>6. (pc' = "closed") = (q.connection = "none")
  BY <1>4
<1>. QED
  BY <1>2, <1>3, <1>4, <1>5, <1>6 DEF Promised!Reply, Promised!Waiting, Promised!Turn

\* Reading and parsing change nothing a client can see.
LEMMA StepImplements ==
  Orderly /\ IInv /\ ParseInv /\ Patient /\ [Next]_vars =>
    Promised!DialogueNext \/ UNCHANGED <<stream, sent, fin, answers, (pc = "closed")>>
<1>. SUFFICES ASSUME Orderly, IInv, ParseInv, Patient, [Next]_vars
              PROVE  Promised!DialogueNext \/ UNCHANGED <<stream, sent, fin, answers, (pc = "closed")>>
  OBVIOUS
<1>1. ASSUME UNCHANGED <<stream, sent, fin, answers>>, pc # "closed", pc' # "closed"
      PROVE  UNCHANGED <<stream, sent, fin, answers, (pc = "closed")>>
  BY <1>1
<1>2. ASSUME NEW n \in 1 .. Len(stream.bytes), Deliver(n)
      PROVE  Promised!Arrive
  BY <1>2 DEF Deliver, Promised!Arrive
<1>3. CASE Finish
  BY <1>3 DEF Finish, Promised!Finish, Promised!DialogueNext
<1>4. CASE Wake \/ Read \/ ReadAgain
  BY <1>1, <1>4 DEF Wake, Read, ReadAgain, client
<1>5. CASE LineByte
  BY <1>1, <1>5 DEF LineByte, client
<1>6. CASE BodyByte
  BY <1>1, <1>6 DEF BodyByte, client
<1>7. CASE ParseAgain
  BY <1>1, <1>7 DEF ParseAgain, client
<1>8. CASE ParseError
  <2>1. PICK run : Pass(run) /\ Follows(run)
    BY DEF ParseInv
  <2>. QED
    BY <1>8, <2>1, NeverError
<1>9. CASE ReadZero
  <2>1. fin /\ pc = "read" /\ sent = last /\ pc' = "closed" /\ UNCHANGED <<stream, sent, fin, answers>>
    BY <1>9, RemainBounds DEF ReadZero, client, IInv, FillOK
  <2>2. Promised!Waiting => stream.pipelined
    <3>1. SUFFICES ASSUME Promised!Waiting, ~stream.pipelined
                   PROVE  FALSE
      BY StreamsAssumption, Context
    <3>2. Len(answers) + 1 \in DOMAIN stream.reqs /\ EndOf(Len(answers) + 1) <= sent
      <4>1. Len(answers) + 1 \in DOMAIN stream.reqs /\ sent >= EndOf(Len(answers) + 1)
        BY <3>1 DEF Promised!Waiting, Promised!Turn, EndOf
      <4>2. sent \in Nat /\ EndOf(Len(answers) + 1) \in Nat
        BY <4>1, Context, EndsAreNumbers
      <4>. QED
        BY <4>1, <4>2
    <3>. QED
      BY <2>1, <3>1, <3>2, NothingUnread
  <2>3. Promised!HangUp
    BY <2>1, <2>2 DEF Promised!HangUp
  <2>. QED
    BY <2>3 DEF Promised!DialogueNext
<1>10. CASE ServeError \/ ServeStatic
  BY <1>10, ReplyStep DEF Promised!DialogueNext
<1>11. CASE UNCHANGED vars
  BY <1>11 DEF vars, client
<1>. QED
  BY <1>2, <1>3, <1>4, <1>5, <1>6, <1>7, <1>8, <1>9, <1>10, <1>11
     DEF Next, Server, Client, Promised!DialogueNext

\* do_request does what Dialogue promises, for every set of orderly streams, every size of
\* the ring they fit in and every segmentation that splits no headers.
THEOREM DialogueImplemented ==
  ASSUME Orderly
  PROVE  Spec => ImplementsDialogue
<1> DEFINE shown == <<stream, sent, fin, answers, (pc = "closed")>>
<1>1. Init => Promised!DialogueInit
  BY DEF Init, Promised!DialogueInit
<1>2. IInv /\ ParseInv /\ Patient /\ [Next]_vars => [Promised!DialogueNext]_shown
  BY StepImplements
<1>. HIDE DEF shown
<1>3. Promised!DialogueSpec <=> Promised!DialogueInit /\ [][Promised!DialogueNext]_shown
  BY PTL DEF Promised!DialogueSpec, Promised!dialogueVars, shown
<1>. QED
  BY <1>1, <1>2, <1>3, Inductive, FollowsInductive, PatientInductive, PTL
     DEF Spec, ImplementsDialogue
=============================================================================
