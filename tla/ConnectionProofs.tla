-------------------------- MODULE ConnectionProofs --------------------------
(***************************************************************************)
(* The ring buffer of a connection always has room when do_request reads,  *)
(* for every size of the ring, every client and every segmentation.        *)
(*                                                                         *)
(* RoomForRead alone is not inductive: a read may fill the ring up to one  *)
(* byte.  There is room again at the next read because every pass through  *)
(* the parsers advances pos, to the end of what was read or past a         *)
(* request, so the fill level depends on where do_request stands.          *)
(*                                                                         *)
(* The bytes between pos and last survive the reads because they and the   *)
(* new ones lie less than a ring apart: two numbers that close have        *)
(* different remainders, so no two of them share a slot.  The same goes for *)
(* the NUL of parse_uri: uri_end lies before pos and less than a ring      *)
(* before last, unless the line was cut behind it (UriOK).                 *)
(*                                                                         *)
(* A response is not written before its request has been parsed, because   *)
(* the parser of the headers stops only behind a blank line with a header  *)
(* before it, and the first blank line behind a header that follows the    *)
(* last request answered is the end of the next request or of a later one. *)
(***************************************************************************)
EXTENDS Connection, TLAPS

Fill == last - pos

FillOK ==
  /\ pc \in {"idle", "read", "serve"} => Fill <= BufSize - 2
  /\ pc \in {"line", "body"} => Fill <= BufSize - 1 /\ pos <= pi

IInv == TypeOK /\ FillOK

-----------------------------------------------------------------------------
\* Every state a parser can reach is one of its enumeration, or done.
LEMMA LineRowsType == \A row \in LineRows : row[1] \in 0..14 /\ row[3] \in 0..15
  BY DEF LineRows, LineDone

LEMMA BodyRowsType == \A row \in BodyRows : row[1] \in 0..7 /\ row[3] \in 0..8
  BY DEF BodyRows, BodyDone

\* Addresses of the ring are taken modulo its size.
LEMMA SlotType == ASSUME NEW i \in Nat PROVE i % BufSize \in Slots
<1>1. BufSize \in Nat /\ BufSize > 0
  BY BufSizeAssumption
<1>2. i % BufSize \in 0 .. BufSize - 1
  BY <1>1
<1>3. QED
  BY <1>2 DEF Slots

\* What stat and the checks of its result can lead to.
LEMMA LookupType == ASSUME NEW pad PROVE Lookup(pad) \in {200, 403, 404}
  BY DEF Lookup

LEMMA InitIInv == Init => IInv
<1> SUFFICES ASSUME Init PROVE IInv
  OBVIOUS
<1>1. Len(stream.bytes) \in Nat /\ stream \in Streams
  BY StreamsAssumption DEF Init
<1>2. 0 \in Slots
  BY BufSizeAssumption DEF Slots
<1>3. TypeOK
  <2>1. fin \in BOOLEAN /\ hdrs \subseteq Field
    BY DEF Init
  <2>2. sent \in 0 .. Len(stream.bytes)
    BY <1>1 DEF Init
  <2>3. last \in 0 .. sent /\ pos \in 0 .. last /\ pi \in 0 .. last
    BY DEF Init
  <2>4. buf \in [Slots -> Bytes] /\ answers \in Seq(Answer)
    BY DEF Init, Bytes
  <2>5. field \in Field /\ uriStart \in Slots /\ uriEnd \in Slots
    BY <1>2 DEF Init, Field
  <2>6. rstate \in 0..14 /\ state \in 0..14 /\ pc = "idle" /\ lineCut = FALSE
    BY DEF Init
  <2>7. QED
    BY <1>1, <2>1, <2>2, <2>3, <2>4, <2>5, <2>6 DEF TypeOK
<1>4. FillOK
  BY BufSizeAssumption DEF Init, FillOK, Fill
<1>5. QED
  BY <1>3, <1>4 DEF IInv

\* What is free never exceeds what the array has left behind last, nor lets the
\* unread bytes and the new ones fill the whole ring.
LEMMA RemainBounds ==
  ASSUME TypeOK
  PROVE  /\ Remain \in Int
         /\ Remain <= BufSize - Fill - 1
         /\ Remain <= BufSize - (last % BufSize)
         /\ Fill <= BufSize - 2 => Remain > 0
<1>1. last \in Nat /\ pos \in Nat
  BY StreamsAssumption DEF TypeOK
<1>2. last % BufSize \in Slots
  BY <1>1, SlotType
<1>3. QED
  BY <1>1, <1>2, BufSizeAssumption DEF Remain, Smaller, Fill, Slots

LEMMA StepIInv == IInv /\ [Next]_vars => IInv'
<1> SUFFICES ASSUME IInv, [Next]_vars PROVE IInv'
  OBVIOUS
<1> USE BufSizeAssumption
<1>0. /\ stream \in Streams /\ stream.bytes \in Seq(Bytes) /\ Len(stream.bytes) \in Nat
      /\ sent \in Nat /\ last \in Nat /\ pos \in Nat /\ pi \in Nat
  BY StreamsAssumption DEF IInv, TypeOK
<1>1. ASSUME NEW n \in 1 .. Len(stream.bytes), Deliver(n) PROVE IInv'
  BY <1>0, <1>1 DEF Deliver, IInv, TypeOK, FillOK, Fill
<1>2. CASE Finish
  BY <1>0, <1>2 DEF Finish, IInv, TypeOK, FillOK, Fill
<1>3. CASE Wake
  BY <1>0, <1>3 DEF Wake, client, IInv, TypeOK, FillOK, Fill
<1>4. CASE Read
  <2> DEFINE n   == Smaller(Remain, sent - last)
             off == last % BufSize
  <2>1. n \in Nat /\ n > 0 /\ n <= Remain /\ last + n <= sent
    BY <1>0, <1>4, RemainBounds DEF Read, Smaller, IInv
  <2>2. n <= BufSize - Fill - 1 /\ off \in Slots
    BY <1>0, <2>1, RemainBounds, SlotType DEF IInv, Fill
  <2>3. sent <= Len(stream.bytes) /\ off \in Nat
    BY <1>0, <2>2 DEF Slots, IInv, TypeOK
  <2>4. /\ last' = last + n
        /\ buf' = [s \in Slots |-> IF s \in off .. off + n - 1
                                    THEN stream.bytes[last + 1 + s - off] ELSE buf[s]]
    BY <1>4 DEF Read
  <2> HIDE DEF n, off
  <2>5. buf' \in [Slots -> Bytes]
    <3>1. ASSUME NEW s \in Slots, s \in off .. off + n - 1
          PROVE  stream.bytes[last + 1 + s - off] \in Bytes
      <4>1. last + 1 + s - off \in 1 .. Len(stream.bytes)
        BY <1>0, <2>1, <2>3, <3>1
      <4>2. QED
        BY <1>0, <4>1
    <3>2. buf \in [Slots -> Bytes]
      BY DEF IInv, TypeOK
    <3>3. QED
      BY <2>4, <3>1, <3>2
  <2>6. TypeOK'
    BY <1>0, <1>4, <2>1, <2>4, <2>5 DEF Read, client, IInv, TypeOK
  <2>7. FillOK'
    BY <1>0, <1>4, <2>1, <2>2, <2>4 DEF Read, FillOK, Fill
  <2>8. QED
    BY <2>6, <2>7 DEF IInv
<1>5. CASE ReadZero
  BY <1>0, <1>5 DEF ReadZero, client, IInv, TypeOK, FillOK, Fill
<1>6. CASE ReadAgain
  BY <1>0, <1>6 DEF ReadAgain, client, IInv, TypeOK, FillOK, Fill
<1>7. CASE LineByte
  <2> PICK row \in Matches(LineRows) :
        /\ uriStart' = IF state = 2 /\ row[3] = 3 THEN Slot ELSE uriStart
        /\ uriEnd'   = IF state = 3 /\ row[3] = 4 THEN Slot ELSE uriEnd
        /\ IF row[3] = LineDone
             THEN pc' = "body" /\ pos' = DonePos /\ rstate' = 0 /\ state' = 0
             ELSE state' = row[3] /\ UNCHANGED <<pc, pos, rstate>>
    BY <1>7 DEF LineByte
  <2>1. row[3] \in 0..15
    BY LineRowsType DEF Matches
  <2>2. Slot \in Slots
    BY <1>0, SlotType DEF Slot
  <2>3. uriStart' \in Slots /\ uriEnd' \in Slots
    BY <2>2 DEF IInv, TypeOK
  <2>4. CASE row[3] = LineDone
    <3>1. pc' = "body" /\ pos' = pi + 1 /\ rstate' = 0 /\ state' = 0
      BY <2>4 DEF DonePos
    <3>2. QED
      BY <1>0, <1>7, <2>3, <3>1 DEF LineByte, client, IInv, TypeOK, FillOK, Fill
  <2>5. CASE row[3] # LineDone
    <3>1. state' \in 0..14 /\ UNCHANGED <<pc, pos, rstate>>
      BY <2>1, <2>5 DEF LineDone
    <3>2. QED
      BY <1>0, <1>7, <2>3, <3>1 DEF LineByte, client, IInv, TypeOK, FillOK, Fill
  <2>6. QED
    BY <2>4, <2>5
<1>8. CASE BodyByte
  <2> PICK row \in Matches(BodyRows) :
        /\ field' = [ks |-> IF state \in {0, 6} /\ row[3] = 1 THEN Slot ELSE field.ks,
                     ke |-> IF state = 1 /\ row[3] \in {2, 3} THEN Slot ELSE field.ke,
                     vs |-> IF state = 3 /\ row[3] = 4 THEN Slot ELSE field.vs,
                     ve |-> IF state = 4 /\ row[3] \in {5, 6} THEN Slot ELSE field.ve]
        /\ hdrs' = IF state = 5 THEN hdrs \cup {field} ELSE hdrs
        /\ IF row[3] = BodyDone
             THEN pc' = "serve" /\ pos' = DonePos /\ rstate' = 0 /\ state' = 0
             ELSE state' = row[3] /\ UNCHANGED <<pc, pos, rstate>>
    BY <1>8 DEF BodyByte
  <2>1. row[3] \in 0..8
    BY BodyRowsType DEF Matches
  <2>2. Slot \in Slots
    BY <1>0, SlotType DEF Slot
  <2>3. field' \in Field /\ hdrs' \subseteq Field
    BY <2>2 DEF Field, IInv, TypeOK
  <2>4. CASE row[3] = BodyDone
    <3>1. pc' = "serve" /\ pos' = pi + 1 /\ rstate' = 0 /\ state' = 0
      BY <2>4 DEF DonePos
    <3>2. QED
      BY <1>0, <1>8, <2>3, <3>1 DEF BodyByte, client, IInv, TypeOK, FillOK, Fill
  <2>5. CASE row[3] # BodyDone
    <3>1. state' \in 0..14 /\ UNCHANGED <<pc, pos, rstate>>
      BY <2>1, <2>5
    <3>2. QED
      BY <1>0, <1>8, <2>3, <3>1 DEF BodyByte, client, IInv, TypeOK, FillOK, Fill
  <2>6. QED
    BY <2>4, <2>5
<1>9. CASE ParseAgain
  BY <1>0, <1>9 DEF ParseAgain, client, IInv, TypeOK, FillOK, Fill
<1>10. CASE ParseError
  BY <1>0, <1>10 DEF ParseError, client, IInv, TypeOK, FillOK, Fill
<1>11. ASSUME buf' = Terminated PROVE buf' \in [Slots -> Bytes]
  BY <1>11 DEF Terminated, Bytes, IInv, TypeOK
<1>12. CASE ServeError
  <2>1. PICK pad \in Padding :
          answers' = Append(answers, [status |-> Lookup(pad), connection |-> "close"])
    BY <1>12 DEF ServeError
  <2>2. answers' \in Seq(Answer)
    <3>1. [status |-> Lookup(pad), connection |-> "close"] \in Answer
      BY LookupType DEF Answer
    <3>. QED
      BY <2>1, <3>1 DEF IInv, TypeOK
  <2>3. QED
    BY <1>0, <1>11, <1>12, <2>2 DEF ServeError, client, IInv, TypeOK, FillOK, Fill
<1>13. CASE ServeStatic
  <2>0. PICK pad \in Padding :
          /\ answers' = Append(answers,
               [status     |-> IF AsksUnmodified(pad) THEN 304 ELSE 200,
                connection |-> IF AsksKeepAlive(pad) THEN "keep-alive" ELSE "none"])
          /\ pc' = AfterStatic(pad)
    BY <1>13 DEF ServeStatic
  <2>1. answers' \in Seq(Answer)
    BY <2>0 DEF Answer, IInv, TypeOK
  <2>2. pc' \in {"read", "closed"} /\ hdrs' = {}
    BY <1>13, <2>0 DEF ServeStatic, AfterStatic, KeptHeaders
  <2>3. QED
    BY <1>0, <1>11, <1>13, <2>1, <2>2 DEF ServeStatic, client, IInv, TypeOK, FillOK, Fill
<1>14. CASE UNCHANGED vars
  BY <1>0, <1>14 DEF vars, client, IInv, TypeOK, FillOK, Fill
<1>15. QED
  BY <1>1, <1>2, <1>3, <1>4, <1>5, <1>6, <1>7, <1>8, <1>9, <1>10, <1>12, <1>13, <1>14
     DEF Next, Server, Client

LEMMA Inductive == Spec => []IInv
  BY InitIInv, StepIInv, PTL DEF Spec

\* The state of Connection has its type: in particular pos <= last <= sent, the
\* parsers' states stay in their enumerations and every pointer is a slot.
THEOREM TypeCorrect == Spec => []TypeOK
<1>1. IInv => TypeOK
  BY DEF IInv
<1>2. QED
  BY Inductive, <1>1, PTL

\* do_request never calls read() with no room, so a read of 0 bytes is always
\* the end of the stream.
THEOREM ReadHasRoom == Spec => []RoomForRead
<1>1. IInv => RoomForRead
  BY RemainBounds DEF IInv, FillOK, RoomForRead
<1>2. QED
  BY Inductive, <1>1, PTL

-----------------------------------------------------------------------------
(* The bytes that wait in the ring *)

LEMMA DivMod ==
  ASSUME NEW a \in Nat
  PROVE  /\ a \div BufSize \in Nat /\ a % BufSize \in 0 .. BufSize - 1
         /\ a = BufSize * (a \div BufSize) + (a % BufSize)
BY BufSizeAssumption

\* Bytes that lie less than a ring apart have slots of their own.
LEMMA SlotsDiffer ==
  ASSUME NEW a \in Nat, NEW b \in Nat, a < b, b - a < BufSize
  PROVE  a % BufSize # b % BufSize
<1>. SUFFICES ASSUME a % BufSize = b % BufSize
              PROVE  FALSE
  OBVIOUS
<1> DEFINE d == (b \div BufSize) - (a \div BufSize)
<1>1. BufSize \in Nat /\ BufSize > 0
  BY BufSizeAssumption
<1>2. /\ a \div BufSize \in Nat /\ a = BufSize * (a \div BufSize) + (a % BufSize)
      /\ b \div BufSize \in Nat /\ b = BufSize * (b \div BufSize) + (b % BufSize)
      /\ a % BufSize \in Int
  BY DivMod
<1>3. d \in Int /\ BufSize * d = b - a
  BY <1>1, <1>2
<1> HIDE DEF d
<1>4. CASE d >= 1
  <2>1. BufSize * d >= BufSize
    BY <1>1, <1>3, <1>4
  <2>. QED
    BY <1>1, <1>3, <2>1
<1>5. CASE d <= 0
  <2>1. BufSize * d <= 0
    BY <1>1, <1>3, <1>5
  <2>. QED
    BY <1>1, <1>3, <2>1
<1>. QED
  BY <1>3, <1>4, <1>5

\* Up to the end of the array the slots follow each other.
LEMMA SlotsFollow ==
  ASSUME NEW a \in Nat, NEW j \in Nat, (a % BufSize) + j < BufSize
  PROVE  (a + j) % BufSize = (a % BufSize) + j
<1> DEFINE q == a \div BufSize
           p == (a + j) \div BufSize
           r == (a % BufSize) + j
           s == (a + j) % BufSize
           d == q - p
<1>. SUFFICES r = s
  OBVIOUS
<1>1. BufSize \in Nat /\ BufSize > 0
  BY BufSizeAssumption
<1>2. /\ q \in Int /\ p \in Int /\ r \in 0 .. BufSize - 1 /\ s \in 0 .. BufSize - 1
      /\ BufSize * q + r = BufSize * p + s
  <2>1. /\ q \in Nat /\ a % BufSize \in 0 .. BufSize - 1 /\ a = BufSize * q + (a % BufSize)
    BY DivMod
  <2>2. a + j \in Nat /\ r = (a % BufSize) + j
    OBVIOUS
  <2>3. /\ p \in Nat /\ s \in 0 .. BufSize - 1 /\ a + j = BufSize * p + s
    BY <2>2, DivMod
  <2>4. r \in 0 .. BufSize - 1
    BY <1>1, <2>1
  <2> DEFINE x == BufSize * q
             y == BufSize * p
  <2>5. x \in Int /\ y \in Int
    BY <1>1, <2>1, <2>3
  <2>. QED
    BY <1>1, <2>1, <2>3, <2>4, <2>5
<1> HIDE DEF q, p, r, s
<1>3. d \in Int /\ BufSize * d = s - r
  BY <1>1, <1>2
<1> HIDE DEF d
<1>4. CASE d >= 1
  <2>1. BufSize * d >= BufSize
    BY <1>1, <1>3, <1>4
  <2>. QED
    BY <1>1, <1>2, <1>3, <2>1
<1>5. CASE d <= -1
  <2>1. BufSize * d <= -BufSize
    BY <1>1, <1>3, <1>5
  <2>. QED
    BY <1>1, <1>2, <1>3, <2>1
<1>6. CASE d = 0
  <2>1. BufSize * d = 0
    BY <1>1, <1>6
  <2>. QED
    BY <1>2, <1>3, <2>1
<1>. QED
  BY <1>3, <1>4, <1>5, <1>6

\* Where the URI of the request that is being parsed ends, unless its line was cut behind
\* it: before pos or at least before the parser, and less than a ring before the last byte.
\* The parser of the headers saves no state behind it either.
UriOK ==
  /\ pc \in {"body", "serve"} => rstate = 0
  /\ ~lineCut =>
       /\ pc \in {"idle", "read"} => rstate <= 3
       /\ pc = "line" /\ state >= 4 =>
            \E p \in Nat : pos <= p /\ p < pi /\ uriEnd = p % BufSize
       /\ pc \in {"body", "serve"} =>
            \E p \in Nat : p < pos /\ last - p < BufSize /\ uriEnd = p % BufSize

\* The parser of the request line leaves sw_after_slash_in_uri and the states before it
\* only at the end of the URI, and does not come back.
LEMMA LineRowsUri ==
  \A row \in LineRows : /\ row[1] \in 0..14 /\ row[3] \in 0..15
                        /\ row[1] <= 2 => row[3] <= 3
                        /\ row[1] = 3 => row[3] \in {3, 4}
  BY DEF LineRows, LineDone

LEMMA StepUri == IInv /\ UriOK /\ [Next]_vars => UriOK'
<1>. SUFFICES ASSUME IInv, UriOK, [Next]_vars
              PROVE  UriOK'
  OBVIOUS
<1>1. /\ last \in Nat /\ pos \in Nat /\ pi \in Nat /\ BufSize \in Nat
      /\ rstate \in 0..14 /\ state \in 0..14
  BY StreamsAssumption, BufSizeAssumption DEF IInv, TypeOK
<1>2. ASSUME NEW n \in 1 .. Len(stream.bytes), Deliver(n)
      PROVE  UriOK'
  BY <1>2 DEF Deliver, UriOK
<1>3. CASE Finish \/ UNCHANGED vars
  BY <1>3 DEF Finish, vars, UriOK
<1>4. CASE Wake \/ ReadZero \/ ReadAgain \/ ParseError
  BY <1>4 DEF Wake, ReadZero, ReadAgain, ParseError, UriOK
<1>5. CASE Read
  <2>1. pc = "read" /\ pc' = "line" /\ state' = rstate /\ lineCut' = lineCut
    BY <1>5 DEF Read
  <2>. QED
    BY <1>1, <2>1 DEF UriOK
<1>6. CASE LineByte
  <2>1. PICK row \in LineRows :
          /\ row[1] = state
          /\ uriEnd' = IF state = 3 /\ row[3] = 4 THEN Slot ELSE uriEnd
          /\ IF row[3] = LineDone
               THEN pc' = "body" /\ pos' = pi + 1 /\ rstate' = 0
               ELSE state' = row[3] /\ UNCHANGED <<pc, pos, rstate>>
    BY <1>6 DEF LineByte, Matches, DonePos
  <2>2. /\ pc = "line" /\ pi < last /\ pos <= pi /\ Fill <= BufSize - 1
        /\ pi' = pi + 1 /\ last' = last /\ lineCut' = lineCut
    BY <1>6 DEF LineByte, IInv, FillOK
  <2>3. ASSUME ~lineCut, row[3] >= 4
        PROVE  \E p \in Nat : pos <= p /\ p <= pi /\ uriEnd' = p % BufSize
    <3>1. CASE state = 3
      BY <1>1, <2>1, <2>2, <2>3, <3>1, LineRowsUri DEF Slot
    <3>2. CASE state # 3
      <4>1. state >= 4 /\ uriEnd' = uriEnd
        BY <1>1, <2>1, <2>3, <3>2, LineRowsUri
      <4>. QED
        BY <1>1, <2>2, <2>3, <4>1 DEF UriOK
    <3>. QED
      BY <3>1, <3>2
  <2>4. CASE row[3] = LineDone
    <3>1. pc' = "body" /\ pos' = pi + 1 /\ rstate' = 0
      BY <2>1, <2>4
    <3>2. ASSUME ~lineCut
          PROVE  \E p \in Nat : p < pos' /\ last - p < BufSize /\ uriEnd' = p % BufSize
      <4>1. PICK p \in Nat : pos <= p /\ p <= pi /\ uriEnd' = p % BufSize
        BY <2>3, <2>4, <3>2 DEF LineDone
      <4>2. p < pos' /\ last - p < BufSize
        BY ONLY <1>1, <2>2, <3>1, <4>1 DEF Fill
      <4>. QED
        BY <4>1, <4>2
    <3>. QED
      BY ONLY <2>2, <3>1, <3>2 DEF UriOK
  <2>5. CASE row[3] # LineDone
    <3>1. pc' = "line" /\ pos' = pos /\ state' = row[3]
      BY <2>1, <2>2, <2>5
    <3>2. ASSUME ~lineCut, state' >= 4
          PROVE  \E p \in Nat : pos' <= p /\ p < pi' /\ uriEnd' = p % BufSize
      <4>1. PICK p \in Nat : pos <= p /\ p <= pi /\ uriEnd' = p % BufSize
        BY <2>3, <3>1, <3>2
      <4>. QED
        BY ONLY <1>1, <2>2, <3>1, <4>1
    <3>. QED
      BY ONLY <2>2, <3>1, <3>2 DEF UriOK
  <2>. QED
    BY <2>4, <2>5
<1>7. CASE BodyByte
  <2>1. /\ pc = "body" /\ pc' \in {"body", "serve"} /\ rstate' \in {0, rstate} /\ pos <= pi
        /\ pos' \in {pos, pi + 1} /\ UNCHANGED <<last, uriEnd, lineCut>>
    BY <1>7 DEF BodyByte, DonePos, IInv, FillOK
  <2>2. pos' >= pos
    BY <1>1, <2>1
  <2>. QED
    BY <1>1, <2>1, <2>2 DEF UriOK
<1>8. CASE ParseAgain
  <2>1. pc' = "read" /\ rstate' = state /\ lineCut' = (state >= 4)
    BY <1>8 DEF ParseAgain
  <2>2. ~lineCut' => ~(state >= 4)
    BY <2>1
  <2>3. ~lineCut' => rstate' <= 3
    BY <1>1, <2>1, <2>2
  <2>. QED
    BY <2>1, <2>3 DEF UriOK
<1>9. CASE ServeError \/ ServeStatic
  <2>1. pc = "serve" /\ pc' \in {"read", "closed"} /\ rstate' = rstate
    BY <1>9 DEF ServeError, ServeStatic, AfterStatic
  <2>. QED
    BY <1>1, <2>1 DEF UriOK
<1>. QED
  BY <1>2, <1>3, <1>4, <1>5, <1>6, <1>7, <1>8, <1>9 DEF Next, Server, Client

\* A byte that has not been parsed is the one that was sent, or the one that was lost.
Intact(i, b) == b = stream.bytes[i + 1] \/ (lineCut /\ b = "nul")

LEMMA StepUnread == IInv /\ UriOK /\ UnreadIntact /\ [Next]_vars => UnreadIntact'
<1>. SUFFICES ASSUME IInv, UriOK, UnreadIntact, [Next]_vars
              PROVE  UnreadIntact'
  OBVIOUS
<1>1. /\ stream \in Streams /\ stream.bytes \in Seq(Bytes) /\ Len(stream.bytes) \in Nat
      /\ sent \in Nat /\ last \in Nat /\ pos \in Nat /\ pi \in Nat /\ pos <= last
      /\ BufSize \in Nat /\ BufSize > 0 /\ buf \in [Slots -> Bytes]
  BY StreamsAssumption, BufSizeAssumption DEF IInv, TypeOK
<1>2. \A i \in pos .. last - 1 : Intact(i, buf[i % BufSize])
  BY DEF UnreadIntact, Intact
<1>3. ASSUME UNCHANGED <<stream, buf, last, lineCut>>, pos' \in Nat, pos' >= pos
      PROVE  UnreadIntact'
  BY <1>1, <1>3 DEF UnreadIntact
\* The NUL of parse_uri.
<1>4. ASSUME UNCHANGED <<stream, pos, last, lineCut>>, buf' = Terminated, pc = "serve"
      PROVE  UnreadIntact'
  <2>. SUFFICES ASSUME NEW i \in pos .. last - 1
                PROVE  Intact(i, buf'[i % BufSize])
    BY <1>4 DEF UnreadIntact, Intact
  <2>1. i \in Nat /\ i % BufSize \in Slots
    BY <1>1, SlotType
  <2>2. CASE lineCut
    <3>1. buf'[i % BufSize] \in {buf[i % BufSize], "nul"}
      BY <1>1, <1>4, <2>1 DEF Terminated
    <3>. QED
      BY <1>2, <2>2, <3>1 DEF Intact
  <2>3. CASE ~lineCut
    <3>1. PICK p \in Nat : p < pos /\ last - p < BufSize /\ uriEnd = p % BufSize
      BY <1>4, <2>3 DEF UriOK
    <3>2. p < i /\ i - p < BufSize
      BY ONLY <1>1, <3>1
    <3>3. uriEnd # i % BufSize
      BY <2>1, <3>1, <3>2, SlotsDiffer
    <3>4. buf'[i % BufSize] = buf[i % BufSize]
      BY <1>1, <1>4, <2>1, <3>3 DEF Terminated
    <3>. QED
      BY <1>2, <3>4
  <2>. QED
    BY <2>2, <2>3
<1>5. ASSUME NEW n \in 1 .. Len(stream.bytes), Deliver(n)
      PROVE  UnreadIntact'
  BY <1>1, <1>3, <1>5 DEF Deliver
<1>6. CASE Finish \/ Wake \/ ReadZero \/ ReadAgain \/ ParseError \/ UNCHANGED vars
  BY <1>1, <1>3, <1>6 DEF Finish, Wake, ReadZero, ReadAgain, ParseError, client, vars
<1>7. CASE LineByte
  <2>1. UNCHANGED <<stream, buf, last, lineCut>> /\ (pos' = pos \/ pos' = pi + 1) /\ pc = "line"
    BY <1>7 DEF LineByte, client, DonePos
  <2>2. pos <= pi
    BY <2>1 DEF IInv, FillOK
  <2>. QED
    BY <1>1, <1>3, <2>1, <2>2
<1>8. CASE BodyByte
  <2>1. UNCHANGED <<stream, buf, last, lineCut>> /\ (pos' = pos \/ pos' = pi + 1) /\ pc = "body"
    BY <1>8 DEF BodyByte, client, DonePos
  <2>2. pos <= pi
    BY <2>1 DEF IInv, FillOK
  <2>. QED
    BY <1>1, <1>3, <2>1, <2>2
<1>9. CASE ParseAgain
  <2>1. pos' = last /\ last' = last
    BY <1>9 DEF ParseAgain
  <2>. QED
    BY <1>1, <2>1 DEF UnreadIntact
<1>10. CASE ServeError \/ ServeStatic
  <2>1. UNCHANGED <<stream, pos, last, lineCut>> /\ buf' = Terminated /\ pc = "serve"
    BY <1>10 DEF ServeError, ServeStatic, client
  <2>. QED
    BY <1>4, <2>1
<1>11. CASE Read
  <2> DEFINE n   == Smaller(Remain, sent - last)
             off == last % BufSize
  <2>1. /\ last' = last + n /\ UNCHANGED <<stream, pos, lineCut>>
        /\ buf' = [s \in Slots |-> IF s \in off .. off + n - 1
                                    THEN stream.bytes[last + 1 + s - off] ELSE buf[s]]
    BY <1>11 DEF Read, client
  <2>0. n \in Nat /\ n <= Remain
    BY <1>1, <1>11, RemainBounds DEF Read, Smaller, IInv
  <2>2. n \in Nat /\ n <= BufSize - Fill - 1 /\ n <= BufSize - off /\ off \in Slots
    BY <1>1, <2>0, RemainBounds, SlotType DEF IInv, Fill
  <2>3. off \in Nat /\ off < BufSize
    BY <1>1, <2>2 DEF Slots
  <2>4. ASSUME NEW i \in pos .. last - 1
        PROVE  Intact(i, buf'[i % BufSize])
    <3>1. i % BufSize \in Slots
      BY <1>1, SlotType
    <3>2. ASSUME i % BufSize \in off .. off + n - 1
          PROVE  FALSE
      <4> DEFINE j == (i % BufSize) - off
      <4>1. j \in Nat /\ j < n
        BY <2>2, <2>3, <3>1, <3>2 DEF Slots
      <4>2. off + j < BufSize
        BY <1>1, <2>2, <2>3, <4>1
      <4>3. (last + j) % BufSize = off + j
        BY <1>1, <4>1, <4>2, SlotsFollow
      <4>6. i % BufSize = off + j
        BY <1>1, <2>3, <3>1 DEF Slots
      <4>. HIDE DEF j
      <4>0. i \in Nat /\ last + j \in Nat /\ pos <= i /\ i < last
        BY <1>1, <4>1
      <4>4. i < last + j /\ last + j - i < BufSize
        BY <1>1, <2>2, <4>0, <4>1 DEF Fill
      <4>5. i % BufSize # (last + j) % BufSize
        <5> DEFINE m == last + j
        <5>1. m \in Nat /\ i \in Nat /\ i < m /\ m - i < BufSize
          BY <1>1, <4>0, <4>1, <4>4
        <5>. HIDE DEF m
        <5>2. i % BufSize # m % BufSize
          BY <5>1, SlotsDiffer
        <5>. QED
          BY <5>2 DEF m
      <4>. QED
        BY <4>3, <4>5, <4>6
    <3>3. buf'[i % BufSize] = buf[i % BufSize]
      BY <2>1, <3>1, <3>2
    <3>. QED
      BY <1>2, <3>3
  <2>5. ASSUME NEW j \in 0 .. n - 1
        PROVE  buf'[(last + j) % BufSize] = stream.bytes[last + j + 1]
    <3>1. j \in Nat /\ off + j < BufSize
      BY <1>1, <2>2, <2>3
    <3>2. (last + j) % BufSize = off + j
      BY <1>1, <3>1, SlotsFollow
    <3>3. off + j \in Slots /\ off + j \in off .. off + n - 1
      BY <1>1, <2>2, <2>3, <3>1 DEF Slots
    <3>4. buf'[off + j] = stream.bytes[last + 1 + (off + j) - off]
      BY <2>1, <3>3
    <3>5. last + 1 + (off + j) - off = last + j + 1
      BY <1>1, <2>3, <3>1
    <3>. QED
      BY <3>2, <3>4, <3>5
  <2> HIDE DEF n, off
  <2>6. ASSUME NEW i \in pos .. last + n - 1
        PROVE  Intact(i, buf'[i % BufSize])
    <3>1. CASE i < last
      BY <1>1, <2>4, <3>1
    <3>2. CASE i >= last
      <4> DEFINE j == i - last
      <4>1. j \in 0 .. n - 1 /\ last + j = i
        BY <1>1, <2>2, <3>2
      <4>. QED
        BY <2>5, <4>1 DEF Intact
    <3>. QED
      BY <1>1, <2>2, <3>1, <3>2
  <2>7. pos' = pos /\ last' = last + n /\ stream' = stream /\ lineCut' = lineCut
    BY <2>1
  <2>. SUFFICES ASSUME NEW i \in pos' .. last' - 1
                PROVE  Intact(i, buf'[i % BufSize])
    BY <2>7 DEF UnreadIntact, Intact
  <2>8. i \in pos .. last + n - 1
    BY <1>1, <2>2, <2>7
  <2>. QED
    BY <2>6, <2>8
<1>. QED
  BY <1>5, <1>6, <1>7, <1>8, <1>9, <1>10, <1>11 DEF Next, Server, Client

LEMMA UriInductive == Spec => []UriOK
<1>1. Init => UriOK
  BY DEF Init, UriOK
<1>. QED
  BY <1>1, StepUri, Inductive, PTL DEF Spec

\* A byte of the ring that has been read and not been parsed is never overwritten: not by
\* later reads, and not by the NUL of parse_uri unless the request line was cut behind its
\* URI, for any size of the ring and any segmentation.
THEOREM UnreadStaysIntact == Spec => []UnreadIntact
<1>1. Init => UnreadIntact
  BY DEF Init, UnreadIntact
<1>. QED
  BY <1>1, StepUnread, Inductive, UriInductive, PTL DEF Spec

-----------------------------------------------------------------------------
(* Responses and requests *)

\* Where the last request that was answered ends.
Base == IF answers = <<>> THEN 0 ELSE EndOf(Len(answers))

\* What the parser of the headers has seen of a blank line, and that a header came
\* before it.
SeenOK ==
  pc = "body" =>
    /\ state = 6 => pi >= 1 /\ stream.bytes[pi] = "lf"
    /\ state = 7 => pi >= 2 /\ stream.bytes[pi - 1] = "lf" /\ stream.bytes[pi] = "cr"
    /\ state \in 3 .. 7 => \E b \in pos + 1 .. pi : stream.bytes[b] = ":"

EarnedOK ==
  /\ Len(answers) <= Len(stream.reqs) /\ Base <= pos
  /\ pc = "serve" => Len(answers) < Len(stream.reqs) /\ EndOf(Len(answers) + 1) <= pos

EInv == SeenOK /\ EarnedOK

LEMMA EndsAreNumbers ==
  ASSUME stream \in Streams
  PROVE  \A k \in DOMAIN stream.reqs : EndOf(k) \in Nat
<1>. SUFFICES ASSUME NEW k \in DOMAIN stream.reqs
              PROVE  EndOf(k) \in Nat
  OBVIOUS
<1>1. stream.reqs \in Seq(Request)
  BY StreamsAssumption
<1>2. stream.reqs[k] \in Request
  BY <1>1
<1>. QED
  BY <1>2 DEF EndOf, Request

\* The byte a parser looks at is the one the client sent, unless it is a NUL.
LEMMA ByteIsSent ==
  ASSUME IInv, UnreadIntact, pc \in {"line", "body"}, pi < last
  PROVE  Byte \in {stream.bytes[pi + 1], "nul"} /\ pi \in Nat /\ pi + 1 \in 1 .. Len(stream.bytes)
<1>1. pos <= pi /\ pi \in Nat /\ pos \in Nat /\ last \in Nat
  BY StreamsAssumption DEF IInv, FillOK, TypeOK
<1>2. pi \in pos .. last - 1
  BY <1>1
<1>3. pi + 1 \in 1 .. Len(stream.bytes)
  <2>1. stream \in Streams /\ Len(stream.bytes) \in Nat
    BY StreamsAssumption DEF IInv, TypeOK
  <2>. QED
    BY <1>1, <2>1 DEF IInv, TypeOK
<1>. QED
  BY <1>1, <1>2, <1>3 DEF UnreadIntact, Byte, Slot

\* An answer more earns the request behind it.
LEMMA EarnedAnswer ==
  ASSUME IInv, EarnedOK, pc = "serve", NEW a \in Answer, answers' = Append(answers, a),
         UNCHANGED <<stream, pos>>, pc' # "serve"
  PROVE  EarnedOK'
<1>1. answers \in Seq(Answer) /\ Len(answers) \in Nat
  BY DEF IInv, TypeOK
<1>2. Len(answers') = Len(answers) + 1 /\ answers' # <<>>
  BY <1>1
<1>3. stream.reqs \in Seq(Request) /\ Len(stream.reqs) \in Nat
  BY StreamsAssumption DEF IInv, TypeOK
<1>. QED
  BY <1>1, <1>2, <1>3 DEF EarnedOK, Base, EndOf

LEMMA InitEarned == Init => EInv
BY StreamsAssumption DEF Init, EInv, SeenOK, EarnedOK, Base

LEMMA StepEarned == IInv /\ UnreadIntact /\ EInv /\ [Next]_vars => EInv'
<1>. SUFFICES ASSUME IInv, UnreadIntact, EInv, [Next]_vars
              PROVE  EInv'
  OBVIOUS
<1>1. /\ stream \in Streams /\ Len(stream.bytes) \in Nat /\ Len(stream.reqs) \in Nat
      /\ stream.reqs \in Seq(Request) /\ answers \in Seq(Answer) /\ Len(answers) \in Nat
      /\ last \in Nat /\ pos \in Nat /\ pi \in Nat /\ pos <= last
  BY StreamsAssumption DEF IInv, TypeOK
<1>2. \A k \in DOMAIN stream.reqs : EndOf(k) \in Nat
  BY <1>1, EndsAreNumbers
<1>3. Base \in Nat
  BY <1>1, <1>2 DEF EInv, EarnedOK, Base
\* Steps that leave the headers alone.
<1>4. ASSUME UNCHANGED <<stream, answers>>, pos' \in Nat, pos' >= pos, pc' \notin {"body", "serve"}
      PROVE  EInv'
  <2>1. Base' = Base
    BY <1>4 DEF Base, EndOf
  <2>2. SeenOK'
    BY <1>4 DEF SeenOK
  <2>3. EarnedOK'
    BY <1>1, <1>3, <1>4, <2>1 DEF EInv, EarnedOK
  <2>. QED
    BY <2>2, <2>3 DEF EInv
<1>5. ASSUME UNCHANGED <<stream, answers, pos, pc, pi, state>>
      PROVE  EInv'
  BY <1>1, <1>5 DEF EInv, SeenOK, EarnedOK, Base, EndOf
<1>6. ASSUME NEW n \in 1 .. Len(stream.bytes), Deliver(n)
      PROVE  EInv'
  BY <1>5, <1>6 DEF Deliver
<1>7. CASE Finish \/ UNCHANGED vars
  BY <1>5, <1>7 DEF Finish, vars, client
<1>8. CASE Wake \/ Read \/ ReadZero \/ ReadAgain \/ ParseError
  BY <1>1, <1>4, <1>8 DEF Wake, Read, ReadZero, ReadAgain, ParseError, client
<1>9. CASE ParseAgain
  <2>1. UNCHANGED <<stream, answers>> /\ pos' = pi /\ pc' = "read"
    BY <1>9 DEF ParseAgain, client
  <2>2. pos <= pi
    BY <1>9 DEF ParseAgain, IInv, FillOK
  <2>. QED
    BY <1>1, <1>4, <2>1, <2>2
<1>10. CASE LineByte
  <2>1. /\ UNCHANGED <<stream, answers>> /\ pi' = pi + 1 /\ pos <= pi
        /\ \/ pc' = "line" /\ pos' = pos
           \/ pc' = "body" /\ pos' = pi + 1 /\ state' = 0
    BY <1>10 DEF LineByte, client, DonePos, IInv, FillOK
  <2>2. CASE pc' = "line"
    BY <1>1, <1>4, <2>1, <2>2
  <2>3. CASE pc' = "body"
    BY <1>1, <1>3, <2>1, <2>3 DEF EInv, SeenOK, EarnedOK, Base, EndOf
  <2>. QED
    BY <2>1, <2>2, <2>3
<1>11. CASE BodyByte
  <2>1. /\ UNCHANGED <<stream, answers>> /\ pi' = pi + 1 /\ pc = "body" /\ pi < last /\ pos <= pi
    BY <1>11 DEF BodyByte, client, IInv, FillOK
  <2>2. PICK row \in BodyRows :
          /\ row[1] = state /\ Byte \in row[2]
          /\ IF row[3] = BodyDone
               THEN pc' = "serve" /\ pos' = pi + 1
               ELSE state' = row[3] /\ UNCHANGED <<pc, pos>>
    BY <1>11 DEF BodyByte, Matches, DonePos
  <2>3. Byte \in {stream.bytes[pi + 1], "nul"} /\ pi + 1 \in 1 .. Len(stream.bytes)
    BY <2>1, ByteIsSent
  <2>4. /\ row[3] = 6 => row[2] = {"lf"}
        /\ row[3] = 7 => row[1] = 6 /\ row[2] = {"cr"}
        /\ row[3] = 8 => row[1] = 7 /\ row[2] = {"lf"}
        /\ row[3] \in 3 .. 7 => row[1] \in 3 .. 6 \/ row[2] = {":"}
        /\ row[3] \in 0 .. 8
    BY DEF BodyRows, BodyDone
  <2>5. CASE row[3] # BodyDone
    <3>1. state' = row[3] /\ pc' = "body" /\ pos' = pos
      BY <2>1, <2>2, <2>5
    <3>2. state' = 6 => stream.bytes[pi + 1] = "lf"
      BY <2>2, <2>3, <2>4, <3>1
    <3>3. state' = 7 => pi >= 1 /\ stream.bytes[pi] = "lf" /\ stream.bytes[pi + 1] = "cr"
      BY <2>1, <2>2, <2>3, <2>4, <3>1 DEF EInv, SeenOK
    <3>4. state' \in 3 .. 7 => \E b \in pos + 1 .. pi + 1 : stream.bytes[b] = ":"
      <4>1. CASE row[1] \in 3 .. 6
        BY <1>1, <2>1, <2>2, <4>1 DEF EInv, SeenOK
      <4>2. CASE row[2] = {":"}
        BY <1>1, <2>1, <2>2, <2>3, <4>2
      <4>. QED
        BY <2>4, <3>1, <4>1, <4>2
    <3>5. SeenOK'
      BY <1>1, <2>1, <3>1, <3>2, <3>3, <3>4 DEF SeenOK
    <3>6. EarnedOK'
      BY <2>1, <3>1 DEF EInv, EarnedOK, Base, EndOf
    <3>. QED
      BY <3>5, <3>6 DEF EInv
  <2>6. CASE row[3] = BodyDone
    <3> DEFINE n == pi + 1
    <3>1. pc' = "serve" /\ pos' = n /\ state = 7 /\ stream.bytes[n] = "lf"
      BY <2>2, <2>3, <2>4, <2>6 DEF BodyDone
    <3>2. n \in 3 .. Len(stream.bytes) /\ stream.bytes[n - 2] = "lf" /\ stream.bytes[n - 1] = "cr"
      BY <1>1, <2>1, <2>3, <3>1 DEF EInv, SeenOK
    <3>3. PICK b \in pos + 1 .. pi : stream.bytes[b] = ":"
      BY <2>1, <3>1 DEF EInv, SeenOK
    <3>4. PICK k \in DOMAIN stream.reqs :
            EndOf(k) <= n /\ \A i \in EndOf(k) + 1 .. n : stream.bytes[i] \in {"cr", "lf"}
      <4>1. \A i \in 3 .. Len(stream.bytes) :
              stream.bytes[i - 2] = "lf" /\ stream.bytes[i - 1] = "cr" /\ stream.bytes[i] = "lf" =>
                \E k \in DOMAIN stream.reqs :
                  stream.reqs[k].end <= i
                  /\ \A j \in stream.reqs[k].end + 1 .. i : stream.bytes[j] \in {"cr", "lf"}
        BY <1>1, MarksAssumption
      <4>. HIDE DEF n
      <4>. QED
        BY ONLY <3>1, <3>2, <4>1 DEF EndOf
    <3>5. EndOf(k) \in Nat /\ EndOf(k) > Base
      <4>1. EndOf(k) \in Nat /\ Base <= pos /\ pos \in Nat /\ pi \in Nat /\ n = pi + 1
        BY <1>1, <1>2 DEF EInv, EarnedOK
      <4>2. b \notin EndOf(k) + 1 .. n
        BY ONLY <3>3, <3>4
      <4>. HIDE DEF n
      <4>. QED
        BY ONLY <1>3, <3>3, <4>1, <4>2
    <3>6. k \in 1 .. Len(stream.reqs) /\ k > Len(answers)
      <4>1. k \in 1 .. Len(stream.reqs) /\ k \in Nat /\ Len(answers) <= Len(stream.reqs)
        BY <1>1 DEF EInv, EarnedOK
      <4>2. ASSUME k <= Len(answers)
            PROVE  FALSE
        <5>1. Len(answers) \in DOMAIN stream.reqs /\ answers # <<>>
          BY <1>1, <4>1, <4>2
        <5>2. Base = EndOf(Len(answers))
          BY <5>1 DEF Base
        <5>3. k < Len(answers) => EndOf(k) < EndOf(Len(answers))
          BY <1>1, <5>1, MarksAssumption DEF EndOf
        <5>. QED
          BY <1>1, <1>3, <3>5, <4>1, <4>2, <5>2, <5>3
      <4>. QED
        BY <1>1, <4>1, <4>2
    <3>7. EndOf(Len(answers) + 1) <= EndOf(k)
      BY <1>1, <1>2, <3>6, MarksAssumption DEF EndOf
    <3>8. EndOf(Len(answers) + 1) \in Nat
      BY <1>1, <1>2, <3>6
    <3>9. Base' = Base
      BY <2>1 DEF Base, EndOf
    <3>10. EndOf(Len(answers) + 1)' = EndOf(Len(answers) + 1)
      BY <2>1 DEF EndOf
    <3>11. EndOf(Len(answers) + 1) <= n /\ Base <= n /\ Len(answers) < Len(stream.reqs)
      <4>1. n \in Nat /\ Len(answers) \in Nat /\ Len(stream.reqs) \in Nat
        BY <1>1
      <4>. HIDE DEF n
      <4>. QED
        BY ONLY <1>3, <3>4, <3>5, <3>6, <3>7, <3>8, <4>1
    <3>12. EarnedOK'
      BY <2>1, <3>1, <3>9, <3>10, <3>11 DEF EInv, EarnedOK
    <3>. QED
      BY <3>1, <3>12 DEF EInv, SeenOK
  <2>. QED
    BY <2>5, <2>6
<1>12. CASE ServeError
  <2>1. PICK pad \in Padding :
          answers' = Append(answers, [status |-> Lookup(pad), connection |-> "close"])
    BY <1>12 DEF ServeError
  <2>2. [status |-> Lookup(pad), connection |-> "close"] \in Answer
    BY LookupType DEF Answer
  <2>3. pc = "serve" /\ pc' = "read" /\ UNCHANGED <<stream, pos>>
    BY <1>12 DEF ServeError, client
  <2>. QED
    BY <2>1, <2>2, <2>3, EarnedAnswer DEF EInv, SeenOK
<1>13. CASE ServeStatic
  <2>0. PICK pad \in Padding :
          /\ answers' = Append(answers,
               [status     |-> IF AsksUnmodified(pad) THEN 304 ELSE 200,
                connection |-> IF AsksKeepAlive(pad) THEN "keep-alive" ELSE "none"])
          /\ pc' = AfterStatic(pad)
    BY <1>13 DEF ServeStatic
  <2> DEFINE a == [status     |-> IF AsksUnmodified(pad) THEN 304 ELSE 200,
                   connection |-> IF AsksKeepAlive(pad) THEN "keep-alive" ELSE "none"]
  <2>1. answers' = Append(answers, a)
    BY <2>0
  <2>2. a \in Answer
    BY DEF Answer
  <2>3. pc = "serve" /\ pc' \in {"read", "closed"} /\ UNCHANGED <<stream, pos>>
    BY <1>13, <2>0 DEF ServeStatic, AfterStatic, client
  <2> HIDE DEF a
  <2>. QED
    BY <2>1, <2>2, <2>3, EarnedAnswer DEF EInv, SeenOK
<1>. QED
  BY <1>6, <1>7, <1>8, <1>9, <1>10, <1>11, <1>12, <1>13 DEF Next, Server, Client

LEMMA EarnedInductive == Spec => []EInv
BY InitEarned, StepEarned, Inductive, UnreadStaysIntact, PTL DEF Spec

\* The k-th response is written when the k-th request has been parsed, for any stream whose
\* blank lines end its requests, any size of the ring and any segmentation: the NUL bytes of
\* parse_uri in the ring cannot make up a blank line.
THEOREM ResponsesAreEarned == Spec => []AnswersAreEarned
<1>1. IInv /\ EInv => AnswersAreEarned
  <2>. SUFFICES ASSUME IInv, EInv, NEW k \in DOMAIN answers
                PROVE  k \in DOMAIN stream.reqs /\ pos >= EndOf(k)
    BY DEF AnswersAreEarned
  <2>1. /\ stream \in Streams /\ Len(stream.reqs) \in Nat /\ stream.reqs \in Seq(Request)
        /\ answers \in Seq(Answer) /\ Len(answers) \in Nat /\ pos \in Nat
    BY StreamsAssumption DEF IInv, TypeOK
  <2>2. k \in 1 .. Len(answers) /\ k \in DOMAIN stream.reqs /\ Len(answers) \in DOMAIN stream.reqs
    BY <2>1 DEF EInv, EarnedOK
  <2>3. EndOf(k) \in Nat /\ EndOf(Len(answers)) \in Nat
    BY <2>1, <2>2, EndsAreNumbers
  <2>4. EndOf(k) <= EndOf(Len(answers))
    BY <2>1, <2>2, <2>3, MarksAssumption DEF EndOf
  <2>5. EndOf(Len(answers)) <= pos
    BY <2>1, <2>2 DEF EInv, EarnedOK, Base
  <2>. QED
    BY <2>1, <2>2, <2>3, <2>4, <2>5
<1>. QED
  BY <1>1, EarnedInductive, Inductive, PTL
=============================================================================
