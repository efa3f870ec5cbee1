---------------------------- MODULE StreamParse ----------------------------
(***************************************************************************)
(* What a client's bytes mean: one pass of the parsers of                  *)
(* src/http_parse.c over a stream that lies in memory as a whole, from its *)
(* first byte, with no ring, no reads and nothing left over from earlier   *)
(* requests.  Connection is measured against it: Orderly names the streams *)
(* whose requests must be answered as Dialogue says, however the bytes are *)
(* cut in the request lines and between the requests.                      *)
(***************************************************************************)
EXTENDS Connection

Positions == [ks : Nat, ke : Nat, vs : Nat, ve : Nat]

\* Where the pass stands; at is "done" behind the blank line of a request.
Config == [at : {"line", "body", "done"}, state : 0..14, uriStart : Nat, uriEnd : Nat,
           field : Positions, hdrs : SUBSET Positions]

Start == [at |-> "line", state |-> 0, uriStart |-> 0, uriEnd |-> 0,
          field |-> [ks |-> 0, ke |-> 0, vs |-> 0, ve |-> 0], hdrs |-> {}]

\* Behind a request the next one begins, with no headers.
Fresh(c) == [c EXCEPT !.at = IF @ = "done" THEN "line" ELSE @,
                      !.hdrs = IF c.at = "done" THEN {} ELSE @]

RowsFor(c, byte) ==
  {row \in IF c.at = "line" THEN LineRows ELSE BodyRows : row[1] = c.state /\ byte \in row[2]}

\* The byte at position n takes the pass from c along a row of its parser.
Advance(c, n, row) ==
  IF c.at = "line"
    THEN [c EXCEPT !.at       = IF row[3] = LineDone THEN "body" ELSE "line",
                   !.state    = IF row[3] = LineDone THEN 0 ELSE row[3],
                   !.uriStart = IF c.state = 2 /\ row[3] = 3 THEN n ELSE @,
                   !.uriEnd   = IF c.state = 3 /\ row[3] = 4 THEN n ELSE @]
    ELSE [c EXCEPT !.at       = IF row[3] = BodyDone THEN "done" ELSE "body",
                   !.state    = IF row[3] = BodyDone THEN 0 ELSE row[3],
                   !.hdrs     = IF c.state = 5 THEN @ \cup {c.field} ELSE @,
                   !.field    = [ks |-> IF c.state \in {0, 6} /\ row[3] = 1 THEN n ELSE @.ks,
                                 ke |-> IF c.state = 1 /\ row[3] \in {2, 3} THEN n ELSE @.ke,
                                 vs |-> IF c.state = 3 /\ row[3] = 4 THEN n ELSE @.vs,
                                 ve |-> IF c.state = 4 /\ row[3] \in {5, 6} THEN n ELSE @.ve]]

\* run is the pass over s: run[n] is where it stands after n bytes.
IsPass(s, run) ==
  /\ run \in [0 .. Len(s.bytes) -> Config]
  /\ run[0] = Start
  /\ \A n \in 0 .. Len(s.bytes) - 1 :
       \E row \in RowsFor(Fresh(run[n]), s.bytes[n + 1]) :
         run[n + 1] = Advance(Fresh(run[n]), n, row)

-----------------------------------------------------------------------------
(* What a request asks for *)

Between(s, from, to) == [i \in 1 .. to - from |-> s.bytes[from + i]]

Named(s, h, name) == Spells(Between(s, h.ks, h.ke), <<name>>)

\* A header that may be one the server acts on.
Special(s, h) == s.bytes[h.ks + 1] \in {"K", "I"}

Found(s, c) == \E name \in ServedUris : Spells(Between(s, c.uriStart, c.uriEnd), name)
Denied(s, c) == Spells(Between(s, c.uriStart, c.uriEnd), <<"/", "X">>)
Keeps(s, c) == \E h \in c.hdrs : Named(s, h, "K") /\ Spells(Between(s, h.vs, h.ve), <<"V">>)
Same(s, c) == \E h \in c.hdrs : Named(s, h, "I") /\ Between(s, h.vs, h.vs + 2) = <<"D", "E">>

Expected(s, c) ==
  IF Found(s, c)
    THEN [status     |-> IF Same(s, c) THEN 304 ELSE 200,
          connection |-> IF Keeps(s, c) THEN "keep-alive" ELSE "none"]
    ELSE [status     |-> IF Denied(s, c) THEN 403 ELSE 404, connection |-> "close"]

\* s.reqs describes the requests of s: their places, and the answers they call for.
\* The requests that get an error page have no header the server acts on: those would
\* be applied to the next request (src/http.c:117).
Describes(s, run) ==
  /\ \A k \in DOMAIN s.reqs :
       LET q == s.reqs[k] IN
         /\ q.head \in 1 .. q.end - 1 /\ q.end \in 1 .. Len(s.bytes) /\ run[q.end].at = "done"
         /\ [status |-> q.status, connection |-> q.connection] = Expected(s, run[q.end])
         /\ q.status \in {403, 404} => \A h \in run[q.end].hdrs : ~Special(s, h)
  /\ \A j, k \in DOMAIN s.reqs : j < k => s.reqs[j].end < s.reqs[k].end
  /\ \A n \in 0 .. Len(s.bytes) :
       /\ run[n].at = "done" => \E k \in DOMAIN s.reqs : s.reqs[k].end = n
       /\ run[n].at = "body" => \E k \in DOMAIN s.reqs : n \in s.reqs[k].head .. s.reqs[k].end - 1

\* The ring holds any stream as a whole, no header is split, and each stream is a
\* sequence of requests that are described.  Without the first a URI may cross the end
\* of the ring (src/http.c:112), without the second a request may be dropped
\* (src/http.c:80).
Orderly ==
  /\ Segments = "line"
  /\ \A s \in Streams :
       /\ Len(s.bytes) < BufSize
       /\ \E run \in [0 .. Len(s.bytes) -> Config] : IsPass(s, run) /\ Describes(s, run)
=============================================================================
