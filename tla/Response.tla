------------------------------ MODULE Response ------------------------------
(***************************************************************************)
(* The answer to a request: do_request from stat() on, serve_static and    *)
(* do_error of src/http.c, over rio_writen of src/rio.c, the list of the   *)
(* request's headers (HeaderList), the mapping of the index page that      *)
(* src/gulan.c makes at its start, the files, which others replace and     *)
(* remove in the meantime, and a client that reads when it likes and keeps *)
(* what it was sent.  Connection has the parsing that comes before.        *)
(*                                                                         *)
(* Abstractions: lengths are counted in units, PageSize of them to a page; *)
(* a unit of a body is <<version, place>>, version 0 for bytes that belong *)
(* to no file.  Versions are numbered as files get them, none comes back,  *)
(* and the date of a later one may be earlier or the same.  A peer that is *)
(* gone is one that does not read: write fails either way.                 *)
(***************************************************************************)
EXTENDS HeaderList, Sequences

CONSTANTS
  Files, Index,   \* file names, and ./html/index.html
  MaxVersion,     \* bound: how many versions a file has
  Mtime, Size,    \* of each version of each file
  PageSize,
  HeaderLen,      \* length of a response header
  ErrorLen,       \* length of the body of an error page
  SendBuffer,     \* what a socket holds that its client has not read
  Faults          \* "open": open may fail for want of descriptors

ASSUME FilesAssumption == Index \in Files
ASSUME LengthsAssumption ==
  /\ PageSize \in Nat \ {0} /\ HeaderLen \in Nat \ {0} /\ ErrorLen \in Nat \ {0}
  /\ SendBuffer \in Nat \ {0} /\ MaxVersion \in Nat \ {0}
ASSUME VersionsAssumption ==
  Mtime \in [Files -> [1 .. MaxVersion -> Nat \ {0}]] /\ Size \in [Files -> [1 .. MaxVersion -> Nat \ {0}]]

VARIABLES
  \* the world
  file,       \* version, size, and whether it is there
  cache,      \* what the client has of a file: the Last-Modified it came with (0:
              \* nothing), the version that stat saw then, and whether it is that version
  room,       \* in the send buffer
  \* the server
  indexaddr,  \* the mapping of the index page, made at the start
  target,     \* filename
  value,      \* of each header: a date, KeepAlive or Other
  pc,         \* "idle", "parse", "stat", "handle", "header", "open", "body", "closed"
  filesize,   \* sbuf.st_size
  out,        \* lan_http_out_t; status 404 for either error page
  src,        \* the mapping the body is written from: version, size, mapped units
  off,        \* how far rio_writen is
  \* history
  sentHeader, sentBody,   \* what this response has put on the wire
  broken,                 \* a write has failed on this connection
  leftover,               \* headers of a request were left in the list
  seen,                   \* the version that stat saw for this response
  steady                  \* and that is still the file

world   == <<file, cache>>
server  == <<indexaddr, target, value, filesize, out, src>>
history == <<broken, leftover, seen, steady>>
wire    == <<sentHeader, sentBody>>
rvars   == <<world, room, server, list, pc, off, wire, history>>

Smaller(m, n) == IF m < n THEN m ELSE n
Pages(n) == PageSize * ((n + PageSize - 1) \div PageSize)

Versions  == 1 .. MaxVersion
Dates     == {Mtime[f][v] : f \in Files, v \in Versions}
Sizes     == {Size[f][v] : f \in Files, v \in Versions}
File(f, v) == [version |-> v, size |-> Size[f][v], there |-> TRUE]
KeepAlive == -1
Other     == 0
NoOut == [status |-> 0, keep_alive |-> FALSE, modified |-> TRUE, mtime |-> 0]
NoSrc == [version |-> 0, size |-> 0, mapped |-> 0]

TypeOK ==
  /\ ListTypeOK
  /\ file \in [Files -> [version : Versions, size : Sizes, there : BOOLEAN]]
  /\ cache \in [Files -> [date : {0} \cup Dates, version : {0} \cup Versions, exact : BOOLEAN]]
  /\ room \in 0 .. SendBuffer
  /\ indexaddr \in [version : Versions, size : Sizes]
  /\ target \in Files
  /\ value \in [Headers -> {KeepAlive, Other} \cup Dates]
  /\ pc \in {"idle", "parse", "stat", "handle", "header", "open", "body", "closed"}
  /\ filesize \in {0} \cup Sizes
  /\ out \in [status : {0, 200, 304, 404}, keep_alive : BOOLEAN, modified : BOOLEAN,
              mtime : {0} \cup Dates]
  /\ src \in [version : {0} \cup Versions, size : {0} \cup Sizes, mapped : Nat]
  /\ off \in Nat /\ sentHeader \in 0 .. HeaderLen
  /\ \A i \in DOMAIN sentBody : sentBody[i] \in ({0} \cup Versions) \X Nat
  /\ broken \in BOOLEAN /\ leftover \in BOOLEAN /\ seen \in {0} \cup Versions /\ steady \in BOOLEAN

\* The index page is mapped before the loop of main begins.
Init ==
  /\ file = [f \in Files |-> File(f, 1)]
  /\ cache = [f \in Files |-> [date |-> 0, version |-> 0, exact |-> FALSE]]
  /\ indexaddr = [version |-> file[Index].version, size |-> file[Index].size]
  /\ room = SendBuffer
  /\ target = Index /\ value = [h \in Headers |-> Other]
  /\ ListInit
  /\ pc = "idle" /\ filesize = 0 /\ out = NoOut /\ src = NoSrc /\ off = 0
  /\ sentHeader = 0 /\ sentBody = <<>>
  /\ broken = FALSE /\ leftover = FALSE /\ seen = 0 /\ steady = FALSE

-----------------------------------------------------------------------------
(* The world *)

\* The file that is being served is still the one that stat saw.
Opened == pc \notin {"handle", "header", "open"} \/ target = Index

\* A file is replaced by another one (rename).
Replace(f) ==
  /\ \E v \in Versions : v > file[f].version /\ file' = [file EXCEPT ![f] = File(f, v)]
  /\ steady' = (steady /\ (f # target \/ Opened))
  /\ UNCHANGED <<cache, room, server, list, pc, off, wire, broken, leftover, seen>>

Remove(f) ==
  /\ file[f].there
  /\ file' = [file EXCEPT ![f].there = FALSE]
  /\ steady' = (steady /\ (f # target \/ Opened))
  /\ UNCHANGED <<cache, room, server, list, pc, off, wire, broken, leftover, seen>>

ClientReads ==
  /\ room < SendBuffer
  /\ room' = SendBuffer
  /\ UNCHANGED <<world, server, list, pc, off, wire, history>>

\* The request line has been parsed; the client asks for f.
Ask(f) ==
  /\ pc = "idle"
  /\ target' = f /\ pc' = "parse"
  /\ out' = NoOut /\ filesize' = 0 /\ sentHeader' = 0 /\ sentBody' = <<>> /\ seen' = 0 /\ steady' = FALSE
  /\ UNCHANGED <<world, room, indexaddr, value, src, list, off, broken, leftover>>

\* A header has been parsed: keep-alive or, of a client that has the file, of when it
\* is (of one that has not, a header that does not matter).
AddHeader(h) ==
  /\ pc = "parse"
  /\ live # Headers /\ h = CHOOSE x \in Headers : x \notin live   \* malloc: which makes no difference
  /\ ListAdd(h)
  /\ \E v \in {KeepAlive, cache[target].date} :
       value' = [value EXCEPT ![h] = v]
  /\ UNCHANGED <<world, room, indexaddr, target, filesize, out, src, pc, off, wire, history>>

HeadersEnd ==
  /\ pc = "parse"
  /\ pc' = "stat"
  /\ UNCHANGED <<world, room, server, list, off, wire, history>>

\* The client hangs up or the server has closed; a client connects.  Headers that are
\* still in the list when the request is freed are never freed.
Reconnect ==
  /\ pc \in {"idle", "closed"}
  /\ ListReset
  /\ value' = [h \in Headers |-> Other]
  /\ room' = SendBuffer /\ out' = NoOut /\ filesize' = 0 /\ sentHeader' = 0 /\ sentBody' = <<>>
  /\ broken' = FALSE /\ leftover' = FALSE /\ seen' = 0 /\ steady' = FALSE
  /\ target' = Index /\ pc' = "idle"
  /\ UNCHANGED <<world, indexaddr, src, off>>

-----------------------------------------------------------------------------
(* stat and the headers *)

\* There is no such file, or it may not be read.  The headers stay in the list.
StatFails ==
  /\ pc = "stat" /\ ~file[target].there
  /\ out' = [NoOut EXCEPT !.status = 404]
  /\ leftover' = (leftover \/ live # {})
  /\ pc' = "header" /\ off' = 0
  /\ UNCHANGED <<world, room, indexaddr, target, value, filesize, src, list, wire, broken, seen, steady>>

Stat ==
  /\ pc = "stat" /\ file[target].there
  /\ filesize' = file[target].size
  /\ out' = [out EXCEPT !.mtime = Mtime[target][file[target].version]]
  /\ seen' = file[target].version
  /\ steady' = (target = Index => file[Index].version = indexaddr.version)
  /\ pos' = next[ListHead] /\ pc' = "handle"
  /\ UNCHANGED <<world, room, indexaddr, target, value, src, next, prev, live, off, wire,
                 broken, leftover>>

SinceNewer(v) == v \in Dates /\ v >= out.mtime   \* faulty variant: not only equal
\* lan_http_process_if_modified_since
Since(v) == v \in Dates /\ v = out.mtime

\* One round of lan_http_handle_header.
HandleHeader ==
  /\ pc = "handle" /\ pos \in Headers
  /\ out' = [out EXCEPT !.keep_alive = @ \/ value[pos] = KeepAlive,
                        !.modified   = @ /\ ~Since(value[pos]),
                        !.status     = IF Since(value[pos]) THEN 304 ELSE @]
  /\ value' = [value EXCEPT ![pos] = Other]
  /\ DropHeader
  /\ UNCHANGED <<world, room, indexaddr, target, filesize, src, pc, off, wire, history>>

HeadersHandled ==
  /\ pc = "handle" /\ pos = ListHead
  /\ out' = [out EXCEPT !.status = IF @ = 0 THEN 200 ELSE @]
  /\ pc' = "header" /\ off' = 0
  /\ UNCHANGED <<world, room, indexaddr, target, value, filesize, src, list, wire, history>>

-----------------------------------------------------------------------------
(* rio_writen.  A write that a signal interrupts changes nothing. *)

\* Faulty variant: a response that has no body says how long the file is.
ContentLengthAlways == IF out.status = 404 THEN ErrorLen ELSE filesize
\* What the header says of the length of the body.
ContentLength ==
  IF out.status = 404 THEN ErrorLen ELSE IF out.modified THEN filesize ELSE 0

\* Faulty variant: the NUL behind the header is written too.
AskedNul == IF pc = "header" THEN HeaderLen + 1 ELSE IF out.status = 404 THEN ErrorLen ELSE filesize
\* n of rio_writen, and how much of it can be read at usrbuf.
Asked    == IF pc = "header" THEN HeaderLen ELSE IF out.status = 404 THEN ErrorLen ELSE filesize
InMemory == IF pc = "header" \/ out.status = 404 THEN Asked ELSE src.mapped

UnitAgain(i) == <<src.version, i - off>>   \* faulty variant: bufp does not move
Unit(i) == <<IF i <= src.size THEN src.version ELSE 0, i>>

\* write takes what there is room for.
Write ==
  /\ pc \in {"header", "body"} /\ off < Asked /\ room > 0 /\ off < InMemory
  /\ LET n == Smaller(room, Smaller(Asked, InMemory) - off)
     IN  /\ off' = off + n /\ room' = room - n
         /\ IF pc = "header"
              THEN sentHeader' = sentHeader + n /\ UNCHANGED sentBody
              ELSE sentBody' = sentBody \o [i \in 1 .. n |-> Unit(off + i)]
                   /\ UNCHANGED sentHeader
  /\ UNCHANGED <<world, server, list, pc, history>>

WriteBlocks == off < Asked /\ off >= InMemory   \* faulty variant: waits for room
\* EAGAIN, EPIPE or EFAULT: rio_writen returns -1.
WriteFails == off < Asked /\ (room = 0 \/ off >= InMemory)

AfterResponse == IF out.status = 404 \/ out.keep_alive THEN "idle" ELSE "closed"

\* The client keeps a file that it got without a mishap.
Whole == /\ out.status = 200 /\ ~broken'
         /\ sentHeader = HeaderLen /\ Len(sentBody) = ContentLength
Exact == \A i \in DOMAIN sentBody : sentBody[i] = <<seen, i>>

\* rio_writen of the header has returned.  do_error goes on whatever it returns.
HeaderWritten ==
  /\ pc = "header" /\ (off = Asked \/ WriteFails)
  /\ broken' = (broken \/ WriteFails)
  /\ pc' = IF out.status = 404 THEN "body"
           ELSE IF WriteFails \/ ~out.modified THEN AfterResponse ELSE "open"
  /\ off' = 0
  /\ UNCHANGED <<world, room, server, list, wire, leftover, seen, steady>>

\* The page to be written.  What lies behind the mapping of the index page may be
\* mapped too; if open fails then so does mmap, and every write from its result.
Open ==
  /\ pc = "open"
  /\ \/ /\ target = Index
        /\ \E mapped \in {Pages(indexaddr.size), Pages(indexaddr.size) + PageSize} :
             src' = [version |-> indexaddr.version, size |-> indexaddr.size, mapped |-> mapped]
     \/ /\ target # Index /\ file[target].there
        /\ src' = [version |-> file[target].version, size |-> file[target].size,
                   mapped  |-> Smaller(Pages(filesize), Pages(file[target].size))]
     \/ /\ target # Index /\ (~file[target].there \/ "open" \in Faults)
        /\ src' = NoSrc
  /\ pc' = "body"
  /\ UNCHANGED <<world, room, indexaddr, target, value, filesize, out, list, off, wire, history>>

BodyWritten ==
  /\ pc = "body" /\ (off = Asked \/ WriteFails)
  /\ broken' = (broken \/ WriteFails)
  /\ cache' = IF Whole THEN [cache EXCEPT ![target] = [date |-> out.mtime, version |-> seen,
                                                       exact |-> Exact]]
              ELSE cache
  /\ pc' = AfterResponse /\ off' = 0 /\ src' = NoSrc
  /\ UNCHANGED <<file, room, indexaddr, target, value, filesize, out, list, wire, leftover, seen, steady>>

-----------------------------------------------------------------------------
Server ==
  \/ StatFails \/ Stat \/ HandleHeader \/ HeadersHandled
  \/ Write \/ HeaderWritten \/ Open \/ BodyWritten

World ==
  \/ \E f \in Files : Replace(f) \/ Remove(f) \/ Ask(f)
  \/ \E h \in Headers : AddHeader(h)
  \/ ClientReads \/ HeadersEnd \/ Reconnect

Next == Server \/ World

Spec == Init /\ [][Next]_rvars

\* Only the server thread is sure to run: a client need not read.
FairSpec == Spec /\ WF_rvars(Server)

-----------------------------------------------------------------------------
(* Properties *)

Begun == sentHeader > 0 \/ sentBody # <<>>

\* A response that has ended is on the wire as a whole, header and as much body as
\* its Content-length says, so that the client of a connection that is kept finds
\* the next one where it begins; the only exception is a write that failed, which
\* is logged and otherwise passed over.
InFrame ==
  pc \in {"idle", "parse", "stat", "handle", "closed"} /\ Begun /\ ~broken =>
    sentHeader = HeaderLen /\ Len(sentBody) = ContentLength

\* The body is the file whose date and size its header tells, the one that stat saw,
\* unit by unit and as far as it was written, unless the file was replaced between stat
\* and open or, if it is the index page, since the server was started.
BodyIsAsDated ==
  out.status = 200 /\ steady =>
    Len(sentBody) <= filesize /\ \A i \in DOMAIN sentBody : sentBody[i] = <<seen, i>>

\* Each header of a request for a file has been handled, unlinked and freed before
\* the response is written: "header list should be empty", src/http.c:129.  A loop that
\* is lost does not get that far.
HeadersAllHandled ==
  pc \in {"header", "open", "body"} /\ out.status \in {200, 304} => live = {} /\ list_empty

\* No other version of the file has the date of this one.
DateTells == \A v \in Versions : Mtime[target][v] = out.mtime => v = seen

\* A client that is told 304 has the file as stat saw it, for it was sent it as a whole,
\* whatever was replaced meanwhile and whether by newer or by older files, unless it asks
\* for an index page other than the one at the start, another version of the file has the
\* same date, or headers of an earlier request were still in the list.
NotModifiedIsTrue ==
  out.status = 304 /\ ~leftover /\ DateTells /\ (target = Index => seen = indexaddr.version) =>
    cache[target].version = seen /\ cache[target].exact

\* The one thread is never kept by a client that does not read.
Answered == pc = "stat" ~> pc \in {"idle", "closed"} \/ Lost
=============================================================================
