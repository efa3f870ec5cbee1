----------------------------- MODULE BodyProofs -----------------------------
(***************************************************************************)
(* What Response says of headers, bodies and dates, for any number of      *)
(* files and headers, any sizes of files, pages and send buffer, and any   *)
(* speed of the client.                                                    *)
(*                                                                         *)
(* That a 304 is true goes back over several requests: to the response     *)
(* the client kept, to what was replaced while it was written, and to the  *)
(* headers in the list.  The invariant says of each copy that is not the   *)
(* version it was taken for why no later stat can see that version again;  *)
(* dates come in last, and may decrease and repeat.                        *)
(***************************************************************************)
EXTENDS ResponseProofs

Units == ({0} \cup Versions) \X Nat

\* How far the response is on the wire, at each place in the code.
FrameOK ==
  /\ sentBody \in Seq(Units)
  /\ pc \in {"parse", "stat", "handle"} => ~Begun
  /\ pc = "header" => sentHeader = off /\ off <= HeaderLen /\ sentBody = <<>>
  /\ pc = "open" => off = 0 /\ sentBody = <<>>
  /\ pc = "body" => Len(sentBody) = off /\ off <= Asked
  /\ pc \in {"open", "body"} /\ ~broken => sentHeader = HeaderLen
  /\ pc \in {"idle", "closed"} => InFrame

\* What the code has found out about the request so far.
OutOK ==
  /\ pc \in {"parse", "stat"} => out = NoOut /\ ~steady
  /\ pc = "handle" => out.status \in {0, 304}
  /\ pc = "header" => out.status \in {200, 304, 404}
  /\ pc = "open" => out.status = 200
  /\ pc = "body" => out.status \in {200, 404}
  /\ out.status = 304 <=> ~out.modified
  /\ pc = "handle" \/ out.status = 200 =>
       filesize \in Sizes /\ seen \in Versions /\ out.mtime = Mtime[target][seen]

\* Which file the response is about to be written from.
SourceOK ==
  /\ indexaddr.version <= file[Index].version
  /\ indexaddr.version = file[Index].version => indexaddr.size = file[Index].size
  /\ pc \in {"handle", "header", "open"} /\ steady =>
       IF target = Index
         THEN indexaddr.version = seen /\ indexaddr.size = filesize
         ELSE file[target].version = seen /\ file[target].size = filesize /\ file[target].there
  /\ pc = "body" /\ out.status = 200 /\ steady =>
       src = NoSrc \/ (src.version = seen /\ src.size = filesize)
  /\ pc = "body" /\ src = NoSrc /\ out.status = 200 => sentBody = <<>>
  /\ BodyIsAsDated

\* Why a response may be other than the version that stat saw.
Outdated(f, v) ==
  file[f].version > v \/ (f = Index /\ v # indexaddr.version)

CacheOK ==
  /\ \A f \in Files : cache[f].date # 0 =>
       /\ cache[f].version \in Versions /\ cache[f].date = Mtime[f][cache[f].version]
       /\ cache[f].exact \/ Outdated(f, cache[f].version)
  /\ pc = "handle" /\ cache[target].date # 0 /\ ~cache[target].exact =>
       seen # cache[target].version \/ (target = Index /\ seen # indexaddr.version)
  /\ pc \in {"handle", "header", "open"} /\ out.status \in {0, 200} =>
       seen <= file[target].version
  /\ pc \in {"handle", "header", "open"} /\ out.status \in {0, 200} /\ ~steady =>
       Outdated(target, seen) \/ (target # Index /\ ~file[target].there)
  /\ pc = "body" /\ out.status = 200 /\ ~steady => Outdated(target, seen) \/ src = NoSrc
  /\ pc \in {"parse", "stat", "handle"} /\ ~leftover =>
       \A h \in live : value[h] \in {KeepAlive, Other, cache[target].date}
  /\ pc \notin {"parse", "stat", "handle"} /\ ~leftover => live = {}
  /\ NotModifiedIsTrue

RInv == TypeOK /\ FrameOK /\ OutOK /\ SourceOK /\ CacheOK

-----------------------------------------------------------------------------
LEMMA FileFacts == Index \in Files /\ Sizes \subseteq Nat \ {0} /\ Dates \subseteq Nat \ {0}
<1>1. ASSUME NEW f \in Files, NEW v \in Versions
      PROVE  Size[f][v] \in Nat \ {0} /\ Mtime[f][v] \in Nat \ {0}
  BY VersionsAssumption DEF Versions
<1>2. Sizes \subseteq Nat \ {0}
  BY <1>1 DEF Sizes
<1>3. Dates \subseteq Nat \ {0}
  BY <1>1 DEF Dates
<1>. QED
  BY <1>2, <1>3, FilesAssumption

LEMMA FileIsFile ==
  ASSUME NEW f \in Files, NEW v \in Versions
  PROVE  /\ File(f, v) \in [version : Versions, size : Sizes, there : BOOLEAN]
         /\ File(f, v).version = v /\ Mtime[f][v] \in Dates
BY DEF File, Sizes, Dates

LEMMA InitRInv == Init => RInv
<1>. SUFFICES ASSUME Init
              PROVE  RInv
  OBVIOUS
<1>1. Index \in Files /\ Sizes \subseteq Nat \ {0} /\ MaxVersion \in Nat \ {0}
  BY FileFacts, LengthsAssumption
<1>2. ListTypeOK /\ live = {}
  BY ListHeadAssumption DEF Init, ListInit, ListTypeOK, Alone, Nodes, Words
<1>3. /\ file \in [Files -> [version : Versions, size : Sizes, there : BOOLEAN]]
      /\ 1 \in Versions /\ file[Index].version = 1
  <2>1. file = [f \in Files |-> File(f, 1)] /\ 1 \in Versions
    BY LengthsAssumption DEF Init, Versions
  <2>2. \A f \in Files : File(f, 1) \in [version : Versions, size : Sizes, there : BOOLEAN]
                       /\ File(f, 1).version = 1
    BY <2>1, FileIsFile
  <2>. QED
    BY <1>1, <2>1, <2>2
<1>4. indexaddr \in [version : Versions, size : Sizes]
      /\ indexaddr.version = file[Index].version /\ indexaddr.size = file[Index].size
  <2>1. file[Index] \in [version : Versions, size : Sizes, there : BOOLEAN]
    BY <1>1, <1>3
  <2>2. indexaddr = [version |-> file[Index].version, size |-> file[Index].size]
    BY DEF Init
  <2>. QED
    BY <2>1, <2>2
<1>5. sentBody = <<>> /\ sentHeader = 0 /\ pc = "idle" /\ out = NoOut /\ src = NoSrc
      /\ ~broken /\ ~steady /\ off = 0 /\ seen = 0
  BY DEF Init
<1>6. TypeOK
  <2>1. file \in [Files -> [version : Versions, size : Sizes, there : BOOLEAN]]
    BY <1>3
  <2>2. cache \in [Files -> [date : {0} \cup Dates, version : {0} \cup Versions, exact : BOOLEAN]]
    BY DEF Init
  <2>3. value \in [Headers -> {KeepAlive, Other} \cup Dates]
    BY DEF Init
  <2>4. out \in [status : {0, 200, 304, 404}, keep_alive : BOOLEAN, modified : BOOLEAN,
                 mtime : {0} \cup Dates]
    BY <1>5 DEF NoOut
  <2>5. src \in [version : {0} \cup Versions, size : {0} \cup Sizes, mapped : Nat]
    BY <1>5 DEF NoSrc
  <2>6. /\ room \in 0 .. SendBuffer /\ target \in Files /\ filesize \in {0} \cup Sizes
        /\ off \in Nat /\ sentHeader \in 0 .. HeaderLen
    BY <1>1, LengthsAssumption DEF Init
  <2>8. broken \in BOOLEAN /\ leftover \in BOOLEAN /\ seen \in {0} \cup Versions /\ steady \in BOOLEAN
    BY DEF Init
  <2>7. \A i \in DOMAIN sentBody : sentBody[i] \in ({0} \cup Versions) \X Nat
    BY <1>5
  <2>. QED
    BY <1>2, <1>4, <1>5, <2>1, <2>2, <2>3, <2>4, <2>5, <2>6, <2>7, <2>8 DEF TypeOK
<1>7. FrameOK
  BY <1>5 DEF FrameOK, InFrame, Begun
<1>8. OutOK
  BY <1>5 DEF OutOK, NoOut
<1>9. SourceOK
  BY <1>4, <1>5, <1>3 DEF SourceOK, BodyIsAsDated, Versions, NoOut
<1>10. CacheOK
  BY <1>2, <1>5 DEF CacheOK, NotModifiedIsTrue, Init, NoOut
<1>. QED
  BY <1>6, <1>7, <1>8, <1>9, <1>10 DEF RInv

-----------------------------------------------------------------------------
(* Values *)

LEMMA PagesType ==
  ASSUME NEW n \in Nat
  PROVE  Pages(n) \in Nat
<1>1. PageSize \in Nat \ {0}
  BY LengthsAssumption
<1> DEFINE m == n + PageSize - 1
<1>2. m \in Nat
  BY <1>1
<1> HIDE DEF m
<1>3. m \div PageSize \in Int
  BY <1>1, <1>2
<1>4. m \div PageSize \in Nat
  BY <1>1, <1>2
<1> DEFINE q == m \div PageSize
<1>5. q \in Nat
  BY <1>4
<1> HIDE DEF q
<1>6. PageSize * q \in Nat
  BY <1>1, <1>5
<1>. QED
  BY <1>6 DEF Pages, m, q

OutType == [status : {0, 200, 304, 404}, keep_alive : BOOLEAN, modified : BOOLEAN,
            mtime : {0} \cup Dates]

LEMMA NoOutType == NoOut \in OutType /\ [NoOut EXCEPT !.status = 404] \in OutType
<1>1. NoOut \in OutType
  BY DEF NoOut, OutType
<1>2. \A o \in OutType : [o EXCEPT !.status = 404] \in OutType
  BY DEF OutType
<1>. QED
  BY ONLY <1>1, <1>2

LEMMA StepTypeOK ==
  ASSUME TypeOK, FrameOK, LInv, Next
  PROVE  TypeOK'
<1>1. ListTypeOK'
  BY StepLInv DEF LInv
<1>2. /\ file \in [Files -> [version : Versions, size : Sizes, there : BOOLEAN]]
      /\ cache \in [Files -> [date : {0} \cup Dates, version : {0} \cup Versions, exact : BOOLEAN]]
      /\ value \in [Headers -> {KeepAlive, Other} \cup Dates]
      /\ out \in OutType
      /\ src \in [version : {0} \cup Versions, size : {0} \cup Sizes, mapped : Nat]
      /\ target \in Files /\ indexaddr \in [version : Versions, size : Sizes]
      /\ seen \in {0} \cup Versions
  BY DEF TypeOK, OutType
<1>3. /\ pc \in {"idle", "parse", "stat", "handle", "header", "open", "body", "closed"}
      /\ room \in 0 .. SendBuffer /\ filesize \in {0} \cup Sizes
      /\ off \in Nat /\ sentHeader \in 0 .. HeaderLen
      /\ \A i \in DOMAIN sentBody : sentBody[i] \in Units
      /\ broken \in BOOLEAN /\ leftover \in BOOLEAN /\ steady \in BOOLEAN
  BY DEF TypeOK, Units, OutType
<1>4. /\ Index \in Files /\ Sizes \subseteq Nat \ {0}
      /\ HeaderLen \in Nat \ {0} /\ SendBuffer \in Nat \ {0} /\ MaxVersion \in Nat \ {0}
      /\ ErrorLen \in Nat \ {0} /\ PageSize \in Nat \ {0}
  BY FileFacts, LengthsAssumption
<1>5. ASSUME NEW f \in Files, Replace(f) PROVE TypeOK'
  <2>1. /\ UNCHANGED <<cache, room, indexaddr, target, value, filesize, out, src, pc, off>>
        /\ UNCHANGED <<sentHeader, sentBody, broken, leftover, seen>>
    BY <1>5 DEF Replace, server, wire
  <2>2. steady' \in BOOLEAN
    BY <1>5 DEF Replace
  <2>3. PICK v \in Versions : file' = [file EXCEPT ![f] = File(f, v)]
    BY <1>5 DEF Replace
  <2>4. File(f, v) \in [version : Versions, size : Sizes, there : BOOLEAN]
    BY FileIsFile
  <2>6. file' \in [Files -> [version : Versions, size : Sizes, there : BOOLEAN]]
    BY <1>2, <2>3, <2>4
  <2>. QED
    BY <1>1, <1>2, <1>3, <2>1, <2>2, <2>6 DEF TypeOK, Units, OutType
<1>6. ASSUME NEW f \in Files, Remove(f) PROVE TypeOK'
  <2>1. /\ UNCHANGED <<cache, room, indexaddr, target, value, filesize, out, src, pc, off>>
        /\ UNCHANGED <<sentHeader, sentBody, broken, leftover, seen>>
    BY <1>6 DEF Remove, server, wire
  <2>2. steady' \in BOOLEAN
    BY <1>6 DEF Remove
  <2>3. file' \in [Files -> [version : Versions, size : Sizes, there : BOOLEAN]]
    <3>1. file[f] \in [version : Versions, size : Sizes, there : BOOLEAN]
      BY <1>2
    <3>2. [file[f] EXCEPT !.there = FALSE] \in [version : Versions, size : Sizes, there : BOOLEAN]
      BY <3>1
    <3>3. file' = [file EXCEPT ![f] = [file[f] EXCEPT !.there = FALSE]]
      BY <1>6 DEF Remove
    <3>. QED
      BY <1>2, <3>2, <3>3
  <2>. QED
    BY <1>1, <1>2, <1>3, <2>1, <2>2, <2>3 DEF TypeOK, Units, OutType
<1>7. ASSUME NEW f \in Files, Ask(f) PROVE TypeOK'
  <2>1. UNCHANGED <<file, cache, room, indexaddr, value, src, off, broken, leftover>>
    BY <1>7 DEF Ask, world
  <2>2. /\ target' = f /\ pc' = "parse" /\ out' = NoOut /\ filesize' = 0
        /\ sentHeader' = 0
    BY <1>7 DEF Ask
  <2>4. sentBody' = <<>> /\ steady' = FALSE /\ seen' = 0
    BY <1>7 DEF Ask
  <2>5. \A i \in DOMAIN sentBody' : sentBody'[i] \in Units
    BY <2>4
  <2>6. steady' \in BOOLEAN /\ seen' \in {0} \cup Versions
    BY <2>4
  <2>3. out' \in OutType
    BY <2>2, NoOutType
  <2>. QED
    BY <1>1, <1>2, <1>3, <1>4, <2>1, <2>2, <2>3, <2>5, <2>6 DEF TypeOK, Units, OutType
<1>8. ASSUME NEW h \in Headers, AddHeader(h) PROVE TypeOK'
  BY <1>1, <1>2, <1>3, <1>4, <1>8 DEF AddHeader, TypeOK, world, wire, history, Other, OutType
<1>9. CASE ClientReads \/ HeadersEnd
  <2>1. UNCHANGED <<file, cache, indexaddr, target, value, filesize, out, src, off, sentHeader,
                    sentBody, broken, leftover, seen, steady>>
    BY <1>9 DEF ClientReads, HeadersEnd, world, server, wire, history, list
  <2>2. room' \in 0 .. SendBuffer /\ pc' \in {pc, "stat"}
    BY <1>3, <1>4, <1>9 DEF ClientReads, HeadersEnd
  <2>. QED
    BY <1>1, <1>2, <1>3, <2>1, <2>2 DEF TypeOK, Units, OutType
<1>11. CASE Reconnect
  <2>1. UNCHANGED <<file, cache, indexaddr, src, off>>
    BY <1>11 DEF Reconnect, world
  <2>2. /\ value' = [h \in Headers |-> Other] /\ room' = SendBuffer /\ target' = Index
        /\ pc' = "idle" /\ out' = NoOut /\ filesize' = 0 /\ sentHeader' = 0
    BY <1>11 DEF Reconnect
  <2>4. sentBody' = <<>> /\ broken' = FALSE /\ leftover' = FALSE /\ steady' = FALSE /\ seen' = 0
    BY <1>11 DEF Reconnect
  <2>5. \A i \in DOMAIN sentBody' : sentBody'[i] \in Units
    BY <2>4
  <2>6. /\ broken' \in BOOLEAN /\ leftover' \in BOOLEAN /\ steady' \in BOOLEAN
        /\ seen' \in {0} \cup Versions
    BY <2>4
  <2>3. out' \in OutType
    BY <2>2, NoOutType
  <2>. QED
    BY <1>1, <1>2, <1>3, <1>4, <2>1, <2>2, <2>3, <2>5, <2>6 DEF TypeOK, Units, OutType
<1>12. CASE StatFails
  <2>1. /\ UNCHANGED <<file, cache, room, indexaddr, target, value, filesize, src>>
        /\ UNCHANGED <<sentHeader, sentBody, broken, seen, steady>>
    BY <1>12 DEF StatFails, world, wire
  <2>2. leftover' \in BOOLEAN
    BY <1>12 DEF StatFails
  <2>3. pc' = "header" /\ off' = 0 /\ out' = [NoOut EXCEPT !.status = 404]
    BY <1>12 DEF StatFails
  <2>4. out' \in OutType
    BY <2>3, NoOutType
  <2>. QED
    BY <1>1, <1>2, <1>3, <2>1, <2>2, <2>3, <2>4 DEF TypeOK, Units, OutType
<1>13. CASE Stat
  <2>1. /\ UNCHANGED <<file, cache, room, indexaddr, target, value, src, off, sentHeader, sentBody,
                       broken, leftover>>
        /\ filesize' = file[target].size /\ seen' = file[target].version
        /\ pc' = "handle" /\ steady' \in BOOLEAN
    BY <1>13 DEF Stat, world, wire
  <2>2. file[target] \in [version : Versions, size : Sizes, there : BOOLEAN]
    BY <1>2
  <2>3. file[target].size \in Sizes /\ file[target].version \in Versions
    BY <2>2
  <2>4. out' \in OutType
    <3>1. Mtime[target][file[target].version] \in {0} \cup Dates
      BY <1>2, <2>3, FileIsFile
    <3> DEFINE d == Mtime[target][file[target].version]
    <3>2. out' = [out EXCEPT !.mtime = d] /\ d \in {0} \cup Dates
      BY <1>13, <3>1 DEF Stat
    <3> HIDE DEF d
    <3>. QED
      BY <1>2, <3>2 DEF OutType
  <2>. QED
    BY <1>1, <1>2, <1>3, <2>1, <2>3, <2>4 DEF TypeOK, Units, OutType
<1>14. CASE HandleHeader
  <2>1. /\ UNCHANGED <<file, cache, room, indexaddr, target, filesize, src, pc, off>>
        /\ UNCHANGED <<sentHeader, sentBody, broken, leftover, seen, steady>>
    BY <1>14 DEF HandleHeader, world, wire, history
  <2>2. value' \in [Headers -> {KeepAlive, Other} \cup Dates]
    BY <1>2, <1>14 DEF HandleHeader
  <2> DEFINE a == out.keep_alive \/ value[pos] = KeepAlive
  <2> DEFINE b == out.modified /\ ~Since(value[pos])
  <2> DEFINE s == IF Since(value[pos]) THEN 304 ELSE out.status
  <2>3. out' = [out EXCEPT !.keep_alive = a, !.modified = b, !.status = s]
    BY <1>14 DEF HandleHeader
  <2>4. a \in BOOLEAN /\ b \in BOOLEAN
    OBVIOUS
  <2>5. s \in {0, 200, 304, 404}
    BY <1>2 DEF OutType
  <2> HIDE DEF a, b, s
  <2>6. PICK B : B = BOOLEAN
    OBVIOUS
  <2> DEFINE S == {0, 200, 304, 404}
             T == {0} \cup Dates
             R == [status : S, keep_alive : B, modified : B, mtime : T]
  <2>7. out \in R /\ R = OutType /\ s \in S /\ a \in B /\ b \in B
    BY <1>2, <2>4, <2>5, <2>6 DEF OutType
  <2> HIDE DEF S, T
  <2>8. [out EXCEPT !.keep_alive = a, !.modified = b, !.status = s] \in R
    BY <2>7
  <2>9. out' \in OutType
    BY <2>3, <2>7, <2>8
  <2>. QED
    BY <1>1, <1>2, <1>3, <2>1, <2>2, <2>9 DEF TypeOK, Units, OutType
<1>15. CASE HeadersHandled
  BY <1>1, <1>2, <1>3, <1>4, <1>15 DEF HeadersHandled, TypeOK, world, wire, history, list
<1>16. CASE Write
  <2>1. UNCHANGED <<file, cache, indexaddr, target, value, filesize, out, src, pc, broken,
                    leftover, seen, steady>>
    BY <1>16 DEF Write, world, server, history
  <2> DEFINE n == Smaller(room, Smaller(Asked, InMemory) - off)
  <2>2. n \in Nat /\ n <= room /\ n <= Asked - off
    BY <1>2, <1>3, <1>4, <1>16 DEF Write, Smaller, Asked, InMemory
  <2>3. /\ off' = off + n /\ room' = room - n
        /\ \/ pc = "header" /\ sentHeader' = sentHeader + n /\ sentBody' = sentBody
           \/ /\ pc = "body" /\ sentHeader' = sentHeader
              /\ sentBody' = sentBody \o [i \in 1 .. n |-> Unit(off + i)]
    BY <1>16 DEF Write
  <2> HIDE DEF n
  <2>4. room' \in 0 .. SendBuffer /\ off' \in Nat
    BY <1>3, <1>4, <2>2, <2>3
  <2>5. sentHeader' \in 0 .. HeaderLen
    BY <1>3, <1>4, <2>2, <2>3 DEF FrameOK, Asked
  <2>6. sentBody' \in Seq(Units)
    <3>1. sentBody \in Seq(Units)
      BY DEF FrameOK
    <3>2. [i \in 1 .. n |-> Unit(off + i)] \in Seq(Units)
      BY <1>2, <1>3, <2>2 DEF Unit, Units
    <3>3. sentBody \o [i \in 1 .. n |-> Unit(off + i)] \in Seq(Units)
      BY <3>1, <3>2
    <3>. QED
      BY <2>3, <3>1, <3>3
  <2>7. \A i \in DOMAIN sentBody' : sentBody'[i] \in Units
    BY <2>6
  <2>. QED
    BY <1>1, <1>2, <1>3, <2>1, <2>4, <2>5, <2>7 DEF TypeOK, Units, OutType
<1>17. CASE HeaderWritten
  BY <1>1, <1>2, <1>3, <1>4, <1>17 DEF HeaderWritten, TypeOK, AfterResponse, world, server, wire, list
<1>18. CASE Open
  <2>1. /\ UNCHANGED <<file, cache, room, indexaddr, target, value, filesize, out, off>>
        /\ UNCHANGED <<sentHeader, sentBody, broken, leftover, seen, steady>> /\ pc' = "body"
    BY <1>18 DEF Open, world, wire, history
  <2>2. /\ indexaddr.size \in Sizes /\ indexaddr.version \in Versions
        /\ file[target].size \in Sizes /\ file[target].version \in Versions
    BY <1>2
  <2>3. /\ Pages(indexaddr.size) \in Nat /\ Pages(file[target].size) \in Nat
        /\ Pages(filesize) \in Nat
    BY <1>3, <1>4, <2>2, PagesType
  <2>4. /\ Pages(indexaddr.size) + PageSize \in Nat
        /\ Smaller(Pages(filesize), Pages(file[target].size)) \in Nat
    BY <1>4, <2>3 DEF Smaller
  <2>5. NoSrc \in [version : {0} \cup Versions, size : {0} \cup Sizes, mapped : Nat]
    BY DEF NoSrc
  <2>6. \E v \in {0} \cup Versions, z \in {0} \cup Sizes, m \in Nat :
          src' = [version |-> v, size |-> z, mapped |-> m]
    BY <1>18, <2>2, <2>3, <2>4, Zenon DEF Open, NoSrc
  <2>7. src' \in [version : {0} \cup Versions, size : {0} \cup Sizes, mapped : Nat]
    BY <2>6
  <2>. QED
    BY <1>1, <1>2, <1>3, <2>1, <2>7 DEF TypeOK, Units, OutType
<1>19. CASE BodyWritten
  BY <1>1, <1>2, <1>3, <1>4, <1>19 DEF BodyWritten, TypeOK, AfterResponse, Whole, Exact, wire, list, NoSrc
<1>. QED
  BY <1>5, <1>6, <1>7, <1>8, <1>9, <1>11, <1>12, <1>13, <1>14, <1>15, <1>16, <1>17, <1>18,
     <1>19 DEF Next, Server, World

-----------------------------------------------------------------------------
(* The frame *)

LEMMA StepFrameOK ==
  ASSUME TypeOK, FrameOK, OutOK, Next
  PROVE  FrameOK'
<1>1. /\ sentBody \in Seq(Units)
      /\ pc \in {"parse", "stat", "handle"} => sentHeader = 0 /\ sentBody = <<>>
      /\ pc = "header" => sentHeader = off /\ off <= HeaderLen /\ sentBody = <<>>
      /\ pc = "open" => off = 0 /\ sentBody = <<>>
      /\ pc = "body" => Len(sentBody) = off /\ off <= Asked
      /\ pc \in {"open", "body"} /\ ~broken => sentHeader = HeaderLen
  <2>1. sentHeader \in Nat
    BY LengthsAssumption DEF TypeOK
  <2>. QED
    BY <2>1 DEF FrameOK, Begun
<1>2. /\ HeaderLen \in Nat \ {0} /\ ErrorLen \in Nat \ {0} /\ SendBuffer \in Nat
      /\ filesize \in Nat /\ off \in Nat /\ room \in Nat /\ src.mapped \in Nat
  BY LengthsAssumption, FileFacts DEF TypeOK
<1>3. Units' = Units
  BY DEF Units, Versions
<1>4. ASSUME UNCHANGED <<pc, sentHeader, sentBody, off, broken, out, filesize>>
      PROVE  FrameOK'
  BY <1>3, <1>4 DEF FrameOK, InFrame, Begun, Asked, ContentLength
<1>5. ASSUME pc' \in {"idle", "parse", "stat", "handle"}, sentHeader' = 0, sentBody' = <<>>
      PROVE  FrameOK'
  BY <1>5 DEF FrameOK, InFrame, Begun
<1>6. ASSUME pc' = "header", off' = 0, sentHeader' = 0, sentBody' = <<>>
      PROVE  FrameOK'
  BY <1>2, <1>6 DEF FrameOK
<1>7. ASSUME NEW f \in Files, Replace(f) \/ Remove(f)
      PROVE  FrameOK'
  BY <1>4, <1>7 DEF Replace, Remove, server, wire
<1>8. ASSUME NEW f \in Files, Ask(f)
      PROVE  FrameOK'
  BY <1>5, <1>8 DEF Ask
<1>9. ASSUME NEW h \in Headers, AddHeader(h)
      PROVE  FrameOK'
  BY <1>1, <1>5, <1>9 DEF AddHeader, wire
<1>10. CASE ClientReads
  BY <1>4, <1>10 DEF ClientReads, server, wire, history
<1>11. CASE HeadersEnd \/ Stat \/ HandleHeader
  BY <1>1, <1>5, <1>11 DEF HeadersEnd, Stat, HandleHeader, wire
<1>12. CASE Reconnect
  BY <1>5, <1>12 DEF Reconnect
<1>13. CASE StatFails \/ HeadersHandled
  BY <1>1, <1>6, <1>13 DEF StatFails, HeadersHandled, wire
<1>14. CASE Write
  <2>1. pc' = pc /\ broken' = broken /\ out' = out /\ filesize' = filesize
    BY <1>14 DEF Write, server, history
  <2> DEFINE n == Smaller(room, Smaller(Asked, InMemory) - off)
  <2>2. Asked \in Nat /\ InMemory \in Nat
    BY <1>2 DEF Asked, InMemory
  <2>3. n \in Nat /\ off + n <= Asked
    BY <1>2, <1>14, <2>2 DEF Write, Smaller
  <2>4. /\ off' = off + n
        /\ \/ pc = "header" /\ sentHeader' = sentHeader + n /\ sentBody' = sentBody
           \/ /\ pc = "body" /\ sentHeader' = sentHeader
              /\ sentBody' = sentBody \o [i \in 1 .. n |-> Unit(off + i)]
    BY <1>14 DEF Write
  <2> HIDE DEF n
  <2>5. CASE pc = "header"
    BY <1>1, <1>2, <1>3, <2>1, <2>3, <2>4, <2>5 DEF FrameOK, Asked
  <2>6. CASE pc = "body"
    <3>1. src.version \in {0} \cup Versions
      BY DEF TypeOK
    <3> DEFINE t == [i \in 1 .. n |-> Unit(off + i)]
    <3>2. t \in Seq(Units) /\ Len(t) = n
      BY <1>2, <2>3, <3>1 DEF Unit, Units
    <3> HIDE DEF t
    <3>3. sentBody' = sentBody \o t
      BY <2>4, <2>6 DEF t
    <3>4. sentBody' \in Seq(Units) /\ Len(sentBody') = Len(sentBody) + n
      <4>1. sentBody \in Seq(Units)
        BY <1>1
      <4>2. sentBody \o t \in Seq(Units) /\ Len(sentBody \o t) = Len(sentBody) + Len(t)
        BY <3>2, <4>1
      <4>. QED
        BY <3>2, <3>3, <4>2
    <3>5. Asked' = Asked
      BY <2>1, <2>6 DEF Asked
    <3>6. Len(sentBody') = off' /\ off' <= Asked'
      BY <1>1, <2>3, <2>4, <2>6, <3>4, <3>5
    <3>7. sentHeader' = sentHeader
      BY <2>4, <2>6
    <3>. QED
      BY <1>1, <1>3, <2>1, <2>6, <3>4, <3>6, <3>7 DEF FrameOK
  <2>. QED
    BY <2>4, <2>5, <2>6
<1>15. CASE HeaderWritten
  <2>1. /\ pc = "header" /\ off' = 0
        /\ UNCHANGED <<sentHeader, sentBody, out, filesize>>
        /\ broken' = (broken \/ WriteFails)
        /\ pc' = IF out.status = 404 THEN "body"
                 ELSE IF WriteFails \/ ~out.modified THEN AfterResponse ELSE "open"
    BY <1>15 DEF HeaderWritten, server, wire
  <2>2. ~broken' => sentHeader = HeaderLen
    BY <1>1, <1>15, <2>1 DEF HeaderWritten, Asked
  <2>3. CASE out.status = 404
    <3>1. pc' = "body" /\ Asked' = ErrorLen
      BY <2>1, <2>3 DEF Asked
    <3>. QED
      BY <1>1, <1>2, <1>3, <2>1, <2>2, <3>1 DEF FrameOK
  <2>4. CASE pc' = "open"
    BY <1>1, <1>3, <2>1, <2>2, <2>4 DEF FrameOK
  <2>5. CASE out.status # 404 /\ (WriteFails \/ ~out.modified)
    <3>1. pc' \in {"idle", "closed"}
      BY <2>1, <2>5 DEF AfterResponse
    <3>2. ~broken' => ContentLength' = 0
      BY <2>1, <2>5 DEF ContentLength
    <3>3. Len(sentBody') = 0 /\ sentBody' \in Seq(Units)
      BY <1>1, <2>1
    <3>4. InFrame'
      BY <2>1, <2>2, <3>2, <3>3 DEF InFrame
    <3>. QED
      BY <1>3, <3>1, <3>3, <3>4 DEF FrameOK
  <2>. QED
    BY <2>1, <2>3, <2>4, <2>5
<1>16. CASE Open
  <2>1. pc = "open" /\ pc' = "body" /\ UNCHANGED <<sentHeader, sentBody, off, broken, filesize, out>>
    BY <1>16 DEF Open, wire, history
  <2>. QED
    BY <1>1, <1>2, <1>3, <2>1 DEF FrameOK, Asked
<1>17. CASE BodyWritten
  <2>1. /\ pc = "body" /\ UNCHANGED <<sentHeader, sentBody, out, filesize>>
        /\ broken' = (broken \/ WriteFails) /\ pc' = AfterResponse
        /\ off = Asked \/ WriteFails
    BY <1>17 DEF BodyWritten, wire
  <2>2. ~broken' => sentHeader = HeaderLen /\ Len(sentBody) = Asked
    BY <1>1, <2>1
  <2>3. Asked = ContentLength'
    BY <2>1 DEF Asked, ContentLength, OutOK
  <2>4. InFrame' /\ pc' \in {"idle", "closed"}
    BY <2>1, <2>2, <2>3 DEF InFrame, AfterResponse
  <2>. QED
    BY <1>1, <1>3, <2>1, <2>4 DEF FrameOK
<1>. QED
  BY <1>7, <1>8, <1>9, <1>10, <1>11, <1>12, <1>13, <1>14, <1>15, <1>16, <1>17
     DEF Next, Server, World

-----------------------------------------------------------------------------
(* Status and date *)

LEMMA StepOutOK ==
  ASSUME TypeOK, OutOK, Next
  PROVE  OutOK'
<1>1. /\ file \in [Files -> [version : Versions, size : Sizes, there : BOOLEAN]]
      /\ target \in Files /\ out \in OutType
  BY DEF TypeOK, OutType
<1>2. ASSUME UNCHANGED <<pc, out, filesize, target, seen>>, steady' => steady
      PROVE  OutOK'
  BY <1>2 DEF OutOK, Versions
<1>3. ASSUME NEW f \in Files, Replace(f) \/ Remove(f)
      PROVE  OutOK'
  BY <1>2, <1>3 DEF Replace, Remove, server
<1>4. ASSUME NEW h \in Headers, AddHeader(h)
      PROVE  OutOK'
  BY <1>2, <1>4 DEF AddHeader, history
<1>5. CASE ClientReads \/ Write
  BY <1>2, <1>5 DEF ClientReads, Write, server, history
<1>6. ASSUME pc' \in {"idle", "parse"}, out' = NoOut, steady' = FALSE
      PROVE  OutOK'
  BY <1>6 DEF OutOK, NoOut
<1>7. ASSUME NEW f \in Files, Ask(f)
      PROVE  OutOK'
  BY <1>6, <1>7 DEF Ask
<1>8. CASE Reconnect
  BY <1>6, <1>8 DEF Reconnect
<1>9. CASE HeadersEnd
  BY <1>9 DEF HeadersEnd, OutOK, server, history, Versions
<1>10. CASE StatFails
  <2>1. pc' = "header" /\ out' = [NoOut EXCEPT !.status = 404]
    BY <1>10 DEF StatFails
  <2>2. out'.status = 404 /\ out'.modified = TRUE
    BY <2>1 DEF NoOut
  <2>. QED
    BY <2>1, <2>2 DEF OutOK
<1>11. CASE Stat
  <2>1. /\ pc = "stat" /\ pc' = "handle" /\ filesize' = file[target].size
        /\ out' = [out EXCEPT !.mtime = Mtime[target][file[target].version]]
        /\ seen' = file[target].version /\ target' = target
    BY <1>11 DEF Stat
  <2>2. out'.status = 0 /\ out'.modified = TRUE /\ out'.mtime = Mtime[target][seen']
    <3> DEFINE d == Mtime[target][file[target].version]
    <3>1. out' = [NoOut EXCEPT !.mtime = d]
      BY <2>1 DEF OutOK
    <3> HIDE DEF d
    <3>2. out'.status = 0 /\ out'.modified = TRUE /\ out'.mtime = d
      BY <3>1 DEF NoOut
    <3>. QED
      BY <2>1, <3>2 DEF d
  <2>3. file[target].size \in Sizes /\ file[target].version \in Versions
    BY <1>1
  <2>4. Versions' = Versions
    BY DEF Versions
  <2>. QED
    BY <2>1, <2>2, <2>3, <2>4 DEF OutOK
<1>12. CASE HandleHeader
  <2>1. /\ pc = "handle" /\ pc' = pc /\ UNCHANGED <<filesize, target, seen>>
        /\ out' = [out EXCEPT !.keep_alive = @ \/ value[pos] = KeepAlive,
                              !.modified   = @ /\ ~Since(value[pos]),
                              !.status     = IF Since(value[pos]) THEN 304 ELSE @]
    BY <1>12 DEF HandleHeader, history
  <2>2. /\ out'.modified = (out.modified /\ ~Since(value[pos])) /\ out'.mtime = out.mtime
        /\ out'.status = IF Since(value[pos]) THEN 304 ELSE out.status
    BY <1>1, <2>1 DEF OutType
  <2>3. out.status \in {0, 304} /\ (out.status = 304 <=> ~out.modified)
        /\ filesize \in Sizes /\ seen \in Versions /\ out.mtime = Mtime[target][seen]
    BY <2>1 DEF OutOK
  <2>4. out'.status \in {0, 304} /\ (out'.status = 304 <=> ~out'.modified)
    <3>1. CASE Since(value[pos])
      BY ONLY <2>2, <3>1
    <3>2. CASE ~Since(value[pos])
      BY ONLY <2>2, <2>3, <3>2
    <3>. QED
      BY ONLY <3>1, <3>2
  <2>5. /\ pc' = "handle" /\ filesize' \in Sizes /\ seen' \in Versions
        /\ out'.mtime = Mtime[target'][seen']
    BY <2>1, <2>2, <2>3
  <2>. QED
    BY <2>4, <2>5 DEF OutOK
<1>13. CASE HeadersHandled
  <2>1. /\ pc = "handle" /\ pc' = "header" /\ UNCHANGED <<filesize, target, seen>>
        /\ out' = [out EXCEPT !.status = IF @ = 0 THEN 200 ELSE @]
    BY <1>13 DEF HeadersHandled, history
  <2>2. /\ out'.modified = out.modified /\ out'.mtime = out.mtime
        /\ out'.status = IF out.status = 0 THEN 200 ELSE out.status
    BY <1>1, <2>1 DEF OutType
  <2>3. out.status \in {0, 304} /\ (out.status = 304 <=> ~out.modified)
        /\ filesize \in Sizes /\ seen \in Versions /\ out.mtime = Mtime[target][seen]
    BY <2>1 DEF OutOK
  <2>. QED
    BY <2>1, <2>2, <2>3 DEF OutOK, Versions
<1>14. ASSUME pc' \in {"idle", "closed", "open", "body"}, UNCHANGED <<out, filesize, target, seen>>,
              pc' = "open" => out.status = 200,
              pc' = "body" => out.status \in {200, 404}
       PROVE  OutOK'
  BY <1>14 DEF OutOK, Versions
<1>15. CASE HeaderWritten
  <2>1. /\ pc = "header" /\ UNCHANGED <<out, filesize, target, seen>>
        /\ pc' = IF out.status = 404 THEN "body"
                 ELSE IF WriteFails \/ ~out.modified THEN AfterResponse ELSE "open"
    BY <1>15 DEF HeaderWritten, server
  <2>2. out.status \in {200, 304, 404} /\ (out.status = 304 <=> ~out.modified)
    BY <2>1 DEF OutOK
  <2>3. \/ pc' = "body" /\ out.status = 404
        \/ pc' \in {"idle", "closed"}
        \/ pc' = "open" /\ out.status = 200
    BY <2>1, <2>2 DEF AfterResponse
  <2>. QED
    BY <1>14, <2>1, <2>3
<1>16. CASE Open
  <2>1. pc = "open" /\ pc' = "body" /\ UNCHANGED <<out, filesize, target, seen>>
    BY <1>16 DEF Open, history
  <2>. QED
    BY <1>14, <2>1 DEF OutOK
<1>17. CASE BodyWritten
  <2>1. pc' \in {"idle", "closed"} /\ UNCHANGED <<out, filesize, target, seen>>
    BY <1>17 DEF BodyWritten, AfterResponse
  <2>. QED
    BY <1>14, <2>1
<1>. QED
  BY <1>3, <1>4, <1>5, <1>7, <1>8, <1>9, <1>10, <1>11, <1>12, <1>13, <1>15, <1>16, <1>17
     DEF Next, Server, World

-----------------------------------------------------------------------------
(* What the body is written from *)

LEMMA StepSourceOK ==
  ASSUME TypeOK, FrameOK, OutOK, SourceOK, Next
  PROVE  SourceOK'
<1>1. /\ file \in [Files -> [version : Versions, size : Sizes, there : BOOLEAN]]
      /\ target \in Files /\ Index \in Files /\ out \in OutType
      /\ indexaddr \in [version : Versions, size : Sizes]
      /\ src \in [version : {0} \cup Versions, size : {0} \cup Sizes, mapped : Nat]
      /\ filesize \in Nat /\ off \in Nat /\ room \in Nat /\ Versions \subseteq Nat
  BY FileFacts, LengthsAssumption DEF TypeOK, OutType, Versions
<1>2. /\ indexaddr.version <= file[Index].version
      /\ indexaddr.version = file[Index].version => indexaddr.size = file[Index].size
  BY DEF SourceOK
<1>3. pc \in {"handle", "header", "open"} /\ steady =>
        IF target = Index
          THEN indexaddr.version = seen /\ indexaddr.size = filesize
          ELSE file[target].version = seen /\ file[target].size = filesize /\ file[target].there
  BY DEF SourceOK
<1>4. ASSUME UNCHANGED <<file, indexaddr, target, filesize, out, src, sentBody, seen>>, steady' => steady,
             pc' = pc \/ pc' \in {"idle", "parse", "stat", "closed"}
      PROVE  SourceOK'
  BY <1>4 DEF SourceOK, BodyIsAsDated
<1>5. ASSUME NEW f \in Files, Replace(f) \/ Remove(f)
      PROVE  SourceOK'
  <2>1. /\ UNCHANGED <<indexaddr, target, filesize, out, src, sentBody, pc, seen>>
        /\ steady' = (steady /\ (f # target \/ Opened))
    BY <1>5 DEF Replace, Remove, server, wire
  <2>2. /\ \A g \in Files \ {f} : file'[g] = file[g]
        /\ \/ file'[f].version > file[f].version /\ file'[f].version \in Nat
           \/ file'[f].version = file[f].version /\ file'[f].size = file[f].size
    <3>1. CASE Replace(f)
      <4>1. PICK v \in Versions : v > file[f].version /\ file' = [file EXCEPT ![f] = File(f, v)]
        BY <3>1 DEF Replace
      <4>2. File(f, v).version = v /\ v \in Nat
        BY <1>1, FileIsFile
      <4>. QED
        BY <1>1, <4>1, <4>2
    <3>2. CASE Remove(f)
      BY <1>1, <3>2 DEF Remove
    <3>. QED
      BY <1>5, <3>1, <3>2
  <2>3. /\ indexaddr'.version <= file'[Index].version
        /\ indexaddr'.version = file'[Index].version => indexaddr'.size = file'[Index].size
    <3>1. indexaddr.version \in Nat /\ file[Index].version \in Nat
      BY <1>1
    <3>. QED
      BY <1>1, <1>2, <2>1, <2>2, <3>1
  <2>4. pc' \in {"handle", "header", "open"} /\ steady' =>
          IF target' = Index
            THEN indexaddr'.version = seen' /\ indexaddr'.size = filesize'
            ELSE /\ file'[target'].version = seen' /\ file'[target'].size = filesize'
                 /\ file'[target'].there
    BY <1>1, <1>3, <2>1, <2>2 DEF Opened
  <2>. QED
    BY <2>1, <2>3, <2>4 DEF SourceOK, BodyIsAsDated
<1>6. ASSUME NEW h \in Headers, AddHeader(h)
      PROVE  SourceOK'
  BY <1>4, <1>6 DEF AddHeader, world, wire, history
<1>7. CASE ClientReads \/ HeadersEnd
  BY <1>4, <1>7 DEF ClientReads, HeadersEnd, world, server, wire, history
<1>8. ASSUME pc' \in {"idle", "parse"}, out'.status = 0, UNCHANGED <<file, indexaddr>>
      PROVE  SourceOK'
  BY <1>2, <1>8 DEF SourceOK, BodyIsAsDated
<1>9. ASSUME NEW f \in Files, Ask(f)
      PROVE  SourceOK'
  BY <1>8, <1>9 DEF Ask, world, NoOut
<1>10. CASE Reconnect
  BY <1>8, <1>10 DEF Reconnect, world, NoOut
<1>11. CASE StatFails
  <2>1. pc = "stat" /\ pc' = "header" /\ steady' = steady /\ UNCHANGED <<file, indexaddr>>
    BY <1>11 DEF StatFails, world
  <2>2. ~steady
    BY <2>1 DEF OutOK
  <2>. QED
    BY <1>2, <2>1, <2>2 DEF SourceOK, BodyIsAsDated
<1>12. CASE Stat
  <2>1. /\ pc = "stat" /\ pc' = "handle" /\ filesize' = file[target].size
        /\ seen' = file[target].version /\ file[target].there /\ out'.status = 0
        /\ steady' = (target = Index => file[Index].version = indexaddr.version)
        /\ UNCHANGED <<file, indexaddr, target>>
    <3> DEFINE d == Mtime[target][file[target].version]
    <3>1. pc = "stat" /\ out' = [out EXCEPT !.mtime = d]
      BY <1>12 DEF Stat
    <3> HIDE DEF d
    <3>2. out'.status = 0
      BY <3>1 DEF OutOK, NoOut
    <3>. QED
      BY <1>12, <3>2 DEF Stat, world
  <2>2. out'.status = 0 /\ seen' = file[target].version
    BY <2>1
  <2>3. steady' =>
          IF target = Index
            THEN indexaddr.version = seen' /\ indexaddr.size = filesize'
            ELSE file[target].version = seen' /\ file[target].size = filesize' /\ file[target].there
    BY <1>2, <2>1, <2>2
  <2>4. UNCHANGED <<file, indexaddr, target>> /\ pc' = "handle"
    BY <2>1
  <2>. QED
    BY <1>2, <2>2, <2>3, <2>4 DEF SourceOK, BodyIsAsDated
<1>13. CASE HandleHeader
  <2>1. pc = "handle" /\ UNCHANGED <<pc, file, indexaddr, target, filesize, seen, steady>>
    BY <1>13 DEF HandleHeader, world, history
  <2>2. seen' = seen /\ out'.status # 200
    <3>1. out.status \in {0, 304}
      BY <2>1 DEF OutOK
    <3>. QED
      BY <1>1, <1>13, <3>1 DEF HandleHeader, OutType, history
  <2>. QED
    BY <1>2, <1>3, <2>1, <2>2 DEF SourceOK, BodyIsAsDated
<1>14. CASE HeadersHandled
  <2>1. /\ pc = "handle" /\ pc' = "header"
        /\ UNCHANGED <<file, indexaddr, target, filesize, seen, steady, sentBody>>
    BY <1>14 DEF HeadersHandled, world, wire, history
  <2>2. seen' = seen
    BY <2>1
  <2>3. sentBody' = <<>>
    BY <2>1 DEF FrameOK, Begun
  <2>4. BodyIsAsDated'
    BY <1>1, <2>1, <2>3 DEF BodyIsAsDated
  <2>. QED
    BY <1>2, <1>3, <2>1, <2>2, <2>4 DEF SourceOK
<1>15. CASE Write
  <2>1. UNCHANGED <<pc, file, indexaddr, target, filesize, out, src, seen, steady>>
    BY <1>15 DEF Write, world, server, history
  <2>2. CASE pc = "header"
    <3>1. sentBody' = sentBody
      BY <1>15, <2>2 DEF Write
    <3>. QED
      BY <1>4, <2>1, <3>1
  <2>3. CASE pc = "body"
    <3> DEFINE n == Smaller(room, Smaller(Asked, InMemory) - off)
    <3> DEFINE t == [i \in 1 .. n |-> Unit(off + i)]
    <3>1. sentBody' = sentBody \o t /\ off < InMemory
      BY <1>15, <2>3 DEF Write
    <3>2. out.status \in {200, 404}
      BY <2>3 DEF OutOK
    <3>3. CASE out.status = 404
      BY <1>2, <2>1, <2>3, <3>3 DEF SourceOK, BodyIsAsDated
    <3>4. CASE out.status = 200
      <4>1. Asked = filesize /\ InMemory = src.mapped
        BY <2>3, <3>4 DEF Asked, InMemory
      <4>2. src # NoSrc
        BY <1>1, <3>1, <4>1 DEF NoSrc
      <4>3. n \in Nat /\ off + n <= filesize
        BY <1>1, <1>15, <4>1 DEF Write, Smaller
      <4>4. sentBody \in Seq(Units) /\ Len(sentBody) = off
        BY <2>3 DEF FrameOK
      <4> HIDE DEF n
      <4>5. t \in Seq(Units) /\ Len(t) = n
        BY <1>1, <4>3 DEF Unit, Units
      <4>6. \A i \in 1 .. n : t[i] = Unit(off + i)
        OBVIOUS
      <4> HIDE DEF t
      <4>7. Len(sentBody') = off + n
        <5>1. Len(sentBody \o t) = Len(sentBody) + Len(t)
          BY <4>4, <4>5
        <5>. QED
          BY <3>1, <4>4, <4>5, <5>1
      <4>8. \A i \in 1 .. off + n :
              sentBody'[i] = IF i <= off THEN sentBody[i] ELSE t[i - off]
        <5>1. \A i \in 1 .. Len(sentBody) + Len(t) :
                (sentBody \o t)[i] = IF i <= Len(sentBody) THEN sentBody[i] ELSE t[i - Len(sentBody)]
          BY ONLY <4>4, <4>5
        <5>. QED
          BY ONLY <3>1, <4>4, <4>5, <5>1
      <4>9. steady => BodyIsAsDated'
        <5>. SUFFICES ASSUME steady
                      PROVE  BodyIsAsDated'
          OBVIOUS
        <5>1. src.version = seen /\ src.size = filesize
          BY <2>3, <3>4, <4>2 DEF SourceOK
        <5>2. \A i \in 1 .. off : sentBody[i] = <<seen, i>>
          BY <3>4, <4>4 DEF SourceOK, BodyIsAsDated
        <5>3. \A i \in 1 .. n : t[i] = <<seen, off + i>>
          BY <1>1, <4>3, <4>6, <5>1 DEF Unit
        <5>4. \A i \in 1 .. off + n : sentBody'[i] = <<seen, i>>
          BY <1>1, <4>3, <4>8, <5>2, <5>3
        <5>5. sentBody' \in Seq(Units) /\ DOMAIN sentBody' = 1 .. off + n
          BY <3>1, <4>4, <4>5, <4>7
        <5>. QED
          BY <2>1, <4>3, <4>7, <5>4, <5>5 DEF BodyIsAsDated
      <4>10. ~steady => BodyIsAsDated'
        BY <2>1 DEF BodyIsAsDated
      <4>. QED
        BY <1>2, <2>1, <2>3, <4>2, <4>9, <4>10 DEF SourceOK
    <3>. QED
      BY <3>2, <3>3, <3>4
  <2>. QED
    BY <1>15, <2>2, <2>3 DEF Write
<1>16. CASE HeaderWritten
  <2>1. /\ pc = "header" /\ UNCHANGED <<file, indexaddr, target, filesize, out, sentBody, seen, steady>>
        /\ pc' \in {"body", "open", "idle", "closed"} /\ (pc' = "body" => out.status = 404)
    BY <1>16 DEF HeaderWritten, AfterResponse, world, server, wire
  <2>2. BodyIsAsDated'
    BY <2>1 DEF SourceOK, BodyIsAsDated
  <2>. QED
    BY <1>2, <1>3, <2>1, <2>2 DEF SourceOK
<1>17. CASE Open
  <2>1. /\ pc = "open" /\ pc' = "body"
        /\ UNCHANGED <<file, indexaddr, target, filesize, out, sentBody, seen, steady>>
    BY <1>17 DEF Open, world, wire, history
  <2>2. sentBody' = <<>>
    BY <2>1 DEF FrameOK
  <2>3. BodyIsAsDated'
    BY <2>1 DEF SourceOK, BodyIsAsDated
  <2>4. \/ src' = NoSrc
        \/ target = Index /\ src'.version = indexaddr.version /\ src'.size = indexaddr.size
        \/ /\ target # Index
           /\ src'.version = file[target].version /\ src'.size = file[target].size
    BY <1>17 DEF Open
  <2>. QED
    BY <1>2, <1>3, <2>1, <2>2, <2>3, <2>4 DEF SourceOK
<1>18. CASE BodyWritten
  <2>1. /\ pc' \in {"idle", "closed"}
        /\ UNCHANGED <<file, indexaddr, target, filesize, out, sentBody, seen, steady>>
    BY <1>18 DEF BodyWritten, AfterResponse, wire
  <2>2. BodyIsAsDated'
    BY <2>1 DEF SourceOK, BodyIsAsDated
  <2>. QED
    BY <1>2, <2>1, <2>2 DEF SourceOK
<1>. QED
  BY <1>5, <1>6, <1>7, <1>9, <1>10, <1>11, <1>12, <1>13, <1>14, <1>15, <1>16, <1>17, <1>18
     DEF Next, Server, World

-----------------------------------------------------------------------------
(* What the client keeps *)

LEMMA StepCacheOK ==
  ASSUME TypeOK, FrameOK, OutOK, SourceOK, CacheOK, LInv, Next
  PROVE  CacheOK'
<1>1. /\ file \in [Files -> [version : Versions, size : Sizes, there : BOOLEAN]]
      /\ cache \in [Files -> [date : {0} \cup Dates, version : {0} \cup Versions, exact : BOOLEAN]]
      /\ seen \in {0} \cup Versions
      /\ value \in [Headers -> {KeepAlive, Other} \cup Dates]
      /\ target \in Files /\ Index \in Files /\ out \in OutType
      /\ indexaddr \in [version : Versions, size : Sizes]
      /\ Versions \subseteq Nat /\ live \subseteq Headers
  BY FileFacts, LengthsAssumption DEF TypeOK, ListTypeOK, OutType, Versions
<1>2. /\ \A g \in Files : cache[g].date # 0 =>
           /\ cache[g].version \in Versions /\ cache[g].date = Mtime[g][cache[g].version]
           /\ \/ cache[g].exact \/ file[g].version > cache[g].version
              \/ g = Index /\ cache[g].version # indexaddr.version
      /\ pc = "handle" /\ cache[target].date # 0 /\ ~cache[target].exact =>
           seen # cache[target].version \/ (target = Index /\ seen # indexaddr.version)
      /\ pc \in {"handle", "header", "open"} /\ out.status \in {0, 200} =>
           seen <= file[target].version
      /\ pc \in {"handle", "header", "open"} /\ out.status \in {0, 200} /\ ~steady =>
           \/ file[target].version > seen \/ (target = Index /\ seen # indexaddr.version)
           \/ target # Index /\ ~file[target].there
      /\ pc = "body" /\ out.status = 200 /\ ~steady =>
           \/ file[target].version > seen \/ (target = Index /\ seen # indexaddr.version)
           \/ src = NoSrc
      /\ pc \in {"parse", "stat", "handle"} /\ ~leftover =>
           \A h \in live : value[h] \in {KeepAlive, Other, cache[target].date}
      /\ pc \notin {"parse", "stat", "handle"} /\ ~leftover => live = {}
      /\ out.status = 304 /\ ~leftover /\ DateTells /\ (target = Index => seen = indexaddr.version) =>
           cache[target].version = seen /\ cache[target].exact
  BY DEF CacheOK, Outdated, NotModifiedIsTrue
<1>3. seen \in Nat /\ \A g \in Files : file[g].version \in Nat /\ cache[g].version \in Nat
  <2>1. seen \in {0} \cup Versions
    BY <1>1
  <2>2. \A g \in Files : file[g].version \in Versions /\ cache[g].version \in {0} \cup Versions
    BY <1>1
  <2>3. {0} \cup Versions \subseteq Nat
    BY LengthsAssumption DEF Versions
  <2>. QED
    BY <2>1, <2>2, <2>3
<1>4. LInv'
  BY StepLInv
<1>5. ASSUME UNCHANGED <<file, cache, indexaddr, target, value, out, src, live, leftover, seen, steady>>,
             pc' = pc \/ (pc = "parse" /\ pc' = "stat")
      PROVE  CacheOK'
  BY <1>2, <1>5 DEF CacheOK, Outdated, NotModifiedIsTrue, DateTells
<1>6. CASE ClientReads \/ HeadersEnd \/ Write
  BY <1>5, <1>6 DEF ClientReads, HeadersEnd, Write, world, server, list, history
<1>7. ASSUME NEW f \in Files, Replace(f) \/ Remove(f)
      PROVE  CacheOK'
  <2>1. /\ UNCHANGED <<cache, indexaddr, target, value, out, src, live, leftover, seen, pc>>
        /\ steady' = (steady /\ (f # target \/ Opened))
    BY <1>7 DEF Replace, Remove, server, list
  <2>2. /\ \A g \in Files \ {f} : file'[g] = file[g]
        /\ \/ file'[f].version > file[f].version /\ file'[f].version \in Nat
           \/ file'[f].version = file[f].version /\ ~file'[f].there
    <3>1. CASE Replace(f)
      <4>1. PICK v \in Versions : v > file[f].version /\ file' = [file EXCEPT ![f] = File(f, v)]
        BY <3>1 DEF Replace
      <4>2. File(f, v).version = v /\ v \in Nat
        BY <1>1, FileIsFile
      <4>. QED
        BY <1>1, <4>1, <4>2
    <3>2. CASE Remove(f)
      BY <1>1, <3>2 DEF Remove
    <3>. QED
      BY <1>7, <3>1, <3>2
  <2>3. \A g \in Files : file'[g].version \in Nat /\ file'[g].version >= file[g].version
    BY <1>3, <2>2
  <2>5. \A g \in Files : cache[g].date # 0 =>
          \/ cache[g].exact \/ file'[g].version > cache[g].version
          \/ g = Index /\ cache[g].version # indexaddr.version
    BY <1>2, <1>3, <2>3
  <2>6. pc \in {"handle", "header", "open"} /\ out.status \in {0, 200} /\ ~steady' =>
          \/ file'[target].version > seen \/ (target = Index /\ seen # indexaddr.version)
          \/ target # Index /\ ~file'[target].there
    <3>. SUFFICES ASSUME pc \in {"handle", "header", "open"}, out.status \in {0, 200}, ~steady'
                  PROVE  \/ file'[target].version > seen
                         \/ target = Index /\ seen # indexaddr.version
                         \/ target # Index /\ ~file'[target].there
      OBVIOUS
    <3>1. CASE steady
      <4>1. f = target /\ target # Index
        BY <2>1, <3>1 DEF Opened
      <4>2. file[target].version = seen
        BY <3>1, <4>1 DEF SourceOK
      <4>. QED
        BY <1>3, <2>2, <4>1, <4>2
    <3>2. CASE ~steady /\ f # target
      BY <1>1, <1>2, <2>2, <3>2
    <3>3. CASE ~steady /\ f = target
      BY <1>1, <1>2, <1>3, <2>2, <2>3, <3>3
    <3>. QED
      BY <3>1, <3>2, <3>3
  <2>7. pc = "body" /\ out.status = 200 /\ ~steady' =>
          \/ file'[target].version > seen \/ (target = Index /\ seen # indexaddr.version)
          \/ src = NoSrc
    <3>1. pc = "body" /\ ~steady' => ~steady
      BY <2>1 DEF Opened
    <3>. QED
      BY <1>1, <1>2, <1>3, <2>3, <3>1
  <2>8. pc \in {"handle", "header", "open"} /\ out.status \in {0, 200} =>
          seen <= file'[target].version
    BY <1>1, <1>2, <1>3, <2>3
  <2>. QED
    BY <1>2, <2>1, <2>5, <2>6, <2>7, <2>8 DEF CacheOK, Outdated, NotModifiedIsTrue, DateTells
<1>8. ASSUME pc' \in {"idle", "parse"}, out'.status = 0, UNCHANGED <<file, cache, indexaddr>>,
             ~leftover' => live' = {}
      PROVE  CacheOK'
  BY <1>2, <1>8 DEF CacheOK, Outdated, NotModifiedIsTrue, DateTells
<1>9. ASSUME NEW f \in Files, Ask(f)
      PROVE  CacheOK'
  <2>1. pc = "idle" /\ pc' = "parse" /\ UNCHANGED <<file, cache, indexaddr, live, leftover>>
    BY <1>9 DEF Ask, world, list
  <2>2. out'.status = 0
    BY <1>9 DEF Ask, NoOut
  <2>. QED
    BY <1>2, <1>8, <2>1, <2>2
<1>10. CASE Reconnect
  <2>1. pc' = "idle" /\ live' = {} /\ UNCHANGED <<file, cache, indexaddr>>
    BY <1>10 DEF Reconnect, ListReset, world
  <2>2. out'.status = 0
    BY <1>10 DEF Reconnect, NoOut
  <2>. QED
    BY <1>8, <2>1, <2>2
<1>11. ASSUME NEW h \in Headers, AddHeader(h)
       PROVE  CacheOK'
  <2>1. /\ pc = "parse" /\ UNCHANGED <<file, cache, indexaddr, target, out, src, pc, leftover, seen, steady>>
        /\ live' = live \cup {h}
    BY <1>11 DEF AddHeader, ListAdd, world, history
  <2>2. PICK v \in {KeepAlive, cache[target].date} : value' = [value EXCEPT ![h] = v]
    BY <1>11 DEF AddHeader
  <2>3. ~leftover' => \A g \in live' : value'[g] \in {KeepAlive, Other, cache[target].date}
    BY <1>1, <1>2, <2>1, <2>2
  <2>. QED
    BY <1>2, <2>1, <2>3 DEF CacheOK, Outdated, NotModifiedIsTrue, DateTells
<1>12. CASE StatFails
  <2>1. /\ pc' = "header" /\ UNCHANGED <<file, cache, indexaddr, live>>
        /\ leftover' = (leftover \/ live # {})
    BY <1>12 DEF StatFails, world, list
  <2>2. out'.status = 404
    BY <1>12 DEF StatFails, NoOut
  <2>3. ~leftover' => live' = {}
    BY <2>1
  <2>. QED
    BY <1>2, <2>1, <2>2, <2>3 DEF CacheOK, Outdated, NotModifiedIsTrue, DateTells
<1>13. CASE Stat
  <2>1. /\ pc = "stat" /\ pc' = "handle" /\ seen' = file[target].version
        /\ UNCHANGED <<file, cache, indexaddr, target, value, live, leftover>>
    BY <1>13 DEF Stat, world
  <2>2. out'.status = 0 /\ seen' = file[target].version
    <3> DEFINE d == Mtime[target][file[target].version]
    <3>1. out' = [NoOut EXCEPT !.mtime = d]
      BY <1>13 DEF Stat, OutOK
    <3> HIDE DEF d
    <3>. QED
      BY <2>1, <3>1 DEF NoOut
  <2>3. ~steady' => target = Index /\ seen' # indexaddr.version
    BY <1>13, <2>2 DEF Stat
  <2>5. cache[target].date # 0 /\ ~cache[target].exact =>
          seen' # cache[target].version \/ (target = Index /\ seen' # indexaddr.version)
    BY <1>1, <1>2, <1>3, <2>2
  <2>6. seen' <= file[target].version
    BY <1>1, <1>3, <2>2
  <2>. QED
    BY <1>2, <2>1, <2>2, <2>3, <2>5, <2>6 DEF CacheOK, Outdated, NotModifiedIsTrue, DateTells
<1>14. CASE HandleHeader
  <2>1. /\ pc = "handle" /\ pc' = pc /\ pos \in Headers
        /\ UNCHANGED <<file, cache, indexaddr, target, leftover, seen, steady>>
        /\ value' = [value EXCEPT ![pos] = Other] /\ live' = live \ {pos}
    BY <1>14 DEF HandleHeader, DropHeader, world, history
  <2>2. pos \in live
    BY <2>1, ListHeadAssumption DEF LInv, LoopAtFront, Lost
  <2>3. /\ out'.mtime = out.mtime
        /\ out'.status = IF Since(value[pos]) THEN 304 ELSE out.status
    BY <1>1, <1>14 DEF HandleHeader, OutType
  <2>4. out.status \in {0, 304}
    BY <2>1 DEF OutOK
  <2>5. ~leftover => \A h \in live' : value'[h] \in {KeepAlive, Other, cache[target].date}
    BY <1>1, <1>2, <2>1
  <2>6. out'.status = 304 /\ ~leftover /\ DateTells /\ (target = Index => seen = indexaddr.version) =>
          cache[target].version = seen /\ cache[target].exact
    <3>. SUFFICES ASSUME out'.status = 304, ~leftover, DateTells,
                         target = Index => seen = indexaddr.version
                  PROVE  cache[target].version = seen /\ cache[target].exact
      OBVIOUS
    <3>1. CASE out.status = 304
      BY <1>2, <3>1
    <3>2. CASE Since(value[pos])
      <4>1. value[pos] \in Dates /\ value[pos] = out.mtime
        BY <3>2 DEF Since
      <4>2. value[pos] # 0 /\ value[pos] # -1
        BY <4>1, FileFacts
      <4>4. cache[target].date = out.mtime /\ cache[target].date # 0
        BY <1>2, <2>1, <2>2, <4>1, <4>2 DEF KeepAlive, Other
      <4>3. cache[target].version = seen /\ cache[target].date # 0
        <5>1. /\ cache[target].version \in Versions
              /\ cache[target].date = Mtime[target][cache[target].version]
          BY <1>1, <1>2, <4>4
        <5>2. \A v \in Versions : Mtime[target][v] = out.mtime => v = seen
          BY DEF DateTells
        <5>. QED
          BY ONLY <4>4, <5>1, <5>2
      <4>. QED
        BY <1>2, <2>1, <4>3
    <3>. QED
      BY <2>3, <3>1, <3>2
  <2>. QED
    BY <1>2, <2>1, <2>3, <2>4, <2>5, <2>6 DEF CacheOK, Outdated, NotModifiedIsTrue, DateTells
<1>15. CASE HeadersHandled
  <2>1. /\ pc = "handle" /\ pc' = "header"
        /\ UNCHANGED <<file, cache, indexaddr, target, value, live, leftover, seen, steady>>
    BY <1>15 DEF HeadersHandled, world, list, history
  <2>2. out.status \in {0, 304}
    BY <2>1 DEF OutOK
  <2>3. out'.mtime = out.mtime /\ out'.status = IF out.status = 0 THEN 200 ELSE out.status
    BY <1>1, <1>15 DEF HeadersHandled, OutType
  <2>4. live' = {}
    BY <1>4, <2>1, <2>2, <2>3 DEF LInv, LoopAtFront
  <2>. QED
    BY <1>2, <2>1, <2>2, <2>3, <2>4 DEF CacheOK, Outdated, NotModifiedIsTrue, DateTells
<1>16. CASE HeaderWritten
  <2>1. /\ pc = "header" /\ pc' \in {"body", "open", "idle", "closed"}
        /\ pc' = "body" => out.status = 404
        /\ UNCHANGED <<file, cache, indexaddr, target, out, live, leftover, seen, steady>>
    BY <1>16 DEF HeaderWritten, AfterResponse, world, server, list
  <2>. QED
    BY <1>2, <2>1 DEF CacheOK, Outdated, NotModifiedIsTrue, DateTells
<1>17. CASE Open
  <2>1. /\ pc = "open" /\ pc' = "body"
        /\ UNCHANGED <<file, cache, indexaddr, target, out, live, leftover, seen, steady>>
    BY <1>17 DEF Open, world, list, history
  <2>2. target # Index /\ ~file[target].there => src' = NoSrc
    BY <1>17 DEF Open
  <2>. QED
    BY <1>2, <2>1, <2>2 DEF CacheOK, Outdated, NotModifiedIsTrue, DateTells
<1>18. CASE BodyWritten
  <2>1. /\ pc = "body" /\ pc' \in {"idle", "closed"}
        /\ UNCHANGED <<file, indexaddr, target, out, live, leftover, seen, steady>>
        /\ cache' = IF Whole THEN [cache EXCEPT ![target] = [date |-> out.mtime, version |-> seen,
                                                             exact |-> Exact]]
                    ELSE cache
    BY <1>18 DEF BodyWritten, AfterResponse, wire, list
  <2>2. out.status \in {200, 404}
    BY <2>1 DEF OutOK
  <2>3. Whole /\ ~Exact => file[target].version > seen
                           \/ (target = Index /\ seen # indexaddr.version)
    <3>. SUFFICES ASSUME Whole, ~Exact
                  PROVE  file[target].version > seen
                         \/ (target = Index /\ seen # indexaddr.version)
      OBVIOUS
    <3>1. out.status = 200 /\ Len(sentBody) = ContentLength
      BY DEF Whole
    <3>2. ~steady
      BY <3>1 DEF SourceOK, BodyIsAsDated, Exact
    <3>3. out.modified /\ filesize \in Sizes
      BY <3>1 DEF OutOK
    <3>4. Len(sentBody) > 0
      BY <3>1, <3>3, FileFacts DEF ContentLength
    <3>5. src # NoSrc
      BY <2>1, <3>1, <3>4 DEF SourceOK
    <3>. QED
      BY <1>2, <2>1, <3>1, <3>2, <3>5
  <2>4. \A g \in Files : cache'[g].date # 0 =>
          /\ cache'[g].version \in Versions /\ cache'[g].date = Mtime[g][cache'[g].version]
          /\ \/ cache'[g].exact \/ file[g].version > cache'[g].version
             \/ g = Index /\ cache'[g].version # indexaddr.version
    <3>1. CASE Whole
      <4>1. /\ cache'[target].version = seen /\ cache'[target].exact = Exact
            /\ cache'[target].date = Mtime[target][seen] /\ seen \in Versions
        <5>1. out.mtime = Mtime[target][seen] /\ seen \in Versions
          BY <3>1 DEF Whole, OutOK
        <5>. QED
          BY <1>1, <2>1, <3>1, <5>1
      <4>2. \A g \in Files \ {target} : cache'[g] = cache[g]
        BY <1>1, <2>1, <3>1
      <4>. QED
        BY <1>2, <2>3, <3>1, <4>1, <4>2
    <3>2. CASE ~Whole
      BY <1>2, <2>1, <3>2
    <3>. QED
      BY <3>1, <3>2
  <2>. QED
    BY <1>2, <2>1, <2>2, <2>4 DEF CacheOK, Outdated, NotModifiedIsTrue, DateTells
<1>. QED
  BY <1>6, <1>7, <1>9, <1>10, <1>11, <1>12, <1>13, <1>14, <1>15, <1>16, <1>17, <1>18
     DEF Next, Server, World

-----------------------------------------------------------------------------
(* The theorems *)

LEMMA StepRInv == LInv /\ RInv /\ [Next]_rvars => RInv'
<1>. SUFFICES ASSUME LInv, RInv, [Next]_rvars
              PROVE  RInv'
  OBVIOUS
<1>1. TypeOK /\ FrameOK /\ OutOK /\ SourceOK /\ CacheOK
  BY DEF RInv
<1>2. CASE Next
  BY <1>1, <1>2, StepTypeOK, StepFrameOK, StepOutOK, StepSourceOK, StepCacheOK DEF RInv
<1>3. CASE UNCHANGED rvars
  <2>1. UNCHANGED <<file, cache, room, indexaddr, target, value, pc, filesize, out, src, off>>
    BY <1>3 DEF rvars, world, server
  <2>2. UNCHANGED <<next, prev, live, pos, sentHeader, sentBody, broken, leftover, seen, steady>>
    BY <1>3 DEF rvars, list, wire, history
  <2>3. TypeOK'
    BY <1>1, <2>1, <2>2 DEF TypeOK, ListTypeOK, Nodes, Words, Versions
  <2>4. FrameOK'
    BY <1>1, <2>1, <2>2 DEF FrameOK, InFrame, Begun, Asked, ContentLength, Units, Versions
  <2>5. OutOK'
    BY <1>1, <2>1, <2>2 DEF OutOK, Versions
  <2>6. SourceOK'
    BY <1>1, <2>1, <2>2 DEF SourceOK, BodyIsAsDated
  <2>7. CacheOK'
    BY <1>1, <2>1, <2>2 DEF CacheOK, Outdated, NotModifiedIsTrue, DateTells, Versions
  <2>. QED
    BY <2>3, <2>4, <2>5, <2>6, <2>7 DEF RInv
<1>. QED
  BY <1>2, <1>3

LEMMA ResponseInductive == Spec => []RInv
BY InitRInv, StepRInv, ListInductive, PTL DEF Spec

\* The values of the response, of the files and of the client.
THEOREM ResponsesTyped == Spec => []TypeOK
<1>1. RInv => TypeOK
  BY DEF RInv
<1>. QED
  BY <1>1, ResponseInductive, PTL

\* A response that has ended without a failed write is on the wire as a whole, header
\* and as much body as its Content-length says: rio_writen of src/rio.c, serve_static and
\* do_error of src/http.c.
THEOREM ResponsesAreWhole == Spec => []InFrame
<1>1. RInv => InFrame
  BY DEF RInv, FrameOK, InFrame, Begun
<1>. QED
  BY <1>1, ResponseInductive, PTL

\* The body of a response is the file that stat saw and its header dates, as far as it was
\* written, if the file is not replaced between stat and open, nor the index page since
\* the start.
THEOREM BodiesAreAsDated == Spec => []BodyIsAsDated
<1>1. RInv => BodyIsAsDated
  BY DEF RInv, SourceOK
<1>. QED
  BY <1>1, ResponseInductive, PTL

\* lan_http_process_if_modified_since tells 304 only to a client that has the file as stat
\* saw it, whatever was replaced or removed while it was sent, in whatever order of dates,
\* if the date of that version is no other's.
THEOREM NotModifiedTells == Spec => []NotModifiedIsTrue
<1>1. RInv => NotModifiedIsTrue
  BY DEF RInv, CacheOK
<1>. QED
  BY <1>1, ResponseInductive, PTL
=============================================================================
