--------------------------- MODULE ResponseProofs ---------------------------
(***************************************************************************)
(* The list of headers of Response while list_for_each frees what it       *)
(* stands on, for any number of headers and files.                         *)
(*                                                                         *)
(* That the ring is sound at each node does not keep a part of it from     *)
(* being cut off; the invariant therefore speaks of the whole ring as a    *)
(* chain of nodes from &r->list back to it.                                *)
(***************************************************************************)
EXTENDS Response, TLAPS

\* c is the ring, n headers between two times the head.
Chain(n, c) ==
  /\ c \in [0 .. n + 1 -> Nodes] /\ c[0] = ListHead /\ c[n + 1] = ListHead
  /\ \A i \in 1 .. n : c[i] \in live
  /\ \A h \in live : \E i \in 1 .. n : c[i] = h
  /\ \A i, j \in 1 .. n : c[i] = c[j] => i = j
  /\ \A i \in 0 .. n : next[c[i]] = c[i + 1] /\ prev[c[i + 1]] = c[i]

IsRing == \E n \in Nat : \E c \in [0 .. n + 1 -> Nodes] : Chain(n, c)

\* The loop takes the headers from the front, unless it is lost, and ends with none left.
LoopAtFront ==
  /\ pos \in live \cup {ListHead} \/ Lost
  /\ pc = "handle" => pos = next[ListHead] \/ Lost
  /\ pc \in {"header", "open", "body"} /\ out.status \in {200, 304} => live = {}

LInv == ListTypeOK /\ IsRing /\ LoopAtFront

-----------------------------------------------------------------------------
(* The ring *)

LEMMA AloneIsRing ==
  ASSUME next = Alone, prev = Alone, live = {}
  PROVE  IsRing
<1> DEFINE c == [i \in 0 .. 1 |-> ListHead]
<1>1. c \in [0 .. 0 + 1 -> Nodes] /\ c[0] = ListHead /\ c[0 + 1] = ListHead
  BY DEF Nodes
<1>2. \A i \in 0 .. 0 : next[c[i]] = c[i + 1] /\ prev[c[i + 1]] = c[i]
  BY DEF Alone, Nodes
<1>3. Chain(0, c)
  BY <1>1, <1>2 DEF Chain
<1>. QED
  BY <1>1, <1>3 DEF IsRing

LEMMA RingMakesSound ==
  ASSUME IsRing
  PROVE  \A n \in live \cup {ListHead} :
           /\ next[n] \in live \cup {ListHead} /\ prev[next[n]] = n
           /\ prev[n] \in live \cup {ListHead} /\ next[prev[n]] = n
<1>1. PICK m \in Nat : \E c \in [0 .. m + 1 -> Nodes] : Chain(m, c)
  BY DEF IsRing
<1>2. PICK c \in [0 .. m + 1 -> Nodes] : Chain(m, c)
  BY <1>1
<1>3. \A i \in 0 .. m + 1 : c[i] \in live \cup {ListHead}
  BY <1>2 DEF Chain
<1>4. \A i \in 0 .. m : next[c[i]] = c[i + 1] /\ prev[c[i + 1]] = c[i]
  BY <1>2 DEF Chain
<1>5. ASSUME NEW n \in live \cup {ListHead}
      PROVE  \E i \in 0 .. m : c[i] = n
  BY <1>2, <1>5 DEF Chain
<1>6. ASSUME NEW n \in live \cup {ListHead}
      PROVE  \E i \in 1 .. m + 1 : c[i] = n
  BY <1>2, <1>6 DEF Chain
<1>7. ASSUME NEW i \in 0 .. m
      PROVE  next[c[i]] \in live \cup {ListHead} /\ prev[next[c[i]]] = c[i]
  BY <1>3, <1>4
<1>8. ASSUME NEW i \in 1 .. m + 1
      PROVE  prev[c[i]] \in live \cup {ListHead} /\ next[prev[c[i]]] = c[i]
  <2>1. i - 1 \in 0 .. m /\ c[(i - 1) + 1] = c[i] /\ i - 1 \in 0 .. m + 1
    OBVIOUS
  <2>2. next[c[i - 1]] = c[i] /\ prev[c[i]] = c[i - 1]
    BY ONLY <1>4, <2>1
  <2>. QED
    BY ONLY <1>3, <2>1, <2>2
<1>. QED
  BY <1>5, <1>6, <1>7, <1>8

\* list_add puts a header in front of the chain.
LEMMA AddKeepsRing ==
  ASSUME ListTypeOK, IsRing, NEW h \in Headers, ListAdd(h)
  PROVE  ListTypeOK' /\ IsRing'
<1>1. PICK n \in Nat : \E c \in [0 .. n + 1 -> Nodes] : Chain(n, c)
  BY DEF IsRing
<1>2. PICK c \in [0 .. n + 1 -> Nodes] : Chain(n, c)
  BY <1>1
<1> DEFINE d == [i \in 0 .. (n + 1) + 1 |-> IF i = 0 THEN ListHead ELSE IF i = 1 THEN h ELSE c[i - 1]]
<1>3. /\ h \notin live /\ h # ListHead /\ ListHead \notin live /\ live' = live \cup {h}
      /\ h \in Nodes /\ ListHead \in Nodes
  BY ListHeadAssumption DEF ListAdd, ListTypeOK, Nodes
<1>4. /\ \A i \in 1 .. n : c[i] \in live
      /\ c[0] = ListHead /\ c[n + 1] = ListHead
      /\ \A i, j \in 1 .. n : c[i] = c[j] => i = j
      /\ \A i \in 0 .. n : next[c[i]] = c[i + 1] /\ prev[c[i + 1]] = c[i]
  BY <1>2 DEF Chain
<1>5. next[ListHead] = c[1] /\ c[1] \in Nodes
  BY <1>4
<1>6. /\ next' = [next EXCEPT ![h] = c[1], ![ListHead] = h]
      /\ prev' = [prev EXCEPT ![c[1]] = h, ![h] = ListHead] /\ pos' = pos
  BY <1>5 DEF ListAdd
<1>7. /\ next' \in [Nodes -> Words] /\ prev' \in [Nodes -> Words]
      /\ next'[h] = c[1] /\ next'[ListHead] = h
      /\ \A m \in Nodes \ {h, ListHead} : next'[m] = next[m]
      /\ prev'[h] = ListHead /\ (c[1] # h => prev'[c[1]] = h)
      /\ \A m \in Nodes \ {h, c[1]} : prev'[m] = prev[m]
  BY <1>3, <1>5, <1>6 DEF ListTypeOK, Words
<1>8. ListTypeOK'
  BY <1>3, <1>6, <1>7 DEF ListTypeOK
<1>9. /\ d \in [0 .. (n + 1) + 1 -> Nodes] /\ d[0] = ListHead /\ d[1] = h
      /\ d[(n + 1) + 1] = ListHead
      /\ \A i \in 2 .. n + 2 : d[i] = c[i - 1]
  BY <1>3, <1>4
<1>10. \A i \in 1 .. n + 1 : d[i] \in live'
  BY <1>3, <1>4, <1>9
<1>11. \A x \in live' : \E i \in 1 .. n + 1 : d[i] = x
  <2>1. ASSUME NEW x \in live
        PROVE  \E i \in 1 .. n + 1 : d[i] = x
    <3>1. PICK j \in 1 .. n : c[j] = x
      BY <1>2 DEF Chain
    <3>2. j + 1 \in 1 .. n + 1 /\ j + 1 \in 2 .. n + 2 /\ (j + 1) - 1 = j
      OBVIOUS
    <3>. QED
      BY <1>9, <3>1, <3>2
  <2>2. 1 \in 1 .. n + 1
    OBVIOUS
  <2>. QED
    BY <1>3, <1>9, <2>1, <2>2
<1>12. \A i, j \in 1 .. n + 1 : d[i] = d[j] => i = j
  <2>1. \A i \in 2 .. n + 1 : d[i] # h /\ i - 1 \in 1 .. n /\ d[i] = c[i - 1]
    BY <1>3, <1>4, <1>9
  <2>2. ASSUME NEW i \in 2 .. n + 1, NEW j \in 2 .. n + 1, d[i] = d[j]
        PROVE  i = j
    <3>1. i - 1 = j - 1
      BY <1>4, <2>1, <2>2
    <3>. QED
      BY <3>1
  <2>3. \A i \in 1 .. n + 1 : i = 1 \/ i \in 2 .. n + 1
    OBVIOUS
  <2>4. \A i \in 2 .. n + 1 : d[i] # d[1]
    BY <1>9, <2>1
  <2>. QED
    BY <2>2, <2>3, <2>4
<1>13. ASSUME NEW i \in 0 .. n + 1
       PROVE  next'[d[i]] = d[i + 1] /\ prev'[d[i + 1]] = d[i]
  <2>1. CASE i = 0
    BY <1>7, <1>9, <2>1
  <2>2. c[1] # h
    BY <1>3, <1>4
  <2>3. CASE i = 1
    <3>1. d[2] = c[1]
      BY <1>9
    <3>. QED
      BY <1>7, <1>9, <2>2, <2>3, <3>1
  <2>4. CASE i \notin {0, 1}
    <3>1. /\ i - 1 \in 1 .. n /\ d[i] = c[i - 1] /\ d[i + 1] = c[i] /\ (i - 1) + 1 = i
          /\ i \in 2 .. n + 1
      BY <1>9, <2>4
    <3>2. next[c[i - 1]] = c[i] /\ prev[c[i]] = c[i - 1]
      <4>1. i - 1 \in 0 .. n
        BY <3>1
      <4>. QED
        BY <1>4, <3>1, <4>1
    <3>3. c[i - 1] \in live /\ c[i - 1] \in Nodes /\ c[i] \in Nodes
      BY <1>2, <1>4, <3>1
    <3>4. c[i] # h /\ c[i] # c[1]
      <4>1. CASE i = n + 1
        <5>1. 1 \in 1 .. n
          BY <3>1, <4>1
        <5>. QED
          BY <1>3, <1>4, <4>1, <5>1
      <4>2. CASE i # n + 1
        <5>1. 1 \in 1 .. n /\ i \in 1 .. n /\ i # 1
          BY <3>1, <4>2
        <5>. QED
          BY <1>3, <1>4, <5>1
      <4>. QED
        BY <4>1, <4>2
    <3>. QED
      BY <1>3, <1>7, <3>1, <3>2, <3>3, <3>4
  <2>. QED
    BY <2>1, <2>3, <2>4
<1>14. Chain(n + 1, d)'
  BY <1>9, <1>10, <1>11, <1>12, <1>13 DEF Chain
<1>15. n + 1 \in Nat
  OBVIOUS
<1>. QED
  BY <1>8, <1>9, <1>14, <1>15 DEF IsRing

\* list_del and free of the first header: the loop goes on with the next one, if free has
\* left its address in the freed entry.
LEMMA DropKeepsRing ==
  ASSUME ListTypeOK, IsRing, pos = next[ListHead], pos \in live, DropHeader
  PROVE  ListTypeOK' /\ IsRing' /\ (Lost' \/ (pos' = next'[ListHead] /\ pos' \in live' \cup {ListHead}))
<1>1. PICK n \in Nat : \E c \in [0 .. n + 1 -> Nodes] : Chain(n, c)
  BY DEF IsRing
<1>2. PICK c \in [0 .. n + 1 -> Nodes] : Chain(n, c)
  BY <1>1
<1>3. /\ \A i \in 1 .. n : c[i] \in live
      /\ c[0] = ListHead /\ c[n + 1] = ListHead
      /\ \A i, j \in 1 .. n : c[i] = c[j] => i = j
      /\ \A i \in 0 .. n : next[c[i]] = c[i + 1] /\ prev[c[i + 1]] = c[i]
  BY <1>2 DEF Chain
<1>4. /\ ListHead \notin live /\ ListHead \in Nodes /\ live \subseteq Nodes
  BY ListHeadAssumption DEF ListTypeOK, Nodes
<1>5. pos = c[1] /\ prev[pos] = ListHead /\ n # 0
  <2>1. next[ListHead] = c[1] /\ prev[c[1]] = ListHead
    BY <1>3
  <2>2. n # 0
    BY <1>3, <1>4, <2>1
  <2>. QED
    BY <2>1, <2>2
<1>6. 1 \in 0 .. n /\ 2 \in 0 .. n + 1 /\ next[pos] = c[2] /\ c[2] \in Nodes
  <2>1. 1 \in 0 .. n /\ 2 \in 0 .. n + 1
    BY <1>5
  <2>. QED
    BY <1>3, <1>5, <2>1
<1>7. c[2] # pos
  <2>1. CASE n = 1
    BY <1>3, <1>4, <1>5, <2>1
  <2>2. CASE n # 1
    <3>1. 1 \in 1 .. n /\ 2 \in 1 .. n
      BY <1>5, <2>2
    <3>. QED
      BY <1>3, <1>5, <3>1
  <2>. QED
    BY <2>1, <2>2
<1>8. /\ next' = [[next EXCEPT ![ListHead] = c[2]] EXCEPT ![pos] = Junk]
      /\ prev' = [prev EXCEPT ![c[2]] = ListHead, ![pos] = Junk]
      /\ live' = live \ {pos} /\ pos' \in {[next EXCEPT ![ListHead] = c[2]][pos], Junk}
  BY <1>5, <1>6 DEF DropHeader, Unlinked
<1>9. /\ next' \in [Nodes -> Words] /\ prev' \in [Nodes -> Words]
      /\ next'[ListHead] = c[2] /\ \A m \in Nodes \ {pos, ListHead} : next'[m] = next[m]
      /\ prev'[c[2]] = ListHead /\ \A m \in Nodes \ {pos, c[2]} : prev'[m] = prev[m]
      /\ pos' = c[2] \/ Lost'
  BY <1>4, <1>6, <1>7, <1>8 DEF ListTypeOK, Words, Lost
<1>10. ListTypeOK'
  BY <1>6, <1>8, <1>9 DEF ListTypeOK, Words, Lost
<1> DEFINE d == [i \in 0 .. (n - 1) + 1 |-> IF i = 0 THEN ListHead ELSE c[i + 1]]
<1>11. /\ n - 1 \in Nat /\ d \in [0 .. (n - 1) + 1 -> Nodes] /\ d[0] = ListHead
       /\ \A i \in 1 .. n : d[i] = c[i + 1]
       /\ d[(n - 1) + 1] = ListHead
  BY <1>3, <1>4, <1>5
<1>12. \A i \in 1 .. n - 1 : d[i] \in live'
  <2>1. \A i \in 1 .. n - 1 : i + 1 \in 1 .. n /\ i + 1 # 1 /\ 1 \in 1 .. n /\ i \in 1 .. n
    OBVIOUS
  <2>. QED
    BY ONLY <1>3, <1>5, <1>8, <1>11, <2>1
<1>13. \A x \in live' : \E i \in 1 .. n - 1 : d[i] = x
  <2>. TAKE x \in live'
  <2>1. PICK j \in 1 .. n : c[j] = x
    BY <1>2, <1>8 DEF Chain
  <2>2. j # 1
    BY <1>5, <1>8, <2>1
  <2>3. j - 1 \in 1 .. n - 1 /\ j - 1 \in 1 .. n /\ (j - 1) + 1 = j
    BY <2>2
  <2>. QED
    BY <1>11, <2>1, <2>3
<1>14. \A i, j \in 1 .. n - 1 : d[i] = d[j] => i = j
  <2>. SUFFICES ASSUME NEW i \in 1 .. n - 1, NEW j \in 1 .. n - 1, d[i] = d[j]
                PROVE  i = j
    OBVIOUS
  <2>1. i + 1 \in 1 .. n /\ j + 1 \in 1 .. n /\ c[i + 1] = c[j + 1]
    BY <1>11
  <2>2. i + 1 = j + 1
    BY <1>3, <2>1
  <2>. QED
    BY <2>2
<1>15. ASSUME NEW i \in 0 .. n - 1
       PROVE  next'[d[i]] = d[i + 1] /\ prev'[d[i + 1]] = d[i]
  <2>1. i + 1 \in 1 .. n /\ d[i + 1] = c[i + 2]
    BY <1>11
  <2>2. CASE i = 0
    BY <1>9, <1>11, <2>1, <2>2
  <2>3. CASE i # 0
    <3>1. /\ i \in 1 .. n /\ d[i] = c[i + 1] /\ i + 1 \in 0 .. n /\ (i + 1) + 1 = i + 2
          /\ i + 1 \in 2 .. n /\ i + 2 \in 3 .. n + 1 /\ 1 \in 1 .. n /\ 2 \in 1 .. n
      BY <1>11, <2>3
    <3>2. next[c[i + 1]] = c[i + 2] /\ prev[c[i + 2]] = c[i + 1]
      BY <1>3, <3>1
    <3>3. c[i + 1] \in live /\ c[i + 1] # pos
      BY <1>3, <1>5, <3>1
    <3>4. c[i + 2] \in Nodes /\ c[i + 2] # pos /\ c[i + 2] # c[2]
      <4>1. CASE i + 2 = n + 1
        BY <1>3, <1>4, <1>5, <3>1, <4>1
      <4>2. CASE i + 2 # n + 1
        <5>1. i + 2 \in 1 .. n /\ i + 2 # 1 /\ i + 2 # 2
          BY <3>1, <4>2
        <5>. QED
          BY <1>3, <1>4, <1>5, <3>1, <5>1
      <4>. QED
        BY <4>1, <4>2
    <3>. QED
      BY <1>4, <1>9, <2>1, <3>1, <3>2, <3>3, <3>4
  <2>. QED
    BY <2>2, <2>3
<1>16. Chain(n - 1, d)'
  BY <1>11, <1>12, <1>13, <1>14, <1>15 DEF Chain
<1>17. c[2] \in live' \cup {ListHead}
  <2>1. CASE n = 1
    BY <1>3, <2>1
  <2>2. CASE n # 1
    <3>1. 2 \in 1 .. n
      BY <1>5, <2>2
    <3>. QED
      BY <1>3, <1>7, <1>8, <3>1
  <2>. QED
    BY <2>1, <2>2
<1>. QED
  BY <1>9, <1>10, <1>11, <1>16, <1>17 DEF IsRing

\* A loop that has come back to the head at its first step had nothing to do.
LEMMA EmptyAtHead ==
  ASSUME IsRing, ListHead \notin live, next[ListHead] = ListHead
  PROVE  live = {}
<1>1. PICK n \in Nat : \E c \in [0 .. n + 1 -> Nodes] : Chain(n, c)
  BY DEF IsRing
<1>2. PICK c \in [0 .. n + 1 -> Nodes] : Chain(n, c)
  BY <1>1
<1>3. c[1] = ListHead
  BY <1>2 DEF Chain
<1>4. n = 0
  <2>. SUFFICES ASSUME n # 0
                PROVE  FALSE
    OBVIOUS
  <2>1. 1 \in 1 .. n
    OBVIOUS
  <2>. QED
    BY <1>2, <1>3, <2>1 DEF Chain
<1>. QED
  BY <1>2, <1>4 DEF Chain
LEMMA SameList ==
  ASSUME ListTypeOK, IsRing, UNCHANGED <<next, prev, live>>, pos' \in Words
  PROVE  ListTypeOK' /\ IsRing'
<1>1. ListTypeOK'
  BY DEF ListTypeOK
<1>2. PICK n \in Nat : \E c \in [0 .. n + 1 -> Nodes] : Chain(n, c)
  BY DEF IsRing
<1>3. PICK c \in [0 .. n + 1 -> Nodes] : Chain(n, c)
  BY <1>2
<1>4. Chain(n, c)'
  BY <1>3 DEF Chain
<1>. QED
  BY <1>1, <1>4 DEF IsRing

LEMMA InitLInv == Init => LInv
<1>. SUFFICES ASSUME Init
              PROVE  LInv
  OBVIOUS
<1>1. next = Alone /\ prev = Alone /\ live = {} /\ pos = ListHead /\ pc = "idle"
  BY DEF Init, ListInit
<1>2. IsRing
  BY <1>1, AloneIsRing
<1>. QED
  BY <1>1, <1>2 DEF LInv, ListTypeOK, LoopAtFront, Alone, Nodes, Words

LEMMA StepLInv == LInv /\ [Next]_rvars => LInv'
<1>. SUFFICES ASSUME LInv, [Next]_rvars
              PROVE  LInv'
  OBVIOUS
<1>1. /\ ListTypeOK /\ IsRing /\ (pos \in live \cup {ListHead} \/ pos = Junk)
      /\ pc = "handle" => pos = next[ListHead] \/ pos = Junk
      /\ pc \in {"header", "open", "body"} /\ out.status \in {200, 304} => live = {}
  BY DEF LInv, LoopAtFront, Lost
<1>2. ListHead \notin live
  BY <1>1, ListHeadAssumption DEF ListTypeOK
<1>3. ASSUME UNCHANGED list,
             \/ UNCHANGED <<pc, out>>
             \/ pc' \in {"idle", "parse", "stat", "closed"}
             \/ pc' = "header" /\ out'.status = 404
             \/ pc \in {"header", "open", "body"} /\ pc' \in {"open", "body"} /\ out' = out
      PROVE  LInv'
  <2>1. UNCHANGED <<next, prev, live, pos>>
    BY <1>3 DEF list
  <2>2. ListTypeOK' /\ IsRing'
    BY <1>1, <2>1, SameList DEF ListTypeOK
  <2>3. LoopAtFront'
    BY <1>1, <1>3, <2>1 DEF LoopAtFront, Lost
  <2>. QED
    BY <2>2, <2>3 DEF LInv
<1>4. ASSUME NEW f \in Files, Replace(f) \/ Remove(f) \/ Ask(f)
      PROVE  LInv'
  BY <1>3, <1>4 DEF Replace, Remove, Ask, server
<1>5. CASE ClientReads \/ HeadersEnd \/ Write \/ Open \/ BodyWritten \/ UNCHANGED rvars
  BY <1>3, <1>5 DEF ClientReads, HeadersEnd, Write, Open, BodyWritten, AfterResponse, rvars, server
<1>6. CASE HeaderWritten
  <2>1. pc' \in {"body", "open", "idle", "closed"} /\ UNCHANGED <<list, out>> /\ pc = "header"
    BY <1>6 DEF HeaderWritten, AfterResponse, server
  <2>. QED
    BY <1>3, <2>1
<1>7. CASE StatFails
  <2>1. UNCHANGED list /\ pc' = "header" /\ out'.status = 404
    BY <1>7 DEF StatFails, NoOut
  <2>. QED
    BY <1>3, <2>1
<1>8. ASSUME NEW h \in Headers, AddHeader(h)
      PROVE  LInv'
  <2>1. ListAdd(h) /\ pc = "parse" /\ UNCHANGED <<pc, pos>> /\ live' = live \cup {h}
    BY <1>8 DEF AddHeader, ListAdd
  <2>2. ListTypeOK' /\ IsRing'
    BY <1>1, <2>1, AddKeepsRing
  <2>. QED
    BY <1>1, <2>1, <2>2 DEF LInv, LoopAtFront, Lost
<1>9. CASE Reconnect
  <2>1. next' = Alone /\ prev' = Alone /\ live' = {} /\ pos' = ListHead /\ pc' = "idle"
    BY <1>9 DEF Reconnect, ListReset
  <2> DEFINE c == [i \in 0 .. 1 |-> ListHead]
  <2>2. c \in [0 .. 0 + 1 -> Nodes] /\ c[0] = ListHead /\ c[0 + 1] = ListHead
    BY DEF Nodes
  <2>3. \A i \in 0 .. 0 : next'[c[i]] = c[i + 1] /\ prev'[c[i + 1]] = c[i]
    BY <2>1 DEF Alone, Nodes
  <2>4. Chain(0, c)'
    BY <2>1, <2>2, <2>3 DEF Chain
  <2> HIDE DEF c
  <2>5. IsRing'
    BY <2>2, <2>4 DEF IsRing
  <2>. QED
    BY <2>1, <2>5 DEF LInv, ListTypeOK, LoopAtFront, Alone, Nodes, Words
<1>10. CASE Stat
  <2>1. UNCHANGED <<next, prev, live>> /\ pos' = next[ListHead] /\ pc' = "handle"
    BY <1>10 DEF Stat
  <2>2. pos' \in live \cup {ListHead}
    BY <1>1, <2>1, RingMakesSound
  <2>3. pos' \in Words
    BY <1>1, <2>2 DEF ListTypeOK, Nodes, Words
  <2>4. ListTypeOK' /\ IsRing'
    BY <1>1, <2>1, <2>3, SameList
  <2>. QED
    BY <2>1, <2>2, <2>4 DEF LInv, LoopAtFront
<1>11. CASE HandleHeader
  <2>1. DropHeader /\ pc = "handle" /\ pos \in Headers /\ pc' = pc
    BY <1>11 DEF HandleHeader
  <2>2. pos = next[ListHead] /\ pos \in live
    BY <1>1, <2>1, ListHeadAssumption
  <2>3. ListTypeOK' /\ IsRing' /\ (Lost' \/ (pos' = next'[ListHead] /\ pos' \in live' \cup {ListHead}))
    BY <1>1, <2>1, <2>2, DropKeepsRing
  <2>. QED
    BY <2>1, <2>3 DEF LInv, LoopAtFront
<1>12. CASE HeadersHandled
  <2>1. UNCHANGED list /\ pc = "handle" /\ pos = ListHead /\ pc' = "header"
    BY <1>12 DEF HeadersHandled
  <2>2. live = {}
    BY <1>1, <1>2, <2>1, EmptyAtHead, ListHeadAssumption
  <2>3. UNCHANGED <<next, prev, live, pos>>
    BY <2>1 DEF list
  <2>4. ListTypeOK' /\ IsRing'
    BY <1>1, <2>3, SameList DEF ListTypeOK
  <2>. QED
    BY <1>1, <2>1, <2>2, <2>3, <2>4 DEF LInv, LoopAtFront, Lost
<1>. QED
  BY <1>4, <1>5, <1>6, <1>7, <1>8, <1>9, <1>10, <1>11, <1>12 DEF Next, Server, World

LEMMA ListInductive == Spec => []LInv
BY InitLInv, StepLInv, PTL DEF Spec

\* list_for_each of src/list.h reads the next entry from one that list_del has unlinked
\* and free has given back.  If free leaves that word alone, the loop visits the ring and
\* nothing else; if not, the loop is lost, and the ring is still sound.
THEOREM RingStaysSound == Spec => []RingIsSound
<1>1. LInv => RingIsSound
  <2>. SUFFICES ASSUME LInv
                PROVE  RingIsSound
    OBVIOUS
  <2>1. IsRing /\ (pos \in live \cup {ListHead} \/ Lost)
    BY DEF LInv, LoopAtFront
  <2>. QED
    BY <2>1, RingMakesSound DEF RingIsSound
<1>. QED
  BY <1>1, ListInductive, PTL

\* When the response to a request for a file is written, its list of headers is empty
\* and every header has been freed (the check at src/http.c:129): a loop that comes to
\* its end has left none out, whatever free does to the headers it is given.
THEOREM ListIsEmptied == Spec => []HeadersAllHandled
<1>1. LInv => HeadersAllHandled
  <2>. SUFFICES ASSUME LInv, pc \in {"header", "open", "body"}, out.status \in {200, 304}
                PROVE  live = {} /\ list_empty
    BY DEF HeadersAllHandled
  <2>1. IsRing /\ live = {}
    BY DEF LInv, LoopAtFront
  <2>2. next[ListHead] = ListHead /\ prev[ListHead] = ListHead
    BY <2>1, RingMakesSound
  <2>. QED
    BY <2>1, <2>2 DEF list_empty
<1>. QED
  BY <1>1, ListInductive, PTL
=============================================================================
