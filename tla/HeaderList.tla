----------------------------- MODULE HeaderList -----------------------------
(***************************************************************************)
(* The list of the headers of a request: the ring of src/list.h with the   *)
(* loop of lan_http_handle_header of src/http_request.c, which frees each  *)
(* header and then asks the freed header for the next one.                 *)
(*                                                                         *)
(* What free leaves in a header is nobody's promise: the word next is as   *)
(* it was, or Junk.  A loop that has read Junk is lost, and what it does   *)
(* from there is not modelled.                                             *)
(***************************************************************************)
EXTENDS Integers

CONSTANTS
  Headers,   \* lan_http_header_t objects
  ListHead,  \* &r->list
  Nil,       \* NULL
  Junk       \* what else may be in memory that is not allocated

ASSUME ListHeadAssumption ==
  /\ ListHead \notin Headers /\ Nil \notin Headers \cup {ListHead}
  /\ Junk \notin Headers \cup {ListHead, Nil}

VARIABLES
  next, prev,   \* of the ring; Junk in a header that is not allocated
  live,         \* headers that have been allocated and not been freed
  pos           \* of list_for_each

list == <<next, prev, live, pos>>

Nodes == Headers \cup {ListHead}
Words == Nodes \cup {Nil, Junk}

ListTypeOK ==
  /\ next \in [Nodes -> Words] /\ prev \in [Nodes -> Words]
  /\ live \subseteq Headers
  /\ pos \in Words

\* INIT_LIST_HEAD
Alone == [n \in Nodes |-> IF n = ListHead THEN ListHead ELSE Junk]

ListReset == next' = Alone /\ prev' = Alone /\ live' = {} /\ pos' = ListHead

ListInit == next = Alone /\ prev = Alone /\ live = {} /\ pos = ListHead

ListAddOneWay(h) ==   \* faulty variant: prev->next is not set
  /\ h \in Headers \ live
  /\ live' = live \cup {h}
  /\ next' = [next EXCEPT ![h] = next[ListHead]]
  /\ prev' = [prev EXCEPT ![next[ListHead]] = h, ![h] = ListHead]
  /\ UNCHANGED pos

\* malloc and list_add: the new header goes to the front.
ListAdd(h) ==
  /\ h \in Headers \ live
  /\ live' = live \cup {h}
  /\ next' = [next EXCEPT ![h] = next[ListHead], ![ListHead] = h]
  /\ prev' = [prev EXCEPT ![next[ListHead]] = h, ![h] = ListHead]
  /\ UNCHANGED pos

UnlinkedClears(e) ==   \* faulty variant: with the line that is commented out
  [next EXCEPT ![prev[e]] = next[e], ![e] = Nil]
\* What list_del leaves in the next pointers: those of the entry itself stay.
Unlinked(e) == [next EXCEPT ![prev[e]] = next[e]]

\* One header has been looked at: list_del, free, and then pos->next, which is read from
\* the header that was freed: it is what list_del left there, if free left it too.
DropHeader ==
  /\ next' = [Unlinked(pos) EXCEPT ![pos] = Junk]
  /\ prev' = [prev EXCEPT ![next[pos]] = prev[pos], ![pos] = Junk]
  /\ live' = live \ {pos}
  /\ pos' \in {Unlinked(pos)[pos], Junk}

\* The loop has taken what free left for the next header.
Lost == pos = Junk

list_empty == next[ListHead] = ListHead /\ prev[ListHead] = ListHead

-----------------------------------------------------------------------------
(* Properties *)

\* The headers in the ring are allocated and linked both ways, and the loop stands on
\* one of them or is at its end.  It may be lost, since it reads the freed header
\* (src/list.h:72 after src/http_request.c:80); but if free left that word alone, then it
\* has not followed it to NULL, to a header that is freed or out of the ring.
RingIsSound ==
  /\ \A n \in live \cup {ListHead} :
       /\ next[n] \in live \cup {ListHead} /\ prev[next[n]] = n
       /\ prev[n] \in live \cup {ListHead} /\ next[prev[n]] = n
  /\ pos \in live \cup {ListHead} \/ Lost
=============================================================================
