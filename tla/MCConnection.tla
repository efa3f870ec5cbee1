---------------------------- MODULE MCConnection ----------------------------
(* Clients for Connection: what they send, and how it should be answered. *)
EXTENDS Connection, SequencesExt

Version == <<"sp", "H", "T", "T", "P", "/", "1", ".", "1">>
Header(key, value) == <<key, ":">> \o value \o <<"cr", "lf">>
Crlf == <<"cr", "lf">>
Get(uri, headers) == <<"G", "sp">> \o uri \o Version \o Crlf \o headers \o Crlf

\* head is where the first LF behind a version is: the line ends there.
Req(bytes, status, connection) ==
  [bytes |-> bytes, status |-> status, connection |-> connection,
   head  |-> CHOOSE i \in 3 .. Len(bytes) :
               bytes[i] = "lf" /\ \A j \in 3 .. i - 1 : bytes[j] # "lf"]

\* The stream of a client that makes these requests one after the other.
StreamOf(reqs, pipelined) ==
  LET upTo(k) == FlattenSeq([i \in 1 .. k |-> reqs[i].bytes])
  IN  [bytes |-> upTo(Len(reqs)), pipelined |-> pipelined,
       reqs  |-> [k \in 1 .. Len(reqs) |->
                    [head       |-> Len(upTo(k - 1)) + reqs[k].head,
                     end        |-> Len(upTo(k)),
                     status     |-> reqs[k].status,
                     connection |-> reqs[k].connection]]]

Host == Header("a", <<"a">>)
Keep == Header("K", <<"V">>)
Date == Header("I", <<"D", "E">>)

GetOnce  == Req(Get(<<"/", "F">>, Host), 200, "none")
GetKeep  == Req(Get(<<"/", "F">>, Keep), 200, "keep-alive")
GetRoot  == Req(Get(<<"/">>, Host \o Keep), 200, "keep-alive")
GetSame  == Req(Get(<<"/", "F">>, Date \o Keep), 304, "keep-alive")
GetNone  == Req(Get(<<"/", "N">>, Host), 404, "close")
GetNoneK == Req(Get(<<"/", "N">>, Keep), 404, "close")
GetDenied == Req(Get(<<"/", "X">>, Host), 403, "close")
\* Spaces where they are allowed, a bare LF after the request line.
GetLoose == Req(<<"cr", "lf", "G", "T", "sp", "sp", "/", "F", "sp", "sp", "H", "T", "T",
                  "P", "/", "1", "0", ".", "0", "1", "sp", "sp", "lf", "a", "sp", "sp",
                  ":", "sp", "a", "a", "cr", "lf", "cr", "lf">>, 200, "none")
\* Not HTTP.
Broken  == <<"G", "sp", "/", "F", "sp", "a">>

\* Clients that wait for their answers, and clients that do not.
RequestStreams ==
  {StreamOf(rs, FALSE) : rs \in
    { <<GetKeep, GetSame, GetOnce>>, <<GetNone, GetDenied, GetOnce>>,
      <<GetRoot, GetLoose, GetKeep>>, <<GetOnce, GetKeep>> }}
    \cup {StreamOf(rs, TRUE) : rs \in
    { <<GetSame, GetOnce, GetKeep>>, <<GetNone, GetDenied>>, <<GetRoot, GetLoose>> }}

AnyStreams ==
  {StreamOf(rs, TRUE) : rs \in { <<GetKeep, GetNone, GetKeep>>, <<GetLoose>> }}
    \cup {[bytes |-> Broken, reqs |-> <<>>, pipelined |-> TRUE]}

OneGet   == {StreamOf(<<GetOnce>>, FALSE)}
KeepThenDenied == {StreamOf(<<GetKeep, GetDenied>>, FALSE)}
AfterNotFound == {StreamOf(<<GetNoneK, GetOnce>>, FALSE)}
=============================================================================
