----------------------------- MODULE MCResponse -----------------------------
(* A small instance of Response for TLC.  The second version of a page is  *)
(* older than the first, and the third has the date of the first.          *)
EXTENDS Response

Dated == [f \in Files |-> IF f = Index THEN <<1, 2, 2>> ELSE <<2, 1, 2>>]
Sized == [f \in Files |-> IF f = Index THEN <<1, 3, 1>> ELSE <<3, 1, 3>>]
=============================================================================
