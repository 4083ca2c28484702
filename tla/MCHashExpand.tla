---------------------------- MODULE MCHashExpand ----------------------------
(* An instance of HashExpand for TLC: a table that grows from one bucket to four *)
EXTENDS HashExpand, TLC

CONSTANTS a, b, a1, a2, b1

TwoForOne == (a1 :> a) @@ (a2 :> a) @@ (b1 :> b)
\* Together in one bucket, apart in two, and a moves to a new bucket of four.
Spread == (a :> 2) @@ (b :> 1)
=============================================================================
