---------------------------- MODULE MCLruCrawler ----------------------------
(***************************************************************************)
(* Instances of LruCrawler for TLC.                                        *)
(***************************************************************************)
EXTENDS LruCrawler, TLC

CONSTANTS a1, a2, b1

\* Two items in one class and one in another.
TwoAndOne == (a1 :> 1) @@ (a2 :> 1) @@ (b1 :> 2)
=============================================================================
