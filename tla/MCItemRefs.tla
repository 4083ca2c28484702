----------------------------- MODULE MCItemRefs -----------------------------
(***************************************************************************)
(* Instances of ItemRefs for TLC.                                          *)
(***************************************************************************)
EXTENDS ItemRefs, TLC

CONSTANTS k1, k2, s1, s2

\* Two keys under locks of their own.
OwnStripes == (k1 :> s1) @@ (k2 :> s2)
\* Two keys that share an item lock.
SharedStripe == (k1 :> s1) @@ (k2 :> s1)

\* A single key.
OneStripe == k1 :> s1

\* Threads and chunks are interchangeable.
Symmetry == Permutations(Worker) \cup Permutations(Item)
\* So are keys that have a lock of their own, together with their locks.
OwnSymmetry == Symmetry \cup {(k1 :> k2) @@ (k2 :> k1) @@ (s1 :> s2) @@ (s2 :> s1)}
=============================================================================
