--------------------------- MODULE MCSlabRebalance ---------------------------
(* An instance of SlabRebalance for TLC: three pages, a class with two chunks in *)
(* a page and one with a single chunk                                            *)
EXTENDS SlabRebalance

TwoAndOne == [c \in 1..2 |-> 3 - c]
ThreePages == 1..3
TwoClasses == 1..2
=============================================================================
