----------------------------- MODULE MCItemCache -----------------------------
(* Small instances of ItemCache: two keys and chunks, a clock of a few seconds *)
EXTENDS ItemCache, TLC

CONSTANTS c1, c2, k1, k2, letter

\* No action reads the last reply.
View == <<cache, lru, pending, cas_id, current_time, oldest_live, flushed_cas>>
Symmetry == Permutations(Conn) \cup Permutations(Key)

NoTimes == {}
Never == {0}
NeverOrSoon == {0, 1}
Relative == {0, 1, -1}     \* never, in a second, in the past
Now == {0}
=============================================================================
