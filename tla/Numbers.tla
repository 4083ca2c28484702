------------------------------ MODULE Numbers ------------------------------
(***************************************************************************)
(* Values as the text that incr and decr read and write.  A value is a     *)
(* sequence of characters: digits of base Base, Space, and any others.     *)
(***************************************************************************)
EXTENDS Naturals, Sequences, SequencesExt

CONSTANTS
  Base,     \* 10
  ValMod,   \* 2^64
  MaxLen,   \* the longest value that fits an item
  Space     \* what an in-place update pads with

ASSUME BaseAssumption ==
  /\ Base \in Nat /\ Base > 1 /\ MaxLen \in Nat \ {0}
  /\ ValMod \in Nat \ {0} /\ ValMod <= Base ^ MaxLen

Digit == 0..(Base - 1)

\* The number a nonempty string of digits denotes.
Denotes(s) == FoldLeft(LAMBDA n, d : n * Base + d, 0, s)

\* strtoull's reading: the digits val starts with, up to the first other character.
Digits(val) ==
  LET n == CHOOSE i \in 0..Len(val) :
             /\ \A j \in 1..i : val[j] \in Digit
             /\ i < Len(val) => val[i + 1] \notin Digit
  IN SubSeq(val, 1, n)

\* safe_strtoull: digits that a space or the end of the data follows, in range.
Numeric(val) ==
  LET ds == Digits(val) IN
  /\ ds # <<>> /\ Denotes(ds) \in 0..(ValMod - 1)
  /\ Len(ds) < Len(val) => val[Len(ds) + 1] = Space

Number(val) == Denotes(Digits(val))

\* snprintf "%llu": no leading zero.
IsText(s, n) == Denotes(s) = n /\ (Len(s) > 1 => s[1] # 0)
Numeral == UNION {[1..l -> Digit] : l \in 1..MaxLen}
Text(n) == CHOOSE s \in Numeral : IsText(s, n)

\* Every number below ValMod can be written down: as ValMod <= Base ^ MaxLen, MaxLen digits
\* are enough.
ASSUME TextAssumption == \A n \in 0..(ValMod - 1) : \E s \in Numeral : IsText(s, n)

\* do_add_delta: incr wraps around at 2^64, decr stops at 0.
AddDelta(op, n, d) ==
  IF op = "incr" THEN (n + d) % ValMod ELSE IF d > n THEN 0 ELSE n - d
Result(op, val, d) == Text(AddDelta(op, Number(val), d))

\* Written over a value of length len, the rest filled with spaces.
Padded(s, len) == s \o [i \in 1..(len - Len(s)) |-> Space]
=============================================================================
