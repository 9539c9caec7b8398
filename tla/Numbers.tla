------------------------------- MODULE Numbers --------------------------------
(***************************************************************************)
(* core/src/util: u128, a number in two halves that are added and          *)
(* multiplied with 64-bit arithmetic, and SpotifyId, which reads it from   *)
(* and writes it to text and bytes.  The half of a half is Quarter, 2^32   *)
(* in the code; HexBase (16) and WordBase (62) are the bases of the texts; *)
(* HalfDigits is the number of hex digits in a half (16).  A byte is a     *)
(* digit in base Quarter, of which a half has 2 (8 in the code).           *)
(*                                                                         *)
(* Where a debug build panics on overflow a release build wraps around:    *)
(* a number carries whether computing it panicked.                         *)
(***************************************************************************)
EXTENDS Integers, Sequences

CONSTANTS Quarter, HexBase, WordBase, HalfDigits

Word == Quarter * Quarter

\* base to the power of n.
Power(base, n) ==
  LET power[i \in 0 .. n] == IF i = 0 THEN 1 ELSE base * power[i - 1]
  IN power[n]

ASSUME NumbersAssumption ==
  /\ Quarter \in Nat /\ Quarter >= 2
  /\ HexBase \in 2 .. Quarter - 1 /\ Quarter % HexBase = 0
  /\ WordBase \in 2 .. Quarter - 1
  /\ HalfDigits \in Nat /\ Power(HexBase, HalfDigits) = Word

Parts(high, low) == [high |-> high, low |-> low, panicked |-> FALSE]

Zero == Parts(0, 0)

\* The number that two halves stand for.
Value(n) == n.high * Word + n.low

\* Mutant: a sum that has not changed is taken for one that wrapped around.
CarryOffByOne(low, summand) == IF low <= summand THEN 1 ELSE 0

\* The sum of the low halves wrapped around.
Carry(low, summand) == IF low < summand THEN 1 ELSE 0

Add(a, b, debug) ==
  LET low == (a.low + b.low) % Word
      high == a.high + b.high + Carry(low, a.low)
  IN [high |-> high % Word, low |-> low,
      panicked |-> \/ a.panicked \/ b.panicked
                   \/ debug /\ (a.low + b.low >= Word \/ high >= Word)]

\* The digits in base Quarter, the lowest first.
Quarters(n) == <<n.low % Quarter, n.low \div Quarter, n.high % Quarter, n.high \div Quarter>>

\* A product of two digits, shifted left by a number of them: what is beyond
\* the highest is lost after a shift of three, and panics after one of more.
Row(product, shift) ==
  CASE shift = 0 -> Parts(0, product)
    [] shift = 1 -> Parts(product \div Quarter, (product * Quarter) % Word)
    [] shift = 2 -> Parts(product, 0)
    [] shift = 3 -> Parts((product * Quarter) % Word, 0)
    [] OTHER -> IF product = 0 THEN Zero ELSE [Zero EXCEPT !.panicked = TRUE]

Rows(a, b) ==
  [k \in 0 .. 15 |->
     Row(Quarters(a)[1 + (k % 4)] * Quarters(b)[1 + (k \div 4)], (k % 4) + (k \div 4))]

Mul(a, b, debug) ==
  LET sum[k \in 0 .. 16] ==
        IF k = 0 THEN Zero ELSE Add(sum[k - 1], Rows(a, b)[k - 1], debug)
  IN sum[16]

---------------------------------------------------------------------------

\* One turn of the loop in from_base16 and from_base62.
NextDigit(n, digit, base, debug) ==
  Add(Mul(n, Parts(0, base), debug), Parts(0, digit), debug)

\* The half's bytes, the highest first.
FromRaw(data) == Parts(data[1] * Quarter + data[2], data[3] * Quarter + data[4])

\* A half, shifted right by so many hex digits.
Shifted(half, n) == half \div Power(HexBase, n)

HalfToBase16(half) == [i \in 1 .. HalfDigits |-> Shifted(half, HalfDigits - i) % HexBase]

\* Mutant: the low half first.
ToBase16Swapped(n) == HalfToBase16(n.low) \o HalfToBase16(n.high)

ToBase16(n) == HalfToBase16(n.high) \o HalfToBase16(n.low)

\* What a text means: the definition that reading and writing are held against.
NumberOf(text, base) ==
  LET number[i \in 0 .. Len(text)] == IF i = 0 THEN 0 ELSE number[i - 1] * base + text[i]
  IN number[Len(text)]
=============================================================================
