---------------------------- MODULE CatalogueProofs ----------------------------
(***************************************************************************)
(* Proofs about modules Numbers and Catalogue, for halves of any width,    *)
(* texts of any length, any number of restrictions, artists, top tracks    *)
(* and discs, and lists of countries of any length:                        *)
(*   - what adding and multiplying halves leaves of a sum and a product    *)
(*     (AddIs, MulKeeps), hence what a digit more makes of a number        *)
(*     (ReadsADigit), and why a base that divides Quarter never lets a sum *)
(*     wrap around (NothingWraps);                                         *)
(*   - that what is written in base 16 is read as what it was              *)
(*     (WrittenIsRead);                                                    *)
(*   - what lists say when they are put one after the other                *)
(*     (JoinedIsTheUnion);                                                 *)
(*   - what an answer can do to who asked for it (TrackReason,             *)
(*     ArtistReason, AlbumReason), and what is asked for next              *)
(*     (AsksForTheFirst, AsksForItsNumber).                                *)
(*                                                                         *)
(* Mul, NumberOf, Power and FlattenSeq compute recursive functions: that   *)
(* there is one, and what it says of the first i elements, is shown with   *)
(* the least i that would refute it (LeastNumber).                         *)
(***************************************************************************)
EXTENDS Catalogue, SequenceTheorems, WellFoundedInduction, TLAPS

\* Every set of numbers that is not empty has a least one.
LEMMA LeastNumber ==
  ASSUME NEW T, T \subseteq Nat, T # {}
  PROVE  \E x \in T : \A y \in T : x <= y
<1> DEFINE Less == {ss \in Nat \X Nat : ss[1] < ss[2]}
<1>1. IsWellFoundedOn(Less, Nat)
  BY NatLessThanWellFounded DEF OpToRel
<1> HIDE DEF Less
<1>2. PICK x \in T : \A y \in T : ~ (<<y, x>> \in Less)
  BY <1>1, WFMin
<1>3. ASSUME NEW y \in T
      PROVE  x <= y
  <2>1. x \in Nat /\ y \in Nat /\ ~ (<<y, x>> \in Less)
    BY <1>2
  <2> QED
    BY <2>1 DEF Less
<1> QED
  BY <1>3

-----------------------------------------------------------------------------
(* Arithmetic.                                                             *)

\* Product distributes over sum.
LEMMA Distributes == \A m, q, d \in Nat : m * (q + d) = m * q + m * d
OBVIOUS

\* A product is no smaller than its factors.
LEMMA AtLeastAFactor == \A m, q \in Nat : m > 0 /\ q > 0 => m * q >= m
OBVIOUS

\* A number below m is what is left of a multiple of m and it.
LEMMA WhatIsLeft ==
  ASSUME NEW m \in Nat, NEW q \in Nat, NEW r \in Nat, r < m
  PROVE  (m * q + r) % m = r
<1> PICK a : a = m * q + r OBVIOUS
<1> PICK p, s : p = a \div m /\ s = a % m OBVIOUS
<1>1. m * q \in Nat /\ a \in Nat /\ m > 0 OBVIOUS
<1>2. p \in Nat /\ s \in 0 .. m - 1 /\ a = m * p + s BY <1>1
<1>3. CASE p > q
  <2> PICK d : d = p - q OBVIOUS
  <2>1. d \in Nat /\ d > 0 /\ p = q + d BY <1>2, <1>3
  <2>2. m * p = m * q + m * d BY <2>1, Distributes
  <2>3. m * d >= m BY <2>1, <1>1, AtLeastAFactor
  <2>4. m * d \in Nat BY <2>1
  <2> QED BY <1>1, <1>2, <2>2, <2>3, <2>4
<1>4. CASE p < q
  <2> PICK d : d = q - p OBVIOUS
  <2>1. d \in Nat /\ d > 0 /\ q = p + d BY <1>2, <1>4
  <2>2. m * q = m * p + m * d BY <1>2, <2>1, Distributes
  <2>3. m * d >= m BY <2>1, <1>1, AtLeastAFactor
  <2>4. m * d \in Nat /\ m * p \in Nat BY <1>2, <2>1
  <2> QED BY <1>1, <1>2, <2>2, <2>3, <2>4
<1>5. CASE p = q
  BY <1>1, <1>2, <1>5
<1> QED BY <1>2, <1>3, <1>4, <1>5


LEMMA Quotient ==
  ASSUME NEW m \in Nat \ {0}, NEW a \in Nat
  PROVE  a \div m \in Nat /\ a % m \in Nat /\ a % m < m /\ a = m * (a \div m) + (a % m)
OBVIOUS

\* There is but one quotient.
LEMMA QuotientIs ==
  ASSUME NEW m \in Nat \ {0}, NEW q \in Nat, NEW r \in Nat, r < m,
         NEW a, a = m * q + r
  PROVE  a \div m = q
<1>1. a % m = r /\ a \in Nat
  BY WhatIsLeft
<1>2. \E p : p = a \div m
  OBVIOUS
<1>3. PICK p : p = a \div m
  BY <1>2
<1>4. p \in Nat /\ a = m * p + r
  BY <1>1, <1>3, Quotient
<1>5. m * p = m * q
  <2>1. m * p \in Nat /\ m * q \in Nat
    BY <1>4
  <2> QED
    BY <1>4, <2>1
<1>6. ~ (p < q)
  <2>1. ASSUME p < q
        PROVE  FALSE
    <3>1. PICK d \in Nat \ {0} : q = p + d
      <4>1. q - p \in Nat \ {0} /\ q = p + (q - p)
        BY <1>4, <2>1
      <4> QED
        BY <4>1
    <3>2. m * q = m * p + m * d /\ m * d >= m /\ m * p \in Nat /\ m * d \in Nat
      BY <1>4, <3>1, Distributes, AtLeastAFactor
    <3> QED
      BY <1>5, <3>2
  <2> QED
    BY <2>1
<1>7. ~ (q < p)
  <2>1. ASSUME q < p
        PROVE  FALSE
    <3>1. PICK d \in Nat \ {0} : p = q + d
      <4>1. p - q \in Nat \ {0} /\ p = q + (p - q)
        BY <1>4, <2>1
      <4> QED
        BY <4>1
    <3>2. m * p = m * q + m * d /\ m * d >= m /\ m * q \in Nat /\ m * d \in Nat
      BY <3>1, Distributes, AtLeastAFactor
    <3> QED
      BY <1>5, <3>2
  <2> QED
    BY <2>1
<1> QED
  BY <1>3, <1>4, <1>6, <1>7

\* A number below m is no multiple of it, but 0.
LEMMA Below ==
  ASSUME NEW m \in Nat, NEW a \in Nat, a < m
  PROVE  a % m = a /\ a \div m = 0
<1>1. m \in Nat \ {0} /\ a = m * 0 + a
  OBVIOUS
<1>2. a % m = a
  BY <1>1, WhatIsLeft
<1> PICK q : q = a \div m
  OBVIOUS
<1>3. q \in Nat /\ a = m * q + a
  BY <1>1, <1>2, Quotient
<1>4. m * q = 0 /\ (q > 0 => m * q >= m)
  BY <1>1, <1>3, AtLeastAFactor
<1> QED
  BY <1>1, <1>3, <1>4

LEMMA Wraps ==
  ASSUME NEW m \in Nat \ {0}, NEW a \in Nat, m <= a, a < 2 * m
  PROVE  a % m = a - m
<1>1. a - m \in Nat /\ a - m < m /\ a = m * 1 + (a - m)
  OBVIOUS
<1> QED
  BY <1>1, WhatIsLeft

LEMMA Monotone ==
  ASSUME NEW a \in Nat, NEW b \in Nat, NEW c \in Nat, a <= b
  PROVE  c * a <= c * b /\ a * c <= b * c
<1> PICK d : d = b - a
  OBVIOUS
<1>1. d \in Nat /\ b = a + d
  OBVIOUS
<1>2. c * b = c * a + c * d /\ c * a \in Nat /\ c * d \in Nat
  BY <1>1, Distributes
<1>3. c * a = a * c /\ c * b = b * c
  OBVIOUS
<1> QED
  BY <1>2, <1>3

-----------------------------------------------------------------------------
(* Numbers in two halves.                                                  *)

Numbers128 == [high : 0 .. Word - 1, low : 0 .. Word - 1, panicked : BOOLEAN]

LEMMA WordIs ==
  /\ Quarter \in Nat /\ Quarter >= 2 /\ Word \in Nat \ {0} /\ Word = Quarter * Quarter
  /\ Quarter < Word
BY NumbersAssumption DEF Word

\* Adding is adding, but for what is carried beyond the high half.
IsSumOf(r, a, b, checked) ==
  /\ r \in Numbers128
  /\ \E c \in {0, 1} : Value(a) + Value(b) = Value(r) + c * (Word * Word)
  /\ ~checked => (r.panicked <=> a.panicked \/ b.panicked)
  /\ (a.low + b.low < Word /\ a.high + b.high < Word) =>
       /\ r.high = a.high + b.high /\ r.low = a.low + b.low
       /\ r.panicked <=> a.panicked \/ b.panicked

LEMMA AddIs ==
  ASSUME NEW a \in Numbers128, NEW b \in Numbers128, NEW checked \in BOOLEAN,
         NEW r, r = Add(a, b, checked)
  PROVE  IsSumOf(r, a, b, checked)
<1> PICK W, M, ah, al, bh, bl : /\ W = Word /\ M = Word * Word
                               /\ ah = a.high /\ al = a.low /\ bh = b.high /\ bl = b.low
  OBVIOUS
<1>1. /\ W \in Nat \ {0} /\ M = W * W /\ M \in Nat
      /\ ah \in 0 .. W - 1 /\ al \in 0 .. W - 1 /\ bh \in 0 .. W - 1 /\ bl \in 0 .. W - 1
  BY WordIs DEF Numbers128
<1> PICK low, high : low = (al + bl) % W /\ high = ah + bh + Carry(low, al)
  OBVIOUS
<1> PICK p : p = (a.panicked \/ b.panicked \/ (checked /\ (al + bl >= W \/ high >= W)))
  OBVIOUS
<1>2. /\ r = [high |-> high % W, low |-> low, panicked |-> p]
      /\ r.high = high % W /\ r.low = low /\ r.panicked = p
  <2>1. r = [high |-> high % W, low |-> low, panicked |-> p]
    BY Zenon DEF Add
  <2> QED
    BY <2>1
<1>3. \E c \in {0, 1} : /\ al + bl = low + c * W /\ low \in 0 .. W - 1 /\ high = ah + bh + c
                        /\ c = 0 <=> al + bl < W
  <2>1. CASE al + bl < W
    <3>1. low = al + bl
      <4>1. al + bl \in Nat /\ W \in Nat
        BY <1>1
      <4> QED
        BY <2>1, <4>1, Below
    <3>2. ~ (low < al)
      BY <1>1, <3>1
    <3>3. high = ah + bh + 0
      BY <1>1, <3>2 DEF Carry
    <3> QED
      BY <1>1, <2>1, <3>1, <3>3
  <2>2. CASE al + bl >= W
    <3>1. low = al + bl - W
      <4> PICK x : x = al + bl
        OBVIOUS
      <4>1. x \in Nat /\ W \in Nat \ {0} /\ W <= x /\ x < 2 * W
        BY <1>1, <2>2
      <4>2. x % W = x - W
        BY <4>1, Wraps
      <4> QED
        BY <1>1, <4>1, <4>2
    <3>2. low < al
      BY <1>1, <3>1
    <3>3. high = ah + bh + 1
      BY <3>2 DEF Carry
    <3>4. al + bl = low + 1 * W /\ low \in 0 .. W - 1
      BY <1>1, <2>2, <3>1
    <3> QED
      BY <1>1, <2>2, <3>3, <3>4
  <2> QED
    BY <1>1, <2>1, <2>2
<1>4. PICK c \in {0, 1} : /\ al + bl = low + c * W /\ low \in 0 .. W - 1 /\ high = ah + bh + c
                          /\ c = 0 <=> al + bl < W
  BY <1>3
<1>5. \E d \in {0, 1} : high = r.high + d * W /\ r.high \in 0 .. W - 1 /\ (d = 0 <=> high < W)
  <2>1. CASE high < W
    <3>1. high \in Nat /\ W \in Nat
      BY <1>1, <1>4
    <3>2. r.high = high
      BY <1>2, <2>1, <3>1, Below
    <3> QED
      BY <2>1, <3>1, <3>2
  <2>2. CASE high >= W
    <3>1. high < 2 * W
      BY <1>1, <1>4
    <3>2. high % W = high - W
      <4>1. high \in Nat /\ W \in Nat \ {0} /\ W <= high
        BY <1>1, <1>4, <2>2
      <4> QED
        BY <3>1, <4>1, Wraps
    <3> QED
      BY <1>1, <1>2, <1>4, <2>2, <3>1, <3>2
  <2> QED
    BY <1>1, <1>4, <2>1, <2>2
<1>6. PICK d \in {0, 1} : high = r.high + d * W /\ r.high \in 0 .. W - 1 /\ (d = 0 <=> high < W)
  BY <1>5
<1>7. r \in Numbers128
  <2>1. p \in BOOLEAN
    OBVIOUS
  <2>2. high % W \in 0 .. W - 1
    BY <1>2, <1>6
  <2> QED
    BY <1>2, <1>4, <2>1, <2>2 DEF Numbers128
<1>8. Value(a) + Value(b) = Value(r) + d * (Word * Word)
  <2> PICK rh : rh = r.high
    OBVIOUS
  <2>1. Value(a) = ah * W + al /\ Value(b) = bh * W + bl /\ Value(r) = rh * W + low
    BY <1>2 DEF Value
  <2>2. ah + bh + c = rh + d * W /\ rh \in 0 .. W - 1 /\ ah \in Nat /\ bh \in Nat /\ W \in Nat
    BY <1>1, <1>4, <1>6
  <2>3. (ah + bh + c) * W = rh * W + d * M
    BY <1>1, <1>6, <2>2
  <2>4. (ah + bh + c) * W = ah * W + bh * W + c * W
    BY <2>2
  <2> PICK x, y, z, u, v : x = ah * W /\ y = bh * W /\ z = rh * W /\ u = c * W /\ v = d * M
    OBVIOUS
  <2>5. x \in Nat /\ y \in Nat /\ z \in Nat /\ u \in Nat /\ v \in Nat
    BY <1>1, <2>2
  <2>6. x + y + u = z + v
    BY <2>3, <2>4
  <2>7. al + bl = low + u /\ al \in Nat /\ bl \in Nat /\ low \in Nat
    BY <1>1, <1>4
  <2>8. (x + al) + (y + bl) = (z + low) + v
    BY <2>5, <2>6, <2>7
  <2> QED
    BY <2>1, <2>8
<1>9. ~checked => (r.panicked <=> a.panicked \/ b.panicked)
  BY <1>2
<1>10. ASSUME al + bl < W, ah + bh < W
       PROVE  /\ r.high = ah + bh /\ r.low = al + bl
              /\ r.panicked <=> a.panicked \/ b.panicked
  <2>1. c = 0 /\ d = 0
    BY <1>1, <1>4, <1>6, <1>10
  <2>2. r.high = ah + bh /\ r.low = al + bl /\ high = ah + bh
    BY <1>1, <1>2, <1>4, <1>6, <2>1
  <2>3. ~ (al + bl >= W) /\ ~ (high >= W)
    BY <1>1, <1>4, <1>10, <2>1, <2>2
  <2> QED
    BY <1>2, <2>2, <2>3
<1> QED
  BY <1>6, <1>7, <1>8, <1>9, <1>10 DEF IsSumOf

LEMMA DigitsShifted ==
  ASSUME NEW q \in Nat, NEW j \in Nat, NEW l \in Nat, NEW p, p = q * j + l, NEW w, w = q * q
  PROVE  p * q = w * j + l * q
OBVIOUS

\* A product of two digits, shifted left by one, loses its higher digit.
LEMMA ShiftedLeft ==
  ASSUME NEW p \in Nat
  PROVE  /\ (p * Quarter) % Word = (p % Quarter) * Quarter
         /\ (p % Quarter) * Quarter \in 0 .. Word - 1
<1> PICK Q, W : Q = Quarter /\ W = Word
  OBVIOUS
<1>1. Q \in Nat \ {0} /\ W = Q * Q /\ W \in Nat \ {0}
  BY WordIs
<1>2. PICK j, l : l = p % Quarter /\ j \in Nat /\ l \in Nat /\ l < Q /\ p = Q * j + l
  <2> WITNESS p \div Q, p % Q
  <2> QED
    BY <1>1, Quotient
<1>3. l <= Q - 1 /\ Q - 1 \in Nat
  BY <1>1, <1>2
<1>4. l * Q <= (Q - 1) * Q
  BY <1>1, <1>2, <1>3, Monotone
<1>5. (Q - 1) * Q = W - Q /\ l * Q \in Nat
  BY <1>1, <1>2
<1>6. p * Q = W * j + l * Q
  <2>1. Q \in Nat /\ j \in Nat /\ l \in Nat /\ p = Q * j + l /\ W = Q * Q
    BY <1>1, <1>2
  <2> QED
    BY <2>1, DigitsShifted
<1>7. l * Q < W
  BY <1>1, <1>4, <1>5
<1>8. (W * j + l * Q) % W = l * Q
  BY <1>1, <1>2, <1>5, <1>7, WhatIsLeft
<1> QED
  BY <1>1, <1>2, <1>5, <1>6, <1>7, <1>8

LEMMA NothingToAdd ==
  ASSUME NEW shift \in 0 .. 6
  PROVE  Row(0, shift) = Zero
<1>1. 0 \div Quarter = 0 /\ (0 * Quarter) % Word = 0
  <2>1. 0 * Quarter = 0
    BY WordIs
  <2> QED
    BY <2>1, WordIs, Below
<1>2. CASE shift \in {0, 1, 2, 3}
  BY <1>1, <1>2 DEF Row, Zero
<1>3. CASE shift \in {4, 5, 6}
  BY <1>3 DEF Row
<1> QED
  BY <1>2, <1>3

LEMMA QuartersAre ==
  ASSUME NEW a \in Numbers128
  PROVE  /\ \A i \in 1 .. 4 : Quarters(a)[i] \in Nat /\ Quarters(a)[i] < Quarter
         /\ a.low = Quarter * Quarters(a)[2] + Quarters(a)[1]
         /\ a.high = Quarter * Quarters(a)[4] + Quarters(a)[3]
<1> PICK Q, W, h, l : Q = Quarter /\ W = Word /\ h = a.high /\ l = a.low
  OBVIOUS
<1>1. Q \in Nat \ {0} /\ W = Q * Q /\ h \in Nat /\ l \in Nat /\ h < W /\ l < W
  BY WordIs DEF Numbers128
<1>2. ASSUME NEW n \in Nat, n < W
      PROVE  n \div Q \in Nat /\ n \div Q < Q /\ n % Q \in Nat /\ n % Q < Q
             /\ n = Q * (n \div Q) + (n % Q)
  <2> PICK j, r : j = n \div Q /\ r = n % Q
    OBVIOUS
  <2>1. j \in Nat /\ r \in Nat /\ r < Q /\ n = Q * j + r
    BY <1>1, Quotient
  <2>2. j < Q
    <3>1. ASSUME Q <= j
          PROVE  FALSE
      <4>1. Q * Q <= Q * j
        BY <1>1, <2>1, <3>1, Monotone
      <4>2. Q * j \in Nat
        BY <1>1, <2>1
      <4> QED
        BY <1>1, <1>2, <2>1, <4>1, <4>2
    <3> QED
      BY <1>1, <2>1, <3>1
  <2> QED
    BY <2>1, <2>2
<1>3. Quarters(a) = <<l % Q, l \div Q, h % Q, h \div Q>>
  BY DEF Quarters
<1> PICK q : q = Quarters(a)
  OBVIOUS
<1>4. q[1] = l % Q /\ q[2] = l \div Q /\ q[3] = h % Q /\ q[4] = h \div Q
  BY <1>3
<1>5. q[1] \in Nat /\ q[2] \in Nat /\ q[1] < Q /\ q[2] < Q /\ l = Q * q[2] + q[1]
  BY <1>1, <1>2, <1>4
<1>6. q[3] \in Nat /\ q[4] \in Nat /\ q[3] < Q /\ q[4] < Q /\ h = Q * q[4] + q[3]
  BY <1>1, <1>2, <1>4
<1>7. \A i \in 1 .. 4 : q[i] \in Nat /\ q[i] < Q
  BY <1>5, <1>6
<1> QED
  BY <1>5, <1>6, <1>7

\* The rows of a number multiplied with a digit.
LEMMA RowsAre ==
  ASSUME NEW a \in Numbers128, NEW b \in Nat, b < Quarter
  PROVE  LET q == Quarters(a)  r == Rows(a, Parts(0, b))
         IN /\ r[0] = Parts(0, q[1] * b)
            /\ r[1] = Parts((q[2] * b) \div Quarter, ((q[2] * b) % Quarter) * Quarter)
            /\ r[2] = Parts(q[3] * b, 0)
            /\ r[3] = Parts(((q[4] * b) % Quarter) * Quarter, 0)
            /\ \A k \in 4 .. 15 : r[k] = Zero
<1> PICK q, r, c : q = Quarters(a) /\ r = Rows(a, Parts(0, b)) /\ c = Quarters(Parts(0, b))
  OBVIOUS
<1>1. \A i \in 1 .. 4 : q[i] \in Nat /\ q[i] < Quarter
  BY QuartersAre
<1>2. c[1] = b /\ c[2] = 0 /\ c[3] = 0 /\ c[4] = 0
  <2>1. b % Quarter = b /\ b \div Quarter = 0 /\ 0 % Quarter = 0 /\ 0 \div Quarter = 0
    BY WordIs, Below
  <2>2. c = <<b % Quarter, b \div Quarter, 0 % Quarter, 0 \div Quarter>>
    BY DEF Quarters, Parts
  <2> QED
    BY <2>1, <2>2
<1>3. \A k \in 0 .. 15 : r[k] = Row(q[1 + (k % 4)] * c[1 + (k \div 4)], (k % 4) + (k \div 4))
  BY DEF Rows
<1>4. /\ r[0] = Row(q[1] * b, 0) /\ r[1] = Row(q[2] * b, 1)
      /\ r[2] = Row(q[3] * b, 2) /\ r[3] = Row(q[4] * b, 3)
  BY <1>2, <1>3
<1>5. \A i \in 1 .. 4 : q[i] * b \in Nat
  BY <1>1
<1>6. /\ r[0] = Parts(0, q[1] * b)
      /\ r[1] = Parts((q[2] * b) \div Quarter, ((q[2] * b) % Quarter) * Quarter)
      /\ r[2] = Parts(q[3] * b, 0)
      /\ r[3] = Parts(((q[4] * b) % Quarter) * Quarter, 0)
  BY <1>4, <1>5, ShiftedLeft DEF Row
<1>7. ASSUME NEW k \in 4 .. 15
      PROVE  r[k] = Zero
  <2>1. 1 + (k % 4) \in 1 .. 4 /\ 1 + (k \div 4) \in 2 .. 4 /\ (k % 4) + (k \div 4) \in 0 .. 6
    OBVIOUS
  <2>2. c[1 + (k \div 4)] = 0
    BY <1>2, <2>1
  <2>3. q[1 + (k % 4)] * c[1 + (k \div 4)] = 0
    BY <1>1, <2>1, <2>2
  <2>4. r[k] = Row(0, (k % 4) + (k \div 4))
    BY <1>3, <2>3
  <2> QED
    BY <2>1, <2>4, NothingToAdd
<1> QED
  BY <1>6, <1>7

-----------------------------------------------------------------------------
(* Adding up the rows.                                                     *)

IsSum(F, rows, checked, n) ==
  F = [k \in 0 .. n |-> IF k = 0 THEN Zero ELSE Add(F[k - 1], rows[k - 1], checked)]

LEMMA SumExists ==
  ASSUME NEW rows, NEW checked, NEW n \in Nat
  PROVE  \E F : IsSum(F, rows, checked, n)
<1> DEFINE None == {m \in Nat : ~ \E F : IsSum(F, rows, checked, m)}
<1>1. SUFFICES ASSUME None # {}
               PROVE  FALSE
  OBVIOUS
<1>2. PICK m \in None : \A k \in None : m <= k
  BY <1>1, LeastNumber
<1>3. m \in Nat /\ ~ \E F : IsSum(F, rows, checked, m)
  BY <1>2
<1>4. m # 0
  <2>1. ASSUME m = 0
        PROVE  FALSE
    <3> PICK F : F = [k \in 0 .. 0 |-> Zero]
      OBVIOUS
    <3>1. IsSum(F, rows, checked, 0)
      BY DEF IsSum
    <3> QED
      BY <1>3, <2>1, <3>1
  <2> QED
    BY <2>1
<1>5. m - 1 \in Nat /\ ~ (m <= m - 1)
  BY <1>3, <1>4
<1>6. PICK G : IsSum(G, rows, checked, m - 1)
  BY <1>2, <1>5
<1> PICK F : F = [k \in 0 .. m |-> IF k = m THEN Add(G[m - 1], rows[m - 1], checked) ELSE G[k]]
  OBVIOUS
<1>7. ASSUME NEW k \in 0 .. m
      PROVE  F[k] = IF k = 0 THEN Zero ELSE Add(F[k - 1], rows[k - 1], checked)
  <2>1. k # 0 => k - 1 \in 0 .. m /\ k - 1 # m /\ F[k - 1] = G[k - 1]
    BY <1>3
  <2>2. CASE k = m
    BY <1>4, <2>1, <2>2
  <2>3. CASE k # m
    <3>1. k \in 0 .. m - 1 /\ F[k] = G[k]
      BY <1>3, <2>3
    <3>2. G[k] = IF k = 0 THEN Zero ELSE Add(G[k - 1], rows[k - 1], checked)
      BY <1>6, <3>1 DEF IsSum
    <3> QED
      BY <2>1, <3>1, <3>2
  <2> QED
    BY <2>2, <2>3
<1>8. IsSum(F, rows, checked, m)
  BY <1>7 DEF IsSum
<1> QED
  BY <1>3, <1>8

LEMMA MulIsSum ==
  ASSUME NEW a, NEW b, NEW checked
  PROVE  \E F : IsSum(F, Rows(a, b), checked, 16) /\ Mul(a, b, checked) = F[16]
<1> DEFINE F == CHOOSE f : IsSum(f, Rows(a, b), checked, 16)
<1>1. IsSum(F, Rows(a, b), checked, 16)
  BY SumExists
<1>2. Mul(a, b, checked) = F[16]
  BY DEF Mul, IsSum
<1> QED
  BY <1>1, <1>2

LEMMA ZeroIs ==
  /\ Zero \in Numbers128 /\ Value(Zero) = 0 /\ ~Zero.panicked
  /\ Zero.high = 0 /\ Zero.low = 0
BY WordIs DEF Zero, Parts, Numbers128, Value

LEMMA PlusZero ==
  ASSUME NEW a \in Numbers128, NEW checked \in BOOLEAN
  PROVE  Add(a, Zero, checked) = a
<1> PICK r : r = Add(a, Zero, checked)
  OBVIOUS
<1>1. a.high \in Nat /\ a.low \in Nat /\ a.high < Word /\ a.low < Word /\ a.panicked \in BOOLEAN
  BY WordIs DEF Numbers128
<1>2. a.low + Zero.low = a.low /\ a.high + Zero.high = a.high
  BY <1>1, ZeroIs
<1>3. r \in Numbers128 /\ r.high = a.high /\ r.low = a.low /\ (r.panicked <=> a.panicked)
  <2>1. IsSumOf(r, a, Zero, checked)
    BY ZeroIs, AddIs
  <2>2. a.low + Zero.low < Word /\ a.high + Zero.high < Word /\ ~Zero.panicked
    BY <1>1, <1>2, ZeroIs
  <2>3. /\ r.high = a.high + Zero.high /\ r.low = a.low + Zero.low
        /\ r.panicked <=> a.panicked \/ Zero.panicked
    BY <2>1, <2>2 DEF IsSumOf
  <2>4. r \in Numbers128
    BY <2>1 DEF IsSumOf
  <2> QED
    BY <1>2, <2>2, <2>3, <2>4
<1>4. r.panicked = a.panicked
  BY <1>1, <1>3 DEF Numbers128
<1> QED
  BY <1>3, <1>4 DEF Numbers128

LEMMA AddType ==
  ASSUME NEW a \in Numbers128, NEW b \in Numbers128, NEW checked \in BOOLEAN
  PROVE  Add(a, b, checked) \in Numbers128
BY AddIs DEF IsSumOf

\* Only the first four rows of a number multiplied with a digit count.
LEMMA MulIs ==
  ASSUME NEW a, NEW b, NEW checked \in BOOLEAN,
         \A k \in 0 .. 3 : Rows(a, b)[k] \in Numbers128,
         \A k \in 4 .. 15 : Rows(a, b)[k] = Zero
  PROVE  LET r == Rows(a, b)
         IN Mul(a, b, checked) =
              Add(Add(Add(Add(Zero, r[0], checked), r[1], checked), r[2], checked), r[3], checked)
<1> PICK r, t1, t2, t3, t4 :
      /\ r = Rows(a, b) /\ t1 = Add(Zero, r[0], checked)
      /\ t2 = Add(t1, r[1], checked) /\ t3 = Add(t2, r[2], checked) /\ t4 = Add(t3, r[3], checked)
  OBVIOUS
<1>1. PICK F : IsSum(F, r, checked, 16) /\ Mul(a, b, checked) = F[16]
  BY MulIsSum
<1>2. F[0] = Zero /\ \A k \in 1 .. 16 : F[k] = Add(F[k - 1], r[k - 1], checked)
  BY <1>1 DEF IsSum
<1>3. F[1] = t1 /\ F[2] = t2 /\ F[3] = t3 /\ F[4] = t4
  BY <1>2
<1>4. t4 \in Numbers128
  <2>1. r[0] \in Numbers128 /\ r[1] \in Numbers128 /\ r[2] \in Numbers128 /\ r[3] \in Numbers128
    OBVIOUS
  <2>2. t1 \in Numbers128
    BY <2>1, ZeroIs, AddType
  <2>3. t2 \in Numbers128
    BY <2>1, <2>2, AddType
  <2>4. t3 \in Numbers128
    BY <2>1, <2>3, AddType
  <2> QED
    BY <2>1, <2>4, AddType
<1>5. \A k \in 5 .. 16 : F[k - 1] = t4 => F[k] = t4
  BY <1>2, <1>4, PlusZero
<1>6. F[16] = t4
  BY <1>3, <1>5
<1> QED
  BY <1>1, <1>6

-----------------------------------------------------------------------------
(* What a turn of the loop makes of a number.                              *)

\* What is left of x in two halves: some multiples of what they can hold less.
Keeps128(x, y) == \E k \in Nat : x = y + k * (Word * Word)

LEMMA KeepsSum ==
  ASSUME NEW x \in Nat, NEW y \in Nat, NEW z \in Nat, NEW u \in Nat,
         Keeps128(x, y), Keeps128(y + z, u)
  PROVE  Keeps128(x + z, u)
<1> PICK M : M = Word * Word
  OBVIOUS
<1>1. M \in Nat
  BY WordIs
<1>2. PICK k \in Nat : x = y + k * M
  BY DEF Keeps128
<1>3. PICK l \in Nat : y + z = u + l * M
  BY DEF Keeps128
<1> PICK v, w, t : v = k * M /\ w = l * M /\ t = (k + l) * M
  OBVIOUS
<1>4. t = v + w /\ v \in Nat /\ w \in Nat
  BY <1>1
<1>5. x + z = u + (k + l) * M
  <2>1. x = y + v /\ y + z = u + w
    BY <1>2, <1>3
  <2>2. x + z = u + t
    BY <1>4, <2>1
  <2> QED
    BY <2>2
<1>6. k + l \in Nat
  OBVIOUS
<1> QED
  BY <1>5, <1>6 DEF Keeps128

LEMMA ValueIsNat ==
  ASSUME NEW a \in Numbers128
  PROVE  Value(a) \in Nat /\ Value(a) < Word * Word
<1> PICK W, h, l : W = Word /\ h = a.high /\ l = a.low
  OBVIOUS
<1>1. W \in Nat /\ h \in Nat /\ l \in Nat /\ h <= W - 1 /\ l < W /\ W - 1 \in Nat
  BY WordIs DEF Numbers128
<1>2. h * W \in Nat /\ h * W <= (W - 1) * W /\ (W - 1) * W = W * W - W
  BY <1>1, Monotone
<1>3. W * W \in Nat
  BY <1>1
<1>4. h * W + l < W * W
  BY <1>1, <1>2, <1>3
<1>5. Value(a) = h * W + l
  BY DEF Value
<1> QED
  BY <1>1, <1>2, <1>4, <1>5

\* Adding keeps what two halves can hold.
LEMMA AddKeeps ==
  ASSUME NEW x \in Nat, NEW a \in Numbers128, NEW b \in Numbers128, NEW checked \in BOOLEAN,
         Keeps128(x, Value(a))
  PROVE  Keeps128(x + Value(b), Value(Add(a, b, checked)))
<1> PICK r : r = Add(a, b, checked)
  OBVIOUS
<1>1. IsSumOf(r, a, b, checked)
  BY AddIs
<1>2. PICK c \in {0, 1} : Value(a) + Value(b) = Value(r) + c * (Word * Word)
  BY <1>1 DEF IsSumOf
<1>3. Keeps128(Value(a) + Value(b), Value(r))
  BY <1>2 DEF Keeps128
<1>4. Value(a) \in Nat /\ Value(b) \in Nat /\ Value(r) \in Nat
  BY <1>1, ValueIsNat DEF IsSumOf
<1> QED
  BY <1>3, <1>4, KeepsSum

\* The product of two digits fits in a half.
LEMMA ProductOfDigits ==
  ASSUME NEW q \in Nat, NEW x \in Nat, x < q, NEW b \in Nat \ {0}, b < q
  PROVE  x * b \in Nat /\ x * b < q * b /\ x * b < q * q
<1>1. x * b \in Nat /\ q * b \in Nat /\ q * q \in Nat
  OBVIOUS
<1>2. x + 1 \in Nat /\ x + 1 <= q
  OBVIOUS
<1>3. (x + 1) * b <= q * b
  BY <1>2, Monotone
<1>4. (x + 1) * b = x * b + b
  OBVIOUS
<1>5. q * b <= q * q
  BY Monotone
<1> QED
  BY <1>1, <1>3, <1>4, <1>5

LEMMA QuotientBelow ==
  ASSUME NEW q \in Nat, NEW y \in Nat, NEW z \in Nat, NEW b \in Nat,
         NEW p, p = q * y + z, p < q * b
  PROVE  y < b
<1>1. q * y \in Nat /\ q * b \in Nat
  OBVIOUS
<1>2. b <= y => q * b <= q * y
  BY Monotone
<1> QED
  BY <1>1, <1>2

\* The products of the digits, the upper digits of these and their lower ones.
ProductOf(a, b, p, j, l) ==
  \A i \in 1 .. 4 : /\ p[i] = Quarters(a)[i] * b /\ p[i] \in 0 .. Word - 1
                    /\ j[i] = p[i] \div Quarter /\ l[i] = p[i] % Quarter
                    /\ j[i] \in Nat /\ l[i] \in Nat /\ j[i] < b /\ l[i] < Quarter
                    /\ p[i] = Quarter * j[i] + l[i]

\* Each product of a digit with another has an upper and a lower digit.
LEMMA ProductExists ==
  ASSUME NEW a \in Numbers128, NEW b \in Nat \ {0}, b < Quarter
  PROVE  \E p, j, l : ProductOf(a, b, p, j, l)
<1> PICK q, Q : q = Quarters(a) /\ Q = Quarter
  OBVIOUS
<1>1. Q \in Nat \ {0} /\ Word = Q * Q /\ \A i \in 1 .. 4 : q[i] \in Nat /\ q[i] < Q
  BY WordIs, QuartersAre
<1> PICK p : p = [i \in 1 .. 4 |-> q[i] * b]
  OBVIOUS
<1> PICK j, l : j = [i \in 1 .. 4 |-> p[i] \div Q] /\ l = [i \in 1 .. 4 |-> p[i] % Q]
  OBVIOUS
<1>2. ASSUME NEW i \in 1 .. 4
      PROVE  /\ p[i] = q[i] * b /\ p[i] \in 0 .. Word - 1
             /\ j[i] = p[i] \div Q /\ l[i] = p[i] % Q
             /\ j[i] \in Nat /\ l[i] \in Nat /\ j[i] < b /\ l[i] < Q
             /\ p[i] = Q * j[i] + l[i]
  <2>1. p[i] = q[i] * b /\ q[i] \in Nat /\ q[i] < Q
    BY <1>1
  <2>2. p[i] \in Nat /\ p[i] < Q * b /\ p[i] < Q * Q
    BY <1>1, <2>1, ProductOfDigits
  <2>3. j[i] = p[i] \div Q /\ l[i] = p[i] % Q
    OBVIOUS
  <2>4. j[i] \in Nat /\ l[i] \in Nat /\ l[i] < Q /\ p[i] = Q * j[i] + l[i]
    <3> PICK c : c = p[i]
      OBVIOUS
    <3>1. /\ c \div Q \in Nat /\ c % Q \in Nat /\ c % Q < Q
          /\ c = Q * (c \div Q) + (c % Q)
      BY <1>1, <2>2, Quotient
    <3> QED
      BY <2>3, <3>1
  <2>5. j[i] < b
    BY <1>1, <2>2, <2>4, QuotientBelow
  <2>6. p[i] \in 0 .. Word - 1
    BY <1>1, <2>2
  <2> QED
    BY <2>1, <2>3, <2>4, <2>5, <2>6
<1>3. ProductOf(a, b, p, j, l)
  BY <1>2 DEF ProductOf
<1> QED
  BY <1>3

LEMMA PartsValue ==
  ASSUME NEW h \in 0 .. Word - 1, NEW l \in 0 .. Word - 1
  PROVE  /\ Parts(h, l) \in Numbers128 /\ Value(Parts(h, l)) = h * Word + l
         /\ Parts(h, l).high = h /\ Parts(h, l).low = l /\ ~Parts(h, l).panicked
BY DEF Parts, Numbers128, Value

\* The rows of a number times a digit, and what they stand for.
LEMMA RowValues ==
  ASSUME NEW a \in Numbers128, NEW b \in Nat \ {0}, b < Quarter,
         NEW p, NEW j, NEW l, ProductOf(a, b, p, j, l), NEW r, r = Rows(a, Parts(0, b))
  PROVE  /\ r[0] = Parts(0, p[1]) /\ r[1] = Parts(j[2], l[2] * Quarter)
         /\ r[2] = Parts(p[3], 0) /\ r[3] = Parts(l[4] * Quarter, 0)
         /\ \A k \in 0 .. 3 : r[k] \in Numbers128
         /\ \A k \in 4 .. 15 : r[k] = Zero
         /\ Value(r[0]) = p[1] /\ Value(r[1]) = p[2] * Quarter
         /\ Value(r[2]) = p[3] * Word /\ Value(r[3]) = (l[4] * Quarter) * Word
<1>1. /\ r[0] = Parts(0, p[1]) /\ r[1] = Parts(j[2], l[2] * Quarter)
      /\ r[2] = Parts(p[3], 0) /\ r[3] = Parts(l[4] * Quarter, 0)
      /\ \A k \in 4 .. 15 : r[k] = Zero
  <2> PICK q : q = Quarters(a)
    OBVIOUS
  <2>1. /\ r[0] = Parts(0, q[1] * b)
        /\ r[1] = Parts((q[2] * b) \div Quarter, ((q[2] * b) % Quarter) * Quarter)
        /\ r[2] = Parts(q[3] * b, 0)
        /\ r[3] = Parts(((q[4] * b) % Quarter) * Quarter, 0)
        /\ \A k \in 4 .. 15 : r[k] = Zero
    BY RowsAre
  <2>2. \A i \in 1 .. 4 : p[i] = q[i] * b /\ j[i] = p[i] \div Quarter /\ l[i] = p[i] % Quarter
    BY DEF ProductOf
  <2>3. 1 \in 1 .. 4 /\ 2 \in 1 .. 4 /\ 3 \in 1 .. 4 /\ 4 \in 1 .. 4
    OBVIOUS
  <2>4. /\ q[1] * b = p[1] /\ q[3] * b = p[3]
        /\ (q[2] * b) \div Quarter = j[2] /\ (q[2] * b) % Quarter = l[2]
        /\ (q[4] * b) % Quarter = l[4]
    BY <2>2, <2>3, Zenon
  <2> QED
    BY <2>1, <2>4
<1>2. /\ l[2] * Quarter \in 0 .. Word - 1 /\ l[4] * Quarter \in 0 .. Word - 1
      /\ p[1] \in 0 .. Word - 1 /\ p[3] \in 0 .. Word - 1
      /\ j[2] \in 0 .. Word - 1 /\ 0 \in 0 .. Word - 1
  <2>0. \A i \in 1 .. 4 : /\ p[i] \in 0 .. Word - 1 /\ l[i] = p[i] % Quarter
                          /\ j[i] \in Nat /\ j[i] < b
    BY DEF ProductOf
  <2>1. /\ p[1] \in 0 .. Word - 1 /\ p[3] \in 0 .. Word - 1
        /\ p[2] \in Nat /\ p[4] \in Nat /\ l[2] = p[2] % Quarter /\ l[4] = p[4] % Quarter
        /\ j[2] \in Nat /\ j[2] < b
    BY <2>0
  <2>2. l[2] * Quarter \in 0 .. Word - 1
    BY <2>1, ShiftedLeft
  <2>3. l[4] * Quarter \in 0 .. Word - 1
    BY <2>1, ShiftedLeft
  <2>4. j[2] \in 0 .. Word - 1 /\ 0 \in 0 .. Word - 1
    BY <2>1, WordIs
  <2> QED
    BY <2>1, <2>2, <2>3, <2>4
<1>3. /\ r[0] \in Numbers128 /\ Value(r[0]) = 0 * Word + p[1]
      /\ r[1] \in Numbers128 /\ Value(r[1]) = j[2] * Word + l[2] * Quarter
      /\ r[2] \in Numbers128 /\ Value(r[2]) = p[3] * Word + 0
      /\ r[3] \in Numbers128 /\ Value(r[3]) = (l[4] * Quarter) * Word + 0
  BY <1>1, <1>2, PartsValue
<1>4. p[2] * Quarter = Word * j[2] + l[2] * Quarter
  <2>1. /\ Quarter \in Nat /\ j[2] \in Nat /\ l[2] \in Nat /\ p[2] = Quarter * j[2] + l[2]
        /\ Word = Quarter * Quarter
    BY WordIs DEF ProductOf
  <2> QED
    BY <2>1, DigitsShifted
<1>5. Value(r[0]) = p[1] /\ Value(r[2]) = p[3] * Word /\ Value(r[3]) = (l[4] * Quarter) * Word
  BY <1>2, <1>3, WordIs
<1>6. Value(r[1]) = p[2] * Quarter
  <2>1. j[2] * Word = Word * j[2]
    BY <1>2, WordIs
  <2> QED
    BY <1>3, <1>4, <2>1
<1>7. \A k \in 0 .. 3 : r[k] \in Numbers128
  BY <1>3
<1> QED
  BY <1>1, <1>5, <1>6, <1>7

\* A number and its digits, multiplied.
LEMMA ProductValue ==
  ASSUME NEW q \in Nat, NEW w, w = q * q, NEW b \in Nat,
         NEW q1 \in Nat, NEW q2 \in Nat, NEW q3 \in Nat, NEW q4 \in Nat,
         NEW j \in Nat, NEW l \in Nat, q4 * b = q * j + l
  PROVE  ((q * q4 + q3) * w + (q * q2 + q1)) * b =
           (((j * (w * w) + q1 * b) + (q2 * b) * q) + (q3 * b) * w) + (l * q) * w
<1>1. ((q * q4 + q3) * w + (q * q2 + q1)) * b =
        (q4 * b) * (q * w) + (q3 * b) * w + (q2 * b) * q + q1 * b
  OBVIOUS
<1>2. (q * j + l) * (q * w) = j * (w * w) + (l * q) * w
  OBVIOUS
<1> PICK x1, x2, x3, y, z, u :
      /\ x1 = q1 * b /\ x2 = (q2 * b) * q /\ x3 = (q3 * b) * w
      /\ y = j * (w * w) /\ z = (l * q) * w /\ u = (q4 * b) * (q * w)
  OBVIOUS
<1>3. x1 \in Nat /\ x2 \in Nat /\ x3 \in Nat /\ y \in Nat /\ z \in Nat
  OBVIOUS
<1>4. u = y + z
  BY <1>2
<1>5. u + x3 + x2 + x1 = (((y + x1) + x2) + x3) + z
  BY <1>3, <1>4
<1> QED
  BY <1>1, <1>5

IsProduct(v, w, b, q1, q2, q3, q4, j, l) ==
  ((v * q4 + q3) * w + (v * q2 + q1)) * b =
    (((j * (w * w) + q1 * b) + (q2 * b) * v) + (q3 * b) * w) + (l * v) * w

LEMMA DigitsProduct ==
  \A v, w, b, q1, q2, q3, q4, j, l \in Nat : w = v * v /\ q4 * b = v * j + l =>
    IsProduct(v, w, b, q1, q2, q3, q4, j, l)
BY ProductValue DEF IsProduct

\* Multiplying with a digit keeps what two halves can hold.
LEMMA MulKeeps ==
  ASSUME NEW a \in Numbers128, NEW b \in Nat \ {0}, b < Quarter, NEW checked \in BOOLEAN,
         NEW t, t = Mul(a, Parts(0, b), checked)
  PROVE  t \in Numbers128 /\ Keeps128(Value(a) * b, Value(t))
<1>1. PICK p, j, l : ProductOf(a, b, p, j, l)
  BY ProductExists
<1> PICK r, t1, t2, t3 :
      /\ r = Rows(a, Parts(0, b)) /\ t1 = Add(Zero, r[0], checked)
      /\ t2 = Add(t1, r[1], checked) /\ t3 = Add(t2, r[2], checked)
  OBVIOUS
<1>2. /\ \A k \in 0 .. 3 : r[k] \in Numbers128
      /\ \A k \in 4 .. 15 : r[k] = Zero
      /\ Value(r[0]) = p[1] /\ Value(r[1]) = p[2] * Quarter
      /\ Value(r[2]) = p[3] * Word /\ Value(r[3]) = (l[4] * Quarter) * Word
  BY <1>1, RowValues
<1>3. t = Add(t3, r[3], checked)
  BY <1>2, MulIs
<1>4. r[0] \in Numbers128 /\ r[1] \in Numbers128 /\ r[2] \in Numbers128 /\ r[3] \in Numbers128
  BY <1>2
<1>5. t1 \in Numbers128 /\ t2 \in Numbers128 /\ t3 \in Numbers128 /\ t \in Numbers128
  <2>1. t1 \in Numbers128
    BY <1>4, ZeroIs, AddType
  <2>2. t2 \in Numbers128
    BY <1>4, <2>1, AddType
  <2>3. t3 \in Numbers128
    BY <1>4, <2>2, AddType
  <2>4. Add(t3, r[3], checked) \in Numbers128
    BY <1>4, <2>3, AddType
  <2> QED
    BY <1>3, <2>1, <2>2, <2>3, <2>4, Zenon
<1> PICK x, x1, x2, x3, x4 :
      /\ x = j[4] * (Word * Word) /\ x1 = x + Value(r[0]) /\ x2 = x1 + Value(r[1])
      /\ x3 = x2 + Value(r[2]) /\ x4 = x3 + Value(r[3])
  OBVIOUS
<1>6. j[4] \in Nat
  BY <1>1 DEF ProductOf
<1>7. x \in Nat /\ x1 \in Nat /\ x2 \in Nat /\ x3 \in Nat
  <2>1. x \in Nat
    BY <1>6, WordIs
  <2> QED
    BY <1>4, <2>1, ValueIsNat
<1>8. Keeps128(x, Value(Zero))
  BY <1>6, ZeroIs DEF Keeps128
<1>9. Keeps128(x1, Value(t1))
  BY <1>4, <1>7, <1>8, ZeroIs, AddKeeps
<1>10. Keeps128(x2, Value(t2))
  BY <1>4, <1>5, <1>7, <1>9, AddKeeps
<1>11. Keeps128(x3, Value(t3))
  BY <1>4, <1>5, <1>7, <1>10, AddKeeps
<1>12. Keeps128(x4, Value(t))
  BY <1>3, <1>4, <1>5, <1>7, <1>11, AddKeeps
<1>13. Value(a) * b = x4
  <2> PICK q, w, v : q = Quarters(a) /\ w = Word /\ v = Quarter
    OBVIOUS
  <2>1. /\ v \in Nat /\ w \in Nat /\ w = v * v /\ b \in Nat
        /\ q[1] \in Nat /\ q[2] \in Nat /\ q[3] \in Nat /\ q[4] \in Nat
    BY WordIs, QuartersAre
  <2>2. Value(a) = (v * q[4] + q[3]) * w + (v * q[2] + q[1])
    BY QuartersAre DEF Value
  <2>3. /\ p[1] = q[1] * b /\ p[2] = q[2] * b /\ p[3] = q[3] * b /\ p[4] = q[4] * b
        /\ j[4] \in Nat /\ l[4] \in Nat /\ p[4] = v * j[4] + l[4]
    BY <1>1 DEF ProductOf
  <2>4. IsProduct(v, w, b, q[1], q[2], q[3], q[4], j[4], l[4])
    BY <2>1, <2>3, DigitsProduct
  <2>5. x4 = (((j[4] * (w * w) + p[1]) + p[2] * v) + p[3] * w) + (l[4] * v) * w
    BY <1>2
  <2> QED
    BY <2>2, <2>3, <2>4, <2>5 DEF IsProduct
<1> QED
  BY <1>5, <1>12, <1>13

\* A digit more: what has been read times the base, and the digit.
LEMMA NextDigitKeeps ==
  ASSUME NEW n \in Numbers128, NEW base \in Nat \ {0}, base < Quarter,
         NEW digit \in 0 .. base - 1, NEW checked \in BOOLEAN,
         NEW r, r = NextDigit(n, digit, base, checked)
  PROVE  r \in Numbers128 /\ Keeps128(Value(n) * base + digit, Value(r))
<1> PICK t, d : t = Mul(n, Parts(0, base), checked) /\ d = Parts(0, digit)
  OBVIOUS
<1>1. t \in Numbers128 /\ Keeps128(Value(n) * base, Value(t))
  BY MulKeeps
<1>2. d \in Numbers128 /\ Value(d) = digit
  <2>1. 0 \in 0 .. Word - 1 /\ digit \in 0 .. Word - 1
    BY WordIs
  <2>2. d \in Numbers128 /\ Value(d) = 0 * Word + digit
    BY <2>1, PartsValue
  <2> QED
    BY <2>1, <2>2, WordIs
<1>3. r = Add(t, d, checked)
  BY DEF NextDigit
<1>4. r \in Numbers128
  BY <1>1, <1>2, <1>3, AddType
<1>5. Value(n) * base \in Nat
  BY ValueIsNat
<1>6. Keeps128(Value(n) * base + Value(d), Value(r))
  BY <1>1, <1>2, <1>3, <1>5, AddKeeps
<1> QED
  BY <1>2, <1>4, <1>6

\* In a release build nothing panics.
LEMMA ReleaseReads ==
  ASSUME NEW n \in Numbers128, NEW base \in Nat \ {0}, base < Quarter,
         NEW digit \in 0 .. base - 1
  PROVE  ~NextDigit(n, digit, base, FALSE).panicked
<1>1. PICK p, j, l : ProductOf(n, base, p, j, l)
  BY ProductExists
<1> PICK r, t1, t2, t3, t, d, s :
      /\ r = Rows(n, Parts(0, base)) /\ t1 = Add(Zero, r[0], FALSE)
      /\ t2 = Add(t1, r[1], FALSE) /\ t3 = Add(t2, r[2], FALSE)
      /\ t = Add(t3, r[3], FALSE) /\ d = Parts(0, digit) /\ s = Add(t, d, FALSE)
  OBVIOUS
<1>2. /\ r[0] = Parts(0, p[1]) /\ r[1] = Parts(j[2], l[2] * Quarter)
      /\ r[2] = Parts(p[3], 0) /\ r[3] = Parts(l[4] * Quarter, 0)
      /\ \A k \in 0 .. 3 : r[k] \in Numbers128
      /\ \A k \in 4 .. 15 : r[k] = Zero
  BY <1>1, RowValues
<1>3. s = NextDigit(n, digit, base, FALSE)
  BY <1>2, MulIs DEF NextDigit
<1>4. r[0] \in Numbers128 /\ r[1] \in Numbers128 /\ r[2] \in Numbers128 /\ r[3] \in Numbers128
  BY <1>2
<1>5. ~r[0].panicked /\ ~r[1].panicked /\ ~r[2].panicked /\ ~r[3].panicked /\ ~d.panicked
  BY <1>2 DEF Parts
<1>6. d \in Numbers128
  BY WordIs DEF Parts, Numbers128
<1>7. ASSUME NEW a \in Numbers128, NEW b \in Numbers128, ~a.panicked, ~b.panicked
      PROVE  Add(a, b, FALSE) \in Numbers128 /\ ~Add(a, b, FALSE).panicked
  <2>1. IsSumOf(Add(a, b, FALSE), a, b, FALSE)
    BY AddIs
  <2> QED
    BY <1>7, <2>1 DEF IsSumOf
<1>8. t1 \in Numbers128 /\ ~t1.panicked
  BY <1>4, <1>5, <1>7, ZeroIs
<1>9. t2 \in Numbers128 /\ ~t2.panicked
  BY <1>4, <1>5, <1>7, <1>8
<1>10. t3 \in Numbers128 /\ ~t3.panicked
  BY <1>4, <1>5, <1>7, <1>9
<1>11. t \in Numbers128 /\ ~t.panicked
  BY <1>4, <1>5, <1>7, <1>10
<1>12. ~s.panicked
  BY <1>5, <1>6, <1>7, <1>11
<1> QED
  BY <1>3, <1>12

-----------------------------------------------------------------------------
(* A base that divides Quarter never lets a sum wrap around.               *)

\* What a multiple of b leaves in a digit leaves room for b - 1.
LEMMA RoomForADigit ==
  ASSUME NEW q \in Nat \ {0}, NEW b \in Nat \ {0}, q % b = 0, NEW x \in Nat,
         NEW p, p = x * b, NEW j \in Nat, NEW l \in Nat, p = q * j + l, l < q
  PROVE  l <= q - b
<1> PICK m : m = q \div b
  OBVIOUS
<1>1. m \in Nat /\ q = b * m
  <2>1. q \div b \in Nat /\ q = b * (q \div b) + (q % b)
    BY Quotient
  <2> PICK e : e = b * m
    OBVIOUS
  <2>2. m \in Nat /\ q = e + 0 /\ e \in Nat
    BY <2>1
  <2> QED
    BY <2>2
<1> PICK y : y = m * j
  OBVIOUS
<1>2. y \in Nat /\ q * j = b * y
  <2>1. y \in Nat
    BY <1>1
  <2>2. (b * m) * j = b * (m * j)
    BY <1>1
  <2> QED
    BY <1>1, <2>1, <2>2
<1>3. b * x = b * y + l
  <2>1. x * b = b * x
    OBVIOUS
  <2> QED
    BY <1>2, <2>1
<1>4. x >= y
  <2>1. ASSUME x < y
        PROVE  FALSE
    <3> PICK d : d = y - x
      OBVIOUS
    <3>1. d \in Nat /\ d > 0 /\ y = x + d
      BY <1>2, <2>1
    <3>2. b * y = b * x + b * d /\ b * d >= b /\ b * x \in Nat /\ b * d \in Nat
      BY <3>1, Distributes, AtLeastAFactor
    <3> QED
      BY <1>3, <3>2
  <2> QED
    BY <1>2, <2>1
<1> PICK d : d = x - y
  OBVIOUS
<1>5. d \in Nat /\ x = y + d
  BY <1>2, <1>4
<1>6. l = b * d
  <2>1. b * x = b * y + b * d /\ b * y \in Nat /\ b * d \in Nat
    BY <1>2, <1>5, Distributes
  <2> QED
    BY <1>3, <2>1
<1>7. d < m
  <2>1. m <= d => b * m <= b * d
    BY <1>1, <1>5, Monotone
  <2> QED
    BY <1>1, <1>5, <1>6, <2>1
<1> PICK e : e = m - d
  OBVIOUS
<1>8. e \in Nat /\ e > 0 /\ m = d + e
  BY <1>1, <1>5, <1>7
<1>9. b * m = b * d + b * e /\ b * e >= b /\ b * d \in Nat /\ b * e \in Nat
  BY <1>5, <1>8, Distributes, AtLeastAFactor
<1> QED
  BY <1>1, <1>6, <1>9

FitIn(w, q, b, p1, j2, p3, l2, l4) ==
  /\ p1 + l2 * q <= w - b /\ (j2 + p3) + l4 * q < w
  /\ l2 * q \in Nat

\* The low halves of the rows and their high halves add up without a carry.
LEMMA SumsFit ==
  ASSUME NEW q \in Nat \ {0}, NEW w \in Nat, w = q * q, NEW b \in Nat \ {0}, b < q,
         NEW p1 \in Nat, p1 <= q * b - b, NEW p3 \in Nat, p3 <= q * b - b,
         NEW j2 \in Nat, j2 < b,
         NEW l2 \in Nat, l2 <= q - b, NEW l4 \in Nat, l4 <= q - b
  PROVE  FitIn(w, q, b, p1, j2, p3, l2, l4)
<1> PICK u, y2, y4 : u = q * b /\ y2 = l2 * q /\ y4 = l4 * q
  OBVIOUS
<1>2. u \in Nat /\ y2 \in Nat /\ y4 \in Nat
  OBVIOUS
<1>3. u <= w
  BY Monotone
<1>5. y2 <= w - u /\ y4 <= w - u
  <2>1. q - b \in Nat
    OBVIOUS
  <2>2. l2 * q <= (q - b) * q /\ l4 * q <= (q - b) * q
    BY <2>1, Monotone
  <2>3. (q - b) * q = w - u
    OBVIOUS
  <2> QED
    BY <2>2, <2>3
<1>6. p1 + y2 <= w - b /\ (j2 + p3) + y4 < w
  BY <1>2, <1>3, <1>5
<1> QED
  BY <1>2, <1>6 DEF FitIn

LEMMA ProductBelow ==
  ASSUME NEW q \in Nat \ {0}, NEW x \in Nat, x < q, NEW b \in Nat
  PROVE  x * b <= q * b - b
<1>1. q - 1 \in Nat /\ x <= q - 1
  OBVIOUS
<1>2. x * b <= (q - 1) * b
  BY <1>1, Monotone
<1>3. (q - 1) * b = q * b - b
  OBVIOUS
<1> QED
  BY <1>2, <1>3

LEMMA FittingSum ==
  ASSUME NEW a \in Numbers128, NEW b \in Numbers128, NEW checked \in BOOLEAN,
         ~a.panicked, ~b.panicked,
         NEW h, NEW l, a.high + b.high = h, a.low + b.low = l, h < Word, l < Word,
         NEW r, r = Add(a, b, checked)
  PROVE  r \in Numbers128 /\ r.high = h /\ r.low = l /\ ~r.panicked
<1>1. IsSumOf(r, a, b, checked)
  BY AddIs
<1>2. a.low + b.low < Word /\ a.high + b.high < Word
  OBVIOUS
<1> QED
  BY <1>1, <1>2 DEF IsSumOf

LEMMA FittingSums ==
  ASSUME NEW r0 \in Numbers128, NEW r1 \in Numbers128, NEW r2 \in Numbers128,
         NEW r3 \in Numbers128, NEW d \in Numbers128, NEW checked \in BOOLEAN,
         r0.high = 0, r2.low = 0, r3.low = 0, d.high = 0,
         (r0.low + r1.low) + d.low < Word, (r1.high + r2.high) + r3.high < Word,
         ~r0.panicked, ~r1.panicked, ~r2.panicked, ~r3.panicked, ~d.panicked
  PROVE  ~Add(Add(Add(Add(Add(Zero, r0, checked), r1, checked), r2, checked), r3, checked), d,
              checked).panicked
<1> PICK t1, t2, t3, t, s :
      /\ t1 = Add(Zero, r0, checked) /\ t2 = Add(t1, r1, checked)
      /\ t3 = Add(t2, r2, checked) /\ t = Add(t3, r3, checked) /\ s = Add(t, d, checked)
  OBVIOUS
<1> PICK p1, j2, p3, y2, y4, digit :
      /\ p1 = r0.low /\ j2 = r1.high /\ y2 = r1.low /\ p3 = r2.high /\ y4 = r3.high
      /\ digit = d.low
  OBVIOUS
<1>a. /\ p1 \in Nat /\ j2 \in Nat /\ y2 \in Nat /\ p3 \in Nat /\ y4 \in Nat /\ digit \in Nat
  BY WordIs DEF Numbers128
<1>0. Word \in Nat
  BY WordIs
<1>1. /\ 0 + 0 = 0 /\ 0 + p1 = p1 /\ 0 < Word /\ p1 < Word
      /\ 0 + j2 = j2 /\ j2 < Word /\ p1 + y2 < Word
      /\ (p1 + y2) + 0 = p1 + y2 /\ j2 + p3 < Word
      /\ ((j2 + p3) + y4) + 0 = (j2 + p3) + y4
  BY <1>0, <1>a
<1>2. t1 \in Numbers128 /\ t1.high = 0 /\ t1.low = p1 /\ ~t1.panicked
  <2>1. Zero.high + r0.high = 0 /\ Zero.low + r0.low = p1
    BY <1>1, ZeroIs
  <2> QED
    BY <1>1, <2>1, ZeroIs, FittingSum
<1>3. t2 \in Numbers128 /\ t2.high = j2 /\ t2.low = p1 + y2 /\ ~t2.panicked
  <2>1. t1.high + r1.high = j2 /\ t1.low + r1.low = p1 + y2
    BY <1>1, <1>2
  <2> QED
    BY <1>1, <1>2, <2>1, FittingSum
<1>4. t3 \in Numbers128 /\ t3.high = j2 + p3 /\ t3.low = p1 + y2 /\ ~t3.panicked
  <2>1. t2.high + r2.high = j2 + p3 /\ t2.low + r2.low = p1 + y2
    BY <1>1, <1>3
  <2> QED
    BY <1>1, <1>3, <2>1, FittingSum
<1>5. t \in Numbers128 /\ t.high = (j2 + p3) + y4 /\ t.low = p1 + y2 /\ ~t.panicked
  <2>1. t3.high + r3.high = (j2 + p3) + y4 /\ t3.low + r3.low = p1 + y2
    BY <1>1, <1>4
  <2> QED
    BY <1>1, <1>4, <2>1, FittingSum
<1>6. t.high + d.high = (j2 + p3) + y4 /\ t.low + d.low = (p1 + y2) + digit
  BY <1>1, <1>5
<1>7. ~s.panicked
  BY <1>5, <1>6, FittingSum
<1> QED
  BY <1>7

LEMMA ProductFits ==
  ASSUME NEW n \in Numbers128, NEW base \in Nat \ {0}, base < Quarter, Quarter % base = 0,
         NEW p, NEW j, NEW l, ProductOf(n, base, p, j, l)
  PROVE  /\ p[1] + l[2] * Quarter <= Word - base
         /\ (j[2] + p[3]) + l[4] * Quarter < Word
         /\ p[1] \in Nat /\ l[2] * Quarter \in Nat
<1> PICK x1, x2, x3, x4, p1, j2, p3, p2, p4, l2, j4, l4 :
      /\ x1 = Quarters(n)[1] /\ x2 = Quarters(n)[2]
      /\ x3 = Quarters(n)[3] /\ x4 = Quarters(n)[4]
      /\ p1 = p[1] /\ p2 = p[2] /\ p3 = p[3] /\ p4 = p[4]
      /\ j2 = j[2] /\ j4 = j[4] /\ l2 = l[2] /\ l4 = l[4]
  OBVIOUS
<1>1. 1 \in 1 .. 4 /\ 2 \in 1 .. 4 /\ 3 \in 1 .. 4 /\ 4 \in 1 .. 4
  OBVIOUS
<1>2. /\ x1 \in Nat /\ x2 \in Nat /\ x3 \in Nat /\ x4 \in Nat /\ x1 < Quarter /\ x3 < Quarter
  BY <1>1, QuartersAre
<1>3. /\ p1 = x1 * base /\ p2 = x2 * base /\ p3 = x3 * base /\ p4 = x4 * base
      /\ p1 \in 0 .. Word - 1 /\ p2 \in 0 .. Word - 1
      /\ p3 \in 0 .. Word - 1 /\ p4 \in 0 .. Word - 1
      /\ j2 \in Nat /\ l2 \in Nat /\ p2 = Quarter * j2 + l2 /\ j2 < base /\ l2 < Quarter
      /\ j4 \in Nat /\ l4 \in Nat /\ p4 = Quarter * j4 + l4 /\ l4 < Quarter
  BY <1>1 DEF ProductOf
<1>4. /\ Quarter \in Nat \ {0} /\ Word \in Nat /\ Word = Quarter * Quarter
      /\ p1 \in Nat /\ p2 \in Nat /\ p3 \in Nat /\ p4 \in Nat
  BY <1>3, WordIs
<1>5. l2 <= Quarter - base /\ l4 <= Quarter - base
  BY <1>2, <1>3, <1>4, RoomForADigit
<1>6. p1 <= Quarter * base - base /\ p3 <= Quarter * base - base
  BY <1>2, <1>3, <1>4, ProductBelow
<1>7. j2 \in Nat /\ j2 < base /\ l2 \in Nat /\ l4 \in Nat
  BY <1>3
<1>8. FitIn(Word, Quarter, base, p1, j2, p3, l2, l4)
  BY <1>4, <1>5, <1>6, <1>7, SumsFit
<1> QED
  BY <1>4, <1>8 DEF FitIn

\* Reading a digit does not panic in a base that divides Quarter.
LEMMA NothingWraps ==
  ASSUME NEW n \in Numbers128, NEW base \in Nat \ {0}, base < Quarter, Quarter % base = 0,
         NEW digit \in 0 .. base - 1, NEW checked \in BOOLEAN, ~n.panicked
  PROVE  ~NextDigit(n, digit, base, checked).panicked
<1>1. PICK p, j, l : ProductOf(n, base, p, j, l)
  BY ProductExists
<1> PICK r, t1, t2, t3, t, d, s :
      /\ r = Rows(n, Parts(0, base)) /\ t1 = Add(Zero, r[0], checked)
      /\ t2 = Add(t1, r[1], checked) /\ t3 = Add(t2, r[2], checked)
      /\ t = Add(t3, r[3], checked) /\ d = Parts(0, digit) /\ s = Add(t, d, checked)
  OBVIOUS
<1>2. /\ r[0] = Parts(0, p[1]) /\ r[1] = Parts(j[2], l[2] * Quarter)
      /\ r[2] = Parts(p[3], 0) /\ r[3] = Parts(l[4] * Quarter, 0)
      /\ \A k \in 0 .. 3 : r[k] \in Numbers128
      /\ \A k \in 4 .. 15 : r[k] = Zero
  BY <1>1, RowValues
<1>3. s = NextDigit(n, digit, base, checked)
  BY <1>2, MulIs DEF NextDigit
<1>4. r[0] \in Numbers128 /\ r[1] \in Numbers128 /\ r[2] \in Numbers128 /\ r[3] \in Numbers128
  BY <1>2
<1>5. /\ p[1] + l[2] * Quarter <= Word - base
      /\ (j[2] + p[3]) + l[4] * Quarter < Word
      /\ p[1] \in Nat /\ l[2] * Quarter \in Nat
  BY <1>1, ProductFits
<1>6. /\ r[0].high = 0 /\ r[0].low = p[1] /\ ~r[0].panicked
      /\ r[1].high = j[2] /\ r[1].low = l[2] * Quarter /\ ~r[1].panicked
      /\ r[2].high = p[3] /\ r[2].low = 0 /\ ~r[2].panicked
      /\ r[3].high = l[4] * Quarter /\ r[3].low = 0 /\ ~r[3].panicked
      /\ d.high = 0 /\ d.low = digit /\ ~d.panicked
  BY <1>2 DEF Parts
<1>7. d \in Numbers128
  BY WordIs DEF Parts, Numbers128
<1>8. (r[0].low + r[1].low) + d.low < Word
  <2> PICK x, y : x = p[1] /\ y = l[2] * Quarter
    OBVIOUS
  <2>1. x + y <= Word - base /\ x \in Nat /\ y \in Nat
    BY <1>5
  <2>2. (x + y) + digit < Word
    BY <2>1, WordIs
  <2> QED
    BY <1>6, <2>2
<1>9. (r[1].high + r[2].high) + r[3].high < Word
  BY <1>5, <1>6
<1>10. ~s.panicked
  BY <1>4, <1>6, <1>7, <1>8, <1>9, FittingSums
<1> QED
  BY <1>3, <1>10

-----------------------------------------------------------------------------
(* What a text means.                                                      *)

IsNumber(F, text, base, n) ==
  F = [i \in 0 .. n |-> IF i = 0 THEN 0 ELSE F[i - 1] * base + text[i]]

LEMMA NumberExists ==
  ASSUME NEW text, NEW base, NEW n \in Nat
  PROVE  \E F : IsNumber(F, text, base, n)
<1> DEFINE None == {m \in Nat : ~ \E F : IsNumber(F, text, base, m)}
<1>1. SUFFICES ASSUME None # {}
               PROVE  FALSE
  OBVIOUS
<1>2. PICK m \in None : \A k \in None : m <= k
  BY <1>1, LeastNumber
<1>3. m \in Nat /\ ~ \E F : IsNumber(F, text, base, m)
  BY <1>2
<1>4. m # 0
  <2>1. ASSUME m = 0
        PROVE  FALSE
    <3> PICK F : F = [k \in 0 .. 0 |-> 0]
      OBVIOUS
    <3>1. IsNumber(F, text, base, 0)
      BY DEF IsNumber
    <3> QED
      BY <1>3, <2>1, <3>1
  <2> QED
    BY <2>1
<1>5. m - 1 \in Nat /\ ~ (m <= m - 1)
  BY <1>3, <1>4
<1>6. PICK G : IsNumber(G, text, base, m - 1)
  BY <1>2, <1>5
<1> PICK F : F = [k \in 0 .. m |-> IF k = m THEN G[m - 1] * base + text[m] ELSE G[k]]
  OBVIOUS
<1>7. ASSUME NEW k \in 0 .. m
      PROVE  F[k] = IF k = 0 THEN 0 ELSE F[k - 1] * base + text[k]
  <2>1. k # 0 => k - 1 \in 0 .. m /\ k - 1 # m /\ F[k - 1] = G[k - 1]
    BY <1>3
  <2>2. CASE k = m
    BY <1>4, <2>1, <2>2
  <2>3. CASE k # m
    <3>1. k \in 0 .. m - 1 /\ F[k] = G[k]
      BY <1>3, <2>3
    <3>2. G[k] = IF k = 0 THEN 0 ELSE G[k - 1] * base + text[k]
      BY <1>6, <3>1 DEF IsNumber
    <3> QED
      BY <2>1, <3>1, <3>2
  <2> QED
    BY <2>2, <2>3
<1>8. IsNumber(F, text, base, m)
  BY <1>7 DEF IsNumber
<1> QED
  BY <1>3, <1>8

\* What the recursive function in NumberOf computes.
LEMMA NumberOfIs ==
  ASSUME NEW text, NEW base, Len(text) \in Nat
  PROVE  \E F : IsNumber(F, text, base, Len(text)) /\ NumberOf(text, base) = F[Len(text)]
<1> DEFINE F == CHOOSE f : IsNumber(f, text, base, Len(text))
<1>1. IsNumber(F, text, base, Len(text))
  BY NumberExists
<1>2. NumberOf(text, base) = F[Len(text)]
  BY DEF NumberOf, IsNumber
<1> QED
  BY <1>1, <1>2

\* A text of digits.
Digits(base) == Seq(0 .. base - 1)

LEMMA NumbersOfDigits ==
  ASSUME NEW base \in Nat, NEW text \in Digits(base), NEW F, NEW n \in Nat,
         n <= Len(text), IsNumber(F, text, base, n)
  PROVE  \A i \in 0 .. n : F[i] \in Nat
<1> DEFINE Bad == {i \in 0 .. n : F[i] \notin Nat}
<1>1. SUFFICES ASSUME Bad # {}
               PROVE  FALSE
  OBVIOUS
<1>a. Bad \subseteq Nat
  OBVIOUS
<1>2. PICK m \in Bad : \A k \in Bad : m <= k
  BY <1>1, <1>a, LeastNumber
<1>3. m \in 0 .. n /\ F[m] \notin Nat
  BY <1>2
<1>4. F[m] = IF m = 0 THEN 0 ELSE F[m - 1] * base + text[m]
  BY <1>3 DEF IsNumber
<1>5. m # 0 /\ m - 1 \in 0 .. n /\ ~ (m <= m - 1)
  BY <1>3, <1>4
<1>6. F[m - 1] \in Nat
  BY <1>2, <1>5
<1>7. text[m] \in 0 .. base - 1
  <2>1. m \in 1 .. Len(text) /\ text \in Seq(0 .. base - 1)
    BY <1>3, <1>5, LenProperties DEF Digits
  <2> QED
    BY <2>1, ElementOfSeq
<1> QED
  BY <1>3, <1>4, <1>5, <1>6, <1>7

LEMMA NumberIsNat ==
  ASSUME NEW base \in Nat, NEW text \in Digits(base)
  PROVE  NumberOf(text, base) \in Nat
<1>1. Len(text) \in Nat
  BY LenProperties DEF Digits
<1>2. PICK F : IsNumber(F, text, base, Len(text)) /\ NumberOf(text, base) = F[Len(text)]
  BY <1>1, NumberOfIs
<1>3. Len(text) \in 0 .. Len(text)
  BY <1>1
<1> QED
  BY <1>1, <1>2, <1>3, NumbersOfDigits

LEMMA NumberOfNothing ==
  ASSUME NEW base
  PROVE  NumberOf(<<>>, base) = 0
<1>1. Len(<<>>) = 0
  OBVIOUS
<1>2. PICK F : IsNumber(F, <<>>, base, 0) /\ NumberOf(<<>>, base) = F[0]
  BY <1>1, NumberOfIs
<1> QED
  BY <1>2 DEF IsNumber

Agree(s, t, from, n) == \A i \in from .. n : s[i] = t[i]

\* Of two texts that begin alike the numbers begin alike.
LEMMA NumbersAgree ==
  ASSUME NEW s, NEW t, NEW base, NEW n \in Nat, NEW m \in Nat, n <= m,
         Agree(s, t, 1, n),
         NEW F, NEW G, IsNumber(F, s, base, n), IsNumber(G, t, base, m)
  PROVE  Agree(F, G, 0, n)
<1> DEFINE Bad == {i \in 0 .. n : F[i] # G[i]}
<1>1. SUFFICES ASSUME Bad # {}
               PROVE  FALSE
  BY DEF Agree
<1>a. Bad \subseteq Nat
  OBVIOUS
<1>2. PICK k \in Bad : \A i \in Bad : k <= i
  BY <1>1, <1>a, LeastNumber
<1>3. k \in 0 .. n /\ k \in 0 .. m /\ F[k] # G[k]
  BY <1>2
<1>4. F[k] = IF k = 0 THEN 0 ELSE F[k - 1] * base + s[k]
  BY <1>3 DEF IsNumber
<1>5. G[k] = IF k = 0 THEN 0 ELSE G[k - 1] * base + t[k]
  BY <1>3 DEF IsNumber
<1>6. k # 0 /\ k - 1 \in 0 .. n /\ k \in 1 .. n /\ ~ (k <= k - 1)
  BY <1>3, <1>4, <1>5
<1>7. F[k - 1] = G[k - 1] /\ s[k] = t[k]
  BY <1>2, <1>6 DEF Agree
<1> QED
  BY <1>3, <1>4, <1>5, <1>6, <1>7

\* A digit more in a text.
LEMMA NumberOfAppend ==
  ASSUME NEW base \in Nat, NEW text \in Digits(base), NEW digit \in 0 .. base - 1
  PROVE  /\ Append(text, digit) \in Digits(base)
         /\ NumberOf(Append(text, digit), base) = NumberOf(text, base) * base + digit
<1> PICK t, n : t = Append(text, digit) /\ n = Len(text)
  OBVIOUS
<1>1. /\ n \in Nat /\ t \in Digits(base) /\ Len(t) = n + 1 /\ t[n + 1] = digit
      /\ Agree(text, t, 1, n)
  BY LenProperties, AppendProperties DEF Digits, Agree
<1>2. PICK F : IsNumber(F, text, base, n) /\ NumberOf(text, base) = F[n]
  BY <1>1, NumberOfIs
<1>b. n + 1 \in Nat /\ n <= n + 1 /\ n \in 0 .. n /\ Len(t) \in Nat
  BY <1>1
<1>a. PICK G : IsNumber(G, t, base, Len(t)) /\ NumberOf(t, base) = G[Len(t)]
  BY <1>b, NumberOfIs
<1>3. IsNumber(G, t, base, n + 1) /\ NumberOf(t, base) = G[n + 1]
  BY <1>1, <1>a
<1>c. Agree(F, G, 0, n)
  BY <1>1, <1>2, <1>3, <1>b, NumbersAgree
<1>4. F[n] = G[n]
  BY <1>b, <1>c DEF Agree
<1>5. G[n + 1] = G[n] * base + digit
  <2>1. n + 1 \in 0 .. n + 1 /\ n + 1 # 0 /\ (n + 1) - 1 = n
    BY <1>1
  <2>2. G[n + 1] = IF n + 1 = 0 THEN 0 ELSE G[(n + 1) - 1] * base + t[n + 1]
    BY <1>3, <2>1 DEF IsNumber
  <2> QED
    BY <1>1, <2>1, <2>2
<1> QED
  BY <1>1, <1>2, <1>3, <1>4, <1>5

\* What is left of a number is what is left of it modulo what two halves hold.
LEMMA KeepsIsModulo ==
  ASSUME NEW x \in Nat, NEW n \in Numbers128
  PROVE  Keeps128(x, Value(n)) <=> Value(n) = x % (Word * Word)
<1> PICK M, v : M = Word * Word /\ v = Value(n)
  OBVIOUS
<1>1. M \in Nat \ {0} /\ v \in Nat /\ v < M
  <2>1. v \in Nat /\ v < M
    BY ValueIsNat
  <2>2. M \in Nat
    BY WordIs
  <2> QED
    BY <2>1, <2>2
<1>2. ASSUME NEW k \in Nat, x = v + k * M
      PROVE  x % M = v
  <2>1. x = M * k + v
    BY <1>1, <1>2
  <2>2. (M * k + v) % M = v
    BY <1>1, WhatIsLeft
  <2> QED
    BY <2>1, <2>2
<1>3. ASSUME v = x % M
      PROVE  \E k \in Nat : x = v + k * M
  <2>1. x \div M \in Nat /\ x = M * (x \div M) + (x % M)
    BY <1>1, Quotient
  <2> PICK k : k = x \div M
    OBVIOUS
  <2>2. k \in Nat /\ x = M * k + v
    BY <1>3, <2>1
  <2>3. M * k = k * M
    BY <1>1, <2>2
  <2>4. x = v + k * M
    BY <1>1, <2>2, <2>3
  <2> QED
    BY <2>2, <2>4
<1> QED
  BY <1>2, <1>3 DEF Keeps128

\* What is kept of a number is enough for what is kept of the next.
LEMMA KeepsTheNext ==
  ASSUME NEW x \in Nat, NEW y \in Nat, Keeps128(x, y), NEW base \in Nat, NEW digit \in Nat,
         NEW z \in Nat, Keeps128(y * base + digit, z)
  PROVE  Keeps128(x * base + digit, z)
<1> PICK M : M = Word * Word
  OBVIOUS
<1>1. M \in Nat
  BY WordIs
<1>2. PICK k \in Nat : x = y + k * M
  BY DEF Keeps128
<1>3. PICK l \in Nat : y * base + digit = z + l * M
  BY DEF Keeps128
<1>4. \E e, p, q, r : e = x * base /\ p = y * base /\ q = (k * base) * M /\ r = l * M
  OBVIOUS
<1>5. PICK e, p, q, r : e = x * base /\ p = y * base /\ q = (k * base) * M /\ r = l * M
  BY <1>4
<1>6. p \in Nat /\ q \in Nat /\ r \in Nat
  BY <1>1, <1>5
<1>7. e = p + q
  <2>1. (y + k * M) * base = y * base + (k * base) * M
    BY <1>1
  <2> QED
    BY <1>2, <1>5, <2>1
<1>8. p + digit = z + r
  BY <1>3, <1>5
<1>9. e + digit = z + (q + r)
  BY <1>6, <1>7, <1>8
<1>10. q + r = (k * base + l) * M /\ k * base + l \in Nat
  BY <1>1, <1>5
<1>11. e + digit = z + (k * base + l) * (Word * Word)
  BY <1>9, <1>10, Zenon
<1>12. Keeps128(e + digit, z)
  BY <1>10, <1>11, Zenon DEF Keeps128
<1> QED
  BY <1>5, <1>12, Zenon

\* A digit is read into a number, or reading it panics.
LEMMA ReadsADigit ==
  ASSUME NEW base \in {HexBase, WordBase}, NEW text \in Digits(base),
         NEW digit \in 0 .. base - 1, NEW n \in Numbers128, NEW checked \in BOOLEAN,
         ~n.panicked, Value(n) = NumberOf(text, base) % (Word * Word),
         NEW r, r = NextDigit(n, digit, base, checked)
  PROVE  /\ r \in Numbers128
         /\ r.panicked => checked /\ base = WordBase
         /\ Value(r) = NumberOf(Append(text, digit), base) % (Word * Word)
<1>1. base \in Nat \ {0} /\ base < Quarter /\ (base # WordBase => Quarter % base = 0)
  BY NumbersAssumption
<1>2. r \in Numbers128 /\ Keeps128(Value(n) * base + digit, Value(r))
  BY <1>1, NextDigitKeeps
<1>3. r.panicked => checked /\ base = WordBase
  <2>1. CASE ~checked
    <3>1. checked = FALSE
      BY <2>1
    <3> QED
      BY <1>1, <3>1, ReleaseReads
  <2>2. CASE base # WordBase
    BY <1>1, <2>2, NothingWraps
  <2> QED
    BY <2>1, <2>2
<1> PICK x, y : x = NumberOf(text, base) /\ y = NumberOf(Append(text, digit), base)
  OBVIOUS
<1>4. x \in Nat /\ y = x * base + digit /\ y \in Nat
  BY <1>1, NumberIsNat, NumberOfAppend
<1>5. Keeps128(x, Value(n))
  BY <1>4, KeepsIsModulo
<1>6. Keeps128(y, Value(r))
  BY <1>1, <1>2, <1>4, <1>5, ValueIsNat, KeepsTheNext
<1>7. Value(r) = y % (Word * Word)
  BY <1>2, <1>4, <1>6, KeepsIsModulo
<1> QED
  BY <1>2, <1>3, <1>7

\* What the bytes of an id stand for.
LEMMA FourBytes ==
  ASSUME NEW gid \in Ids
  PROVE  /\ gid \in Digits(Quarter)
         /\ NumberOf(gid, Quarter) =
              ((gid[1] * Quarter + gid[2]) * Quarter + gid[3]) * Quarter + gid[4]
<1>1. gid \in Digits(Quarter) /\ Len(gid) = 4
  <2>1. gid \in Seq(0 .. Quarter - 1)
    <3> PICK a, b, c, d : a = gid[1] /\ b = gid[2] /\ c = gid[3] /\ d = gid[4]
      OBVIOUS
    <3> PICK s : s = <<a, b, c, d>>
      OBVIOUS
    <3>1. /\ a \in 0 .. Quarter - 1 /\ b \in 0 .. Quarter - 1
          /\ c \in 0 .. Quarter - 1 /\ d \in 0 .. Quarter - 1
      BY DEF Ids, IdBytes
    <3>2. s \in Seq(0 .. Quarter - 1)
      BY <3>1
    <3>3. s = [i \in 1 .. 4 |-> s[i]] /\ gid = [i \in 1 .. 4 |-> gid[i]]
      BY DEF Ids, IdBytes
    <3>4. \A i \in 1 .. 4 : gid[i] = s[i]
      OBVIOUS
    <3>5. gid = s
      BY <3>3, <3>4
    <3> QED
      BY <3>2, <3>5
  <2> PICK n : n = Len(gid)
    OBVIOUS
  <2>2. n \in Nat /\ 1 .. n = 1 .. 4
    <3>1. DOMAIN gid = 1 .. 4
      BY DEF Ids, IdBytes
    <3>2. Len(gid) \in Nat /\ DOMAIN gid = 1 .. Len(gid)
      BY <2>1, LenProperties
    <3> QED
      BY <3>1, <3>2
  <2>3. 4 \in 1 .. n /\ (n > 4 => n \in 1 .. n)
    BY <2>2
  <2>4. n = 4
    BY <2>2, <2>3
  <2> QED
    BY <2>1, <2>4 DEF Digits
<1>a. Len(gid) \in Nat
  BY <1>1
<1>b. PICK F : IsNumber(F, gid, Quarter, Len(gid)) /\ NumberOf(gid, Quarter) = F[Len(gid)]
  BY <1>a, NumberOfIs
<1>2. IsNumber(F, gid, Quarter, 4) /\ NumberOf(gid, Quarter) = F[4]
  BY <1>1, <1>b
<1>3. \A i \in 0 .. 4 : F[i] = IF i = 0 THEN 0 ELSE F[i - 1] * Quarter + gid[i]
  BY <1>2 DEF IsNumber
<1>4. gid[1] \in Nat
  BY WordIs DEF Ids, IdBytes
<1>5. F[0] = 0 /\ F[1] = gid[1]
  <2>1. F[0] = 0 /\ F[1] = F[0] * Quarter + gid[1]
    BY <1>3
  <2>2. 0 * Quarter + gid[1] = gid[1]
    BY <1>4, WordIs
  <2> QED
    BY <2>1, <2>2
<1>6. /\ F[2] = F[1] * Quarter + gid[2] /\ F[3] = F[2] * Quarter + gid[3]
      /\ F[4] = F[3] * Quarter + gid[4]
  BY <1>3
<1> QED
  BY <1>1, <1>2, <1>5, <1>6

\* An id from bytes is the number that they stand for.
LEMMA RawIsTheNumber ==
  ASSUME NEW gid \in Ids
  PROVE  /\ FromRaw(gid) \in Numbers128 /\ ~FromRaw(gid).panicked
         /\ Value(FromRaw(gid)) = NumberOf(gid, Quarter)
         /\ Value(FromRaw(gid)) = NumberOf(gid, Quarter) % (Word * Word)
<1> PICK Q, W, a, b, c, d : /\ Q = Quarter /\ W = Word
                            /\ a = gid[1] /\ b = gid[2] /\ c = gid[3] /\ d = gid[4]
  OBVIOUS
<1>1. /\ Q \in Nat \ {0} /\ W \in Nat /\ W = Q * Q
      /\ a \in Nat /\ b \in Nat /\ c \in Nat /\ d \in Nat
      /\ a < Q /\ b < Q /\ c < Q /\ d < Q
  BY WordIs DEF Ids, IdBytes
<1> PICK h, l : h = a * Q + b /\ l = c * Q + d
  OBVIOUS
<1>2. h \in Nat /\ h < W /\ l \in Nat /\ l < W
  <2>1. a * Q <= W - Q /\ c * Q <= W - Q /\ a * Q \in Nat /\ c * Q \in Nat
    BY <1>1, ProductBelow
  <2> QED
    BY <1>1, <2>1
<1>3. FromRaw(gid) = Parts(h, l)
  BY DEF FromRaw
<1>4. FromRaw(gid) \in Numbers128 /\ ~FromRaw(gid).panicked /\ Value(FromRaw(gid)) = h * W + l
  <2>1. h \in 0 .. Word - 1 /\ l \in 0 .. Word - 1
    BY <1>1, <1>2
  <2> QED
    BY <1>3, <2>1, PartsValue
<1>5. h * W + l = ((a * Q + b) * Q + c) * Q + d
  <2>1. (a * Q + b) * (Q * Q) + (c * Q + d) = ((a * Q + b) * Q + c) * Q + d
    BY <1>1
  <2> QED
    BY <1>1, <2>1
<1>6. NumberOf(gid, Quarter) = ((a * Q + b) * Q + c) * Q + d
  BY FourBytes
<1>7. Value(FromRaw(gid)) = NumberOf(gid, Quarter)
  BY <1>4, <1>5, <1>6
<1>8. Keeps128(Value(FromRaw(gid)), Value(FromRaw(gid)))
  <2>1. Value(FromRaw(gid)) \in Nat
    BY <1>4, ValueIsNat
  <2> PICK v : v = Value(FromRaw(gid))
    OBVIOUS
  <2>2. v = v + 0 * (Word * Word)
    BY <2>1, WordIs
  <2> QED
    BY <2>2 DEF Keeps128
<1>9. Value(FromRaw(gid)) = NumberOf(gid, Quarter) % (Word * Word)
  BY <1>4, <1>7, <1>8, ValueIsNat, KeepsIsModulo
<1> QED
  BY <1>4, <1>7, <1>9

-----------------------------------------------------------------------------
(* What is written in hexadecimal.                                         *)

IsPower(F, base, n) == F = [i \in 0 .. n |-> IF i = 0 THEN 1 ELSE base * F[i - 1]]

LEMMA PowerExists ==
  ASSUME NEW base, NEW n \in Nat
  PROVE  \E F : IsPower(F, base, n)
<1> DEFINE None == {m \in Nat : ~ \E F : IsPower(F, base, m)}
<1>1. SUFFICES ASSUME None # {}
               PROVE  FALSE
  OBVIOUS
<1>2. PICK m \in None : \A k \in None : m <= k
  BY <1>1, LeastNumber
<1>3. m \in Nat /\ ~ \E F : IsPower(F, base, m)
  BY <1>2
<1>4. m # 0
  <2>1. ASSUME m = 0
        PROVE  FALSE
    <3> PICK F : F = [k \in 0 .. 0 |-> 1]
      OBVIOUS
    <3>1. IsPower(F, base, 0)
      BY DEF IsPower
    <3> QED
      BY <1>3, <2>1, <3>1
  <2> QED
    BY <2>1
<1>5. m - 1 \in Nat /\ ~ (m <= m - 1)
  BY <1>3, <1>4
<1>6. PICK G : IsPower(G, base, m - 1)
  BY <1>2, <1>5
<1> PICK F : F = [k \in 0 .. m |-> IF k = m THEN base * G[m - 1] ELSE G[k]]
  OBVIOUS
<1>7. ASSUME NEW k \in 0 .. m
      PROVE  F[k] = IF k = 0 THEN 1 ELSE base * F[k - 1]
  <2>1. k # 0 => k - 1 \in 0 .. m /\ k - 1 # m /\ F[k - 1] = G[k - 1]
    BY <1>3
  <2>2. CASE k = m
    BY <1>4, <2>1, <2>2
  <2>3. CASE k # m
    <3>1. k \in 0 .. m - 1 /\ F[k] = G[k]
      BY <1>3, <2>3
    <3>2. G[k] = IF k = 0 THEN 1 ELSE base * G[k - 1]
      BY <1>6, <3>1 DEF IsPower
    <3> QED
      BY <2>1, <3>1, <3>2
  <2> QED
    BY <2>2, <2>3
<1>8. IsPower(F, base, m)
  BY <1>7 DEF IsPower
<1> QED
  BY <1>3, <1>8

LEMMA PowerIs ==
  ASSUME NEW base, NEW n \in Nat
  PROVE  \E F : IsPower(F, base, n) /\ Power(base, n) = F[n]
<1> DEFINE F == CHOOSE f : IsPower(f, base, n)
<1>1. IsPower(F, base, n)
  BY PowerExists
<1>2. Power(base, n) = F[n]
  BY DEF Power, IsPower
<1> QED
  BY <1>1, <1>2

LEMMA PowersAgree ==
  ASSUME NEW base, NEW n \in Nat, NEW m \in Nat, n <= m,
         NEW F, NEW G, IsPower(F, base, n), IsPower(G, base, m)
  PROVE  Agree(F, G, 0, n)
<1> DEFINE Bad == {i \in 0 .. n : F[i] # G[i]}
<1>1. SUFFICES ASSUME Bad # {}
               PROVE  FALSE
  BY DEF Agree
<1>2. Bad \subseteq Nat
  OBVIOUS
<1>3. PICK k \in Bad : \A i \in Bad : k <= i
  BY <1>1, <1>2, LeastNumber
<1>4. k \in 0 .. n /\ k \in 0 .. m /\ F[k] # G[k]
  BY <1>3
<1>5. F[k] = IF k = 0 THEN 1 ELSE base * F[k - 1]
  BY <1>4 DEF IsPower
<1>6. G[k] = IF k = 0 THEN 1 ELSE base * G[k - 1]
  BY <1>4 DEF IsPower
<1>7. k # 0 /\ k - 1 \in 0 .. n /\ ~ (k <= k - 1)
  BY <1>4, <1>5, <1>6
<1>8. F[k - 1] = G[k - 1]
  BY <1>3, <1>7
<1> QED
  BY <1>4, <1>5, <1>6, <1>7, <1>8

\* The recursive function in Power, step by step.
LEMMA PowerSteps ==
  ASSUME NEW base
  PROVE  /\ Power(base, 0) = 1
         /\ \A n \in Nat : Power(base, n + 1) = base * Power(base, n)
<1>1. Power(base, 0) = 1
  <2>1. PICK F : IsPower(F, base, 0) /\ Power(base, 0) = F[0]
    BY PowerIs
  <2> QED
    BY <2>1 DEF IsPower
<1>2. ASSUME NEW n \in Nat
      PROVE  Power(base, n + 1) = base * Power(base, n)
  <2>1. n + 1 \in Nat /\ n <= n + 1 /\ n \in 0 .. n
    OBVIOUS
  <2>2. PICK F : IsPower(F, base, n) /\ Power(base, n) = F[n]
    BY PowerIs
  <2>3. PICK G : IsPower(G, base, n + 1) /\ Power(base, n + 1) = G[n + 1]
    BY <2>1, PowerIs
  <2>4. Agree(F, G, 0, n)
    BY <2>1, <2>2, <2>3, PowersAgree
  <2>5. F[n] = G[n]
    BY <2>1, <2>4 DEF Agree
  <2>6. n + 1 \in 0 .. n + 1 /\ n + 1 # 0 /\ (n + 1) - 1 = n
    OBVIOUS
  <2>7. G[n + 1] = IF n + 1 = 0 THEN 1 ELSE base * G[(n + 1) - 1]
    BY <2>3, <2>6 DEF IsPower
  <2> QED
    BY <2>2, <2>3, <2>5, <2>6, <2>7
<1> QED
  BY <1>1, <1>2

LEMMA PowerIsNat ==
  ASSUME NEW base \in Nat \ {0}
  PROVE  \A n \in Nat : Power(base, n) \in Nat \ {0}
<1> DEFINE Bad == {i \in Nat : Power(base, i) \notin Nat \ {0}}
<1>1. SUFFICES ASSUME Bad # {}
               PROVE  FALSE
  OBVIOUS
<1>2. PICK k \in Bad : \A i \in Bad : k <= i
  BY <1>1, LeastNumber
<1>3. k \in Nat /\ Power(base, k) \notin Nat \ {0}
  BY <1>2
<1>4. k # 0
  BY <1>3, PowerSteps
<1>5. k - 1 \in Nat /\ ~ (k <= k - 1) /\ (k - 1) + 1 = k
  BY <1>3, <1>4
<1>6. Power(base, k - 1) \in Nat \ {0}
  BY <1>2, <1>5
<1>7. Power(base, k) = base * Power(base, k - 1)
  BY <1>5, PowerSteps
<1>8. \A x, y \in Nat \ {0} : x * y \in Nat \ {0}
  BY AtLeastAFactor
<1> QED
  BY <1>3, <1>6, <1>7, <1>8

\* The quotient by a power is the quotient by the one before, divided.
LEMMA QuotientOfQuotient ==
  ASSUME NEW h \in Nat, NEW p \in Nat \ {0}, NEW b \in Nat \ {0}
  PROVE  /\ h \div p \in Nat /\ h \div (b * p) \in Nat
         /\ h \div p = (h \div (b * p)) * b + ((h \div p) % b)
         /\ (h \div p) % b \in 0 .. b - 1
<1>1. \E s, q, r, x, d : s = b * p /\ q = h \div p /\ r = h % p /\ x = q \div b /\ d = q % b
  OBVIOUS
<1>2. PICK s, q, r, x, d : s = b * p /\ q = h \div p /\ r = h % p /\ x = q \div b /\ d = q % b
  BY <1>1
<1>3. q \in Nat /\ r \in Nat /\ r < p /\ h = p * q + r
  BY <1>2, Quotient
<1>4. x \in Nat /\ d \in Nat /\ d < b /\ q = b * x + d
  BY <1>2, <1>3, Quotient
<1>5. s \in Nat \ {0}
  BY <1>2, AtLeastAFactor
<1>6. PICK e \in Nat : e = p * d + r /\ e < s
  <2>1. p * d + r \in Nat
    BY <1>3, <1>4
  <2>2. d * p <= b * p - p
    BY <1>4, ProductBelow
  <2>3. PICK u, v : u = p * d /\ v = b * p
    OBVIOUS
  <2>4. u <= v - p /\ u \in Nat /\ v \in Nat /\ v = s
    BY <1>2, <1>4, <2>2, <2>3
  <2>5. u + r < s
    BY <1>3, <2>4
  <2> QED
    BY <2>1, <2>3, <2>5
<1>7. h = s * x + e
  <2>1. p * (b * x + d) + r = (b * p) * x + (p * d + r)
    BY <1>3, <1>4
  <2> QED
    BY <1>2, <1>3, <1>4, <1>6, <2>1
<1>8. h \div s = x
  BY <1>4, <1>5, <1>6, <1>7, QuotientIs
<1>9. b * x = x * b
  BY <1>4
<1> QED
  BY <1>2, <1>3, <1>4, <1>8, <1>9

\* A half is written as digits.
LEMMA HalfIsText ==
  ASSUME NEW half \in 0 .. Word - 1
  PROVE  /\ HalfToBase16(half) \in Digits(HexBase) /\ Len(HalfToBase16(half)) = HalfDigits
         /\ \A i \in 1 .. HalfDigits :
              HalfToBase16(half)[i] = Shifted(half, HalfDigits - i) % HexBase
<1>1. \E f : f = HalfToBase16(half)
  OBVIOUS
<1>2. PICK f : f = HalfToBase16(half)
  BY <1>1
<1>3. HexBase \in Nat \ {0} /\ HalfDigits \in Nat
  BY NumbersAssumption
<1>4. ASSUME NEW i \in 1 .. HalfDigits
      PROVE  f[i] = Shifted(half, HalfDigits - i) % HexBase /\ f[i] \in 0 .. HexBase - 1
  <2>1. f[i] = Shifted(half, HalfDigits - i) % HexBase
    BY <1>2 DEF HalfToBase16
  <2>2. HalfDigits - i \in Nat /\ half \in Nat
    BY <1>3, WordIs
  <2>3. Power(HexBase, HalfDigits - i) \in Nat \ {0}
    BY <1>3, <2>2, PowerIsNat
  <2>4. Shifted(half, HalfDigits - i) % HexBase \in 0 .. HexBase - 1
    BY <1>3, <2>2, <2>3, QuotientOfQuotient DEF Shifted
  <2> QED
    BY <2>1, <2>4
<1>5. f = [i \in 1 .. HalfDigits |-> f[i]]
  BY <1>2 DEF HalfToBase16
<1>6. f \in [1 .. HalfDigits -> 0 .. HexBase - 1]
  BY <1>4, <1>5
<1>7. f \in Seq(0 .. HexBase - 1) /\ Len(f) = HalfDigits
  BY <1>3, <1>6
<1> QED
  BY <1>2, <1>4, <1>7 DEF Digits

Writes(text, m, half) == \A i \in 1 .. HalfDigits : text[m + i] = HalfToBase16(half)[i]

\* A half written is read as such, after what was read before it.
LEMMA HalfIsRead ==
  ASSUME NEW text, NEW n \in Nat, NEW F, IsNumber(F, text, HexBase, n),
         NEW m \in Nat, m + HalfDigits <= n, NEW x \in Nat, F[m] = x,
         NEW half \in 0 .. Word - 1,
         Writes(text, m, half)
  PROVE  F[m + HalfDigits] = x * Word + half
<1> DEFINE S(k) == Shifted(half, k)
           P(k) == Power(HexBase, k)
           Bad == {i \in 0 .. HalfDigits : F[m + i] # x * P(i) + S(HalfDigits - i)}
<1>1. /\ HexBase \in Nat \ {0} /\ HalfDigits \in Nat /\ P(HalfDigits) = Word
      /\ half \in Nat /\ half < Word
  BY NumbersAssumption, WordIs
<1>2. P(0) = 1 /\ \A k \in Nat : P(k + 1) = HexBase * P(k) /\ P(k) \in Nat \ {0}
  BY <1>1, PowerSteps, PowerIsNat
<1>3. S(HalfDigits) = 0
  <2>1. half \div Word = 0
    BY <1>1, WordIs, Below
  <2> QED
    BY <1>1, <2>1 DEF Shifted
<1>4. S(0) = half
  <2>1. half \div 1 = half
    BY <1>1
  <2> QED
    BY <1>2, <2>1 DEF Shifted
<1>5. ASSUME NEW k \in Nat
      PROVE  S(k) \in Nat /\ S(k) = S(k + 1) * HexBase + (S(k) % HexBase)
  <2>1. S(k) = half \div P(k) /\ S(k + 1) = half \div P(k + 1)
    BY DEF Shifted
  <2>2. P(k) \in Nat \ {0} /\ P(k + 1) = HexBase * P(k)
    BY <1>2
  <2>3. \E p : p = P(k)
    OBVIOUS
  <2>4. PICK p : p = P(k)
    BY <2>3
  <2>5. /\ half \div p \in Nat
        /\ half \div p = (half \div (HexBase * p)) * HexBase + ((half \div p) % HexBase)
    BY <1>1, <2>2, <2>4, QuotientOfQuotient
  <2> QED
    BY <2>1, <2>2, <2>4, <2>5
<1> HIDE DEF S, P
<1>6. ASSUME Bad # {}
      PROVE  FALSE
  <2>1. Bad \subseteq Nat
    BY <1>1
  <2>2. PICK i \in Bad : \A k \in Bad : i <= k
    BY <1>6, <2>1, LeastNumber
  <2>3. i \in 0 .. HalfDigits /\ F[m + i] # x * P(i) + S(HalfDigits - i)
    BY <2>2
  <2>4. i # 0
    <3>1. x * P(0) + S(HalfDigits - 0) = x /\ F[m + 0] = x
      BY <1>1, <1>2, <1>3
    <3> QED
      BY <2>3, <3>1
  <2>5. PICK j \in Nat : j + 1 = i
    <3>1. i - 1 \in Nat /\ (i - 1) + 1 = i
      BY <2>3, <2>4
    <3> QED
      BY <3>1
  <2>6. j \in 0 .. HalfDigits /\ ~ (i <= j) /\ i \in 1 .. HalfDigits
    BY <1>1, <2>3, <2>5
  <2>7. F[m + j] = x * P(j) + S(HalfDigits - j)
    BY <2>2, <2>6
  <2>8. PICK k \in Nat : k = HalfDigits - i /\ k + 1 = HalfDigits - j
    <3>1. HalfDigits - i \in Nat /\ (HalfDigits - i) + 1 = HalfDigits - j
      BY <1>1, <2>5, <2>6
    <3> QED
      BY <3>1
  <2>9. F[m + i] = F[m + j] * HexBase + (S(k) % HexBase)
    <3>1. m + i \in 0 .. n /\ m + i # 0 /\ (m + i) - 1 = m + j
      BY <1>1, <2>5, <2>6
    <3>2. F[m + i] = IF m + i = 0 THEN 0 ELSE F[(m + i) - 1] * HexBase + text[m + i]
      BY <3>1 DEF IsNumber
    <3>3. text[m + i] = S(k) % HexBase
      BY <2>6, <2>8, HalfIsText DEF S, Writes
    <3> QED
      BY <3>1, <3>2, <3>3
  <2>10. P(i) = HexBase * P(j) /\ P(j) \in Nat
    BY <1>2, <2>5
  <2>11. S(k) \in Nat /\ S(k + 1) \in Nat /\ S(k) = S(k + 1) * HexBase + (S(k) % HexBase)
    BY <1>5
  <2>12. \A p, t \in Nat : (x * p + t) * HexBase = x * (HexBase * p) + t * HexBase
    BY <1>1
  <2>13. (x * P(j) + S(k + 1)) * HexBase = x * P(i) + S(k + 1) * HexBase
    BY <2>10, <2>11, <2>12
  <2>14. F[m + i] = (x * P(i) + S(k + 1) * HexBase) + (S(k) % HexBase)
    BY <2>7, <2>8, <2>9, <2>13
  <2>15. F[m + i] = x * P(i) + S(k)
    <3>1. \A a, b, c, d \in Nat : a = b + c => (d + b) + c = d + a
      OBVIOUS
    <3>2. x * P(i) \in Nat /\ S(k + 1) * HexBase \in Nat /\ S(k) % HexBase \in Nat
      BY <1>1, <2>10, <2>11
    <3> QED
      BY <2>11, <2>14, <3>1, <3>2
  <2> QED
    BY <2>3, <2>8, <2>15
<1>7. HalfDigits \in 0 .. HalfDigits /\ HalfDigits - HalfDigits = 0
  BY <1>1
<1>8. F[m + HalfDigits] = x * P(HalfDigits) + S(0)
  BY <1>6, <1>7
<1> QED
  BY <1>1, <1>4, <1>8

\* What is written in base 16 is read as the number that it was.
LEMMA WrittenIsRead ==
  ASSUME NEW n \in Numbers128
  PROVE  NumberOf(ToBase16(n), HexBase) = Value(n)
<1>1. \E s, t, u : s = HalfToBase16(n.high) /\ t = HalfToBase16(n.low) /\ u = ToBase16(n)
  OBVIOUS
<1>2. PICK s, t, u : s = HalfToBase16(n.high) /\ t = HalfToBase16(n.low) /\ u = ToBase16(n)
  BY <1>1
<1>3. n.high \in 0 .. Word - 1 /\ n.low \in 0 .. Word - 1
  BY DEF Numbers128
<1>4. /\ s \in Seq(0 .. HexBase - 1) /\ Len(s) = HalfDigits
      /\ t \in Seq(0 .. HexBase - 1) /\ Len(t) = HalfDigits
  BY <1>2, <1>3, HalfIsText DEF Digits
<1>5. HexBase \in Nat \ {0} /\ HalfDigits \in Nat
  BY NumbersAssumption
<1>6. u = s \o t
  BY <1>2 DEF ToBase16
<1>7. /\ Len(u) = HalfDigits + HalfDigits
      /\ \A i \in 1 .. HalfDigits + HalfDigits :
           u[i] = IF i <= HalfDigits THEN s[i] ELSE t[i - HalfDigits]
  <2>1. /\ Len(s \o t) = Len(s) + Len(t)
        /\ \A i \in 1 .. Len(s) + Len(t) :
             (s \o t)[i] = IF i <= Len(s) THEN s[i] ELSE t[i - Len(s)]
    BY <1>4, ConcatProperties
  <2>2. Len(s) = HalfDigits /\ Len(t) = HalfDigits
    BY <1>4
  <2> QED
    BY <1>6, <2>1, <2>2
<1>8. Writes(u, 0, n.high)
  <2>1. ASSUME NEW i \in 1 .. HalfDigits
        PROVE  u[0 + i] = s[i]
    <3>1. 0 + i = i /\ i \in 1 .. HalfDigits + HalfDigits /\ i <= HalfDigits
      BY <1>5
    <3> QED
      BY <1>7, <3>1
  <2> QED
    BY <1>2, <2>1 DEF Writes
<1>9. Writes(u, HalfDigits, n.low)
  <2>1. ASSUME NEW i \in 1 .. HalfDigits
        PROVE  u[HalfDigits + i] = t[i]
    <3>1. /\ HalfDigits + i \in 1 .. HalfDigits + HalfDigits /\ ~ (HalfDigits + i <= HalfDigits)
          /\ (HalfDigits + i) - HalfDigits = i
      BY <1>5
    <3> QED
      BY <1>7, <3>1
  <2> QED
    BY <1>2, <2>1 DEF Writes
<1>10. PICK m \in Nat : m = HalfDigits + HalfDigits
  BY <1>5
<1>11. Len(u) \in Nat
  BY <1>7, <1>10
<1>12. PICK F : IsNumber(F, u, HexBase, Len(u)) /\ NumberOf(u, HexBase) = F[Len(u)]
  BY <1>11, NumberOfIs
<1>13. IsNumber(F, u, HexBase, m) /\ NumberOf(u, HexBase) = F[m]
  BY <1>7, <1>10, <1>12
<1>14. F[0] = 0
  BY <1>10, <1>13 DEF IsNumber
<1>15. 0 + HalfDigits = HalfDigits /\ 0 + HalfDigits <= m /\ HalfDigits + HalfDigits <= m
  BY <1>5, <1>10
<1>16. F[HalfDigits] = n.high
  <2>1. F[0 + HalfDigits] = 0 * Word + n.high
    BY <1>3, <1>8, <1>10, <1>13, <1>14, <1>15, HalfIsRead
  <2>2. 0 * Word + n.high = n.high
    BY <1>3, WordIs
  <2> QED
    BY <1>15, <2>1, <2>2
<1>17. F[HalfDigits + HalfDigits] = n.high * Word + n.low
  <2>1. n.high \in Nat
    BY <1>3, WordIs
  <2> QED
    BY <1>3, <1>5, <1>9, <1>10, <1>13, <1>15, <1>16, <2>1, HalfIsRead
<1> QED
  BY <1>2, <1>10, <1>13, <1>17 DEF Value

-----------------------------------------------------------------------------
(* Lists of countries.                                                     *)

\* A list that has no half a country in it.
Even(list) == list \in Texts /\ Len(list) % 2 = 0

LEMMA Halves ==
  \A l \in Nat : l % 2 = 0 => l = 2 * (l \div 2) /\ l \div 2 \in Nat
OBVIOUS

LEMMA Doubles ==
  \A k \in Nat : (2 * k) % 2 = 0 /\ (2 * k) \div 2 = k
OBVIOUS

\* The i-th country of a list is its two letters.
LEMMA TwoLetters ==
  ASSUME NEW list \in Texts, NEW i \in Nat \ {0}, 2 * i <= Len(list)
  PROVE  SubSeq(list, 2 * i - 1, 2 * i) = <<list[2 * i - 1], list[2 * i]>>
<1>1. list \in Seq(STRING) /\ Len(list) \in Nat
  BY LenProperties DEF Texts
<1> PICK a, b : a = 2 * i - 1 /\ b = 2 * i
  OBVIOUS
<1>2. a \in 1 .. Len(list) /\ b \in 1 .. Len(list) /\ b = a + 1 /\ a \in Nat \ {0} /\ b \in Nat
  BY <1>1
<1>3. list[a] \in STRING /\ list[b] \in STRING
  BY <1>1, <1>2, ElementOfSeq
<1> PICK s, t : s = SubSeq(list, a, b) /\ t = <<list[a], list[b]>>
  OBVIOUS
<1>4. \A j \in a .. b : list[j] \in STRING
  BY <1>2, <1>3
<1>5. s \in Seq(STRING) /\ Len(s) = 2 /\ \A j \in 1 .. b - a + 1 : s[j] = list[a + j - 1]
  BY <1>1, <1>2, <1>4, SubSeqProperties
<1>6. s[1] = list[a] /\ s[2] = list[b]
  BY <1>2, <1>5
<1>7. t \in Seq(STRING) /\ Len(t) = 2 /\ t[1] = list[a] /\ t[2] = list[b]
  BY <1>3
<1>8. \A j \in 1 .. 2 : s[j] = t[j]
  BY <1>6, <1>7
<1>9. s = t
  BY <1>5, <1>7, <1>8, SeqEqual
<1> QED
  BY <1>9

\* What is joined of two lists lists what either lists.
LEMMA TwoListsJoined ==
  ASSUME NEW a, NEW b, Even(a), Even(b), NEW cc
  PROVE  /\ Even(a \o b)
         /\ CountrylistContains(a \o b, cc) <=>
              CountrylistContains(a, cc) \/ CountrylistContains(b, cc)
<1> PICK ka, kb, c : ka = Len(a) \div 2 /\ kb = Len(b) \div 2 /\ c = a \o b
  OBVIOUS
<1>1. a \in Seq(STRING) /\ b \in Seq(STRING) /\ Len(a) \in Nat /\ Len(b) \in Nat
  BY LenProperties DEF Even, Texts
<1>2. ka \in Nat /\ kb \in Nat /\ Len(a) = 2 * ka /\ Len(b) = 2 * kb
  BY <1>1, Halves DEF Even
<1>3. /\ c \in Seq(STRING) /\ Len(c) = Len(a) + Len(b)
      /\ \A j \in 1 .. Len(a) : c[j] = a[j]
      /\ \A j \in 1 .. Len(b) : c[Len(a) + j] = b[j]
  <2>1. c \in Seq(STRING) /\ Len(c) = Len(a) + Len(b)
    BY <1>1, ConcatProperties
  <2>2. \A j \in 1 .. Len(a) + Len(b) : c[j] = IF j <= Len(a) THEN a[j] ELSE b[j - Len(a)]
    BY <1>1, ConcatProperties
  <2>3. ASSUME NEW j \in 1 .. Len(a)
        PROVE  c[j] = a[j]
    <3>1. j \in 1 .. Len(a) + Len(b) /\ j <= Len(a)
      BY <1>1
    <3> QED
      BY <2>2, <3>1
  <2>4. ASSUME NEW j \in 1 .. Len(b)
        PROVE  c[Len(a) + j] = b[j]
    <3>1. Len(a) + j \in 1 .. Len(a) + Len(b) /\ ~ (Len(a) + j <= Len(a)) /\ Len(a) + j - Len(a) = j
      BY <1>1
    <3> QED
      BY <2>2, <3>1
  <2> QED
    BY <2>1, <2>3, <2>4
<1>4. Len(c) = 2 * (ka + kb) /\ Len(c) % 2 = 0 /\ Len(c) \div 2 = ka + kb
  <2>1. Len(c) = 2 * (ka + kb) /\ ka + kb \in Nat
    BY <1>2, <1>3
  <2> QED
    BY <2>1, Doubles
<1>5. ASSUME NEW i \in 1 .. ka
      PROVE  SubSeq(c, 2 * i - 1, 2 * i) = SubSeq(a, 2 * i - 1, 2 * i)
  <2>1. i \in Nat \ {0} /\ 2 * i <= Len(a) /\ 2 * i <= Len(c)
    BY <1>2, <1>4
  <2>2. SubSeq(c, 2 * i - 1, 2 * i) = <<c[2 * i - 1], c[2 * i]>>
    BY <1>3, <2>1, TwoLetters DEF Texts
  <2>3. SubSeq(a, 2 * i - 1, 2 * i) = <<a[2 * i - 1], a[2 * i]>>
    BY <1>1, <2>1, TwoLetters DEF Texts
  <2>4. 2 * i - 1 \in 1 .. Len(a) /\ 2 * i \in 1 .. Len(a)
    BY <1>1, <2>1
  <2> QED
    BY <1>3, <2>2, <2>3, <2>4
<1>6. ASSUME NEW i \in 1 .. kb
      PROVE  SubSeq(c, 2 * (ka + i) - 1, 2 * (ka + i)) = SubSeq(b, 2 * i - 1, 2 * i)
  <2>1. i \in Nat \ {0} /\ 2 * i <= Len(b)
    BY <1>2
  <2>2. ka + i \in Nat \ {0} /\ 2 * (ka + i) <= Len(c)
    BY <1>2, <1>4
  <2>3. SubSeq(c, 2 * (ka + i) - 1, 2 * (ka + i)) = <<c[2 * (ka + i) - 1], c[2 * (ka + i)]>>
    BY <1>3, <2>2, TwoLetters DEF Texts
  <2>4. SubSeq(b, 2 * i - 1, 2 * i) = <<b[2 * i - 1], b[2 * i]>>
    BY <1>1, <2>1, TwoLetters DEF Texts
  <2>5. 2 * i - 1 \in 1 .. Len(b) /\ 2 * i \in 1 .. Len(b)
    BY <1>1, <2>1
  <2>6. 2 * (ka + i) - 1 = Len(a) + (2 * i - 1) /\ 2 * (ka + i) = Len(a) + 2 * i
    BY <1>2
  <2>7. c[2 * (ka + i) - 1] = b[2 * i - 1] /\ c[2 * (ka + i)] = b[2 * i]
    BY <1>3, <2>5, <2>6
  <2> QED
    BY <2>3, <2>4, <2>7
<1>7. Even(c)
  BY <1>3, <1>4 DEF Even, Texts
<1>8. CountrylistContains(a, cc) <=> \E i \in 1 .. ka : SubSeq(a, 2 * i - 1, 2 * i) = cc
  BY DEF CountrylistContains
<1>9. CountrylistContains(b, cc) <=> \E i \in 1 .. kb : SubSeq(b, 2 * i - 1, 2 * i) = cc
  BY DEF CountrylistContains
<1>10. CountrylistContains(c, cc) <=> \E i \in 1 .. ka + kb : SubSeq(c, 2 * i - 1, 2 * i) = cc
  BY <1>4 DEF CountrylistContains
<1>11. ASSUME CountrylistContains(c, cc)
       PROVE  CountrylistContains(a, cc) \/ CountrylistContains(b, cc)
  <2>1. PICK i \in 1 .. ka + kb : SubSeq(c, 2 * i - 1, 2 * i) = cc
    BY <1>10, <1>11
  <2>2. CASE i <= ka
    <3>1. i \in 1 .. ka
      BY <1>2, <2>2
    <3> QED
      BY <1>5, <1>8, <2>1, <3>1
  <2>3. CASE i > ka
    <3> PICK j : j = i - ka
      OBVIOUS
    <3>1. j \in 1 .. kb /\ i = ka + j
      BY <1>2, <2>3
    <3>2. SubSeq(b, 2 * j - 1, 2 * j) = cc
      BY <1>6, <2>1, <3>1
    <3> QED
      BY <1>9, <3>1, <3>2
  <2> QED
    BY <1>2, <2>2, <2>3
<1>12. ASSUME CountrylistContains(a, cc)
       PROVE  CountrylistContains(c, cc)
  <2>1. PICK i \in 1 .. ka : SubSeq(a, 2 * i - 1, 2 * i) = cc
    BY <1>8, <1>12
  <2>2. i \in 1 .. ka + kb /\ SubSeq(c, 2 * i - 1, 2 * i) = cc
    BY <1>2, <1>5, <2>1
  <2> QED
    BY <1>10, <2>2
<1>13. ASSUME CountrylistContains(b, cc)
       PROVE  CountrylistContains(c, cc)
  <2>1. PICK i \in 1 .. kb : SubSeq(b, 2 * i - 1, 2 * i) = cc
    BY <1>9, <1>13
  <2>2. ka + i \in 1 .. ka + kb
    BY <1>2
  <2>3. SubSeq(c, 2 * (ka + i) - 1, 2 * (ka + i)) = cc
    BY <1>6, <2>1
  <2> QED
    BY <1>10, <2>2, <2>3
<1> QED
  BY <1>7, <1>11, <1>12, <1>13

\* The function that FlattenSeq computes: in F[i] the first i lists are joined.
IsFlat(F, s, n) == F = [i \in 1 .. n |-> IF i = 1 THEN s[i] ELSE F[i - 1] \o s[i]]

LEMMA FlatExists ==
  ASSUME NEW s, NEW n \in Nat
  PROVE  \E F : IsFlat(F, s, n)
<1> DEFINE None == {m \in Nat : ~ \E F : IsFlat(F, s, m)}
<1>1. SUFFICES ASSUME None # {}
               PROVE  FALSE
  OBVIOUS
<1>2. PICK m \in None : \A k \in None : m <= k
  BY <1>1, LeastNumber
<1>3. m \in Nat /\ ~ \E F : IsFlat(F, s, m)
  BY <1>2
<1>4. m # 0
  <2>1. ASSUME m = 0
        PROVE  FALSE
    <3> PICK F : F = [i \in 1 .. 0 |-> <<>>]
      OBVIOUS
    <3>1. IsFlat(F, s, 0)
      BY DEF IsFlat
    <3> QED
      BY <1>3, <2>1, <3>1
  <2> QED
    BY <2>1
<1>5. m - 1 \in Nat /\ ~ (m <= m - 1)
  BY <1>3, <1>4
<1>6. PICK G : IsFlat(G, s, m - 1)
  BY <1>2, <1>5
<1> PICK top : top = IF m = 1 THEN s[m] ELSE G[m - 1] \o s[m]
  OBVIOUS
<1> PICK F : F = [i \in 1 .. m |-> IF i = m THEN top ELSE G[i]]
  OBVIOUS
<1>7. ASSUME NEW i \in 1 .. m
      PROVE  F[i] = IF i = 1 THEN s[i] ELSE F[i - 1] \o s[i]
  <2>1. CASE i = m
    <3>1. F[i] = top
      BY <2>1
    <3>2. i # 1 => i - 1 \in 1 .. m /\ i - 1 # m
      BY <1>3
    <3>3. i # 1 => F[i - 1] = G[i - 1]
      BY <3>2
    <3> QED
      BY <2>1, <3>1, <3>3
  <2>2. CASE i # m
    <3>1. i \in 1 .. m - 1
      BY <1>3, <2>2
    <3>2. G[i] = IF i = 1 THEN s[i] ELSE G[i - 1] \o s[i]
      BY <1>6, <3>1 DEF IsFlat
    <3>3. F[i] = G[i]
      BY <2>2
    <3>4. i # 1 => i - 1 \in 1 .. m /\ i - 1 # m
      BY <1>3, <2>2
    <3>5. i # 1 => F[i - 1] = G[i - 1]
      BY <3>4
    <3> QED
      BY <3>2, <3>3, <3>5
  <2> QED
    BY <2>1, <2>2
<1>8. IsFlat(F, s, m)
  BY <1>7 DEF IsFlat
<1> QED
  BY <1>3, <1>8

LEMMA FlatIs ==
  ASSUME NEW s, Len(s) \in Nat \ {0}
  PROVE  \E F : IsFlat(F, s, Len(s)) /\ FlattenSeq(s) = F[Len(s)]
<1> DEFINE F == CHOOSE f : IsFlat(f, s, Len(s))
<1>1. IsFlat(F, s, Len(s))
  BY FlatExists
<1>2. FlattenSeq(s) = F[Len(s)]
  BY DEF FlattenSeq, IsFlat
<1> QED
  BY <1>1, <1>2

LEMMA EmptyList ==
  /\ Even(<<>>)
  /\ \A cc : ~CountrylistContains(<<>>, cc)
BY DEF Even, Texts, CountrylistContains

LEMMA FlatIsTheUnion ==
  ASSUME NEW s \in Seq(Texts), \A i \in 1 .. Len(s) : Even(s[i]), NEW cc
  PROVE  /\ Even(FlattenSeq(s))
         /\ CountrylistContains(FlattenSeq(s), cc) <=>
              \E i \in 1 .. Len(s) : CountrylistContains(s[i], cc)
<1>1. Len(s) \in Nat
  BY LenProperties
<1>2. CASE Len(s) = 0
  <2>1. s = <<>>
    BY <1>2, EmptySeq
  <2>2. FlattenSeq(s) = <<>>
    BY <1>2, <2>1 DEF FlattenSeq
  <2> QED
    BY <1>2, <2>2, EmptyList
<1>3. CASE Len(s) # 0
  <2>1. PICK F : IsFlat(F, s, Len(s)) /\ FlattenSeq(s) = F[Len(s)]
    BY <1>1, <1>3, FlatIs
  <2> DEFINE IsUnion(i) == /\ Even(F[i])
                           /\ CountrylistContains(F[i], cc) <=>
                                \E j \in 1 .. i : CountrylistContains(s[j], cc)
             Not == {i \in 1 .. Len(s) : ~IsUnion(i)}
  <2>2. ASSUME Not # {}
        PROVE  FALSE
    <3>1. Not \subseteq Nat
      BY <1>1
    <3>2. PICK i \in Not : \A j \in Not : i <= j
      BY <2>2, <3>1, LeastNumber
    <3>3. i \in 1 .. Len(s) /\ i \in Nat \ {0} /\ ~IsUnion(i)
      BY <3>2
    <3>4. F[i] = IF i = 1 THEN s[i] ELSE F[i - 1] \o s[i]
      BY <2>1, <3>3 DEF IsFlat
    <3>5. i # 1
      <4>1. ASSUME i = 1
            PROVE  IsUnion(i)
        <5>1. F[i] = s[1] /\ 1 .. i = {1} /\ Even(s[1])
          BY <1>1, <3>3, <3>4, <4>1
        <5> QED
          BY <4>1, <5>1
      <4> QED
        BY <3>3, <4>1
    <3> PICK k : k = i - 1
      OBVIOUS
    <3>6. k \in 1 .. Len(s) /\ ~ (i <= k) /\ 1 .. i = (1 .. k) \cup {i}
      BY <1>1, <3>3, <3>5
    <3>7. IsUnion(k)
      BY <3>2, <3>6
    <3>8. F[i] = F[k] \o s[i] /\ Even(s[i])
      BY <3>3, <3>4, <3>5
    <3>9. /\ Even(F[i])
          /\ CountrylistContains(F[i], cc) <=>
               CountrylistContains(F[k], cc) \/ CountrylistContains(s[i], cc)
      BY <3>7, <3>8, TwoListsJoined
    <3>10. IsUnion(i)
      BY <3>6, <3>7, <3>9
    <3> QED
      BY <3>3, <3>10
  <2>3. IsUnion(Len(s))
    BY <1>1, <1>3, <2>2
  <2> QED
    BY <2>1, <2>3
<1> QED
  BY <1>2, <1>3

-----------------------------------------------------------------------------
(* The lists of several restrictions.                                      *)

\* Lists without half a country.
AllEven(lists) == \A i \in DOMAIN lists : Len(Get(lists[i], <<>>)) % 2 = 0

LEMMA OptionalList ==
  ASSUME NEW field \in Optional(Texts)
  PROVE  /\ Get(field, <<>>) \in Texts
         /\ \A cc : CountrylistContains(Get(field, <<>>), cc) <=>
                      Has(field) /\ cc \in Codes(field[1])
<1>1. CASE field = <<>>
  <2>1. Get(field, <<>>) = <<>> /\ ~Has(field)
    BY <1>1 DEF Get, Has
  <2> QED
    BY <2>1, EmptyList DEF Even
<1>2. CASE field # <<>>
  <2>1. field \in Seq(Texts)
    BY DEF Optional
  <2>2. Len(field) \in Nat \ {0}
    BY <1>2, <2>1, EmptySeq
  <2>3. field[1] \in Texts
    BY <2>1, <2>2, ElementOfSeq
  <2>4. Get(field, <<>>) = field[1] /\ Has(field)
    BY <1>2 DEF Get, Has
  <2>5. \A cc : CountrylistContains(field[1], cc) <=> cc \in Codes(field[1])
    BY DEF CountrylistContains, Codes
  <2> QED
    BY <2>3, <2>4, <2>5
<1> QED
  BY <1>1, <1>2

LEMMA JoinedIsTheUnion ==
  ASSUME NEW lists \in Seq(Optional(Texts)), AllEven(lists), NEW cc
  PROVE  /\ Even(Joined(lists))
         /\ CountrylistContains(Joined(lists), cc) <=> Listed(lists, cc)
<1> PICK n, s : n = Len(lists) /\ s = [i \in DOMAIN lists |-> Get(lists[i], <<>>)]
  OBVIOUS
<1>1. n \in Nat /\ DOMAIN lists = 1 .. n /\ \A i \in 1 .. n : lists[i] \in Optional(Texts)
  BY LenProperties, ElementOfSeq
<1>2. \A i \in 1 .. n : s[i] = Get(lists[i], <<>>) /\ s[i] \in Texts
  BY <1>1, OptionalList
<1>3. s \in [1 .. n -> Texts] /\ Len(s) = n /\ s \in Seq(Texts)
  BY <1>1, <1>2
<1>4. \A i \in 1 .. n : Even(s[i])
  BY <1>1, <1>2 DEF AllEven, Even
<1>5. Joined(lists) = FlattenSeq(s)
  BY DEF Joined
<1>6. /\ Even(Joined(lists))
      /\ CountrylistContains(Joined(lists), cc) <=> \E i \in 1 .. n : CountrylistContains(s[i], cc)
  BY <1>3, <1>4, <1>5, FlatIsTheUnion
<1>7. \A i \in 1 .. n : CountrylistContains(s[i], cc) <=>
                          Has(lists[i]) /\ cc \in Codes(lists[i][1])
  BY <1>1, <1>2, OptionalList
<1> QED
  BY <1>1, <1>6, <1>7 DEF Listed

LEMMA TypesOfRestrictions ==
  ASSUME NEW message \in TrackMessage
  PROVE  /\ Forbidden(message) \in Seq(Optional(Texts))
         /\ Allowed(message) \in Seq(Optional(Texts))
<1> PICK r : r = message.restriction
  OBVIOUS
<1>1. r \in Seq(RestrictionMessage)
  BY DEF TrackMessage
<1> PICK n : n = Len(r)
  OBVIOUS
<1>2. n \in Nat /\ DOMAIN r = 1 .. n /\ \A i \in 1 .. n : r[i] \in RestrictionMessage
  BY <1>1, LenProperties, ElementOfSeq
<1>3. <<>> \in Optional(Texts)
  BY EmptySeq DEF Optional
<1>4. \A i \in 1 .. n : /\ r[i].countries_forbidden \in Optional(Texts)
                        /\ r[i].countries_allowed \in Optional(Texts)
  BY <1>2 DEF RestrictionMessage
<1>5. Forbidden(message) \in [1 .. n -> Optional(Texts)]
  BY <1>2, <1>3, <1>4 DEF Forbidden
<1>6. Allowed(message) \in [1 .. n -> Optional(Texts)]
  BY <1>2, <1>3, <1>4 DEF Allowed
<1> QED
  BY <1>2, <1>5, <1>6

\* The members of two lists, one after the other, are those of either.
IsBoth(c, a, b) ==
  /\ \A i \in DOMAIN a : \E j \in DOMAIN c : c[j] = a[i]
  /\ \A i \in DOMAIN b : \E j \in DOMAIN c : c[j] = b[i]
  /\ \A j \in DOMAIN c : \/ \E i \in DOMAIN a : c[j] = a[i]
                         \/ \E i \in DOMAIN b : c[j] = b[i]

LEMMA OneAfterTheOther ==
  ASSUME NEW S, NEW a \in Seq(S), NEW b \in Seq(S)
  PROVE  IsBoth(a \o b, a, b)
<1>1. Len(a) \in Nat /\ Len(b) \in Nat /\ DOMAIN a = 1 .. Len(a) /\ DOMAIN b = 1 .. Len(b)
  BY LenProperties
<1>2. a \o b \in Seq(S) /\ Len(a \o b) = Len(a) + Len(b)
  BY ConcatProperties
<1>3. DOMAIN (a \o b) = 1 .. Len(a) + Len(b)
  BY <1>2, LenProperties
<1>4. \A i \in 1 .. Len(a) + Len(b) : (a \o b)[i] = IF i <= Len(a) THEN a[i] ELSE b[i - Len(a)]
  BY ConcatProperties
<1>5. ASSUME NEW i \in DOMAIN a
      PROVE  i \in DOMAIN (a \o b) /\ (a \o b)[i] = a[i]
  <2>1. i \in 1 .. Len(a) + Len(b) /\ i <= Len(a)
    BY <1>1
  <2> QED
    BY <1>3, <1>4, <2>1
<1>6. ASSUME NEW i \in DOMAIN b
      PROVE  Len(a) + i \in DOMAIN (a \o b) /\ (a \o b)[Len(a) + i] = b[i]
  <2> PICK j : j = Len(a) + i
    OBVIOUS
  <2>1. j \in 1 .. Len(a) + Len(b) /\ ~ (j <= Len(a)) /\ j - Len(a) = i
    BY <1>1
  <2> QED
    BY <1>3, <1>4, <2>1
<1>7. ASSUME NEW j \in DOMAIN (a \o b)
      PROVE  \/ \E i \in DOMAIN a : (a \o b)[j] = a[i]
             \/ \E i \in DOMAIN b : (a \o b)[j] = b[i]
  <2>1. j \in 1 .. Len(a) + Len(b)
    BY <1>3
  <2>2. CASE j <= Len(a)
    <3>1. j \in DOMAIN a
      BY <1>1, <2>1, <2>2
    <3> QED
      BY <1>4, <2>1, <2>2, <3>1
  <2>3. CASE ~ (j <= Len(a))
    <3>1. j - Len(a) \in DOMAIN b
      BY <1>1, <2>1, <2>3
    <3> QED
      BY <1>4, <2>1, <2>3, <3>1
  <2> QED
    BY <2>2, <2>3
<1> QED
  BY <1>5, <1>6, <1>7 DEF IsBoth

\* What AvailableAsListed says of a track, for one that was parsed from a message.
LEMMA ParsedAsListed ==
  ASSUME NEW message \in TrackMessage, NEW cc,
         AllEven(Forbidden(message) \o Allowed(message))
  PROVE  ParseRestrictions(message, cc) <=>
           /\ HasAny(Forbidden(message) \o Allowed(message)) /\ ~Listed(Forbidden(message), cc)
           /\ HasAny(Allowed(message)) => Listed(Allowed(message), cc)
<1> PICK a, b : a = Forbidden(message) /\ b = Allowed(message)
  OBVIOUS
<1>1. a \in Seq(Optional(Texts)) /\ b \in Seq(Optional(Texts))
  BY TypesOfRestrictions
<1> PICK c : c = a \o b
  OBVIOUS
<1>2. IsBoth(c, a, b)
  BY <1>1, OneAfterTheOther
<1>3. AllEven(a) /\ AllEven(b)
  <2>1. \A j \in DOMAIN c : Len(Get(c[j], <<>>)) % 2 = 0
    BY DEF AllEven
  <2>2. ASSUME NEW i \in DOMAIN a
        PROVE  Len(Get(a[i], <<>>)) % 2 = 0
    <3>1. PICK j \in DOMAIN c : c[j] = a[i]
      BY <1>2 DEF IsBoth
    <3> QED
      BY <2>1, <3>1
  <2>3. ASSUME NEW i \in DOMAIN b
        PROVE  Len(Get(b[i], <<>>)) % 2 = 0
    <3>1. PICK j \in DOMAIN c : c[j] = b[i]
      BY <1>2 DEF IsBoth
    <3> QED
      BY <2>1, <3>1
  <2> QED
    BY <2>2, <2>3 DEF AllEven
<1>4. HasAny(c) <=> HasAny(a) \/ HasAny(b)
  BY <1>2 DEF HasAny, IsBoth
<1>5. CountrylistContains(Joined(a), cc) <=> Listed(a, cc)
  BY <1>1, <1>3, JoinedIsTheUnion
<1>6. CountrylistContains(Joined(b), cc) <=> Listed(b, cc)
  BY <1>1, <1>3, JoinedIsTheUnion
<1>7. Listed(a, cc) => HasAny(a)
  BY DEF Listed, HasAny
<1> QED
  BY <1>4, <1>5, <1>6, <1>7 DEF ParseRestrictions

-----------------------------------------------------------------------------
(* Why parsing panics.                                                     *)

LEMMA OddOrEven == \A l \in Nat : l % 2 = 0 \/ l % 2 = 1
OBVIOUS

LEMMA NoHalf ==
  ASSUME NEW lists \in Seq(Optional(Texts)), ~HasHalf(lists)
  PROVE  AllEven(lists)
<1>1. ASSUME NEW i \in DOMAIN lists
      PROVE  Len(Get(lists[i], <<>>)) % 2 = 0
  <2>1. lists[i] \in Optional(Texts)
    BY LenProperties, ElementOfSeq
  <2>2. Get(lists[i], <<>>) \in Seq(STRING)
    BY <2>1, OptionalList DEF Texts
  <2>3. Len(Get(lists[i], <<>>)) \in Nat
    BY <2>2, LenProperties
  <2>4. Len(Get(lists[i], <<>>)) % 2 # 1
    BY DEF HasHalf
  <2> QED
    BY <2>3, <2>4, OddOrEven
<1> QED
  BY <1>1 DEF AllEven

\* The bytes of an id are as many as from_raw asserts.
LEMMA RawReason ==
  ASSUME NEW gid, RawPanics(gid)
  PROVE  ~IsId(gid)
<1>1. SUFFICES ASSUME gid # <<>>, gid[1] \in Ids
               PROVE  FALSE
  BY DEF IsId, Has
<1>2. Len(gid[1]) = IdBytes
  BY <1>1 DEF Ids, IdBytes
<1> QED
  BY <1>1, <1>2 DEF RawPanics, Get

LEMMA BytesAre ==
  ASSUME NEW data \in Bytes
  PROVE  Len(data) \in Nat /\ data \in [1 .. Len(data) -> 0 .. Quarter - 1]
<1>1. \A S, s : s \in Seq(S) => Len(s) \in Nat /\ s \in [1 .. Len(s) -> S]
  BY LenProperties
<1> QED
  BY <1>1 DEF Bytes

LEMMA IdsAreBytes ==
  ASSUME NEW data \in Ids
  PROVE  data \in Bytes /\ Len(data) = IdBytes
<1>1. data \in [1 .. 4 -> 0 .. Quarter - 1]
  BY DEF Ids, IdBytes
<1>2. data \in Bytes
  BY <1>1, SeqDef DEF Bytes
<1>3. Len(data) = 4
  BY <1>1
<1> QED
  BY <1>2, <1>3 DEF IdBytes

\* Any bytes that are as many are those of an id.
LEMMA AsManyAreAnId ==
  ASSUME NEW data \in Bytes, Len(data) = IdBytes
  PROVE  data \in Ids
<1>1. data \in [1 .. Len(data) -> 0 .. Quarter - 1]
  BY BytesAre
<1> QED
  BY <1>1 DEF Ids

LEMMA RawIsId ==
  ASSUME NEW gid \in Optional(Bytes), ~RawPanics(gid)
  PROVE  gid[1] \in Ids /\ Has(gid)
<1>1. gid # <<>>
  BY DEF RawPanics, Get, IdBytes
<1>2. gid \in Seq(Bytes)
  BY DEF Optional
<1>3. Len(gid) \in Nat \ {0}
  BY <1>1, <1>2, EmptySeq
<1>4. gid[1] \in Bytes /\ Len(gid[1]) = IdBytes
  BY <1>1, <1>2, <1>3, ElementOfSeq DEF RawPanics, Get
<1> QED
  BY <1>1, <1>4, AsManyAreAnId DEF Has

\* An entry of a list panics only if its gid is there and is not an id.
LEMMA EntryReason ==
  ASSUME NEW gids, WithGidPanics(gids)
  PROVE  Misshapen(gids)
BY RawReason DEF WithGidPanics, Misshapen

LEMMA RestrictionsReason ==
  ASSUME NEW message \in TrackMessage, NEW cc, RestrictionsPanic(message, cc)
  PROVE  HasHalf(Forbidden(message)) \/ HasHalf(Allowed(message))
<1>1. SUFFICES ASSUME ~HasHalf(Forbidden(message)), ~HasHalf(Allowed(message))
               PROVE  FALSE
  OBVIOUS
<1>2. AllEven(Forbidden(message)) /\ AllEven(Allowed(message))
  BY <1>1, TypesOfRestrictions, NoHalf
<1>3. Even(Joined(Forbidden(message))) /\ Even(Joined(Allowed(message)))
  BY <1>2, TypesOfRestrictions, JoinedIsTheUnion
<1> QED
  BY <1>3 DEF RestrictionsPanic, RunsOut, Even

\* What is wrong with a message of each kind that cannot be parsed.
TrackLacks(message) ==
  \/ ~IsId(message.gid)
  \/ ~IsId(message.album)
  \/ \E i \in DOMAIN message.alternative : ~IsId(message.alternative[i])
  \/ Misshapen(message.artist)
  \/ "short" \in Range(message.file)
  \/ HasHalf(Forbidden(message)) \/ HasHalf(Allowed(message))

ArtistLacks(message) ==
  \/ ~IsId(message.gid)
  \/ HasHalf([i \in DOMAIN message.top_track |-> message.top_track[i].country])
  \/ \E i \in DOMAIN message.top_track : Misshapen(message.top_track[i].track)

AlbumLacks(message) ==
  \/ ~IsId(message.gid)
  \/ "short" \in Range(message.cover)
  \/ Misshapen(message.artist)
  \/ \E i \in DOMAIN message.disc : Misshapen(message.disc[i])

LEMMA TrackReason ==
  ASSUME NEW message \in TrackMessage, NEW cc, TrackPanics(message, cc)
  PROVE  TrackLacks(message)
<1>2. CASE RawPanics(message.gid)
  BY <1>2, RawReason DEF TrackLacks
<1>3. CASE RawPanics(message.album)
  BY <1>3, RawReason DEF TrackLacks
<1>4. CASE \E i \in DOMAIN message.alternative : RawPanics(message.alternative[i])
  BY <1>4, RawReason DEF TrackLacks
<1>5. CASE WithGidPanics(message.artist)
  BY <1>5, EntryReason DEF TrackLacks
<1>6. CASE "short" \in Range(message.file)
  BY <1>6 DEF TrackLacks
<1>7. CASE RestrictionsPanic(message, cc)
  BY <1>7, RestrictionsReason DEF TrackLacks
<1> QED
  BY <1>2, <1>3, <1>4, <1>5, <1>6, <1>7 DEF TrackPanics

LEMMA AlbumReason ==
  ASSUME NEW message \in AlbumMessage, AlbumPanics(message)
  PROVE  AlbumLacks(message)
<1>1. RawPanics(message.gid) => ~IsId(message.gid)
  BY RawReason
<1>2. WithGidPanics(message.artist) => Misshapen(message.artist)
  BY EntryReason
<1>3. \A i \in DOMAIN message.disc : WithGidPanics(message.disc[i]) => Misshapen(message.disc[i])
  BY EntryReason
<1> QED
  BY <1>1, <1>2, <1>3 DEF AlbumPanics, AlbumLacks

LEMMA ArtistReason ==
  ASSUME NEW message \in ArtistMessage, NEW cc, ArtistPanics(message, cc)
  PROVE  ArtistLacks(message)
<1> PICK top : top = message.top_track
  OBVIOUS
<1> DEFINE Stops(entry) == Matches(entry, cc) \/ RunsOut(entry.country[1], cc)
           Found == {i \in 1 .. Len(top) : Stops(top[i])}
<1> PICK first : first = SelectInSeq(top, Stops)
  OBVIOUS
<1>1. top \in Seq([country : Optional(Texts), track : Seq(Optional(Bytes))])
  BY DEF ArtistMessage
<1>2. /\ Len(top) \in Nat /\ DOMAIN top = 1 .. Len(top)
      /\ \A i \in 1 .. Len(top) : top[i].country \in Optional(Texts)
  <2>1. Len(top) \in Nat /\ DOMAIN top = 1 .. Len(top)
    BY <1>1, LenProperties
  <2>2. \A i \in 1 .. Len(top) : top[i] \in [country : Optional(Texts), track : Seq(Optional(Bytes))]
    BY <1>1, ElementOfSeq
  <2> QED
    BY <2>1, <2>2
<1>3. first = IF Found # {} THEN Min(Found) ELSE 0
  BY DEF SelectInSeq
<1>4. first # 0 => first \in 1 .. Len(top) /\ Stops(top[first])
  <2>1. Found \subseteq Nat
    BY <1>2
  <2>2. Found # {} => Min(Found) \in Found
    BY <2>1, LeastNumber DEF Min
  <2> QED
    BY <1>3, <2>2
<1>5. \/ RawPanics(message.gid)
      \/ first # 0 /\ ~Matches(top[first], cc)
      \/ first # 0 /\ WithGidPanics(top[first].track)
  BY DEF ArtistPanics
<1>6. CASE RawPanics(message.gid)
  BY <1>6, RawReason DEF ArtistLacks
<1>7. CASE first # 0 /\ WithGidPanics(top[first].track)
  <2>1. first \in DOMAIN top /\ Misshapen(top[first].track)
    BY <1>2, <1>4, <1>7, EntryReason
  <2> QED
    BY <2>1 DEF ArtistLacks
<1>8. CASE first # 0 /\ ~Matches(top[first], cc)
  <2>1. first \in DOMAIN top /\ RunsOut(top[first].country[1], cc) /\ Has(top[first].country)
    BY <1>2, <1>4, <1>8 DEF Matches
  <2>2. Len(Get(top[first].country, <<>>)) % 2 = 1
    BY <2>1 DEF RunsOut, Get, Has
  <2>3. HasHalf([i \in DOMAIN top |-> top[i].country])
    BY <2>1, <2>2 DEF HasHalf
  <2> QED
    BY <2>3 DEF ArtistLacks
<1> QED
  BY <1>5, <1>6, <1>7, <1>8

-----------------------------------------------------------------------------
(* The invariant.                                                          *)

MessageOf(kind, message) ==
  \/ kind = "track" /\ message \in TrackMessage
  \/ kind = "artist" /\ message \in ArtistMessage
  \/ kind = "album" /\ message \in AlbumMessage

\* An answer is about what was asked for; before the first there is none.
AnswerOk ==
  /\ Fetching => uri.kind = stage
  /\ stage \in {"start", "reading", "ready"} => answer = <<>>
  /\ answer # <<>> => \/ Reply.status \in {"error", "no payload", "garbled"}
                      \/ Reply.status = "ok" /\ MessageOf(uri.kind, Reply.message)

\* A track is what was parsed from the message that is kept with it.
TrackOk ==
  track # <<>> =>
    /\ track[1].message \in TrackMessage
    /\ track[1].parsed.available = ParseRestrictions(track[1].message, track[1].country)

CatalogueInv == AnswerOk /\ TrackOk /\ PanicsForAReason

LEMMA InitInv == Init => CatalogueInv
BY DEF Init, CatalogueInv, AnswerOk, TrackOk, PanicsForAReason, Fetching

\* A panic over an answer that lacks something has that for a reason.
LEMMA PanicReason ==
  ASSUME answer # <<>>,
         \/ Reply.status \in {"no payload", "garbled"}
         \/ /\ uri.kind = "track"
            /\ TrackLacks(Reply.message) \/ WithGid(Reply.message.artist) = <<>>
         \/ uri.kind = "artist" /\ ArtistLacks(Reply.message)
         \/ uri.kind = "album" /\ AlbumLacks(Reply.message)
  PROVE  PanicsForAReason
BY DEF PanicsForAReason, TrackLacks, ArtistLacks, AlbumLacks

\* Reading and asking: there is no answer.
LEMMA AskKeepsInv ==
  ASSUME CatalogueInv,
         FromRawId \/ FromOtherBytes \/ StartText \/ ReadDigit \/ ReadOther \/ EndText \/ GetTrack
  PROVE  CatalogueInv'
<1>1. stage \in {"start", "reading", "ready"} /\ answer = <<>> /\ answer' = <<>> /\ track' = track
  BY DEF CatalogueInv, AnswerOk, FromRawId, FromOtherBytes, StartText, ReadDigit, ReadOther, EndText, GetTrack, Ask
<1>2. stage' \in {"track", "artist", "album"} => uri'.kind = stage'
  BY DEF FromRawId, FromOtherBytes, StartText, ReadDigit, ReadOther, EndText, GetTrack, Ask, Uri
<1>3. AnswerOk'
  BY <1>1, <1>2 DEF AnswerOk, Fetching
<1>4. TrackOk'
  BY <1>1 DEF CatalogueInv, TrackOk
<1>5. PanicsForAReason'
  BY <1>1 DEF PanicsForAReason
<1> QED
  BY <1>3, <1>4, <1>5 DEF CatalogueInv

LEMMA SetCountryKeepsInv ==
  ASSUME CatalogueInv, SetCountry
  PROVE  CatalogueInv'
<1>1. /\ stage' = stage /\ uri' = uri /\ answer' = answer /\ track' = track
  BY DEF SetCountry
<1> QED
  BY <1>1 DEF CatalogueInv, AnswerOk, TrackOk, PanicsForAReason, Fetching, Reply

\* What the access point answers is a message of the kind that was asked for.
LEMMA AnswersAreTyped ==
  ASSUME NEW messages, Answers(messages)
  PROVE  /\ answer' # <<>> /\ answer'[1].status = "ok"
         /\ messages \subseteq Tracks => answer'[1].message \in TrackMessage
         /\ messages \subseteq Artists => answer'[1].message \in ArtistMessage
         /\ messages \subseteq Albums => answer'[1].message \in AlbumMessage
<1>1. PICK message \in messages, gid \in Known :
        \E own \in {<<>>, <<gid>>, <<Tail(gid)>>} :
          answer' = <<[status |-> "ok", name |-> <<uri.kind, NumberAsked>>,
                       message |-> [message EXCEPT !.gid = own]]>>
  BY DEF Answers
<1>2. PICK own \in {<<>>, <<gid>>, <<Tail(gid)>>} :
        answer' = <<[status |-> "ok", name |-> <<uri.kind, NumberAsked>>,
                     message |-> [message EXCEPT !.gid = own]]>>
  BY <1>1
<1>3. gid \in Bytes /\ Tail(gid) \in Bytes
  <2>1. gid \in Ids
    BY CatalogueAssumption
  <2>2. gid \in Bytes /\ Len(gid) = 4
    BY <2>1, IdsAreBytes DEF IdBytes
  <2>3. gid # <<>>
    BY <2>2
  <2> QED
    BY <2>2, <2>3, HeadTailProperties DEF Bytes
<1>4. own \in Optional(Bytes)
  <2>1. CASE own = <<>>
    <3>1. own \in Seq(Bytes) /\ Len(own) = 0
      BY <2>1
    <3> QED
      BY <3>1 DEF Optional
  <2>2. CASE own \in {<<gid>>, <<Tail(gid)>>}
    <3>1. PICK bytes \in Bytes : own = <<bytes>>
      BY <1>3, <2>2
    <3>2. <<bytes>> \in Seq(Bytes) /\ Len(<<bytes>>) = 1
      OBVIOUS
    <3>3. <<bytes>> \in Optional(Bytes)
      BY <3>2 DEF Optional
    <3> QED
      BY <3>1, <3>3
  <2> QED
    BY <2>1, <2>2
<1>5. answer' # <<>> /\ answer'[1].status = "ok"
  BY <1>2
<1> PICK m : m = [message EXCEPT !.gid = own]
  OBVIOUS
<1>6. answer'[1].message = m
  BY <1>2
<1>7. messages \subseteq Tracks => m \in TrackMessage
  BY <1>4, CatalogueAssumption DEF TrackMessage
<1>8. messages \subseteq Artists => m \in ArtistMessage
  BY <1>4, CatalogueAssumption DEF ArtistMessage
<1>9. messages \subseteq Albums => m \in AlbumMessage
  BY <1>4, CatalogueAssumption DEF AlbumMessage
<1> QED
  BY <1>5, <1>6, <1>7, <1>8, <1>9

LEMMA AnswerKeepsInv ==
  ASSUME CatalogueInv, Answer
  PROVE  CatalogueInv'
<1>1. /\ Fetching /\ uri.kind = stage
      /\ stage' = stage /\ uri' = uri /\ track' = track
  BY DEF Answer, CatalogueInv, AnswerOk
<1>2. \/ answer'[1].status \in {"error", "no payload", "garbled"}
      \/ answer'[1].status = "ok" /\ MessageOf(uri.kind, answer'[1].message)
  <2>1. CASE \E status \in {"error", "no payload", "garbled"} : answer' = <<[status |-> status]>>
    <3>1. PICK status \in {"error", "no payload", "garbled"} : answer' = <<[status |-> status]>>
      BY <2>1
    <3>2. answer'[1].status = status
      BY <3>1
    <3>3. answer'[1].status \in {"error", "no payload", "garbled"}
      BY <3>2
    <3> QED
      BY <3>3
  <2>2. CASE stage = "track" /\ Answers(Tracks)
    BY <1>1, <2>2, AnswersAreTyped DEF MessageOf
  <2>3. CASE stage = "artist" /\ Answers(Artists)
    BY <1>1, <2>3, AnswersAreTyped DEF MessageOf
  <2>4. CASE stage = "album" /\ Answers(Albums)
    BY <1>1, <2>4, AnswersAreTyped DEF MessageOf
  <2> QED
    BY <2>1, <2>2, <2>3, <2>4 DEF Answer
<1>3. AnswerOk'
  BY <1>1, <1>2 DEF AnswerOk, Fetching, MessageOf, Reply
<1>4. TrackOk'
  BY <1>1 DEF CatalogueInv, TrackOk
<1>5. PanicsForAReason'
  BY <1>1 DEF PanicsForAReason, Fetching
<1> QED
  BY <1>3, <1>4, <1>5 DEF CatalogueInv

LEMMA PollFailureKeepsInv ==
  ASSUME CatalogueInv, PollFailure
  PROVE  CatalogueInv'
<1>1. /\ Fetching /\ answer # <<>> /\ Reply.status # "ok"
      /\ stage' = IF Reply.status = "error" THEN "error" ELSE "panicked"
      /\ answer' = answer /\ uri' = uri /\ track' = track
  BY DEF PollFailure
<1>2. Reply.status \in {"error", "no payload", "garbled"}
  BY <1>1 DEF CatalogueInv, AnswerOk
<1>3. AnswerOk'
  BY <1>1, <1>2 DEF AnswerOk, Fetching, Reply
<1>4. TrackOk'
  BY <1>1 DEF CatalogueInv, TrackOk
<1>5. PanicsForAReason'
  BY <1>1, <1>2 DEF PanicsForAReason, Reply
<1> QED
  BY <1>3, <1>4, <1>5 DEF CatalogueInv

\* The message in an answer that came as it should, by what was asked for.
LEMMA AnswerOf ==
  ASSUME CatalogueInv, NEW kind \in {"track", "artist", "album"}, PollAnswer(kind)
  PROVE  /\ uri.kind = kind /\ answer # <<>>
         /\ kind = "track" => Reply.message \in TrackMessage
         /\ kind = "artist" => Reply.message \in ArtistMessage
         /\ kind = "album" => Reply.message \in AlbumMessage
<1>1. stage = kind /\ answer # <<>> /\ Reply.status = "ok"
  BY DEF PollAnswer
<1>2. uri.kind = kind /\ MessageOf(uri.kind, Reply.message)
  BY <1>1 DEF CatalogueInv, AnswerOk, Fetching
<1> QED
  BY <1>1, <1>2 DEF MessageOf

\* A poll that panics over what its answer lacks.
LEMMA PanicKeepsInv ==
  ASSUME CatalogueInv, stage' = "panicked", answer' = answer, uri' = uri, answer # <<>>,
         TrackOk',
         \/ /\ uri.kind = "track"
            /\ TrackLacks(Reply.message) \/ WithGid(Reply.message.artist) = <<>>
         \/ uri.kind = "artist" /\ ArtistLacks(Reply.message)
         \/ uri.kind = "album" /\ AlbumLacks(Reply.message)
  PROVE  CatalogueInv'
<1>1. PanicsForAReason'
  BY PanicReason DEF PanicsForAReason, TrackLacks, ArtistLacks, AlbumLacks, Reply
<1>2. AnswerOk'
  BY DEF CatalogueInv, AnswerOk, Fetching, Reply
<1> QED
  BY <1>1, <1>2 DEF CatalogueInv

LEMMA PollTrackKeepsInv ==
  ASSUME CatalogueInv, PollTrack
  PROVE  CatalogueInv'
<1>1. uri.kind = "track" /\ answer # <<>> /\ Reply.message \in TrackMessage
  BY AnswerOf DEF PollTrack
<1>2. CASE TrackPanics(Reply.message, country) /\ Panic
  <2>1. /\ stage' = "panicked" /\ answer' = answer /\ uri' = uri /\ track' = track
    BY <1>2 DEF Panic
  <2>2. TrackLacks(Reply.message)
    BY <1>1, <1>2, TrackReason
  <2>3. TrackOk'
    BY <2>1 DEF CatalogueInv, TrackOk
  <2> QED
    BY <1>1, <2>1, <2>2, <2>3, PanicKeepsInv
<1>3. CASE ~TrackPanics(Reply.message, country)
  <2>1. /\ track' = <<[parsed |-> ParseTrack(Reply.message, country),
                       message |-> Reply.message, country |-> country]>>
        /\ IF WithGid(Reply.message.artist) = <<>>
           THEN stage' = "panicked" /\ UNCHANGED <<uri, answer>>
           ELSE Ask("artist", Head(ParseTrack(Reply.message, country).artists))
    BY <1>3 DEF PollTrack
  <2>2. /\ track'[1].message = Reply.message /\ track'[1].country = country
        /\ track'[1].parsed = ParseTrack(Reply.message, country)
    BY <2>1
  <2>3. track'[1].parsed.available = ParseRestrictions(Reply.message, country)
    BY <2>2 DEF ParseTrack
  <2>4. TrackOk'
    BY <1>1, <2>2, <2>3 DEF TrackOk
  <2>5. CASE WithGid(Reply.message.artist) = <<>>
    BY <1>1, <2>1, <2>4, <2>5, PanicKeepsInv
  <2>6. CASE WithGid(Reply.message.artist) # <<>>
    <3>1. answer' = <<>> /\ stage' = "artist" /\ uri'.kind = "artist"
      BY <2>1, <2>6 DEF Ask, Uri
    <3> QED
      BY <2>4, <3>1 DEF CatalogueInv, AnswerOk, PanicsForAReason, Fetching
  <2> QED
    BY <2>5, <2>6
<1> QED
  BY <1>2, <1>3 DEF PollTrack

LEMMA PollArtistKeepsInv ==
  ASSUME CatalogueInv, PollArtist
  PROVE  CatalogueInv'
<1>1. uri.kind = "artist" /\ answer # <<>> /\ Reply.message \in ArtistMessage
  BY AnswerOf DEF PollArtist
<1>2. track' = track
  BY DEF PollArtist, Panic
<1>3. TrackOk'
  BY <1>2 DEF CatalogueInv, TrackOk
<1>4. CASE ArtistPanics(Reply.message, country) /\ Panic
  <2>1. stage' = "panicked" /\ answer' = answer /\ uri' = uri
    BY <1>4 DEF Panic
  <2>2. ArtistLacks(Reply.message)
    BY <1>1, <1>4, ArtistReason
  <2> QED
    BY <1>1, <1>3, <2>1, <2>2, PanicKeepsInv
<1>5. CASE ~ArtistPanics(Reply.message, country)
  <2>1. answer' = <<>> /\ stage' = "album" /\ uri'.kind = "album"
    BY <1>5 DEF PollArtist, Ask, Uri
  <2> QED
    BY <1>3, <2>1 DEF CatalogueInv, AnswerOk, PanicsForAReason, Fetching
<1> QED
  BY <1>4, <1>5 DEF PollArtist

LEMMA PollAlbumKeepsInv ==
  ASSUME CatalogueInv, PollAlbum
  PROVE  CatalogueInv'
<1>1. uri.kind = "album" /\ answer # <<>> /\ Reply.message \in AlbumMessage
  BY AnswerOf DEF PollAlbum
<1>2. track' = track /\ answer' = answer /\ uri' = uri
  BY DEF PollAlbum, Panic
<1>3. TrackOk'
  BY <1>2 DEF CatalogueInv, TrackOk
<1>4. CASE AlbumPanics(Reply.message) /\ Panic
  <2>1. stage' = "panicked"
    BY <1>4 DEF Panic
  <2>2. AlbumLacks(Reply.message)
    BY <1>1, <1>4, AlbumReason
  <2> QED
    BY <1>1, <1>2, <1>3, <2>1, <2>2, PanicKeepsInv
<1>5. CASE ~AlbumPanics(Reply.message)
  <2>1. stage' = "done"
    BY <1>5 DEF PollAlbum
  <2> QED
    BY <1>2, <1>3, <2>1 DEF CatalogueInv, AnswerOk, PanicsForAReason, Fetching, Reply
<1> QED
  BY <1>4, <1>5 DEF PollAlbum

-----------------------------------------------------------------------------
(* What is read and what is asked for.                                     *)

\* What was read so far is in the id, unless reading it panicked.
ReadInv ==
  /\ debug \in BOOLEAN /\ id \in Numbers128
  /\ stage = "start" => id = Zero /\ source.digits = <<>>
  /\ stage = "reading" =>
       /\ ~id.panicked
       /\ source.base \in {HexBase, WordBase} /\ source.digits \in Digits(source.base)
       /\ source = [base |-> source.base, digits |-> source.digits]
  /\ stage \in {"ready", "track"} => ~id.panicked
  /\ IdIsTheNumber

\* Only the id is read, and only before anything is asked for.
LEMMA NothingIsRead ==
  ASSUME ReadInv, UNCHANGED <<debug, id, source>>,
         stage # "start", stage' \notin {"start", "reading"},
         stage' \in {"ready", "track"} => stage \in {"ready", "track"}
  PROVE  ReadInv'
BY DEF ReadInv, IdIsTheNumber, SourceNumber

LEMMA NothingIsZero == 0 % (Word * Word) = 0
<1>1. \E m : m = Word * Word
  OBVIOUS
<1>2. PICK m : m = Word * Word
  BY <1>1
<1>3. m \in Nat /\ 0 < m
  BY <1>2, ZeroIs, ValueIsNat, WordIs
<1>4. 0 % m = 0
  BY <1>3, Below
<1> QED
  BY <1>2, <1>4

\* An id is read digit by digit, or at once from bytes.
LEMMA ReadingKeepsReadInv ==
  ASSUME ReadInv, FromRawId \/ FromOtherBytes \/ StartText \/ ReadDigit \/ ReadOther \/ EndText
  PROVE  ReadInv'
<1>1. debug \in BOOLEAN /\ id \in Numbers128 /\ debug' = debug
  BY DEF ReadInv, FromRawId, FromOtherBytes, StartText, ReadDigit, ReadOther, EndText
<1>2. CASE FromRawId
  <2>1. PICK gid \in Gids :
          /\ Len(gid) = IdBytes
          /\ source' = [base |-> Quarter, digits |-> gid] /\ id' = FromRaw(gid)
    BY <1>2 DEF FromRawId
  <2>2. gid \in Ids /\ stage' = "ready"
    <3>1. gid \in Bytes
      BY CatalogueAssumption
    <3> QED
      BY <1>2, <2>1, <3>1, AsManyAreAnId DEF FromRawId
  <2>3. source'.base = Quarter /\ source'.digits = gid
    BY <2>1
  <2>4. /\ id' \in Numbers128 /\ ~id'.panicked
        /\ Value(id') = NumberOf(source'.digits, source'.base) % (Word * Word)
    BY <2>1, <2>2, <2>3, RawIsTheNumber
  <2> QED
    BY <1>1, <2>2, <2>4 DEF ReadInv, IdIsTheNumber, SourceNumber
<1>3. CASE StartText
  <2>1. PICK base \in {HexBase, WordBase} : source' = [base |-> base, digits |-> <<>>]
    BY <1>3 DEF StartText
  <2>2. stage' = "reading" /\ id' = id /\ id = Zero
    BY <1>3 DEF StartText, ReadInv
  <2>3. source'.base = base /\ source'.digits = <<>>
    BY <2>1
  <2>4. source' = [base |-> source'.base, digits |-> source'.digits]
    BY <2>1, <2>3
  <2>5. <<>> \in Digits(base)
    BY DEF Digits
  <2>7. Value(id') = NumberOf(source'.digits, source'.base) % (Word * Word) /\ ~id'.panicked
    BY <2>2, <2>3, NothingIsZero, ZeroIs, NumberOfNothing
  <2> QED
    BY <1>1, <2>2, <2>3, <2>4, <2>5, <2>7, ZeroIs DEF ReadInv, IdIsTheNumber, SourceNumber
<1>4. CASE ReadDigit
  <2>1. PICK digit \in 0 .. source.base - 1 :
          /\ source' = [source EXCEPT !.digits = Append(@, digit)]
          /\ id' = NextDigit(id, digit, source.base, debug)
    BY <1>4 DEF ReadDigit
  <2>2. \E base, text : base = source.base /\ text = source.digits
    OBVIOUS
  <2>3. PICK base, text : base = source.base /\ text = source.digits
    BY <2>2
  <2>4. /\ stage = "reading" /\ ~id.panicked
        /\ base \in {HexBase, WordBase} /\ text \in Digits(base)
        /\ source = [base |-> base, digits |-> text]
    BY <1>4, <2>3 DEF ReadDigit, ReadInv
  <2>5. Value(id) = NumberOf(text, base) % (Word * Word)
    BY <2>3, <2>4 DEF ReadInv, IdIsTheNumber, SourceNumber
  <2>6. /\ id' \in Numbers128
        /\ id'.panicked => debug /\ base = WordBase
        /\ Value(id') = NumberOf(Append(text, digit), base) % (Word * Word)
    BY <1>1, <2>1, <2>3, <2>4, <2>5, ReadsADigit
  <2>7. source' = [base |-> base, digits |-> Append(text, digit)]
    BY <2>1, <2>3, <2>4
  <2>8. source'.base = base /\ source'.digits = Append(text, digit)
    BY <2>7
  <2>9. Append(text, digit) \in Digits(base)
    BY <2>1, <2>3, <2>4, NumbersAssumption, NumberOfAppend
  <2>10. stage' = IF id'.panicked THEN "panicked" ELSE "reading"
    BY <1>4 DEF ReadDigit
  <2> QED
    BY <1>1, <2>4, <2>6, <2>7, <2>8, <2>9, <2>10 DEF ReadInv, IdIsTheNumber, SourceNumber
<1>5. CASE EndText
  <2>1. /\ stage = "reading" /\ stage' = "read" /\ UNCHANGED <<debug, id, source>>
    BY <1>5 DEF EndText
  <2> QED
    BY <2>1, NothingIsRead
<1>6. CASE ReadOther
  <2>1. /\ stage = "reading" /\ stage' = "panicked" /\ UNCHANGED <<debug, id, source>>
    BY <1>6 DEF ReadOther
  <2> QED
    BY <2>1, NothingIsRead
<1>7. CASE FromOtherBytes
  <2>1. /\ stage' = "panicked" /\ UNCHANGED <<debug, id, source>>
        /\ id = Zero /\ source.digits = <<>>
    BY <1>7 DEF FromOtherBytes, ReadInv
  <2>2. Value(id) = NumberOf(source.digits, source.base) % (Word * Word) /\ ~id.panicked
    BY <2>1, NothingIsZero, ZeroIs, NumberOfNothing
  <2> QED
    BY <1>1, <2>1, <2>2 DEF ReadInv, IdIsTheNumber, SourceNumber
<1> QED
  BY <1>2, <1>3, <1>4, <1>5, <1>6, <1>7

LEMMA StepKeepsReadInv == ReadInv /\ [Next]_vars => ReadInv'
<1>1. SUFFICES ASSUME ReadInv, [Next]_vars
               PROVE  ReadInv'
  OBVIOUS
<1>2. CASE UNCHANGED vars
  BY <1>1, <1>2 DEF vars, ReadInv, IdIsTheNumber, SourceNumber
<1>3. CASE Done
  BY <1>2, <1>3 DEF Done
<1>4. CASE FromRawId \/ FromOtherBytes \/ StartText \/ ReadDigit \/ ReadOther \/ EndText
  BY <1>1, <1>4, ReadingKeepsReadInv
<1>5. CASE GetTrack
  <2>1. stage = "ready" /\ stage' = "track" /\ UNCHANGED <<debug, id, source>>
    BY <1>5 DEF GetTrack, Ask
  <2> QED
    BY <1>1, <2>1, NothingIsRead
<1>6. CASE SetCountry
  BY <1>1, <1>6 DEF SetCountry, ReadInv, IdIsTheNumber, SourceNumber
<1>7. CASE Answer
  BY <1>1, <1>7 DEF Answer, ReadInv, IdIsTheNumber, SourceNumber
<1>8. CASE PollFailure \/ PollTrack \/ PollArtist \/ PollAlbum
  <2>1. /\ stage \in {"track", "artist", "album"} /\ UNCHANGED <<debug, id, source>>
        /\ stage' \in {"error", "panicked", "artist", "album", "done"}
    BY <1>8 DEF PollFailure, PollTrack, PollArtist, PollAlbum, PollAnswer, Panic, Ask, Fetching
  <2> QED
    BY <1>1, <2>1, NothingIsRead
<1> QED
  BY <1>1, <1>2, <1>3, <1>4, <1>5, <1>6, <1>7, <1>8 DEF Next

LEMMA InitReadInv == Init => ReadInv
BY ZeroIs DEF Init, ReadInv, IdIsTheNumber

-----------------------------------------------------------------------------
(* Who is asked for.                                                       *)

\* What is asked for next is what the answers so far said, and they are of
\* what was asked for.
NamesInv ==
  /\ stage \in {"start", "reading", "ready", "track"} => names = <<>>
  /\ stage = "track" => NumberAsked = Value(id)
  /\ stage = "artist" =>
       /\ NumberAsked = NumberOf(FirstArtist, Quarter)
       /\ names = <<names[1]>>
  /\ stage = "album" =>
       /\ NumberAsked = NumberOf(track[1].message.album[1], Quarter)
       /\ names = <<names[1], names[2]>>
  /\ stage \in {"artist", "album"} =>
       /\ track[1].message.album[1] \in Ids
       /\ track[1].parsed.album = FromRaw(track[1].message.album[1])
  /\ answer # <<>> /\ Fetching /\ Reply.status = "ok" => Reply.name = <<stage, NumberAsked>>
  /\ NamesAreOfTheTrack

\* What is put one after the other is of what there was.
LEMMA FlatIsTyped ==
  ASSUME NEW S, NEW s \in Seq(Seq(S))
  PROVE  FlattenSeq(s) \in Seq(S)
<1>1. Len(s) \in Nat
  BY LenProperties
<1>2. CASE Len(s) = 0
  <2>1. s = <<>>
    BY <1>2, EmptySeq
  <2>2. FlattenSeq(s) = <<>>
    BY <1>2, <2>1 DEF FlattenSeq
  <2> QED
    BY <2>2
<1>3. CASE Len(s) # 0
  <2>1. PICK F : IsFlat(F, s, Len(s)) /\ FlattenSeq(s) = F[Len(s)]
    BY <1>1, <1>3, FlatIs
  <2> DEFINE Not == {i \in 1 .. Len(s) : F[i] \notin Seq(S)}
  <2>2. ASSUME Not # {}
        PROVE  FALSE
    <3>1. Not \subseteq Nat
      BY <1>1
    <3>2. PICK i \in Not : \A j \in Not : i <= j
      BY <2>2, <3>1, LeastNumber
    <3>3. i \in 1 .. Len(s) /\ i \in Nat \ {0} /\ F[i] \notin Seq(S)
      BY <3>2
    <3>4. F[i] = IF i = 1 THEN s[i] ELSE F[i - 1] \o s[i]
      BY <2>1, <3>3 DEF IsFlat
    <3>5. s[i] \in Seq(S)
      BY <3>3, ElementOfSeq
    <3>6. i # 1
      BY <3>3, <3>4, <3>5
    <3>7. i - 1 \in 1 .. Len(s) /\ ~ (i <= i - 1)
      BY <1>1, <3>3, <3>6
    <3>8. F[i - 1] \in Seq(S)
      BY <3>2, <3>7
    <3>9. F[i] \in Seq(S)
      BY <3>4, <3>5, <3>6, <3>8, ConcatProperties
    <3> QED
      BY <3>3, <3>9
  <2>3. Len(s) \in 1 .. Len(s)
    BY <1>1, <1>3
  <2> QED
    BY <2>1, <2>2, <2>3
<1> QED
  BY <1>2, <1>3

LEMMA WithGidIsTyped ==
  ASSUME NEW gids \in Seq(Optional(Bytes)), ~WithGidPanics(gids)
  PROVE  WithGid(gids) \in Seq(Ids)
<1>1. Len(gids) \in Nat /\ DOMAIN gids = 1 .. Len(gids)
  BY LenProperties
<1>2. \A i \in 1 .. Len(gids) : gids[i] \in Seq(Ids)
  <2>1. SUFFICES ASSUME NEW i \in 1 .. Len(gids)
                 PROVE  gids[i] \in Seq(Ids)
    OBVIOUS
  <2>2. PICK gid : gid = gids[i]
    OBVIOUS
  <2>3. gid \in Optional(Bytes) /\ (Has(gid) => ~RawPanics(gid))
    BY <1>1, <2>2, ElementOfSeq DEF WithGidPanics
  <2>4. CASE gid = <<>>
    BY <2>2, <2>4
  <2>5. CASE gid # <<>>
    <3>1. gid[1] \in Ids
      BY <2>3, <2>5, RawIsId DEF Has
    <3>2. gid \in Seq(Bytes) /\ Len(gid) <= 1
      BY <2>3 DEF Optional
    <3>3. Len(gid) = 1 /\ gid \in [1 .. 1 -> {gid[1]}]
      <4>1. Len(gid) \in Nat \ {0} /\ gid \in [1 .. Len(gid) -> Bytes]
        BY <2>5, <3>2, EmptySeq
      <4>2. Len(gid) = 1
        BY <3>2, <4>1
      <4>3. gid \in [1 .. 1 -> Bytes]
        BY <4>1, <4>2
      <4> QED
        BY <4>2, <4>3
    <3>4. gid \in [1 .. 1 -> Ids]
      BY <3>1, <3>3
    <3>5. gid \in Seq(Ids)
      BY <3>4, SeqDef
    <3> QED
      BY <2>2, <3>5
  <2> QED
    BY <2>4, <2>5
<1>3. gids \in [1 .. Len(gids) -> Seq(Ids)]
  <2>1. gids \in [1 .. Len(gids) -> Optional(Bytes)]
    BY <1>1
  <2> QED
    BY <1>2, <2>1
<1>4. gids \in Seq(Seq(Ids))
  BY <1>1, <1>3, SeqDef
<1> QED
  BY <1>4, FlatIsTyped DEF WithGid

\* The artist that is asked for is the first that has an id.
LEMMA AsksForTheFirst ==
  ASSUME NEW message \in TrackMessage, NEW cc, WithGid(message.artist) # <<>>,
         ~TrackPanics(message, cc)
  PROVE  /\ Head(WithGid(message.artist)) \in Ids
         /\ Head(ParseTrack(message, cc).artists) = FromRaw(Head(WithGid(message.artist)))
<1>1. \E w, a : w = WithGid(message.artist) /\ a = ParseTrack(message, cc).artists
  OBVIOUS
<1>2. PICK w, a : w = WithGid(message.artist) /\ a = ParseTrack(message, cc).artists
  BY <1>1
<1>3. message.artist \in Seq(Optional(Bytes)) /\ ~WithGidPanics(message.artist)
  BY DEF TrackMessage, TrackPanics
<1>4. w \in Seq(Ids) /\ w # <<>>
  BY <1>2, <1>3, WithGidIsTyped
<1>5. Len(w) \in Nat \ {0} /\ DOMAIN w = 1 .. Len(w)
  BY <1>4, EmptySeq, LenProperties
<1>6. 1 \in 1 .. Len(w) /\ w[1] \in Ids
  BY <1>4, <1>5, ElementOfSeq
<1>7. Head(w) = w[1]
  BY <1>4
<1>8. a = [i \in 1 .. Len(w) |-> FromRaw(w[i])]
  BY <1>2, <1>5 DEF ParseTrack
<1>9. a[1] = FromRaw(w[1]) /\ a \in Seq({a[i] : i \in 1 .. Len(w)}) /\ a # <<>>
  <2>1. a \in [1 .. Len(w) -> {a[i] : i \in 1 .. Len(w)}]
    BY <1>8
  <2>2. a \in Seq({a[i] : i \in 1 .. Len(w)}) /\ Len(a) = Len(w)
    BY <1>5, <2>1
  <2> QED
    BY <1>5, <1>6, <1>8, <2>2
<1>10. Head(a) = a[1]
  BY <1>9
<1> QED
  BY <1>2, <1>6, <1>7, <1>9, <1>10

\* A track that is parsed has an album.
LEMMA AlbumIsTyped ==
  ASSUME NEW message \in TrackMessage, NEW cc, ~TrackPanics(message, cc)
  PROVE  message.album[1] \in Ids
<1>1. message.album \in Optional(Bytes) /\ ~RawPanics(message.album)
  BY DEF TrackMessage, TrackPanics
<1> QED
  BY <1>1, RawIsId

\* Asking for an id asks for its number.
LEMMA AsksForItsNumber ==
  ASSUME NEW kind, NEW n \in Numbers128, Ask(kind, n)
  PROVE  /\ stage' = kind /\ answer' = <<>>
         /\ NumberAsked' = Value(n)
<1>1. stage' = kind /\ answer' = <<>> /\ uri' = Uri(kind, n)
  BY DEF Ask
<1>2. uri'.digits = ToBase16(n)
  BY <1>1 DEF Uri
<1> QED
  BY <1>1, <1>2, WrittenIsRead DEF NumberAsked

LEMMA AppendToOne ==
  ASSUME NEW a, NEW b
  PROVE  Append(<<a>>, b) = <<a, b>>
<1>1. \E s, t, u : s = <<a>> /\ t = <<a, b>> /\ u = Append(<<a>>, b)
  OBVIOUS
<1>2. PICK s, t, u : s = <<a>> /\ t = <<a, b>> /\ u = Append(<<a>>, b)
  BY <1>1
<1>3. s \in Seq({a, b}) /\ Len(s) = 1 /\ s[1] = a
  BY <1>2
<1>4. t \in Seq({a, b}) /\ Len(t) = 2 /\ t[1] = a /\ t[2] = b
  BY <1>2
<1>5. u \in Seq({a, b}) /\ Len(u) = 2 /\ u[1] = a /\ u[2] = b
  BY <1>2, <1>3, AppendProperties
<1>6. \A i \in 1 .. 2 : u[i] = t[i]
  BY <1>4, <1>5
<1>7. u = t
  BY <1>4, <1>5, <1>6, SeqEqual
<1> QED
  BY <1>2, <1>7

LEMMA AppendToTwo ==
  ASSUME NEW a, NEW b, NEW c
  PROVE  Append(<<a, b>>, c) = <<a, b, c>>
<1>1. \E s, t, u : s = <<a, b>> /\ t = <<a, b, c>> /\ u = Append(<<a, b>>, c)
  OBVIOUS
<1>2. PICK s, t, u : s = <<a, b>> /\ t = <<a, b, c>> /\ u = Append(<<a, b>>, c)
  BY <1>1
<1>3. s \in Seq({a, b, c}) /\ Len(s) = 2 /\ s[1] = a /\ s[2] = b
  BY <1>2
<1>4. t \in Seq({a, b, c}) /\ Len(t) = 3 /\ t[1] = a /\ t[2] = b /\ t[3] = c
  BY <1>2
<1>5. u \in Seq({a, b, c}) /\ Len(u) = 3 /\ u[1] = a /\ u[2] = b /\ u[3] = c
  BY <1>2, <1>3, AppendProperties
<1>6. \A i \in 1 .. 3 : u[i] = t[i]
  BY <1>4, <1>5
<1>7. u = t
  BY <1>4, <1>5, <1>6, SeqEqual
<1> QED
  BY <1>2, <1>7

\* A step that takes no name.
LEMMA NothingIsNamed ==
  ASSUME NamesAreOfTheTrack, UNCHANGED <<names, source, track>>,
         stage' = stage \/ stage' # "done"
  PROVE  NamesAreOfTheTrack'
BY DEF NamesAreOfTheTrack, SourceNumber, FirstArtist

LEMMA NoNames ==
  ASSUME names' = <<>>, stage' # "done"
  PROVE  NamesAreOfTheTrack'
<1>1. Len(<<>>) = 0
  OBVIOUS
<1> QED
  BY <1>1 DEF NamesAreOfTheTrack

LEMMA AnswerKeepsNamesInv ==
  ASSUME CatalogueInv, NamesInv, Answer
  PROVE  NamesInv'
<1>1. /\ Fetching /\ uri.kind = stage
      /\ UNCHANGED <<id, source, stage, uri, track, names>>
  BY DEF Answer, CatalogueInv, AnswerOk
<1>2. NumberAsked' = NumberAsked /\ FirstArtist' = FirstArtist
  BY <1>1 DEF NumberAsked, FirstArtist
<1>3. Reply'.status = "ok" => Reply'.name = <<stage, NumberAsked>>
  <2>1. CASE \E status \in {"error", "no payload", "garbled"} : answer' = <<[status |-> status]>>
    <3>1. PICK status \in {"error", "no payload", "garbled"} : answer' = <<[status |-> status]>>
      BY <2>1
    <3>2. Reply'.status = status
      BY <3>1 DEF Reply
    <3> QED
      BY <3>2
  <2>2. CASE \E messages : Answers(messages)
    <3>1. PICK message, own :
            answer' = <<[status |-> "ok", name |-> <<uri.kind, NumberAsked>>,
                         message |-> [message EXCEPT !.gid = own]]>>
      BY <2>2 DEF Answers
    <3>2. Reply'.name = <<uri.kind, NumberAsked>>
      BY <3>1 DEF Reply
    <3> QED
      BY <1>1, <3>2
  <2> QED
    BY <2>1, <2>2 DEF Answer
<1>4. NamesAreOfTheTrack'
  BY <1>1, NothingIsNamed DEF NamesInv
<1> QED
  BY <1>1, <1>2, <1>3, <1>4 DEF NamesInv, Fetching

LEMMA PollTrackKeepsNamesInv ==
  ASSUME CatalogueInv, ReadInv, NamesInv, PollTrack
  PROVE  NamesInv'
<1>1. /\ stage = "track" /\ answer # <<>> /\ Reply.status = "ok"
      /\ UNCHANGED <<country, source, id>> /\ Reply.message \in TrackMessage
  <2>1. PollAnswer("track")
    BY DEF PollTrack
  <2>2. Reply.message \in TrackMessage
    BY <2>1, AnswerOf
  <2> QED
    BY <2>1, <2>2 DEF PollAnswer
<1>2. CASE TrackPanics(Reply.message, country) /\ Panic
  <2>1. stage' = "panicked" /\ UNCHANGED <<names, source, track>>
    BY <1>1, <1>2 DEF Panic
  <2>2. NamesAreOfTheTrack'
    BY <2>1, NothingIsNamed DEF NamesInv
  <2> QED
    BY <2>1, <2>2 DEF NamesInv, Fetching
<1>3. CASE ~TrackPanics(Reply.message, country)
  <2>1. \E m, p : m = Reply.message /\ p = ParseTrack(Reply.message, country)
    OBVIOUS
  <2>2. PICK m, p : m = Reply.message /\ p = ParseTrack(Reply.message, country)
    BY <2>1
  <2>3. /\ track' = <<[parsed |-> p, message |-> m, country |-> country]>>
        /\ names' = <<Reply.name>>
        /\ IF WithGid(m.artist) = <<>>
           THEN stage' = "panicked" /\ UNCHANGED <<uri, answer>>
           ELSE Ask("artist", Head(p.artists))
    BY <1>3, <2>2 DEF PollTrack
  <2>4. track'[1].message = m /\ track'[1].parsed = p
    BY <2>3
  <2>5. Reply.name = <<"track", Value(id)>>
    BY <1>1 DEF NamesInv, Fetching
  <2>6. Value(id) = SourceNumber % (Word * Word) /\ SourceNumber' = SourceNumber
    BY <1>1 DEF ReadInv, IdIsTheNumber, SourceNumber
  <2>7. /\ names'[1] = <<"track", SourceNumber % (Word * Word)>>
        /\ names' = <<names'[1]>> /\ Len(names') = 1
    BY <2>3, <2>5, <2>6
  <2>8. stage' \in {"panicked", "artist"}
    BY <2>3 DEF Ask
  <2>9. NamesAreOfTheTrack'
    BY <2>6, <2>7, <2>8 DEF NamesAreOfTheTrack
  <2>10. CASE WithGid(m.artist) = <<>>
    <3>1. stage' = "panicked"
      BY <2>3, <2>10
    <3> QED
      BY <2>9, <3>1 DEF NamesInv, Fetching
  <2>11. CASE WithGid(m.artist) # <<>>
    <3>1. \E g : g = Head(WithGid(m.artist))
      OBVIOUS
    <3>2. PICK g : g = Head(WithGid(m.artist))
      BY <3>1
    <3>3. g \in Ids /\ Head(p.artists) = FromRaw(g)
      BY <1>1, <1>3, <2>2, <2>11, <3>2, AsksForTheFirst
    <3>4. Ask("artist", FromRaw(g)) /\ FromRaw(g) \in Numbers128
      BY <2>3, <2>11, <3>3, RawIsTheNumber
    <3>5. stage' = "artist" /\ answer' = <<>> /\ NumberAsked' = NumberOf(g, Quarter)
      BY <3>3, <3>4, AsksForItsNumber, RawIsTheNumber
    <3>6. FirstArtist' = g
      BY <2>4, <3>2 DEF FirstArtist
    <3>7. m.album[1] \in Ids /\ p.album = FromRaw(m.album[1])
      BY <1>1, <1>3, <2>2, AlbumIsTyped DEF ParseTrack
    <3> QED
      BY <2>4, <2>7, <2>9, <3>5, <3>6, <3>7 DEF NamesInv, Fetching
  <2> QED
    BY <2>10, <2>11
<1> QED
  BY <1>2, <1>3 DEF PollTrack

LEMMA PollArtistKeepsNamesInv ==
  ASSUME NamesInv, PollArtist
  PROVE  NamesInv'
<1>1. /\ stage = "artist" /\ answer # <<>> /\ Reply.status = "ok"
      /\ UNCHANGED <<country, source, id>> /\ track' = track
  BY DEF PollArtist, PollAnswer, Panic
<1>2. FirstArtist' = FirstArtist /\ SourceNumber' = SourceNumber
  BY <1>1 DEF FirstArtist, SourceNumber
<1>3. CASE ArtistPanics(Reply.message, country) /\ Panic
  <2>1. stage' = "panicked" /\ UNCHANGED <<names, source, track>>
    BY <1>1, <1>3 DEF Panic
  <2>2. NamesAreOfTheTrack'
    BY <2>1, NothingIsNamed DEF NamesInv
  <2> QED
    BY <2>1, <2>2 DEF NamesInv, Fetching
<1>4. CASE ~ArtistPanics(Reply.message, country)
  <2>1. names' = Append(names, Reply.name) /\ Ask("album", track[1].parsed.album)
    BY <1>4 DEF PollArtist
  <2>2. \E a, b, g : a = names[1] /\ b = Reply.name /\ g = track[1].message.album[1]
    OBVIOUS
  <2>3. PICK a, b, g : a = names[1] /\ b = Reply.name /\ g = track[1].message.album[1]
    BY <2>2
  <2>4. names = <<a>> /\ g \in Ids /\ track[1].parsed.album = FromRaw(g)
    BY <1>1, <2>3 DEF NamesInv
  <2>5. b = <<"artist", NumberOf(FirstArtist, Quarter)>>
    BY <1>1, <2>3 DEF NamesInv, Fetching
  <2>6. names' = <<a, b>>
    BY <2>1, <2>3, <2>4, AppendToOne
  <2>7. names'[1] = a /\ names'[2] = b /\ Len(names') = 2
    BY <2>6
  <2>8. a = <<"track", SourceNumber % (Word * Word)>>
    <3>1. names # <<>>
      BY <2>4
    <3> QED
      BY <2>3, <3>1 DEF NamesInv, NamesAreOfTheTrack
  <2>9. stage' = "album" /\ answer' = <<>> /\ NumberAsked' = NumberOf(g, Quarter)
    BY <2>1, <2>4, RawIsTheNumber, AsksForItsNumber
  <2>10. NamesAreOfTheTrack'
    BY <1>2, <2>5, <2>7, <2>8, <2>9 DEF NamesAreOfTheTrack
  <2>11. names' = <<names'[1], names'[2]>>
    BY <2>6, <2>7
  <2> QED
    BY <1>1, <2>3, <2>4, <2>9, <2>10, <2>11 DEF NamesInv, Fetching
<1> QED
  BY <1>3, <1>4 DEF PollArtist

LEMMA PollAlbumKeepsNamesInv ==
  ASSUME NamesInv, PollAlbum
  PROVE  NamesInv'
<1>1. /\ stage = "album" /\ answer # <<>> /\ Reply.status = "ok"
      /\ UNCHANGED <<country, source, id>> /\ track' = track
  BY DEF PollAlbum, PollAnswer, Panic
<1>2. FirstArtist' = FirstArtist /\ SourceNumber' = SourceNumber
  BY <1>1 DEF FirstArtist, SourceNumber
<1>3. CASE AlbumPanics(Reply.message) /\ Panic
  <2>1. stage' = "panicked" /\ UNCHANGED <<names, source, track>>
    BY <1>1, <1>3 DEF Panic
  <2>2. NamesAreOfTheTrack'
    BY <2>1, NothingIsNamed DEF NamesInv
  <2> QED
    BY <2>1, <2>2 DEF NamesInv, Fetching
<1>4. CASE ~AlbumPanics(Reply.message)
  <2>1. names' = Append(names, Reply.name) /\ stage' = "done"
    BY <1>4 DEF PollAlbum
  <2>2. \E a, b, c : a = names[1] /\ b = names[2] /\ c = Reply.name
    OBVIOUS
  <2>3. PICK a, b, c : a = names[1] /\ b = names[2] /\ c = Reply.name
    BY <2>2
  <2>4. names = <<a, b>>
    BY <1>1, <2>3 DEF NamesInv
  <2>5. c = <<"album", NumberOf(track[1].message.album[1], Quarter)>>
    BY <1>1, <2>3 DEF NamesInv, Fetching
  <2>6. names' = <<a, b, c>>
    BY <2>1, <2>3, <2>4, AppendToTwo
  <2>7. names'[1] = a /\ names'[2] = b /\ names'[3] = c
    BY <2>6
  <2>8. /\ a = <<"track", SourceNumber % (Word * Word)>>
        /\ b = <<"artist", NumberOf(FirstArtist, Quarter)>>
    <3>1. names # <<>> /\ Len(names) > 1
      BY <2>4
    <3> QED
      BY <2>3, <3>1 DEF NamesInv, NamesAreOfTheTrack
  <2>9. NamesAreOfTheTrack'
    BY <1>1, <1>2, <2>5, <2>7, <2>8 DEF NamesAreOfTheTrack
  <2> QED
    BY <2>1, <2>9 DEF NamesInv, Fetching
<1> QED
  BY <1>3, <1>4 DEF PollAlbum

LEMMA StepKeepsNamesInv == CatalogueInv /\ ReadInv /\ NamesInv /\ [Next]_vars => NamesInv'
<1>1. SUFFICES ASSUME CatalogueInv, ReadInv, NamesInv, [Next]_vars
               PROVE  NamesInv'
  OBVIOUS
<1>2. CASE UNCHANGED vars
  BY <1>1, <1>2, NothingIsNamed
  DEF vars, NamesInv, Fetching, Reply, NumberAsked, FirstArtist
<1>3. CASE Done
  BY <1>2, <1>3 DEF Done
<1>4. CASE FromRawId \/ FromOtherBytes \/ StartText \/ ReadDigit \/ ReadOther \/ EndText
  <2>1. /\ stage \in {"start", "reading"} /\ names' = names
        /\ stage' \in {"ready", "reading", "read", "panicked"}
    BY <1>4 DEF FromRawId, FromOtherBytes, StartText, ReadDigit, ReadOther, EndText
  <2>2. names' = <<>>
    BY <1>1, <2>1 DEF NamesInv
  <2>3. NamesAreOfTheTrack'
    BY <2>1, <2>2, NoNames
  <2> QED
    BY <2>1, <2>2, <2>3 DEF NamesInv, Fetching
<1>5. CASE GetTrack
  <2>1. stage = "ready" /\ names' = names /\ id' = id /\ Ask("track", id) /\ id \in Numbers128
    BY <1>1, <1>5 DEF GetTrack, ReadInv
  <2>2. stage' = "track" /\ answer' = <<>> /\ NumberAsked' = Value(id)
    BY <2>1, AsksForItsNumber
  <2>3. names' = <<>>
    BY <1>1, <2>1 DEF NamesInv
  <2>4. NamesAreOfTheTrack'
    BY <2>2, <2>3, NoNames
  <2> QED
    BY <2>1, <2>2, <2>3, <2>4 DEF NamesInv, Fetching
<1>6. CASE SetCountry
  <2>1. UNCHANGED <<source, id, stage, uri, answer, track, names>>
    BY <1>6 DEF SetCountry
  <2> QED
    BY <1>1, <2>1, NothingIsNamed DEF NamesInv, Fetching, Reply, NumberAsked, FirstArtist
<1>7. CASE Answer
  BY <1>1, <1>7, AnswerKeepsNamesInv
<1>8. CASE PollFailure
  <2>1. stage' \in {"error", "panicked"} /\ UNCHANGED <<names, source, track>>
    BY <1>8 DEF PollFailure
  <2>2. NamesAreOfTheTrack'
    BY <1>1, <2>1, NothingIsNamed DEF NamesInv
  <2> QED
    BY <2>1, <2>2 DEF NamesInv, Fetching
<1>9. CASE PollTrack
  BY <1>1, <1>9, PollTrackKeepsNamesInv
<1>10. CASE PollArtist
  BY <1>1, <1>10, PollArtistKeepsNamesInv
<1>11. CASE PollAlbum
  BY <1>1, <1>11, PollAlbumKeepsNamesInv
<1> QED
  BY <1>1, <1>2, <1>3, <1>4, <1>5, <1>6, <1>7, <1>8, <1>9, <1>10, <1>11 DEF Next

LEMMA InitNamesInv == Init => NamesInv
<1>1. Len(<<>>) = 0
  OBVIOUS
<1> QED
  BY <1>1 DEF Init, NamesInv, NamesAreOfTheTrack, Fetching

-----------------------------------------------------------------------------
(* The theorems.                                                           *)

\* Every step keeps the invariant.
LEMMA StepKeepsInv == CatalogueInv /\ [Next]_vars => CatalogueInv'
<1>1. SUFFICES ASSUME CatalogueInv, [Next]_vars
               PROVE  CatalogueInv'
  OBVIOUS
<1>2. CASE UNCHANGED vars
  BY <1>1, <1>2 DEF vars, CatalogueInv, AnswerOk, TrackOk, PanicsForAReason, Fetching, Reply
<1>3. CASE Done
  BY <1>2, <1>3 DEF Done
<1>4. CASE FromRawId \/ FromOtherBytes \/ StartText \/ ReadDigit \/ ReadOther \/ EndText \/ GetTrack
  BY <1>1, <1>4, AskKeepsInv
<1>5. CASE SetCountry
  BY <1>1, <1>5, SetCountryKeepsInv
<1>6. CASE Answer
  BY <1>1, <1>6, AnswerKeepsInv
<1>7. CASE PollFailure
  BY <1>1, <1>7, PollFailureKeepsInv
<1>8. CASE PollTrack
  BY <1>1, <1>8, PollTrackKeepsInv
<1>9. CASE PollArtist
  BY <1>1, <1>9, PollArtistKeepsInv
<1>10. CASE PollAlbum
  BY <1>1, <1>10, PollAlbumKeepsInv
<1> QED
  BY <1>1, <1>2, <1>3, <1>4, <1>5, <1>6, <1>7, <1>8, <1>9, <1>10 DEF Next

\* An answer is about what was asked for, and what is kept of a track is what
\* parsing its message gives (Metadata::get and MetadataTrait::parse).
THEOREM CatalogueInvHolds == Spec => []CatalogueInv
BY InitInv, StepKeepsInv, PTL DEF Spec

\* Track::parse finds a track available exactly if its restrictions say so,
\* whatever their number, their lists and the country (parse_restrictions).
THEOREM TracksAreAvailableAsListed == Spec => []AvailableAsListed
<1>1. CatalogueInv => AvailableAsListed
  <2>1. SUFFICES ASSUME CatalogueInv, track # <<>>,
                        AllEven(Forbidden(track[1].message) \o Allowed(track[1].message))
                 PROVE  track[1].parsed.available <=>
                          /\ HasAny(Forbidden(track[1].message) \o Allowed(track[1].message))
                          /\ ~Listed(Forbidden(track[1].message), track[1].country)
                          /\ HasAny(Allowed(track[1].message)) =>
                               Listed(Allowed(track[1].message), track[1].country)
    BY DEF AvailableAsListed, AllEven
  <2>2. /\ track[1].message \in TrackMessage
        /\ track[1].parsed.available = ParseRestrictions(track[1].message, track[1].country)
    BY <2>1 DEF CatalogueInv, TrackOk
  <2> QED
    BY <2>1, <2>2, ParsedAsListed
<1> QED
  BY <1>1, CatalogueInvHolds, PTL

\* The chain of get_track_meta panics only over an answer that lacks what the
\* parser of its kind cannot do without: never over an entry without a gid.
THEOREM FetchingPanicsForAReason == Spec => []PanicsForAReason
<1>1. CatalogueInv => PanicsForAReason
  BY DEF CatalogueInv
<1> QED
  BY <1>1, CatalogueInvHolds, PTL

\* What was read of a text or of bytes is in the id (NextDigit is a turn of the
\* loops of from_base16 and from_base62, FromRaw is from_raw).
THEOREM ReadInvHolds == Spec => []ReadInv
BY InitReadInv, StepKeepsReadInv, PTL DEF Spec

\* An id is the number that its text or its bytes stand for, modulo 2^128, for
\* texts of any length and halves of any width; the arithmetic panics only in a
\* debug build and in base 62 (u128::mul and u128::add).
THEOREM IdsAreTheNumbers == Spec => []IdIsTheNumber
<1>1. ReadInv => IdIsTheNumber
  BY DEF ReadInv
<1> QED
  BY <1>1, ReadInvHolds, PTL

\* Each request of get_track_meta names what the answers before it said.
THEOREM NamesInvHolds == Spec => []NamesInv
BY InitNamesInv, StepKeepsNamesInv, CatalogueInvHolds, ReadInvHolds, PTL DEF Spec

\* The names that get_track_meta collects are of the track whose id it was
\* given, of the first of its artists that has an id, and of its album.
THEOREM NamesAreOfItsTrack == Spec => []NamesAreOfTheTrack
<1>1. NamesInv => NamesAreOfTheTrack
  BY DEF NamesInv
<1> QED
  BY <1>1, NamesInvHolds, PTL
=============================================================================
