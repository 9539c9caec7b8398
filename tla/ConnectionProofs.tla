--------------------------- MODULE ConnectionProofs ---------------------------
(***************************************************************************)
(* Proofs about module Connection, for packets of any size and number, and *)
(* whatever the pieces in which their bytes arrive.                        *)
(*                                                                         *)
(* The bytes of a connection, those of ClientHello and then those of the   *)
(* access point, are a transcript t.  At every moment a beginning of it    *)
(* has been dealt with, and what is buffered and what is on its way are    *)
(* the rest.                                                               *)
(***************************************************************************)
EXTENDS Connection, WellFoundedInduction, SequenceTheorems, TLAPS

-----------------------------------------------------------------------------
(***************************************************************************)
(* What powm computes, for every base, exponent and modulus: a power; and  *)
(* so the two ends of a connection agree on the secret, whatever keys they *)
(* drew.  Three steps:                                                     *)
(*                                                                         *)
(* - the recursion of PowmLoop defines a function: tables of it up to any  *)
(*   exponent exist and agree with each other, and so make up one of all   *)
(*   exponents (PowmLoopIsDefined);                                        *)
(* - a factor of the result that the loop begins with comes out of it      *)
(*   (CarriesAFactor), and so an exponent one higher is one factor more,   *)
(*   though its bits may all be different (OneFactorMore);                 *)
(* - from then on no bit is looked at: powers of the generator commute.    *)
(*                                                                         *)
(* The provers do not apply the library's induction theorems, so a proof   *)
(* by induction takes the least number that would refute it (LeastNumber). *)
(***************************************************************************)

\* Every set of numbers that is not empty has a least one.
LEMMA LeastNumber ==
  ASSUME NEW T, T \subseteq Nat, T # {}
  PROVE  \E x \in T : \A y \in T : x <= y
<1> DEFINE Less == {ss \in Nat \X Nat : ss[1] < ss[2]}
<1>1. IsWellFoundedOn(Less, Nat)
  BY NatLessThanWellFounded DEF OpToRel
<1> HIDE DEF Less
<1>2. PICK x \in T : \A y \in T : ~ (<<y, x>> \in Less)
  BY <1>1, WFMin
<1>3. ASSUME NEW y \in T
      PROVE  x <= y
  <2>1. x \in Nat /\ y \in Nat /\ ~ (<<y, x>> \in Less)
    BY <1>2
  <2> QED
    BY <2>1 DEF Less
<1> QED
  BY <1>3

-----------------------------------------------------------------------------
(* Remainders.                                                             *)

\* Product distributes over sum.
LEMMA Distributes == \A m, q, d \in Nat : m * (q + d) = m * q + m * d
OBVIOUS

\* A product is no smaller than its factors.
LEMMA AtLeastAFactor == \A m, q \in Nat : m > 0 /\ q > 0 => m * q >= m
OBVIOUS

\* A number below m is what is left of a multiple of m and it.
LEMMA WhatIsLeft ==
  ASSUME NEW m \in Nat, NEW q \in Nat, NEW r \in Nat, r < m
  PROVE  (m * q + r) % m = r
<1> PICK a : a = m * q + r OBVIOUS
<1> PICK p, s : p = a \div m /\ s = a % m OBVIOUS
<1>1. m * q \in Nat /\ a \in Nat /\ m > 0 OBVIOUS
<1>2. p \in Nat /\ s \in 0 .. m - 1 /\ a = m * p + s BY <1>1
<1>3. CASE p > q
  <2> PICK d : d = p - q OBVIOUS
  <2>1. d \in Nat /\ d > 0 /\ p = q + d BY <1>2, <1>3
  <2>2. m * p = m * q + m * d BY <2>1, Distributes
  <2>3. m * d >= m BY <2>1, <1>1, AtLeastAFactor
  <2>4. m * d \in Nat BY <2>1
  <2> QED BY <1>1, <1>2, <2>2, <2>3, <2>4
<1>4. CASE p < q
  <2> PICK d : d = q - p OBVIOUS
  <2>1. d \in Nat /\ d > 0 /\ q = p + d BY <1>2, <1>4
  <2>2. m * q = m * p + m * d BY <1>2, <2>1, Distributes
  <2>3. m * d >= m BY <2>1, <1>1, AtLeastAFactor
  <2>4. m * d \in Nat /\ m * p \in Nat BY <1>2, <2>1
  <2> QED BY <1>1, <1>2, <2>2, <2>3, <2>4
<1>5. CASE p = q
  BY <1>1, <1>2, <1>5
<1> QED BY <1>2, <1>3, <1>4, <1>5

\* A multiple of m does not count.
LEMMA MultiplesVanish ==
  ASSUME NEW m \in Nat \ {0}, NEW k \in Nat, NEW t \in Nat
  PROVE  (m * k + t) % m = t % m
<1> PICK q, r : q = t \div m /\ r = t % m OBVIOUS
<1>1. q \in Nat /\ r \in Nat /\ r < m /\ t = m * q + r
  OBVIOUS
<1>2. m * (k + q) = m * k + m * q
  BY <1>1, Distributes
<1>3. m * k + t = m * (k + q) + r
  BY <1>1, <1>2
<1>4. k + q \in Nat
  BY <1>1
<1>5. (m * (k + q) + r) % m = r
  BY <1>1, <1>4, WhatIsLeft
<1> QED
  BY <1>3, <1>5

\* What powm multiplies with: a product, taken modulo m.
Times(a, b, m) == (a * b) % m

\* It does not matter whether a factor was taken modulo m before.
LEMMA Absorbs ==
  ASSUME NEW m \in Nat \ {0}, NEW a \in Nat, NEW b \in Nat
  PROVE  Times(a % m, b, m) = Times(a, b, m)
<1> PICK q, s : q = a \div m /\ s = a % m OBVIOUS
<1>1. q \in Nat /\ s \in Nat /\ a = m * q + s
  OBVIOUS
<1>2. a * b = m * (q * b) + s * b
  BY <1>1
<1>3. q * b \in Nat /\ s * b \in Nat
  BY <1>1
<1>4. (m * (q * b) + s * b) % m = (s * b) % m
  BY <1>3, MultiplesVanish
<1> QED
  BY <1>2, <1>4 DEF Times

\* The product of two numbers is one below m.
LEMMA TimesType ==
  ASSUME NEW m \in Nat \ {0}, NEW a \in Nat, NEW b \in Nat
  PROVE  Times(a, b, m) \in Nat /\ Times(a, b, m) < m /\ a * b \in Nat
<1>1. a * b \in Nat
  OBVIOUS
<1> QED
  BY <1>1 DEF Times

\* The factors may be in any order...
LEMMA Commutes ==
  ASSUME NEW m \in Nat \ {0}, NEW a \in Nat, NEW b \in Nat
  PROVE  Times(a, b, m) = Times(b, a, m)
BY DEF Times

\* ... and be multiplied in any order.
LEMMA Associates ==
  ASSUME NEW m \in Nat \ {0}, NEW a \in Nat, NEW b \in Nat, NEW c \in Nat
  PROVE  Times(Times(a, b, m), c, m) = Times(a, Times(b, c, m), m)
<1>1. a * b \in Nat /\ b * c \in Nat
  OBVIOUS
<1>2. Times(Times(a, b, m), c, m) = Times(a * b, c, m)
  BY <1>1, Absorbs DEF Times
<1>3. Times(Times(b, c, m), a, m) = Times(b * c, a, m)
  BY <1>1, Absorbs DEF Times
<1>4. Times(a, Times(b, c, m), m) = Times(Times(b, c, m), a, m)
  BY TimesType, Commutes
<1>5. (a * b) * c = (b * c) * a
  OBVIOUS
<1>6. Times(a * b, c, m) = Times(b * c, a, m)
  BY <1>5 DEF Times
<1> QED
  BY <1>2, <1>3, <1>4, <1>6

-----------------------------------------------------------------------------
(* The recursion of PowmLoop defines a function.                           *)

\* One turn of the loop of powm at exponent e, the others being in rest.
Turn(e, rest, m) ==
  [b \in Nat |-> [result \in Nat |->
     IF e = 0 THEN result
     ELSE rest[(b * b) % m][IF e % 2 = 1 THEN (result * b) % m ELSE result]]]

\* F satisfies the equation that PowmLoop is defined by.
IsLoop(F, m) == F = [e \in Nat |-> Turn(e, F[e \div 2], m)]

\* What is defined for one exponent: a map from the base and result.
Results == [Nat -> [Nat -> Nat]]

\* f satisfies it for the exponents up to n.
IsTable(f, n, m) ==
  /\ f \in [0 .. n -> Results]
  /\ \A e \in 0 .. n : f[e] = Turn(e, f[e \div 2], m)

\* At exponent 0 the loop is over, whatever the rest of the table is.
LEMMA TurnOfZero ==
  ASSUME NEW rest, NEW m
  PROVE  Turn(0, rest, m) = [b \in Nat |-> [result \in Nat |-> result]]
BY DEF Turn

\* A turn of the loop results in numbers if the turns after it do.
LEMMA TurnType ==
  ASSUME NEW m \in Nat \ {0}, NEW e \in Nat, NEW rest, e = 0 \/ rest \in Results
  PROVE  Turn(e, rest, m) \in Results
<1>1. SUFFICES ASSUME NEW b \in Nat, NEW r \in Nat
               PROVE  (IF e = 0 THEN r
                       ELSE rest[(b * b) % m][IF e % 2 = 1 THEN (r * b) % m ELSE r]) \in Nat
  BY DEF Turn, Results
<1>2. (b * b) % m \in Nat /\ (r * b) % m \in Nat
  BY TimesType DEF Times
<1>3. CASE e = 0
  BY <1>3
<1>4. CASE e # 0
  <2>1. rest \in [Nat -> [Nat -> Nat]]
    BY <1>4 DEF Results
  <2>2. rest[(b * b) % m] \in [Nat -> Nat]
    BY <2>1, <1>2
  <2>3. (IF e % 2 = 1 THEN (r * b) % m ELSE r) \in Nat
    BY <1>2
  <2> QED
    BY <1>4, <2>2, <2>3
<1> QED
  BY <1>3, <1>4

\* Half of an exponent is an exponent below it.
LEMMA Half == \A e \in Nat : e \div 2 \in Nat /\ (e > 0 => e \div 2 < e) /\ e \div 2 <= e
OBVIOUS

\* There is a table up to every exponent.
LEMMA TablesExist ==
  ASSUME NEW m \in Nat \ {0}
  PROVE  \A n \in Nat : \E f : IsTable(f, n, m)
<1> DEFINE Without == {n \in Nat : ~ \E f : IsTable(f, n, m)}
<1>1. SUFFICES ASSUME Without # {}
               PROVE  FALSE
  OBVIOUS
<1>2. PICK n \in Without : \A k \in Without : n <= k
  BY <1>1, LeastNumber
<1>3. n \in Nat /\ ~ \E f : IsTable(f, n, m)
  BY <1>2
<1>4. CASE n = 0
  <2> PICK f : f = [e \in 0 .. 0 |-> Turn(e, e, m)]
    OBVIOUS
  <2>1. f[0] = Turn(0, f[0 \div 2], m)
    BY TurnOfZero
  <2>2. f[0] \in Results
    BY TurnType
  <2>3. IsTable(f, 0, m)
    BY <2>1, <2>2 DEF IsTable
  <2> QED
    BY <1>3, <1>4, <2>3
<1>5. CASE n > 0
  <2>1. n - 1 \in Nat /\ n - 1 \notin Without
    BY <1>2, <1>3, <1>5
  <2>2. PICK f : IsTable(f, n - 1, m)
    BY <2>1
  <2> PICK g : g = [e \in 0 .. n |-> IF e = n THEN Turn(n, f[n \div 2], m) ELSE f[e]]
    OBVIOUS
  <2>3. ASSUME NEW e \in 0 .. n
        PROVE  g[e] \in Results /\ g[e] = Turn(e, g[e \div 2], m)
    <3>1. e \in Nat /\ e \div 2 \in Nat /\ e \div 2 <= e /\ (e > 0 => e \div 2 < e)
      BY <1>3, Half
    <3>2. e > 0 => g[e \div 2] = f[e \div 2] /\ e \div 2 \in 0 .. n - 1
      BY <1>3, <3>1
    <3>3. CASE e = n
      <4>1. f[n \div 2] \in Results
        BY <1>5, <2>2, <3>2, <3>3 DEF IsTable
      <4> QED
        BY <1>3, <1>5, <3>2, <3>3, <4>1, TurnType
    <3>4. CASE e # n
      <4>1. e \in 0 .. n - 1 /\ g[e] = f[e]
        BY <1>3, <3>4
      <4>2. f[e] \in Results /\ f[e] = Turn(e, f[e \div 2], m)
        BY <2>2, <4>1 DEF IsTable
      <4>3. CASE e = 0
        BY <4>1, <4>2, <4>3, TurnOfZero
      <4>4. CASE e > 0
        BY <3>2, <4>1, <4>2, <4>4
      <4> QED
        BY <3>1, <4>3, <4>4
    <3> QED
      BY <3>3, <3>4
  <2>4. IsTable(g, n, m)
    BY <2>3 DEF IsTable
  <2> QED
    BY <1>3, <2>4
<1> QED
  BY <1>3, <1>4, <1>5

\* Two tables agree wherever both are defined.
LEMMA TablesAgree ==
  ASSUME NEW m \in Nat \ {0}, NEW n \in Nat, NEW k \in Nat, NEW f, NEW g,
         IsTable(f, n, m), IsTable(g, k, m)
  PROVE  \A e \in Nat : e <= n /\ e <= k => f[e] = g[e]
<1> DEFINE Differ == {e \in Nat : e <= n /\ e <= k /\ f[e] # g[e]}
<1>1. SUFFICES ASSUME Differ # {}
               PROVE  FALSE
  OBVIOUS
<1>2. PICK e \in Differ : \A d \in Differ : e <= d
  BY <1>1, LeastNumber
<1>3. e \in Nat /\ e <= n /\ e <= k /\ f[e] # g[e] /\ e \in 0 .. n /\ e \in 0 .. k
  BY <1>2
<1>4. f[e] = Turn(e, f[e \div 2], m) /\ g[e] = Turn(e, g[e \div 2], m)
  BY <1>3 DEF IsTable
<1>5. CASE e = 0
  BY <1>3, <1>4, <1>5, TurnOfZero
<1>6. CASE e > 0
  <2>1. e \div 2 \in Nat /\ e \div 2 < e /\ e \div 2 <= n /\ e \div 2 <= k
    BY <1>3, <1>6, Half
  <2>2. f[e \div 2] = g[e \div 2]
    BY <1>2, <1>3, <2>1
  <2> QED
    BY <1>3, <1>4, <2>2
<1> QED
  BY <1>3, <1>5, <1>6

\* The tables together are a function of every exponent.
LEMMA LoopExists ==
  ASSUME NEW m \in Nat \ {0}
  PROVE  \E F : IsLoop(F, m) /\ F \in [Nat -> Results]
<1> DEFINE Table(n) == CHOOSE f : IsTable(f, n, m)
<1>1. \A n \in Nat : IsTable(Table(n), n, m)
  BY TablesExist
<1> HIDE DEF Table
<1> PICK F : F = [e \in Nat |-> Table(e)[e]]
  OBVIOUS
<1>2. ASSUME NEW e \in Nat
      PROVE  F[e] \in Results /\ F[e] = Turn(e, F[e \div 2], m)
  <2>1. e \div 2 \in Nat /\ e \div 2 <= e
    BY Half
  <2>2. Table(e)[e \div 2] = Table(e \div 2)[e \div 2]
    BY <1>1, <2>1, TablesAgree
  <2>3. Table(e)[e] \in Results /\ Table(e)[e] = Turn(e, Table(e)[e \div 2], m)
    BY <1>1 DEF IsTable
  <2> QED
    BY <2>1, <2>2, <2>3
<1>3. IsLoop(F, m)
  BY <1>2 DEF IsLoop
<1>4. F \in [Nat -> Results]
  BY <1>2
<1> QED
  BY <1>3, <1>4

\* So PowmLoop is one; what it says of the loop's turns follows.
LEMMA PowmLoopIsDefined ==
  ASSUME NEW m \in Nat \ {0}
  PROVE  IsLoop(PowmLoop(m), m)
<1>1. PICK F : IsLoop(F, m)
  BY LoopExists
<1> QED
  BY <1>1 DEF PowmLoop, IsLoop, Turn

-----------------------------------------------------------------------------
(* What the loop results in.                                               *)

\* A number, for every exponent, base and result to begin with.
LEMMA PowmLoopType ==
  ASSUME NEW m \in Nat \ {0}
  PROVE  \A e, b, r \in Nat : PowmLoop(m)[e][b][r] \in Nat
<1> PICK L : L = PowmLoop(m)
  OBVIOUS
<1>1. \A e \in Nat : L[e] = Turn(e, L[e \div 2], m)
  BY PowmLoopIsDefined DEF IsLoop
<1> DEFINE Others == {e \in Nat : L[e] \notin Results}
<1>2. ASSUME Others # {}
      PROVE  FALSE
  <2>1. PICK e \in Others : \A d \in Others : e <= d
    BY <1>2, LeastNumber
  <2>2. e \in Nat /\ L[e] \notin Results
    BY <2>1
  <2>3. e = 0 \/ L[e \div 2] \in Results
    BY <2>1, <2>2, Half
  <2> QED
    BY <1>1, <2>2, <2>3, TurnType
<1>3. ASSUME NEW e \in Nat, NEW b \in Nat, NEW r \in Nat
      PROVE  L[e][b][r] \in Nat
  <2>1. L[e] \in [Nat -> [Nat -> Nat]]
    BY <1>2 DEF Results
  <2>2. L[e][b] \in [Nat -> Nat]
    BY <2>1
  <2> QED
    BY <2>2
<1> QED
  BY <1>3

\* With exponent 0 the loop is not entered.
LEMMA NoTurn ==
  ASSUME NEW m \in Nat \ {0}, NEW b \in Nat, NEW r \in Nat
  PROVE  PowmLoop(m)[0][b][r] = r
<1>1. PowmLoop(m)[0] = Turn(0, PowmLoop(m)[0 \div 2], m)
  BY PowmLoopIsDefined DEF IsLoop
<1>2. PowmLoop(m)[0] = [bb \in Nat |-> [result \in Nat |-> result]]
  BY <1>1, TurnOfZero
<1> QED
  BY <1>2

\* At an even exponent only the base changes...
LEMMA EvenTurn ==
  ASSUME NEW m \in Nat \ {0}, NEW e \in Nat, e > 0, e % 2 # 1, NEW b \in Nat, NEW r \in Nat
  PROVE  PowmLoop(m)[e][b][r] = PowmLoop(m)[e \div 2][Times(b, b, m)][r]
<1>1. PowmLoop(m)[e] = Turn(e, PowmLoop(m)[e \div 2], m)
  BY PowmLoopIsDefined DEF IsLoop
<1> QED
  BY <1>1 DEF Turn, Times

\* ... at an odd one the result is multiplied by it first.
LEMMA OddTurn ==
  ASSUME NEW m \in Nat \ {0}, NEW e \in Nat, e % 2 = 1, NEW b \in Nat, NEW r \in Nat
  PROVE  PowmLoop(m)[e][b][r] = PowmLoop(m)[e \div 2][Times(b, b, m)][Times(r, b, m)]
<1>1. PowmLoop(m)[e] = Turn(e, PowmLoop(m)[e \div 2], m)
  BY PowmLoopIsDefined DEF IsLoop
<1>2. e > 0
  OBVIOUS
<1> QED
  BY <1>1, <1>2 DEF Turn, Times

\* A factor may be taken into the result before a loop's turns, f, or after them.
TakesFactor(f, m) ==
  \A b, r, s \in Nat : f[b][Times(r, s, m)] = Times(f[b][r], s, m)

\* It may for a turn at an even exponent if it may for the turns after it...
LEMMA EvenCarries ==
  ASSUME NEW m \in Nat \ {0}, NEW e \in Nat, e > 0, e % 2 # 1,
         TakesFactor(PowmLoop(m)[e \div 2], m)
  PROVE  TakesFactor(PowmLoop(m)[e], m)
<1>1. ASSUME NEW b \in Nat, NEW r \in Nat, NEW s \in Nat
      PROVE  PowmLoop(m)[e][b][Times(r, s, m)] = Times(PowmLoop(m)[e][b][r], s, m)
  <2>1. Times(b, b, m) \in Nat /\ Times(r, s, m) \in Nat
    BY TimesType
  <2>2. PowmLoop(m)[e][b][r] = PowmLoop(m)[e \div 2][Times(b, b, m)][r]
    BY EvenTurn
  <2>3. PowmLoop(m)[e][b][Times(r, s, m)]
          = PowmLoop(m)[e \div 2][Times(b, b, m)][Times(r, s, m)]
    BY <2>1, EvenTurn
  <2>4. PowmLoop(m)[e \div 2][Times(b, b, m)][Times(r, s, m)]
          = Times(PowmLoop(m)[e \div 2][Times(b, b, m)][r], s, m)
    BY <2>1, Zenon DEF TakesFactor
  <2> QED
    BY <2>2, <2>3, <2>4, Zenon
<1> QED
  BY <1>1, Zenon DEF TakesFactor

\* ... and so it may at an odd one.
LEMMA OddCarries ==
  ASSUME NEW m \in Nat \ {0}, NEW e \in Nat, e % 2 = 1,
         TakesFactor(PowmLoop(m)[e \div 2], m)
  PROVE  TakesFactor(PowmLoop(m)[e], m)
<1>1. ASSUME NEW b \in Nat, NEW r \in Nat, NEW s \in Nat
      PROVE  PowmLoop(m)[e][b][Times(r, s, m)] = Times(PowmLoop(m)[e][b][r], s, m)
  <2>1. Times(b, b, m) \in Nat /\ Times(r, s, m) \in Nat /\ Times(r, b, m) \in Nat
    BY TimesType
  <2>2. PowmLoop(m)[e][b][r] = PowmLoop(m)[e \div 2][Times(b, b, m)][Times(r, b, m)]
    BY OddTurn
  <2>3. PowmLoop(m)[e][b][Times(r, s, m)]
          = PowmLoop(m)[e \div 2][Times(b, b, m)][Times(Times(r, s, m), b, m)]
    BY <2>1, OddTurn
  <2>4. Times(Times(r, s, m), b, m) = Times(Times(r, b, m), s, m)
    BY Associates, Commutes
  <2>5. PowmLoop(m)[e \div 2][Times(b, b, m)][Times(Times(r, b, m), s, m)]
          = Times(PowmLoop(m)[e \div 2][Times(b, b, m)][Times(r, b, m)], s, m)
    BY <2>1, Zenon DEF TakesFactor
  <2> QED
    BY <2>2, <2>3, <2>4, <2>5, Zenon
<1> QED
  BY <1>1, Zenon DEF TakesFactor

\* And so it may for the loop at any exponent.
LEMMA CarriesAFactor ==
  ASSUME NEW m \in Nat \ {0}
  PROVE  \A e, b, r, s \in Nat :
           PowmLoop(m)[e][b][Times(r, s, m)] = Times(PowmLoop(m)[e][b][r], s, m)
<1> DEFINE Fails == {e \in Nat : ~ TakesFactor(PowmLoop(m)[e], m)}
<1>1. ASSUME Fails # {}
      PROVE  FALSE
  <2>1. PICK e \in Fails : \A d \in Fails : e <= d
    BY <1>1, LeastNumber
  <2>2. e \in Nat /\ ~ TakesFactor(PowmLoop(m)[e], m)
    BY <2>1, Zenon
  <2>3. e > 0 => TakesFactor(PowmLoop(m)[e \div 2], m)
    BY <2>1, <2>2, Half
  <2>4. CASE e = 0
    <3>1. \A b, r \in Nat : PowmLoop(m)[0][b][r] = r
      BY NoTurn
    <3>2. \A r, s \in Nat : Times(r, s, m) \in Nat
      BY TimesType
    <3> QED
      BY <2>2, <2>4, <3>1, <3>2, Zenon DEF TakesFactor
  <2>5. CASE e > 0 /\ e % 2 # 1
    BY <2>2, <2>3, <2>5, EvenCarries
  <2>6. CASE e > 0 /\ e % 2 = 1
    BY <2>2, <2>3, <2>6, OddCarries
  <2> QED
    BY <2>2, <2>4, <2>5, <2>6
<1> QED
  BY <1>1, Zenon DEF TakesFactor

\* An exponent one higher is one factor more, whatever that does to its bits.
LEMMA OneFactorMore ==
  ASSUME NEW m \in Nat \ {0}
  PROVE  \A e, b, r \in Nat :
           PowmLoop(m)[e + 1][b][r] = Times(PowmLoop(m)[e][b][r], b, m)
<1> PICK L : L = PowmLoop(m)
  OBVIOUS
<1>0. \A d, bb, rr, ss \in Nat : L[d][bb][Times(rr, ss, m)] = Times(L[d][bb][rr], ss, m)
  BY CarriesAFactor
<1> DEFINE Fails == {e \in Nat : \E b, r \in Nat : L[e + 1][b][r] # Times(L[e][b][r], b, m)}
<1>1. SUFFICES ASSUME Fails # {}
               PROVE  FALSE
  OBVIOUS
<1>2. PICK e \in Fails : \A d \in Fails : e <= d
  BY <1>1, LeastNumber
<1>3. PICK b, r \in Nat : L[e + 1][b][r] # Times(L[e][b][r], b, m)
  BY <1>2
<1>4. e \in Nat /\ e + 1 \in Nat
  BY <1>2
<1>5. \A d, bb, rr \in Nat : d < e => L[d + 1][bb][rr] = Times(L[d][bb][rr], bb, m)
  BY <1>2, <1>4
<1>6. Times(b, b, m) \in Nat /\ Times(r, b, m) \in Nat
  BY <1>3, TimesType
<1>7. e \div 2 \in Nat /\ (e > 0 => e \div 2 < e)
  BY <1>4, Half
<1>8. ASSUME NEW d \in Nat, d % 2 = 1
      PROVE  L[d][b][r] = L[d \div 2][Times(b, b, m)][Times(r, b, m)]
  BY <1>3, <1>8, OddTurn
<1>9. ASSUME NEW d \in Nat, d > 0, d % 2 # 1
      PROVE  L[d][b][r] = L[d \div 2][Times(b, b, m)][r]
  BY <1>3, <1>9, EvenTurn
<1>10. CASE e % 2 # 1
  <2>1. (e + 1) % 2 = 1 /\ (e + 1) \div 2 = e \div 2
    BY <1>4, <1>10
  <2>2. L[e + 1][b][r] = L[e \div 2][Times(b, b, m)][Times(r, b, m)]
    BY <1>4, <1>8, <2>1
  <2>3. L[e + 1][b][r] = Times(L[e \div 2][Times(b, b, m)][r], b, m)
    BY <1>0, <1>3, <1>6, <1>7, <2>2
  <2>4. CASE e = 0
    <3>1. L[0][b][r] = r /\ L[0][Times(b, b, m)][r] = r
      BY <1>3, <1>6, NoTurn
    <3>2. e \div 2 = 0
      BY <2>4
    <3> QED
      BY <1>3, <2>3, <2>4, <3>1, <3>2
  <2>5. CASE e > 0
    <3>1. L[e][b][r] = L[e \div 2][Times(b, b, m)][r]
      BY <1>4, <1>9, <1>10, <2>5
    <3> QED
      BY <1>3, <2>3, <3>1
  <2> QED
    BY <1>4, <2>4, <2>5
<1>11. CASE e % 2 = 1
  <2> PICK c, d, h : c = Times(b, b, m) /\ d = e \div 2 /\ h = L[d][c][r]
    OBVIOUS
  <2>1. (e + 1) % 2 # 1 /\ (e + 1) \div 2 = d + 1 /\ e > 0 /\ d \in Nat /\ d < e
    BY <1>4, <1>11
  <2>2. L[e + 1][b][r] = L[d + 1][c][r]
    BY <1>4, <1>9, <2>1
  <2>3. L[e + 1][b][r] = Times(h, c, m)
    BY <1>3, <1>5, <1>6, <2>1, <2>2
  <2>4. L[e][b][r] = L[d][c][Times(r, b, m)]
    BY <1>4, <1>8, <1>11
  <2>5. L[e][b][r] = Times(h, b, m)
    BY <1>0, <1>3, <1>6, <2>1, <2>4
  <2>6. h \in Nat
    BY <1>3, <1>6, <2>1, PowmLoopType
  <2>7. Times(h, Times(b, b, m), m) = Times(Times(h, b, m), b, m)
    BY <1>3, <2>6, Associates
  <2> QED
    BY <1>3, <2>3, <2>5, <2>7
<1> QED
  BY <1>10, <1>11

-----------------------------------------------------------------------------
(* What powm computes, and the secret.                                     *)

\* With exponent 0 it is 1, and every further one is a factor more.
LEMMA PowmLaws ==
  ASSUME NEW m \in Nat \ {0}, NEW b \in Nat
  PROVE  /\ \A n \in Nat : Powm(b, n, m) \in Nat
         /\ Powm(b, 0, m) = 1
         /\ \A n \in Nat : Powm(b, n + 1, m) = Times(Powm(b, n, m), b, m)
<1>1. \A n \in Nat : Powm(b, n, m) \in Nat
  BY PowmLoopType DEF Powm
<1>2. Powm(b, 0, m) = 1
  BY NoTurn DEF Powm
<1>3. \A n \in Nat : Powm(b, n + 1, m) = Times(Powm(b, n, m), b, m)
  BY OneFactorMore DEF Powm
<1> QED
  BY <1>1, <1>2, <1>3

\* util::powm, square and multiply on the bits of the exponent, is the power
\* modulo the modulus: whatever sequence is that of the powers of the base.
THEOREM PowmComputesThePower ==
  ASSUME NEW m \in Nat \ {0, 1}, NEW b \in Nat,
         NEW power \in [Nat -> Nat],
         power[0] = 1, \A n \in Nat : power[n + 1] = power[n] * b
  PROVE  \A n \in Nat : Powm(b, n, m) = power[n] % m
<1> DEFINE Fails == {n \in Nat : Powm(b, n, m) # power[n] % m}
<1>1. SUFFICES ASSUME Fails # {}
               PROVE  FALSE
  OBVIOUS
<1>2. PICK n \in Fails : \A k \in Fails : n <= k
  BY <1>1, LeastNumber
<1>3. n \in Nat /\ Powm(b, n, m) # power[n] % m
  BY <1>2
<1>4. CASE n = 0
  <2>1. 1 % m = 1
    OBVIOUS
  <2> QED
    BY <1>3, <1>4, <2>1, PowmLaws
<1>5. CASE n > 0
  <2> PICK k : k = n - 1
    OBVIOUS
  <2>1. k \in Nat /\ n = k + 1 /\ k \notin Fails
    BY <1>2, <1>3, <1>5
  <2>2. Powm(b, k, m) = power[k] % m
    BY <2>1
  <2>3. Powm(b, n, m) = Times(power[k] % m, b, m)
    BY <2>1, <2>2, PowmLaws
  <2>4. Times(power[k] % m, b, m) = Times(power[k], b, m)
    BY <2>1, Absorbs
  <2>5. Times(power[k], b, m) = power[n] % m
    BY <2>1 DEF Times
  <2> QED
    BY <1>3, <2>3, <2>4, <2>5
<1> QED
  BY <1>3, <1>4, <1>5

\* Powers of 1 are 1.
LEMMA PowersOfOne ==
  ASSUME NEW m \in Nat \ {0, 1}
  PROVE  \A n \in Nat : Powm(1, n, m) = 1
<1> PICK power : power = [n \in Nat |-> 1]
  OBVIOUS
<1>1. power \in [Nat -> Nat] /\ power[0] = 1 /\ \A n \in Nat : power[n + 1] = power[n] * 1
  OBVIOUS
<1>2. \A n \in Nat : Powm(1, n, m) = power[n] % m
  BY <1>1, PowmComputesThePower
<1>3. 1 % m = 1
  OBVIOUS
<1> QED
  BY <1>2, <1>3

\* The power of a product is the product of the powers.
LEMMA PowersOfAProduct ==
  ASSUME NEW m \in Nat \ {0, 1}, NEW b \in Nat, NEW c \in Nat
  PROVE  \A n \in Nat : Powm(Times(b, c, m), n, m) = Times(Powm(b, n, m), Powm(c, n, m), m)
<1> PICK d : d = Times(b, c, m)
  OBVIOUS
<1> PICK B, C, D : /\ B = [n \in Nat |-> Powm(b, n, m)]
                   /\ C = [n \in Nat |-> Powm(c, n, m)]
                   /\ D = [n \in Nat |-> Powm(d, n, m)]
  OBVIOUS
<1> DEFINE Fails == {n \in Nat : D[n] # Times(B[n], C[n], m)}
<1>1. SUFFICES ASSUME Fails # {}
               PROVE  FALSE
  OBVIOUS
<1>2. PICK n \in Fails : \A k \in Fails : n <= k
  BY <1>1, LeastNumber
<1>3. n \in Nat /\ D[n] # Times(B[n], C[n], m) /\ d \in Nat
  BY <1>2, TimesType
<1>4. CASE n = 0
  <2>1. Times(1, 1, m) = 1
    BY DEF Times
  <2>2. B[0] = 1 /\ C[0] = 1 /\ D[0] = 1
    BY <1>3, PowmLaws
  <2> QED
    BY <1>3, <1>4, <2>1, <2>2
<1>5. CASE n > 0
  <2> PICK k : k = n - 1
    OBVIOUS
  <2>1. k \in Nat /\ n = k + 1 /\ k \notin Fails
    BY <1>2, <1>3, <1>5
  <2> PICK p, q : p = B[k] /\ q = C[k]
    OBVIOUS
  <2>2. p \in Nat /\ q \in Nat
    BY <2>1, PowmLaws
  <2>3. D[k] = Times(p, q, m)
    BY <2>1
  <2>4. B[n] = Times(p, b, m) /\ C[n] = Times(q, c, m) /\ D[n] = Times(D[k], d, m)
    BY <1>3, <2>1, PowmLaws
  <2>5. D[n] = Times(Times(p, q, m), Times(b, c, m), m)
    BY <2>3, <2>4
  <2>6. Times(q, Times(b, c, m), m) = Times(b, Times(q, c, m), m)
    BY <2>2, Associates, Commutes
  <2>7. Times(b, c, m) \in Nat /\ Times(q, c, m) \in Nat
    BY <2>2, TimesType
  <2>8. Times(Times(p, q, m), Times(b, c, m), m) = Times(p, Times(q, Times(b, c, m), m), m)
    BY <2>2, <2>7, Associates
  <2>9. Times(Times(p, b, m), Times(q, c, m), m) = Times(p, Times(b, Times(q, c, m), m), m)
    BY <2>2, <2>7, Associates
  <2> QED
    BY <1>3, <2>4, <2>5, <2>6, <2>8, <2>9
<1> QED
  BY <1>3, <1>4, <1>5

\* Two exponents may be applied in either order.
LEMMA PowersCommute ==
  ASSUME NEW m \in Nat \ {0, 1}, NEW b \in Nat, NEW x \in Nat
  PROVE  \A y \in Nat : Powm(Powm(b, x, m), y, m) = Powm(Powm(b, y, m), x, m)
<1> PICK c : c = Powm(b, x, m)
  OBVIOUS
<1> DEFINE Fails == {y \in Nat : Powm(c, y, m) # Powm(Powm(b, y, m), x, m)}
<1>1. SUFFICES ASSUME Fails # {}
               PROVE  FALSE
  OBVIOUS
<1>2. PICK y \in Fails : \A k \in Fails : y <= k
  BY <1>1, LeastNumber
<1>3. y \in Nat /\ Powm(c, y, m) # Powm(Powm(b, y, m), x, m) /\ c \in Nat
  BY <1>2, PowmLaws
<1>4. CASE y = 0
  <2>1. Powm(c, 0, m) = 1 /\ Powm(b, 0, m) = 1
    BY <1>3, PowmLaws
  <2> QED
    BY <1>3, <1>4, <2>1, PowersOfOne
<1>5. CASE y > 0
  <2> PICK k : k = y - 1
    OBVIOUS
  <2>1. k \in Nat /\ y = k + 1 /\ k \notin Fails
    BY <1>2, <1>3, <1>5
  <2>2. Powm(c, k, m) = Powm(Powm(b, k, m), x, m)
    BY <2>1
  <2>3. Powm(c, y, m) = Times(Powm(c, k, m), c, m)
    BY <1>3, <2>1, PowmLaws
  <2>4. Powm(b, y, m) = Times(Powm(b, k, m), b, m) /\ Powm(b, k, m) \in Nat
    BY <2>1, PowmLaws
  <2>5. Powm(Powm(b, y, m), x, m) = Times(Powm(Powm(b, k, m), x, m), Powm(b, x, m), m)
    BY <2>4, PowersOfAProduct
  <2> QED
    BY <1>3, <2>2, <2>3, <2>5
<1> QED
  BY <1>3, <1>4, <1>5

\* DHLocalKeys: whatever private keys the two ends draw, each computes the
\* same secret from its own and from the other's public key.
THEOREM TheSecretsAgree ==
  \A x, y \in Nat : SharedSecret(PublicKey(x), y) = SharedSecret(PublicKey(y), x)
<1>1. DH_GENERATOR \in Nat
  BY DEF DH_GENERATOR
<1> QED
  BY <1>1, PrimeAssumption, PowersCommute DEF SharedSecret, PublicKey

-----------------------------------------------------------------------------
Byte == Int \X Int

SizeOf(packets, n) ==
  IF n = 0 THEN 4 + BODY_SIZE ELSE HEADER_SIZE + packets[n].size + MAC_SIZE

\* Where the n-th packet begins, if ends[m] is where the m-th one ends.
Begin(ends, n) == IF n = 0 THEN HELLO_SIZE ELSE ends[n - 1]

IsTranscript(packets, t, ends) ==
  /\ t \in Seq(Byte) /\ ends \in [0 .. Len(packets) -> Nat]
  /\ Len(t) = ends[Len(packets)]
  /\ \A j \in 1 .. HELLO_SIZE : t[j] = <<-1, j>>
  /\ \A n \in 0 .. Len(packets) :
       /\ ends[n] = Begin(ends, n) + SizeOf(packets, n)
       /\ \A j \in 1 .. SizeOf(packets, n) : t[Begin(ends, n) + j] = <<n, j>>
  /\ \A m, n \in 0 .. Len(packets) : m <= n => ends[m] <= ends[n]

\* a and then b are what t has from p on.
Follows(t, p, a, b) ==
  /\ p \in Nat /\ a \in Seq(Byte) /\ b \in Seq(Byte)
  /\ Len(t) = p + Len(a) + Len(b)
  /\ \A j \in 1 .. Len(a) : a[j] = t[p + j]
  /\ \A j \in 1 .. Len(b) : b[j] = t[p + Len(a) + j]

\* The decoder has come to the header or the payload of a packet.
Placed(packets, t, ends, state, nonce, rest, coming) ==
  \/ /\ state = Header /\ nonce \in 0 .. Len(packets)
     /\ Follows(t, ends[nonce], rest, coming)
  \/ /\ nonce \in 1 .. Len(packets) /\ state = Payload(packets[nonce].size)
     /\ Follows(t, Begin(ends, nonce) + HEADER_SIZE, rest, coming)

\* How many packets it has decoded.
Count(state, nonce) == IF state = Header THEN nonce ELSE nonce - 1

\* It cannot go on without more bytes.
Lacks(state, rest) ==
  IF state = Header THEN Len(rest) < HEADER_SIZE ELSE Len(rest) < state.size + MAC_SIZE

-----------------------------------------------------------------------------
\* The inductive invariant.

Unread == {"resolve", "socket", "client_hello"}
Read == {"client_response", "login"}
Stages == {"unanswered"} \cup Unread \cup Reading \cup Read \cup Framed \cup Over

TypeOK ==
  /\ stage \in Stages
  /\ socket \in {None, "open", "refused", "unknown"}
  /\ response \in {None, "good", "refusal", "garbled", "short"}
  /\ sent \in Seq(Packets)
  /\ uplink \in Seq([nonce : Nat, length : Nat, size : Nat])
  /\ encode_nonce = Len(uplink) /\ heard \in 0 .. Len(uplink)
  /\ {readable, eof, closed} \subseteq BOOLEAN

\* What the stages presuppose.
InStage ==
  /\ stage \in {"resolve", "unanswered", "socket"} => socket = None
  /\ stage \notin {"resolve", "unanswered", "socket"} \cup Over => socket = "open"
  /\ socket # "open" => response = None /\ ~ closed
  /\ stage \notin Framed \cup Over =>
       /\ decode_state = Header /\ decode_nonce = 0 /\ buffer = <<>> /\ ~ readable /\ ~ eof
       /\ received = <<>> /\ uplink = <<>> /\ sent = <<>>

\* Nothing has come yet.
Waits ==
  /\ down = <<>> /\ stage \in Unread \cup {"unanswered", "response_header"}
  /\ stage = "response_header" =>
       accumulator = ClientHello /\ start = HELLO_SIZE /\ wanted = 4

\* The accumulator has what it should have when `wanted' is what it lacks.
Accumulates ==
  /\ stage = "response_header" => wanted \in 0 .. 4 /\ Len(accumulator) = HELLO_SIZE + 4 - wanted
  /\ stage = "response_body" =>
       /\ wanted \in 0 .. BODY_SIZE
       /\ Len(accumulator) = HELLO_SIZE + 4 + BODY_SIZE - wanted
       /\ start = HELLO_SIZE + 4
  /\ stage \in Read => Len(accumulator) = HELLO_SIZE + 4 + BODY_SIZE

\* What has come and what is to come are the transcript.
Carries(t, ends) ==
  /\ IsTranscript(sent, t, ends)
  /\ stage \notin Framed => Follows(t, 0, accumulator, down)
  /\ stage \in Framed => Placed(sent, t, ends, decode_state, decode_nonce, buffer, down)

\* What has come is what was sent, up to the last byte.
Transmits ==
  /\ stage \notin Unread
  /\ \E t, ends : Carries(t, ends)
  /\ stage \notin Framed => Accumulates
  /\ stage \in Framed => received = SubSeq(sent, 1, Count(decode_state, decode_nonce))
  /\ stage = "welcome" => Count(decode_state, decode_nonce) = 0

InOrder ==
  stage \notin Over => IF response = None THEN Waits ELSE Transmits

Waiting == stage \in Framed /\ ~ readable => Lacks(decode_state, buffer)

\* What the client computes from the whole of both packets.
LocalKeys == KeysOf(SharedSecret(ChallengeKey, LocalKey), ClientHello \o APResponse)

Keyed ==
  /\ keys # <<>> => keys = LocalKeys /\ response # None
  /\ stage \in Read \cup Framed => keys # <<>>
  /\ uplink # <<>> => keys # <<>> /\ response # None
  /\ stage \in {"client_response", "login"} \cup Framed => response # None
  /\ \A i \in 1 .. Len(uplink) : uplink[i].nonce = i - 1 /\ uplink[i].length = uplink[i].size

\* EndsForAReason, the last part of which needs the two ends to have the same keys.
Ends ==
  /\ stage = "failed" => closed \/ socket = "refused"
  /\ stage = "panicked" =>
       \/ socket = "unknown" \/ closed
       \/ response \in {"short", "garbled"}
       \/ sent # <<>> /\ Head(sent).cmd # "welcome"
  /\ closed => broken \/ LocalKeys # RemoteKeys \/ response = "refusal"
  /\ eof => closed

ConnectionInv == TypeOK /\ InStage /\ InOrder /\ Waiting /\ Keyed /\ Ends

-----------------------------------------------------------------------------
\* Lemmas about sequences of bytes.

LEMMA ByteTypes ==
  ASSUME NEW s \in Seq(Byte)
  PROVE  Len(s) \in Nat /\ \A i \in 1 .. Len(s) : s[i] \in Byte
BY LenProperties, ElementOfSeq

\* s is the bytes of a from the m-th one to the n-th one.
IsPiece(s, a, m, n) ==
  /\ s \in Seq(Byte) /\ Len(s) = n - m + 1
  /\ \A i \in 1 .. n - m + 1 : s[i] = a[m + i - 1]

LEMMA PieceIs ==
  ASSUME NEW a \in Seq(Byte), NEW m \in Nat \ {0}, NEW n \in Nat, m <= n + 1, n <= Len(a)
  PROVE  IsPiece(SubSeq(a, m, n), a, m, n)
<1>1. m \in Int /\ n \in Int /\ \A i \in m .. n : a[i] \in Byte
  BY ByteTypes
<1> QED
  BY <1>1, SubSeqProperties DEF IsPiece

\* s is a, and then b.
IsJoin(s, a, b) ==
  /\ s \in Seq(Byte) /\ Len(s) = Len(a) + Len(b)
  /\ \A i \in 1 .. Len(a) : s[i] = a[i]
  /\ \A i \in 1 .. Len(b) : s[Len(a) + i] = b[i]

LEMMA JoinIs ==
  ASSUME NEW a \in Seq(Byte), NEW b \in Seq(Byte)
  PROVE  IsJoin(a \o b, a, b)
<1>1. /\ a \o b \in Seq(Byte) /\ Len(a \o b) = Len(a) + Len(b)
      /\ \A i \in 1 .. Len(a) + Len(b) : (a \o b)[i] = IF i <= Len(a) THEN a[i] ELSE b[i - Len(a)]
  BY ConcatProperties
<1>2. Len(a) \in Nat /\ Len(b) \in Nat
  BY ByteTypes
<1>3. ASSUME NEW i \in 1 .. Len(b)
      PROVE  (a \o b)[Len(a) + i] = b[i]
  <2>1. Len(a) + i \in 1 .. Len(a) + Len(b) /\ ~ (Len(a) + i <= Len(a)) /\ (Len(a) + i) - Len(a) = i
    BY <1>2
  <2> QED
    BY <1>1, <2>1
<1> QED
  BY <1>1, <1>2, <1>3 DEF IsJoin

LEMMA BytesAre ==
  ASSUME NEW n \in Int, NEW size \in Nat
  PROVE  /\ Bytes(n, size) \in Seq(Byte) /\ Len(Bytes(n, size)) = size
         /\ \A i \in 1 .. size : Bytes(n, size)[i] = <<n, i>>
<1>1. Bytes(n, size) \in [1 .. size -> Byte]
  BY DEF Bytes, Byte
<1>2. Bytes(n, size) \in Seq(Byte)
  BY <1>1, SeqDef
<1>3. DOMAIN Bytes(n, size) = 1 .. size /\ DOMAIN Bytes(n, size) = 1 .. Len(Bytes(n, size))
  BY <1>1, <1>2, LenProperties
<1>4. Len(Bytes(n, size)) = size
  BY <1>2, <1>3, ByteTypes
<1> QED
  BY <1>2, <1>4 DEF Bytes

\* The next bytes come: from the front of b to the end of a.
LEMMA FollowsMove ==
  ASSUME NEW t, NEW p, NEW a, NEW b, NEW k \in Nat, k <= Len(b), Follows(t, p, a, b)
  PROVE  Follows(t, p, a \o SubSeq(b, 1, k), SubSeq(b, k + 1, Len(b)))
<1>1. p \in Nat /\ a \in Seq(Byte) /\ b \in Seq(Byte) /\ Len(a) \in Nat /\ Len(b) \in Nat
  BY ByteTypes DEF Follows
<1> DEFINE x == SubSeq(b, 1, k)
           y == SubSeq(b, k + 1, Len(b))
<1>2. IsPiece(x, b, 1, k)
  BY <1>1, PieceIs
<1>3. IsPiece(y, b, k + 1, Len(b))
  BY <1>1, PieceIs
<1> HIDE DEF x, y
<1>4. x \in Seq(Byte) /\ Len(x) = k /\ \A i \in 1 .. k : x[i] = b[i]
  BY <1>2 DEF IsPiece
<1>5. y \in Seq(Byte) /\ Len(y) = Len(b) - k /\ \A i \in 1 .. Len(b) - k : y[i] = b[k + i]
  BY <1>1, <1>3 DEF IsPiece
<1>6. IsJoin(a \o x, a, x)
  BY <1>1, <1>4, JoinIs
<1>7. Len(a \o x) = Len(a) + k /\ a \o x \in Seq(Byte) /\ Len(t) = p + Len(a \o x) + Len(y)
  BY <1>1, <1>4, <1>5, <1>6 DEF IsJoin, Follows
<1>8. ASSUME NEW j \in 1 .. Len(a \o x)
      PROVE  (a \o x)[j] = t[p + j]
  <2>1. CASE j <= Len(a)
    BY <1>1, <1>6, <2>1 DEF IsJoin, Follows
  <2>2. CASE j > Len(a)
    <3> PICK i : i = j - Len(a)
      OBVIOUS
    <3>1. i \in 1 .. k /\ j = Len(a) + i
      BY <1>1, <1>7, <2>2
    <3>2. (a \o x)[j] = b[i] /\ i \in 1 .. Len(b)
      BY <1>1, <1>4, <1>6, <3>1 DEF IsJoin
    <3>3. b[i] = t[p + Len(a) + i] /\ p + Len(a) + i = p + j
      BY <1>1, <3>1, <3>2 DEF Follows
    <3> QED
      BY <3>2, <3>3
  <2> QED
    BY <1>1, <2>1, <2>2
<1>9. ASSUME NEW j \in 1 .. Len(y)
      PROVE  y[j] = t[p + Len(a \o x) + j]
  <2>1. y[j] = b[k + j] /\ k + j \in 1 .. Len(b)
    BY <1>1, <1>5
  <2>2. b[k + j] = t[p + Len(a) + (k + j)]
    BY <2>1 DEF Follows
  <2>3. p + Len(a) + (k + j) = p + Len(a \o x) + j
    BY <1>1, <1>7, <1>5
  <2> QED
    BY <2>1, <2>2, <2>3
<1>10. Follows(t, p, a \o x, y)
  BY <1>1, <1>5, <1>7, <1>8, <1>9 DEF Follows
<1> QED
  BY <1>10 DEF x, y

\* The next bytes are dealt with.
LEMMA FollowsDrop ==
  ASSUME NEW t, NEW p, NEW a, NEW b, NEW k \in Nat, k <= Len(a), Follows(t, p, a, b)
  PROVE  Follows(t, p + k, SubSeq(a, k + 1, Len(a)), b)
<1>1. p \in Nat /\ a \in Seq(Byte) /\ b \in Seq(Byte) /\ Len(a) \in Nat /\ Len(b) \in Nat
  BY ByteTypes DEF Follows
<1> DEFINE y == SubSeq(a, k + 1, Len(a))
<1>2. IsPiece(y, a, k + 1, Len(a))
  BY <1>1, PieceIs
<1> HIDE DEF y
<1>3. y \in Seq(Byte) /\ Len(y) = Len(a) - k /\ \A i \in 1 .. Len(a) - k : y[i] = a[k + i]
  BY <1>1, <1>2 DEF IsPiece
<1>4. p + k \in Nat /\ Len(t) = (p + k) + Len(y) + Len(b)
  BY <1>1, <1>3 DEF Follows
<1>5. ASSUME NEW j \in 1 .. Len(y)
      PROVE  y[j] = t[(p + k) + j]
  <2>1. y[j] = a[k + j] /\ k + j \in 1 .. Len(a)
    BY <1>1, <1>3
  <2>2. a[k + j] = t[p + (k + j)] /\ p + (k + j) = (p + k) + j
    BY <1>1, <2>1 DEF Follows
  <2> QED
    BY <2>1, <2>2
<1>6. ASSUME NEW j \in 1 .. Len(b)
      PROVE  b[j] = t[(p + k) + Len(y) + j]
  <2>1. p + Len(a) + j = (p + k) + Len(y) + j
    BY <1>1, <1>3
  <2> QED
    BY <2>1 DEF Follows
<1>7. Follows(t, p + k, y, b)
  BY <1>1, <1>3, <1>4, <1>5, <1>6 DEF Follows
<1> QED
  BY <1>7 DEF y

\* More bytes are sent.
LEMMA FollowsSend ==
  ASSUME NEW t \in Seq(Byte), NEW p, NEW a, NEW b, NEW x \in Seq(Byte), Follows(t, p, a, b)
  PROVE  Follows(t \o x, p, a, b \o x)
<1>1. /\ p \in Nat /\ a \in Seq(Byte) /\ b \in Seq(Byte)
      /\ Len(a) \in Nat /\ Len(b) \in Nat /\ Len(x) \in Nat /\ Len(t) = p + Len(a) + Len(b)
  BY ByteTypes DEF Follows
<1>2. IsJoin(t \o x, t, x) /\ IsJoin(b \o x, b, x)
  BY <1>1, JoinIs
<1>3. Len(t \o x) = p + Len(a) + Len(b \o x) /\ b \o x \in Seq(Byte)
  BY <1>1, <1>2 DEF IsJoin
<1>4. ASSUME NEW j \in 1 .. Len(a)
      PROVE  a[j] = (t \o x)[p + j]
  <2>1. p + j \in 1 .. Len(t)
    BY <1>1
  <2> QED
    BY <1>2, <2>1 DEF IsJoin, Follows
<1>5. ASSUME NEW j \in 1 .. Len(b \o x)
      PROVE  (b \o x)[j] = (t \o x)[p + Len(a) + j]
  <2>1. CASE j <= Len(b)
    <3>1. p + Len(a) + j \in 1 .. Len(t) /\ j \in 1 .. Len(b)
      BY <1>1, <2>1
    <3> QED
      BY <1>2, <3>1 DEF IsJoin, Follows
  <2>2. CASE j > Len(b)
    <3> PICK i : i = j - Len(b)
      OBVIOUS
    <3>1. i \in 1 .. Len(x) /\ j = Len(b) + i
      BY <1>1, <1>2, <2>2 DEF IsJoin
    <3>2. (b \o x)[j] = x[i] /\ (t \o x)[Len(t) + i] = x[i]
      BY <1>2, <3>1 DEF IsJoin
    <3>3. Len(t) + i = p + Len(a) + j
      BY <1>1, <3>1
    <3> QED
      BY <3>2, <3>3
  <2> QED
    BY <1>1, <2>1, <2>2
<1> QED
  BY <1>1, <1>3, <1>4, <1>5 DEF Follows

-----------------------------------------------------------------------------
\* Lemmas about transcripts.

LEMMA SizeTypes ==
  \A p \in Packets : p.size \in Nat /\ HEADER_SIZE + p.size + MAC_SIZE \in Nat \ {0}
<1>1. Sizes \subseteq Nat
  <2>1. SIZE_MOD \in Nat
    BY DEF SIZE_MOD
  <2> QED
    BY <2>1, ConnectionAssumption
<1>2. \A p \in Packets : p.size \in Sizes
  BY DEF Packets
<1>3. \A size \in Nat : HEADER_SIZE + size + MAC_SIZE \in Nat \ {0}
  BY DEF HEADER_SIZE, MAC_SIZE
<1> QED
  BY <1>1, <1>2, <1>3

LEMMA PacketTypes ==
  ASSUME NEW packets \in Seq(Packets)
  PROVE  /\ Len(packets) \in Nat
         /\ \A n \in 1 .. Len(packets) : packets[n] \in Packets /\ packets[n].size \in Nat
         /\ \A n \in 0 .. Len(packets) : SizeOf(packets, n) \in Nat
<1>1. \A p \in Packets : p.size \in Nat
  BY SizeTypes
<1>2. Len(packets) \in Nat /\ \A n \in 1 .. Len(packets) : packets[n] \in Packets
  BY LenProperties, ElementOfSeq
<1>3. ASSUME NEW n \in 0 .. Len(packets)
      PROVE  SizeOf(packets, n) \in Nat
  BY <1>1, <1>2, <1>3 DEF SizeOf, BODY_SIZE, HEADER_SIZE, MAC_SIZE
<1> QED
  BY <1>1, <1>2, <1>3

LEMMA EndTypes ==
  ASSUME NEW packets \in Seq(Packets), NEW t, NEW ends, IsTranscript(packets, t, ends),
         NEW n \in 0 .. Len(packets)
  PROVE  ends[n] \in Nat /\ Begin(ends, n) \in Nat
<1>1. Len(packets) \in Nat /\ ends \in [0 .. Len(packets) -> Nat]
  BY PacketTypes DEF IsTranscript
<1>2. CASE n = 0
  BY <1>1, <1>2 DEF Begin, HELLO_SIZE
<1>3. CASE n # 0
  <2>1. n - 1 \in 0 .. Len(packets)
    BY <1>1, <1>3
  <2> QED
    BY <1>1, <1>3, <2>1 DEF Begin
<1> QED
  BY <1>2, <1>3

\* The first packets end where they ended.
SameEnds(e, ends, last) == \A m \in 0 .. last : e[m] = ends[m]

LEMMA AppendedPackets ==
  ASSUME NEW packets \in Seq(Packets), NEW packet \in Packets
  PROVE  /\ Append(packets, packet) \in Seq(Packets)
         /\ Len(Append(packets, packet)) = Len(packets) + 1
         /\ \A n \in 1 .. Len(packets) : Append(packets, packet)[n] = packets[n]
         /\ Append(packets, packet)[Len(packets) + 1] = packet
         /\ SizeOf(Append(packets, packet), Len(packets) + 1) = HEADER_SIZE + packet.size + MAC_SIZE
         /\ \A n \in 0 .. Len(packets) : SizeOf(Append(packets, packet), n) = SizeOf(packets, n)
<1> DEFINE more == Append(packets, packet)
<1>1. /\ more \in Seq(Packets) /\ Len(more) = Len(packets) + 1 /\ Len(packets) \in Nat
      /\ \A n \in 1 .. Len(packets) : more[n] = packets[n]
      /\ more[Len(packets) + 1] = packet
  BY PacketTypes
<1> HIDE DEF more
<1>2. SizeOf(more, Len(packets) + 1) = HEADER_SIZE + packet.size + MAC_SIZE
  BY <1>1 DEF SizeOf
<1>3. ASSUME NEW n \in 0 .. Len(packets)
      PROVE  SizeOf(more, n) = SizeOf(packets, n)
  <2>1. CASE n = 0
    BY <2>1 DEF SizeOf
  <2>2. CASE n # 0
    BY <1>1, <2>2 DEF SizeOf
  <2> QED
    BY <2>1, <2>2
<1>4. /\ SizeOf(more, Len(packets) + 1) = HEADER_SIZE + packet.size + MAC_SIZE
      /\ \A n \in 0 .. Len(packets) : SizeOf(more, n) = SizeOf(packets, n)
  BY <1>2, <1>3
<1> QED
  BY <1>1, <1>4 DEF more

LEMMA TranscriptGrows ==
  ASSUME NEW packets \in Seq(Packets), NEW t, NEW ends, IsTranscript(packets, t, ends),
         NEW packet \in Packets
  PROVE  \E e : /\ IsTranscript(Append(packets, packet),
                     t \o Bytes(Len(packets) + 1, HEADER_SIZE + packet.size + MAC_SIZE), e)
                /\ SameEnds(e, ends, Len(packets))
<1> PICK more : more = Append(packets, packet)
  OBVIOUS
<1> PICK last : last = Len(packets)
  OBVIOUS
<1> PICK size : size = HEADER_SIZE + packet.size + MAC_SIZE
  OBVIOUS
<1> PICK x : x = Bytes(last + 1, size)
  OBVIOUS
<1> PICK e : e = [m \in 0 .. last + 1 |-> IF m = last + 1 THEN ends[last] + size ELSE ends[m]]
  OBVIOUS
<1>1. /\ more \in Seq(Packets) /\ Len(more) = last + 1 /\ last \in Nat
      /\ SizeOf(more, last + 1) = size
      /\ \A n \in 0 .. last : SizeOf(more, n) = SizeOf(packets, n)
  BY AppendedPackets, PacketTypes
<1>2. size \in Nat /\ size > 0
  BY SizeTypes
<1>3. /\ t \in Seq(Byte) /\ Len(t) \in Nat /\ Len(t) = ends[last]
      /\ \A n \in 0 .. last : ends[n] \in Nat
  BY <1>1, EndTypes, ByteTypes DEF IsTranscript
<1>4. x \in Seq(Byte) /\ Len(x) = size /\ \A i \in 1 .. size : x[i] = <<last + 1, i>>
  <2>1. last + 1 \in Int
    BY <1>1
  <2> QED
    BY <1>2, <2>1, BytesAre
<1>5. IsJoin(t \o x, t, x)
  BY <1>3, <1>4, JoinIs
<1>6. /\ e \in [0 .. last + 1 -> Nat] /\ e[last + 1] = ends[last] + size
      /\ \A m \in 0 .. last : e[m] = ends[m]
  BY <1>1, <1>2, <1>3
<1>7. t \o x \in Seq(Byte) /\ Len(t \o x) = e[last + 1]
  BY <1>3, <1>4, <1>5, <1>6 DEF IsJoin
<1>8. ASSUME NEW n \in 0 .. last
      PROVE  Begin(e, n) = Begin(ends, n)
  <2>1. CASE n = 0
    BY <2>1 DEF Begin
  <2>2. CASE n # 0
    <3>1. n - 1 \in 0 .. last
      BY <1>1, <2>2
    <3> QED
      BY <1>6, <2>2, <3>1 DEF Begin
  <2> QED
    BY <2>1, <2>2
<1>9. Begin(e, last + 1) = ends[last]
  <2>1. last + 1 # 0 /\ (last + 1) - 1 = last /\ last \in 0 .. last
    BY <1>1
  <2> QED
    BY <1>6, <2>1 DEF Begin
<1>10. ASSUME NEW n \in 0 .. last + 1
       PROVE  /\ e[n] = Begin(e, n) + SizeOf(more, n)
              /\ \A j \in 1 .. SizeOf(more, n) : (t \o x)[Begin(e, n) + j] = <<n, j>>
  <2>1. CASE n \in 0 .. last
    <3> PICK b : b = Begin(ends, n)
      OBVIOUS
    <3>1. b \in Nat /\ SizeOf(packets, n) \in Nat
      BY <1>1, <2>1, EndTypes, PacketTypes
    <3>4. ends[n] <= ends[last]
      BY <1>1, <2>1 DEF IsTranscript
    <3>2. ends[n] = b + SizeOf(packets, n)
          /\ \A j \in 1 .. SizeOf(packets, n) : t[b + j] = <<n, j>>
      BY <2>1 DEF IsTranscript
    <3>3. ASSUME NEW j \in 1 .. SizeOf(packets, n)
          PROVE  (t \o x)[b + j] = <<n, j>>
      <4>1. b + j \in 1 .. Len(t)
        BY <1>3, <2>1, <3>1, <3>2, <3>4
      <4> QED
        BY <1>5, <3>2, <4>1 DEF IsJoin
    <3> QED
      BY <1>1, <1>6, <1>8, <2>1, <3>2, <3>3
  <2>2. CASE n \notin 0 .. last
    <3>3. n = last + 1
      BY <1>1, <2>2
    <3>1. ASSUME NEW j \in 1 .. size
          PROVE  (t \o x)[ends[last] + j] = <<last + 1, j>>
      <4>1. (t \o x)[Len(t) + j] = x[j]
        BY <1>4, <1>5 DEF IsJoin
      <4> QED
        BY <1>3, <1>4, <4>1
    <3>2. SizeOf(more, n) = size /\ Begin(e, n) = ends[last] /\ e[n] = ends[last] + size
      BY <1>1, <1>6, <1>9, <3>3
    <3> QED
      BY <3>1, <3>2, <3>3
  <2> QED
    BY <2>1, <2>2
<1>11. ASSUME NEW j \in 1 .. HELLO_SIZE
       PROVE  (t \o x)[j] = <<-1, j>>
  <2>1. ends[0] = HELLO_SIZE + SizeOf(packets, 0) /\ ends[0] <= ends[last]
    BY <1>1 DEF IsTranscript, Begin
  <2>2. SizeOf(packets, 0) \in Nat
    BY <1>1, PacketTypes
  <2>3. j \in 1 .. Len(t)
    BY <1>3, <2>1, <2>2 DEF HELLO_SIZE
  <2> QED
    BY <1>5, <2>3 DEF IsJoin, IsTranscript
<1>12. ASSUME NEW m \in 0 .. last + 1, NEW n \in 0 .. last + 1, m <= n
       PROVE  e[m] <= e[n]
  <2>1. \A i \in 0 .. last : ends[i] <= ends[last]
    BY <1>1 DEF IsTranscript
  <2>2. CASE n = last + 1
    BY <1>1, <1>2, <1>3, <1>6, <2>1, <2>2
  <2>3. CASE n # last + 1
    <3>1. m \in 0 .. last /\ n \in 0 .. last
      BY <1>1, <1>12, <2>3
    <3> QED
      BY <1>6, <1>12, <3>1 DEF IsTranscript
  <2> QED
    BY <2>2, <2>3
<1>13. IsTranscript(more, t \o x, e)
  <2>1. t \o x \in Seq(Byte) /\ e \in [0 .. Len(more) -> Nat] /\ Len(t \o x) = e[Len(more)]
    BY <1>1, <1>6, <1>7
  <2>2. \A n \in 0 .. Len(more) :
          /\ e[n] = Begin(e, n) + SizeOf(more, n)
          /\ \A j \in 1 .. SizeOf(more, n) : (t \o x)[Begin(e, n) + j] = <<n, j>>
    BY <1>1, <1>10
  <2>3. \A m, n \in 0 .. Len(more) : m <= n => e[m] <= e[n]
    BY <1>1, <1>12
  <2> QED
    BY <1>11, <2>1, <2>2, <2>3 DEF IsTranscript
<1>14. SameEnds(e, ends, last)
  BY <1>6 DEF SameEnds
<1> QED
  BY <1>13, <1>14

\* ClientHello and APResponseMessage are the first transcript.
LEMMA FirstTranscript ==
  /\ ClientHello \in Seq(Byte) /\ Len(ClientHello) = HELLO_SIZE
  /\ APResponse \in Seq(Byte) /\ Len(APResponse) = 4 + BODY_SIZE
  /\ \A i \in 1 .. 4 + BODY_SIZE : APResponse[i] = <<0, i>>
  /\ \E e : IsTranscript(<<>>, ClientHello \o APResponse, e)
  /\ Follows(ClientHello \o APResponse, 0, ClientHello, APResponse)
<1>1. /\ ClientHello \in Seq(Byte) /\ Len(ClientHello) = HELLO_SIZE
      /\ \A i \in 1 .. HELLO_SIZE : ClientHello[i] = <<-1, i>>
  <2>1. -1 \in Int /\ HELLO_SIZE \in Nat
    BY DEF HELLO_SIZE
  <2> QED
    BY <2>1, BytesAre DEF ClientHello
<1>2. /\ APResponse \in Seq(Byte) /\ Len(APResponse) = 4 + BODY_SIZE
      /\ \A i \in 1 .. 4 + BODY_SIZE : APResponse[i] = <<0, i>>
  <2>1. 0 \in Int /\ 4 + BODY_SIZE \in Nat
    BY DEF BODY_SIZE
  <2> QED
    BY <2>1, BytesAre DEF APResponse
<1> PICK t : t = ClientHello \o APResponse
  OBVIOUS
<1> PICK e : e = [m \in 0 .. 0 |-> HELLO_SIZE + 4 + BODY_SIZE]
  OBVIOUS
<1>3. IsJoin(t, ClientHello, APResponse)
  BY <1>1, <1>2, JoinIs
<1>4. /\ t \in Seq(Byte) /\ Len(t) = HELLO_SIZE + (4 + BODY_SIZE)
      /\ \A j \in 1 .. HELLO_SIZE : t[j] = <<-1, j>>
      /\ \A j \in 1 .. 4 + BODY_SIZE : t[HELLO_SIZE + j] = <<0, j>>
  BY <1>1, <1>2, <1>3 DEF IsJoin
<1>5. Len(<<>>) = 0 /\ SizeOf(<<>>, 0) = 4 + BODY_SIZE /\ Begin(e, 0) = HELLO_SIZE
  BY DEF SizeOf, Begin
<1>6. e \in [0 .. 0 -> Nat] /\ e[0] = HELLO_SIZE + (4 + BODY_SIZE)
  BY DEF HELLO_SIZE, BODY_SIZE
<1>7. IsTranscript(<<>>, t, e)
  <2>1. ASSUME NEW n \in 0 .. 0
        PROVE  /\ e[n] = Begin(e, n) + SizeOf(<<>>, n)
               /\ \A j \in 1 .. SizeOf(<<>>, n) : t[Begin(e, n) + j] = <<n, j>>
    <3>1. n = 0
      OBVIOUS
    <3> QED
      BY <1>4, <1>5, <1>6, <3>1
  <2>2. \A m, n \in 0 .. 0 : m <= n => e[m] <= e[n]
    BY <1>6
  <2>3. t \in Seq(Byte) /\ e \in [0 .. Len(<<>>) -> Nat] /\ Len(t) = e[Len(<<>>)]
    BY <1>4, <1>5, <1>6
  <2> QED
    BY <1>4, <1>5, <2>1, <2>2, <2>3 DEF IsTranscript
<1>8. Follows(t, 0, ClientHello, APResponse)
  <2>1. HELLO_SIZE \in Nat /\ 4 + BODY_SIZE \in Nat
    BY DEF HELLO_SIZE, BODY_SIZE
  <2>2. Len(t) = 0 + Len(ClientHello) + Len(APResponse)
    BY <1>1, <1>2, <1>4, <2>1
  <2>3. \A j \in 1 .. Len(ClientHello) : ClientHello[j] = t[0 + j]
    BY <1>1, <1>4, <2>1
  <2>4. \A j \in 1 .. Len(APResponse) : APResponse[j] = t[0 + Len(ClientHello) + j]
    BY <1>1, <1>2, <1>4, <2>1
  <2> QED
    BY <1>1, <1>2, <2>2, <2>3, <2>4 DEF Follows
<1>9. \E f : IsTranscript(<<>>, ClientHello \o APResponse, f)
  BY <1>7
<1> QED
  BY <1>1, <1>2, <1>8, <1>9

-----------------------------------------------------------------------------
\* Lemmas about the decoder.

LEMMA StatesDiffer == Header.at = "header" /\ \A size : Payload(size).at = "payload" /\ Payload(size) # Header
<1>1. Header.at = "header" /\ \A size : Payload(size).at = "payload"
  BY DEF Header, Payload
<1> QED
  BY <1>1

\* The bytes at the front are the next header ...
LEMMA HeaderTaken ==
  ASSUME sent \in Seq(Packets), NEW t, NEW ends, IsTranscript(sent, t, ends),
         NEW nonce \in 0 .. Len(sent), NEW rest, NEW coming,
         Follows(t, ends[nonce], rest, coming), Len(rest) >= HEADER_SIZE
  PROVE  /\ nonce + 1 \in 1 .. Len(sent) /\ Opens(SubSeq(rest, 1, HEADER_SIZE), nonce, 1)
         /\ Follows(t, Begin(ends, nonce + 1) + HEADER_SIZE,
                    SubSeq(rest, HEADER_SIZE + 1, Len(rest)), coming)
<1> PICK p : p = ends[nonce]
  OBVIOUS
<1>1. /\ rest \in Seq(Byte) /\ Len(rest) \in Nat /\ Len(coming) \in Nat
      /\ Len(t) = p + Len(rest) + Len(coming)
      /\ \A j \in 1 .. Len(rest) : rest[j] = t[p + j]
  BY ByteTypes DEF Follows
<1>2. Len(sent) \in Nat /\ p \in Nat /\ Len(t) = ends[Len(sent)]
  BY PacketTypes, EndTypes DEF IsTranscript
<1>3. nonce + 1 \in 1 .. Len(sent)
  <2>1. Len(t) > p
    BY <1>1, <1>2 DEF HEADER_SIZE
  <2> QED
    BY <1>2, <2>1
<1>4. Begin(ends, nonce + 1) = p
  BY DEF Begin
<1>5. sent[nonce + 1].size \in Nat /\ SizeOf(sent, nonce + 1) = HEADER_SIZE + sent[nonce + 1].size + MAC_SIZE
  BY <1>3, PacketTypes DEF SizeOf
<1>6. HEADER_SIZE \in Nat /\ HEADER_SIZE <= SizeOf(sent, nonce + 1)
  BY <1>5 DEF HEADER_SIZE, MAC_SIZE
<1>7. \A j \in 1 .. SizeOf(sent, nonce + 1) : t[p + j] = <<nonce + 1, j>>
  BY <1>3, <1>4 DEF IsTranscript
<1>8. IsPiece(SubSeq(rest, 1, HEADER_SIZE), rest, 1, HEADER_SIZE)
  BY <1>1, <1>6, PieceIs
<1> PICK x : x = SubSeq(rest, 1, HEADER_SIZE)
  OBVIOUS
<1>9. x \in Seq(Byte) /\ Len(x) = HEADER_SIZE /\ \A j \in 1 .. HEADER_SIZE : x[j] = rest[j]
  BY <1>6, <1>8 DEF IsPiece
<1>10. x = [j \in 1 .. Len(x) |-> <<nonce + 1, 1 + j - 1>>]
  <2>1. ASSUME NEW j \in 1 .. HEADER_SIZE
        PROVE  x[j] = <<nonce + 1, 1 + j - 1>>
    <3>a. j \in Nat /\ 1 <= j /\ j <= HEADER_SIZE /\ 1 + j - 1 = j
      BY DEF HEADER_SIZE
    <3>b. HEADER_SIZE <= Len(rest) /\ Len(rest) \in Nat /\ SizeOf(sent, nonce + 1) \in Nat
      BY <1>1, <1>5, <1>6 DEF HEADER_SIZE, MAC_SIZE
    <3>1. j \in 1 .. Len(rest) /\ j \in 1 .. SizeOf(sent, nonce + 1) /\ 1 + j - 1 = j
      BY <1>6, <3>a, <3>b
    <3>2. x[j] = rest[j]
      BY <1>9
    <3>3. rest[j] = t[p + j]
      BY <1>1, <3>1
    <3>4. t[p + j] = <<nonce + 1, j>>
      BY <1>7, <3>1
    <3> QED
      BY <3>1, <3>2, <3>3, <3>4
  <2>2. x \in [1 .. Len(x) -> Byte]
    BY <1>9, LenProperties
  <2> QED
    BY <1>9, <2>1, <2>2
<1>11. Opens(x, nonce, 1)
  BY <1>10 DEF Opens
<1>12. Follows(t, p + HEADER_SIZE, SubSeq(rest, HEADER_SIZE + 1, Len(rest)), coming)
  BY <1>6, FollowsDrop
<1> QED
  BY <1>3, <1>4, <1>11, <1>12

\* ... or the rest of the packet.
LEMMA PayloadTaken ==
  ASSUME sent \in Seq(Packets), NEW t, NEW ends, IsTranscript(sent, t, ends),
         NEW nonce \in 1 .. Len(sent), NEW rest, NEW coming,
         Follows(t, Begin(ends, nonce) + HEADER_SIZE, rest, coming),
         Len(rest) >= sent[nonce].size + MAC_SIZE
  PROVE  /\ Opens(SubSeq(rest, 1, sent[nonce].size + MAC_SIZE), nonce - 1, HEADER_SIZE + 1)
         /\ Follows(t, ends[nonce], SubSeq(rest, sent[nonce].size + MAC_SIZE + 1, Len(rest)), coming)
<1> PICK p : p = Begin(ends, nonce)
  OBVIOUS
<1> PICK k : k = sent[nonce].size + MAC_SIZE
  OBVIOUS
<1>1. /\ rest \in Seq(Byte) /\ Len(rest) \in Nat
      /\ \A j \in 1 .. Len(rest) : rest[j] = t[p + HEADER_SIZE + j]
  BY ByteTypes DEF Follows
<1>2. Len(sent) \in Nat /\ nonce \in 0 .. Len(sent) /\ sent[nonce].size \in Nat
  BY PacketTypes
<1>3. p \in Nat
  BY <1>2, EndTypes
<1>4. k \in Nat /\ SizeOf(sent, nonce) = HEADER_SIZE + k
  BY <1>2 DEF SizeOf, HEADER_SIZE, MAC_SIZE
<1>5. /\ ends[nonce] = p + SizeOf(sent, nonce)
      /\ \A j \in 1 .. SizeOf(sent, nonce) : t[p + j] = <<nonce, j>>
  BY <1>2 DEF IsTranscript
<1>6. IsPiece(SubSeq(rest, 1, k), rest, 1, k)
  BY <1>1, <1>4, PieceIs
<1> PICK x : x = SubSeq(rest, 1, k)
  OBVIOUS
<1>7. x \in Seq(Byte) /\ Len(x) = k /\ \A j \in 1 .. k : x[j] = rest[j]
  BY <1>4, <1>6 DEF IsPiece
<1>8. x = [j \in 1 .. Len(x) |-> <<(nonce - 1) + 1, (HEADER_SIZE + 1) + j - 1>>]
  <2>1. ASSUME NEW j \in 1 .. k
        PROVE  x[j] = <<(nonce - 1) + 1, (HEADER_SIZE + 1) + j - 1>>
    <3>1. j \in 1 .. Len(rest) /\ HEADER_SIZE + j \in 1 .. SizeOf(sent, nonce)
      BY <1>1, <1>4 DEF HEADER_SIZE
    <3>2. (HEADER_SIZE + 1) + j - 1 = HEADER_SIZE + j /\ p + HEADER_SIZE + j = p + (HEADER_SIZE + j)
          /\ (nonce - 1) + 1 = nonce
      BY <1>2, <1>3, <1>4 DEF HEADER_SIZE
    <3>3. x[j] = t[p + (HEADER_SIZE + j)]
      BY <1>1, <1>7, <3>1, <3>2
    <3> QED
      BY <1>5, <3>1, <3>2, <3>3
  <2>2. x \in [1 .. Len(x) -> Byte]
    BY <1>7, LenProperties
  <2> QED
    BY <1>7, <2>1, <2>2
<1>9. Opens(x, nonce - 1, HEADER_SIZE + 1)
  BY <1>8 DEF Opens
<1>10. Follows(t, (p + HEADER_SIZE) + k, SubSeq(rest, k + 1, Len(rest)), coming)
  BY <1>4, FollowsDrop
<1>11. (p + HEADER_SIZE) + k = ends[nonce]
  <2>1. HEADER_SIZE \in Nat
    BY DEF HEADER_SIZE
  <2> QED
    BY <1>3, <1>4, <1>5, <2>1
<1>12. Follows(t, ends[nonce], SubSeq(rest, k + 1, Len(rest)), coming)
  BY <1>10, <1>11
<1> QED
  BY <1>9, <1>12

\* What the decoder holds.
Cursor(state, nonce, rest, item) == [state |-> state, nonce |-> nonce, rest |-> rest, item |-> item]

\* What a call of the decoder comes to: the next packet, or nothing when it
\* has not all been read.
DecodesWell(t, ends, count, c) ==
  /\ Placed(sent, t, ends, c.state, c.nonce, c.rest, down)
  /\ \/ c.item = Nothing /\ Lacks(c.state, c.rest) /\ Count(c.state, c.nonce) = count
     \/ /\ c.item = sent[count + 1] /\ count + 1 \in 1 .. Len(sent)
        /\ c.state = Header /\ c.nonce = count + 1

LEMMA HeaderDecoded ==
  ASSUME NEW nonce, NEW rest
  PROVE  /\ Len(rest) >= HEADER_SIZE /\ Opens(SubSeq(rest, 1, HEADER_SIZE), nonce, 1) =>
              DecodeHeader(Cursor(Header, nonce, rest, Nothing)) =
                Cursor(Payload(sent[nonce + 1].size), nonce + 1,
                       SubSeq(rest, HEADER_SIZE + 1, Len(rest)), Nothing)
         /\ ~ (Len(rest) >= HEADER_SIZE) =>
              DecodeHeader(Cursor(Header, nonce, rest, Nothing)) = Cursor(Header, nonce, rest, Nothing)
BY DEF DecodeHeader, Cursor

LEMMA HeaderNotDecoded ==
  ASSUME NEW size, NEW nonce, NEW rest
  PROVE  DecodeHeader(Cursor(Payload(size), nonce, rest, Nothing)) =
           Cursor(Payload(size), nonce, rest, Nothing)
BY StatesDiffer DEF DecodeHeader, Cursor

LEMMA PayloadDecoded ==
  ASSUME NEW size, NEW nonce, NEW rest
  PROVE  /\ (/\ Len(rest) >= size + MAC_SIZE
             /\ Opens(SubSeq(rest, 1, size + MAC_SIZE), nonce - 1, HEADER_SIZE + 1)) =>
              DecodePayload(Cursor(Payload(size), nonce, rest, Nothing)) =
                Cursor(Header, nonce, SubSeq(rest, size + MAC_SIZE + 1, Len(rest)), sent[nonce])
         /\ ~ (Len(rest) >= size + MAC_SIZE) =>
              DecodePayload(Cursor(Payload(size), nonce, rest, Nothing)) =
                Cursor(Payload(size), nonce, rest, Nothing)
<1>1. Payload(size).at = "payload" /\ Payload(size).size = size
  BY DEF Payload
<1> PICK s : s = Payload(size)
  OBVIOUS
<1> PICK c : c = Cursor(s, nonce, rest, Nothing)
  OBVIOUS
<1>2. s.at = "payload" /\ s.size = size
  BY <1>1
<1>3. c.state = s /\ c.nonce = nonce /\ c.rest = rest /\ c.item = Nothing
  BY DEF Cursor
<1>4. ASSUME Len(rest) >= size + MAC_SIZE,
             Opens(SubSeq(rest, 1, size + MAC_SIZE), nonce - 1, HEADER_SIZE + 1)
      PROVE  DecodePayload(c) =
               Cursor(Header, nonce, SubSeq(rest, size + MAC_SIZE + 1, Len(rest)), sent[nonce])
  <2>1. DecodePayload(c) = [c EXCEPT !.state = Header, !.item = sent[c.nonce],
                                     !.rest = SubSeq(@, c.state.size + MAC_SIZE + 1, Len(@))]
    BY <1>2, <1>3, <1>4 DEF DecodePayload
  <2> QED
    BY <1>2, <1>3, <2>1 DEF Cursor
<1>5. ASSUME ~ (Len(rest) >= size + MAC_SIZE)
      PROVE  DecodePayload(c) = c
  BY <1>2, <1>3, <1>5 DEF DecodePayload
<1> QED
  BY <1>4, <1>5

LEMMA PayloadNotDecoded ==
  ASSUME NEW nonce, NEW rest
  PROVE  DecodePayload(Cursor(Header, nonce, rest, Nothing)) = Cursor(Header, nonce, rest, Nothing)
BY StatesDiffer DEF DecodePayload, Cursor

LEMMA PayloadDecodes ==
  ASSUME sent \in Seq(Packets), NEW t, NEW ends, IsTranscript(sent, t, ends),
         NEW nonce \in 1 .. Len(sent), NEW rest,
         Follows(t, Begin(ends, nonce) + HEADER_SIZE, rest, down)
  PROVE  DecodesWell(t, ends, nonce - 1,
           DecodePayload(Cursor(Payload(sent[nonce].size), nonce, rest, Nothing)))
<1> PICK size : size = sent[nonce].size
  OBVIOUS
<1>1. Len(sent) \in Nat /\ (nonce - 1) + 1 = nonce /\ nonce \in 0 .. Len(sent)
  BY PacketTypes
<1>2. CASE Len(rest) >= size + MAC_SIZE
  <2> PICK c : c = Cursor(Header, nonce, SubSeq(rest, size + MAC_SIZE + 1, Len(rest)), sent[nonce])
    OBVIOUS
  <2>1. /\ Opens(SubSeq(rest, 1, size + MAC_SIZE), nonce - 1, HEADER_SIZE + 1)
        /\ Follows(t, ends[nonce], SubSeq(rest, size + MAC_SIZE + 1, Len(rest)), down)
    BY <1>2, PayloadTaken
  <2>2. DecodePayload(Cursor(Payload(size), nonce, rest, Nothing)) = c
    BY <1>2, <2>1, PayloadDecoded
  <2>3. /\ c.state = Header /\ c.nonce = nonce /\ c.item = sent[nonce]
        /\ c.rest = SubSeq(rest, size + MAC_SIZE + 1, Len(rest))
    BY DEF Cursor
  <2>4. Placed(sent, t, ends, c.state, c.nonce, c.rest, down)
    BY <1>1, <2>1, <2>3 DEF Placed
  <2> QED
    BY <1>1, <2>2, <2>3, <2>4 DEF DecodesWell
<1>3. CASE ~ (Len(rest) >= size + MAC_SIZE)
  <2> PICK c : c = Cursor(Payload(size), nonce, rest, Nothing)
    OBVIOUS
  <2>1. DecodePayload(Cursor(Payload(size), nonce, rest, Nothing)) = c
    BY <1>3, PayloadDecoded
  <2>2. c.state = Payload(size) /\ c.nonce = nonce /\ c.rest = rest /\ c.item = Nothing
    BY DEF Cursor
  <2>3. Placed(sent, t, ends, c.state, c.nonce, c.rest, down)
    BY <2>2 DEF Placed
  <2>4. Lacks(c.state, c.rest) /\ Count(c.state, c.nonce) = nonce - 1
    <3>1. rest \in Seq(Byte) /\ Len(rest) \in Nat /\ size \in Nat /\ size + MAC_SIZE \in Nat
      BY PacketTypes, ByteTypes DEF Follows, MAC_SIZE
    <3>2. Len(rest) < size + MAC_SIZE
      BY <1>3, <3>1
    <3>3. Payload(size) # Header /\ Payload(size).size = size
      BY StatesDiffer DEF Payload
    <3> QED
      BY <2>2, <3>2, <3>3 DEF Lacks, Count
  <2> QED
    BY <2>1, <2>2, <2>3, <2>4 DEF DecodesWell
<1> QED
  BY <1>2, <1>3

LEMMA DecoderDecodes ==
  ASSUME sent \in Seq(Packets), NEW t, NEW ends, IsTranscript(sent, t, ends),
         Placed(sent, t, ends, decode_state, decode_nonce, buffer, down)
  PROVE  DecodesWell(t, ends, Count(decode_state, decode_nonce), Decoded)
<1>1. Decoded = DecodePayload(DecodeHeader(Cursor(decode_state, decode_nonce, buffer, Nothing)))
  BY DEF Decoded, Cursor
<1>2. Len(sent) \in Nat
  BY PacketTypes
<1>3. CASE decode_state = Header /\ decode_nonce \in 0 .. Len(sent)
           /\ Follows(t, ends[decode_nonce], buffer, down)
  <2>1. Count(decode_state, decode_nonce) = decode_nonce
    BY <1>3 DEF Count
  <2>2. CASE Len(buffer) >= HEADER_SIZE
    <3> PICK n : n = decode_nonce + 1
      OBVIOUS
    <3> PICK rest : rest = SubSeq(buffer, HEADER_SIZE + 1, Len(buffer))
      OBVIOUS
    <3>1. /\ n \in 1 .. Len(sent) /\ Opens(SubSeq(buffer, 1, HEADER_SIZE), decode_nonce, 1)
          /\ Follows(t, Begin(ends, n) + HEADER_SIZE, rest, down)
      BY <1>3, <2>2, HeaderTaken
    <3>2. DecodeHeader(Cursor(decode_state, decode_nonce, buffer, Nothing)) =
            Cursor(Payload(sent[n].size), n, rest, Nothing)
      BY <1>3, <2>2, <3>1, HeaderDecoded
    <3>3. DecodesWell(t, ends, n - 1, DecodePayload(Cursor(Payload(sent[n].size), n, rest, Nothing)))
      BY <3>1, PayloadDecodes
    <3>4. n - 1 = decode_nonce
      BY <1>3
    <3> QED
      BY <1>1, <2>1, <3>2, <3>3, <3>4
  <2>3. CASE ~ (Len(buffer) >= HEADER_SIZE)
    <3> PICK c : c = Cursor(Header, decode_nonce, buffer, Nothing)
      OBVIOUS
    <3>1. Decoded = c
      BY <1>1, <1>3, <2>3, HeaderDecoded, PayloadNotDecoded
    <3>2. c.state = Header /\ c.nonce = decode_nonce /\ c.rest = buffer /\ c.item = Nothing
      BY DEF Cursor
    <3>3. buffer \in Seq(Byte) /\ Len(buffer) \in Nat
      BY <1>3, ByteTypes DEF Follows
    <3>4. Lacks(c.state, c.rest)
      BY <2>3, <3>2, <3>3 DEF Lacks, HEADER_SIZE
    <3> QED
      BY <1>3, <2>1, <3>1, <3>2, <3>4 DEF DecodesWell, Placed, Count
  <2> QED
    BY <2>2, <2>3
<1>4. CASE decode_nonce \in 1 .. Len(sent) /\ decode_state = Payload(sent[decode_nonce].size)
           /\ Follows(t, Begin(ends, decode_nonce) + HEADER_SIZE, buffer, down)
  <2>1. Count(decode_state, decode_nonce) = decode_nonce - 1
    BY <1>4, StatesDiffer DEF Count
  <2>2. DecodeHeader(Cursor(decode_state, decode_nonce, buffer, Nothing)) =
          Cursor(decode_state, decode_nonce, buffer, Nothing)
    BY <1>4, HeaderNotDecoded
  <2>3. DecodesWell(t, ends, decode_nonce - 1,
          DecodePayload(Cursor(decode_state, decode_nonce, buffer, Nothing)))
    BY <1>4, PayloadDecodes
  <2> QED
    BY <1>1, <2>1, <2>2, <2>3
<1> QED
  BY <1>3, <1>4 DEF Placed

-----------------------------------------------------------------------------
\* Lemmas about the state.

\* The smaller of two, as Client takes it.
Lesser(a, b) == Min({a, b})

LEMMA MinOfTwo ==
  ASSUME NEW a \in Int, NEW b \in Int
  PROVE  Lesser(a, b) \in Int /\ Lesser(a, b) <= a /\ Lesser(a, b) <= b
<1>1. CASE a <= b
  BY <1>1 DEF Lesser, Min
<1>2. CASE b <= a
  BY <1>2 DEF Lesser, Min
<1> QED
  BY <1>1, <1>2

\* No size that a packet has is cut off by its 16 bits.
LEMMA SizeFits == \A size \in Sizes : size \in Nat /\ size % SIZE_MOD = size
<1>1. SIZE_MOD \in Nat
  BY DEF SIZE_MOD
<1>2. ASSUME NEW size \in Sizes
      PROVE  size \in Nat /\ size < SIZE_MOD
  BY <1>1, ConnectionAssumption
<1>3. ASSUME NEW r \in Nat, r < SIZE_MOD
      PROVE  r % SIZE_MOD = r
  <2>1. (SIZE_MOD * 0 + r) % SIZE_MOD = r
    BY <1>1, <1>3, WhatIsLeft
  <2>2. SIZE_MOD * 0 + r = r
    BY <1>1, <1>3
  <2> QED
    BY <2>1, <2>2
<1> QED
  BY <1>2, <1>3

\* Nothing and Garbage are no packets.
LEMMA NoPackets == Nothing \notin Packets /\ Garbage \notin Packets /\ Nothing # Garbage
<1>1. \A p \in Packets : p.cmd \in {"welcome", "unreadable", "failed", "other", "data"}
  BY ConnectionAssumption DEF Packets
<1>2. Nothing.cmd = "nothing" /\ Garbage.cmd = "garbage"
  BY DEF Nothing, Garbage
<1> QED
  BY <1>1, <1>2

LEMMA StageSets ==
  /\ Unread \cap Framed = {} /\ Unread \cap Over = {} /\ Framed \cap Over = {}
  /\ Reading \cap Framed = {} /\ Reading \cap Over = {} /\ Reading \cap Unread = {}
  /\ Read \cap Framed = {} /\ Read \cap Over = {} /\ Read \cap Unread = {}
BY DEF Unread, Reading, Read, Framed, Over

LEMMA InvInit == Init => ConnectionInv
<1> SUFFICES ASSUME Init PROVE ConnectionInv
  OBVIOUS
<1> USE DEF Init
<1>1. TypeOK
  <2>1. sent \in Seq(Packets) /\ uplink \in Seq([nonce : Nat, length : Nat, size : Nat])
    OBVIOUS
  <2>2. encode_nonce = Len(uplink) /\ heard \in 0 .. Len(uplink)
    OBVIOUS
  <2> QED
    BY <2>1, <2>2 DEF TypeOK, Stages, Unread
<1>2. InStage
  BY DEF InStage, Framed, Over
<1>3. InOrder
  BY DEF InOrder, Waits, Unread
<1>4. Waiting /\ Keyed /\ Ends
  BY DEF Waiting, Keyed, Ends, Framed, Read
<1> QED
  BY <1>1, <1>2, <1>3, <1>4 DEF ConnectionInv

LEMMA InvResolve ==
  ASSUME ConnectionInv, NEW resolution \in Resolutions, Resolve(resolution)
  PROVE  ConnectionInv'
<1> USE DEF Resolve, handshake, decoder, encoder, accesspoint
<1>1. TypeOK'
  BY DEF ConnectionInv, TypeOK, Stages, Unread
<1>2. InStage'
  BY DEF ConnectionInv, InStage, Framed, Over
<1>3. InOrder'
  BY ConnectionAssumption DEF ConnectionInv, InOrder, InStage, Waits, Unread, Over
<1>4. Waiting' /\ Keyed'
  BY DEF ConnectionInv, Waiting, Keyed, Framed, Read, RemoteKeys, LocalKeys, ChallengeKey
<1>5. Ends'
  BY DEF ConnectionInv, Ends, LocalKeys, ChallengeKey, RemoteKeys
<1> QED
  BY <1>1, <1>2, <1>3, <1>4, <1>5 DEF ConnectionInv

LEMMA InvConnect ==
  ASSUME ConnectionInv, NEW outcome \in Sockets, Connect(outcome)
  PROVE  ConnectionInv'
<1> USE DEF Connect, decoder, encoder, accesspoint
<1>1. /\ outcome \in {"open", "refused", "unknown"} /\ socket' = outcome
      /\ outcome = "open" => stage' = "client_hello"
      /\ outcome = "refused" => stage' = "failed"
      /\ outcome = "unknown" => stage' = "panicked"
  BY ConnectionAssumption
<1>2. stage = "socket" /\ socket = None /\ response = None /\ ~ closed /\ None # "open"
  BY ConnectionAssumption DEF ConnectionInv, InStage, TypeOK
<1>3. TypeOK'
  BY <1>1 DEF ConnectionInv, TypeOK, Stages, Unread, Over
<1>4. InStage'
  BY <1>1, <1>2 DEF ConnectionInv, InStage, Framed, Over
<1>5. InOrder'
  BY <1>1, <1>2 DEF ConnectionInv, InOrder, Waits, Unread, Over
<1>6. Waiting' /\ Keyed'
  BY <1>1, <1>2 DEF ConnectionInv, Waiting, Keyed, Framed, Read, RemoteKeys, LocalKeys, ChallengeKey
<1>7. Ends'
  BY <1>1, <1>2 DEF ConnectionInv, Ends
<1> QED
  BY <1>3, <1>4, <1>5, <1>6, <1>7 DEF ConnectionInv

LEMMA InvWriteClientHello ==
  ASSUME ConnectionInv, NEW k, WriteClientHello(k)
  PROVE  ConnectionInv'
<1> USE DEF WriteClientHello, ReadIntoAccumulator, decoder, encoder, accesspoint
<1>1. stage = "client_hello" /\ socket = "open" /\ stage' \in {"client_hello", "response_header"}
  BY DEF ConnectionInv, InStage, Over
<1>2. response = None /\ down = <<>>
  BY <1>1 DEF ConnectionInv, InOrder, Waits, Transmits, Unread, Over
<1>3. stage' = "response_header" => accumulator' = ClientHello /\ start' = HELLO_SIZE /\ wanted' = 4
  BY <1>1, FirstTranscript
<1>4. TypeOK'
  BY <1>1 DEF ConnectionInv, TypeOK, Stages, Unread, Reading
<1>5. InStage'
  BY <1>1, <1>2 DEF ConnectionInv, InStage, Framed, Over
<1>6. InOrder'
  BY <1>1, <1>2, <1>3 DEF InOrder, Waits, Unread
<1>7. Waiting' /\ Keyed'
  BY <1>1 DEF ConnectionInv, Waiting, Keyed, Framed, Read, RemoteKeys, LocalKeys, ChallengeKey
<1>8. Ends'
  BY <1>1 DEF ConnectionInv, Ends, LocalKeys, ChallengeKey, RemoteKeys
<1> QED
  BY <1>4, <1>5, <1>6, <1>7, <1>8 DEF ConnectionInv

\* While the response is read, what has come is what was sent.
LEMMA ReadingCarries ==
  ASSUME ConnectionInv, stage \in Reading, down # <<>> \/ wanted # 4
  PROVE  response # None /\ Transmits /\ Accumulates
<1>1. stage \notin Over /\ stage \notin Framed /\ stage \notin Unread
  BY StageSets
<1>2. ~ Waits
  BY <1>1 DEF Waits, Reading
<1> QED
  BY <1>1, <1>2 DEF ConnectionInv, InOrder, Transmits

LEMMA InvReadExact ==
  ASSUME ConnectionInv, NEW k \in 1 .. Lesser(wanted, Len(down)), ReadExact(k)
  PROVE  ConnectionInv'
<1> USE DEF ReadExact, decoder, encoder, accesspoint
<1>1. stage \in Reading /\ stage \notin Over /\ stage \notin Framed /\ stage \notin Unread
  BY StageSets
<1>2. response # None /\ Transmits /\ Accumulates
  <2>1. CASE down = <<>> /\ wanted = 4
    <3>1. Len(down) = 0 /\ wanted \in Int /\ Len(down) \in Int
      BY <2>1
    <3>2. Lesser(wanted, Len(down)) <= Len(down) /\ Lesser(wanted, Len(down)) \in Int
      BY <3>1, MinOfTwo
    <3> QED
      BY <3>1, <3>2
  <2>2. CASE down # <<>> \/ wanted # 4
    BY <1>1, <2>2, ReadingCarries
  <2> QED
    BY <2>1, <2>2
<1>3. PICK t, ends : Carries(t, ends)
  BY <1>2 DEF Transmits
<1>4. IsTranscript(sent, t, ends) /\ Follows(t, 0, accumulator, down)
  BY <1>1, <1>3 DEF Carries
<1>5. /\ accumulator \in Seq(Byte) /\ down \in Seq(Byte)
      /\ Len(accumulator) \in Nat /\ Len(down) \in Nat
  BY <1>4, ByteTypes DEF Follows
<1>5a. wanted \in Nat
  BY <1>1, <1>2 DEF Accumulates, Reading, BODY_SIZE
<1>6. k \in Nat \ {0} /\ k <= wanted /\ k <= Len(down)
  <2>1. /\ Lesser(wanted, Len(down)) \in Int
        /\ Lesser(wanted, Len(down)) <= wanted /\ Lesser(wanted, Len(down)) <= Len(down)
    BY <1>5, <1>5a, MinOfTwo
  <2> QED
    BY <1>5, <1>5a, <2>1
<1>7. Follows(t, 0, accumulator', down')
  BY <1>4, <1>6, FollowsMove
<1>8. Len(accumulator') = Len(accumulator) + k
  <2>1. IsPiece(SubSeq(down, 1, k), down, 1, k)
    BY <1>5, <1>6, PieceIs
  <2>2. SubSeq(down, 1, k) \in Seq(Byte) /\ Len(SubSeq(down, 1, k)) = k
    BY <1>6, <2>1 DEF IsPiece
  <2> QED
    BY <1>5, <2>2, ConcatProperties
<1>9. Carries(t, ends)'
  BY <1>1, <1>4, <1>7 DEF Carries
<1>10. Accumulates'
  BY <1>1, <1>2, <1>5, <1>6, <1>8, <1>5a DEF Accumulates, Reading, Read, HELLO_SIZE, BODY_SIZE
<1>11. InOrder'
  BY <1>1, <1>2, <1>9, <1>10 DEF InOrder, Transmits, Reading, Framed
<1>12. TypeOK'
  BY DEF ConnectionInv, TypeOK
<1>13. InStage'
  BY DEF ConnectionInv, InStage
<1>14. Waiting' /\ Keyed' /\ Ends'
  BY DEF ConnectionInv, Waiting, Keyed, Ends, RemoteKeys, LocalKeys, ChallengeKey
<1> QED
  BY <1>11, <1>12, <1>13, <1>14 DEF ConnectionInv

LEMMA InvReadHeader ==
  ASSUME ConnectionInv, ReadHeader
  PROVE  ConnectionInv'
<1> USE DEF ReadHeader, ReadIntoAccumulator, decoder, encoder, accesspoint
<1>1. /\ stage = "response_header" /\ stage \notin Over /\ stage \notin Framed /\ stage \notin Unread
      /\ wanted = 0 /\ socket = "open"
  BY DEF Over, Framed, Unread, ConnectionInv, InStage
<1>2. response # None /\ Transmits /\ Accumulates
  BY <1>1, ReadingCarries DEF Reading
<1>3. stage' \in {"response_body", "panicked"} /\ (stage' = "panicked" => response = "short")
  OBVIOUS
<1>4. TypeOK'
  BY <1>3 DEF ConnectionInv, TypeOK, Stages, Reading, Over
<1>5. InStage'
  BY <1>1, <1>3 DEF ConnectionInv, InStage, Over, Framed
<1>6. InOrder'
  <2>1. CASE stage' = "panicked"
    BY <2>1 DEF InOrder, Over
  <2>2. CASE stage' = "response_body"
    <3>1. PICK t, ends : Carries(t, ends)
      BY <1>2 DEF Transmits
    <3>2. accumulator' = accumulator /\ start' = Len(accumulator) /\ wanted' = Len(APResponse) - 4
      BY <2>2
    <3>3. stage' \notin Framed /\ stage' \notin Unread /\ stage' \notin Over /\ stage' # "welcome"
      BY <2>2 DEF Framed, Unread, Over
    <3>4. Carries(t, ends)'
      BY <1>1, <3>1, <3>2, <3>3 DEF Carries
    <3>5. Len(accumulator) = HELLO_SIZE + 4
      BY <1>1, <1>2 DEF Accumulates, HELLO_SIZE
    <3>6. wanted' = BODY_SIZE
      <4>1. Len(APResponse) = 4 + BODY_SIZE
        BY FirstTranscript
      <4> QED
        BY <3>2, <4>1 DEF BODY_SIZE
    <3>7. Accumulates'
      <4>1. /\ wanted' \in 0 .. BODY_SIZE /\ start' = HELLO_SIZE + 4
            /\ Len(accumulator') = HELLO_SIZE + 4 + BODY_SIZE - wanted'
        <5>1. HELLO_SIZE \in Nat /\ BODY_SIZE \in Nat
          BY DEF HELLO_SIZE, BODY_SIZE
        <5>2. accumulator' = accumulator /\ start' = Len(accumulator)
          BY <3>2
        <5> HIDE DEF ReadHeader
        <5> QED
          BY <3>5, <3>6, <5>1, <5>2
      <4>2. stage' # "response_header" /\ stage' \notin Read
        BY <2>2 DEF Read
      <4> QED
        BY <2>2, <4>1, <4>2 DEF Accumulates
    <3> QED
      BY <1>2, <2>2, <3>3, <3>4, <3>7 DEF InOrder, Transmits
  <2> QED
    BY <1>3, <2>1, <2>2
<1>7. Waiting' /\ Keyed'
  BY <1>1, <1>3 DEF ConnectionInv, Waiting, Keyed, RemoteKeys, LocalKeys, ChallengeKey, Read, Framed
<1>8. Ends'
  BY <1>3 DEF ConnectionInv, Ends, LocalKeys, ChallengeKey, RemoteKeys
<1> QED
  BY <1>4, <1>5, <1>6, <1>7, <1>8 DEF ConnectionInv

\* When the response has been read, the accumulator has the two packets.
LEMMA WholeResponse ==
  ASSUME sent \in Seq(Packets), NEW t, NEW ends, IsTranscript(sent, t, ends),
         NEW acc, NEW coming, Follows(t, 0, acc, coming), Len(acc) = HELLO_SIZE + 4 + BODY_SIZE
  PROVE  /\ acc = ClientHello \o APResponse
         /\ SubSeq(acc, HELLO_SIZE + 4 + 1, Len(acc)) = SubSeq(APResponse, 5, Len(APResponse))
<1>1. /\ acc \in Seq(Byte) /\ Len(acc) \in Nat
      /\ \A j \in 1 .. Len(acc) : acc[j] = t[0 + j]
  BY ByteTypes DEF Follows
<1>2. /\ \A j \in 1 .. HELLO_SIZE : t[j] = <<-1, j>>
      /\ \A j \in 1 .. 4 + BODY_SIZE : t[HELLO_SIZE + j] = <<0, j>>
  <2>1. 0 \in 0 .. Len(sent) /\ Begin(ends, 0) = HELLO_SIZE /\ SizeOf(sent, 0) = 4 + BODY_SIZE
    BY PacketTypes DEF Begin, SizeOf
  <2> QED
    BY <2>1 DEF IsTranscript
<1>3. /\ ClientHello \in Seq(Byte) /\ Len(ClientHello) = HELLO_SIZE
      /\ \A j \in 1 .. HELLO_SIZE : ClientHello[j] = <<-1, j>>
      /\ APResponse \in Seq(Byte) /\ Len(APResponse) = 4 + BODY_SIZE
      /\ \A j \in 1 .. 4 + BODY_SIZE : APResponse[j] = <<0, j>>
  <2>1. -1 \in Int /\ HELLO_SIZE \in Nat
    BY DEF HELLO_SIZE
  <2> QED
    BY <2>1, FirstTranscript, BytesAre DEF ClientHello
<1> PICK both : both = ClientHello \o APResponse
  OBVIOUS
<1>4. IsJoin(both, ClientHello, APResponse)
  BY <1>3, JoinIs
<1>5. /\ both \in Seq(Byte) /\ Len(both) = HELLO_SIZE + (4 + BODY_SIZE)
      /\ \A j \in 1 .. HELLO_SIZE : both[j] = <<-1, j>>
      /\ \A j \in 1 .. 4 + BODY_SIZE : both[HELLO_SIZE + j] = <<0, j>>
  BY <1>3, <1>4 DEF IsJoin
<1>6. acc = both
  <2>1. Len(acc) = Len(both)
    BY <1>5 DEF HELLO_SIZE, BODY_SIZE
  <2>2. ASSUME NEW j \in 1 .. Len(acc)
        PROVE  acc[j] = both[j]
    <3>1. acc[j] = t[j]
      BY <1>1
    <3>2. CASE j \in 1 .. HELLO_SIZE
      BY <1>2, <1>5, <3>1, <3>2
    <3>3. CASE j \notin 1 .. HELLO_SIZE
      <4> PICK i : i = j - HELLO_SIZE
        OBVIOUS
      <4>1. i \in 1 .. 4 + BODY_SIZE /\ j = HELLO_SIZE + i
        BY <3>3 DEF HELLO_SIZE, BODY_SIZE
      <4> QED
        BY <1>2, <1>5, <3>1, <4>1
    <3> QED
      BY <3>2, <3>3
  <2> QED
    BY <1>1, <1>5, <2>1, <2>2, SeqEqual
<1> PICK x : x = SubSeq(acc, HELLO_SIZE + 4 + 1, Len(acc))
  OBVIOUS
<1> PICK y : y = SubSeq(APResponse, 5, Len(APResponse))
  OBVIOUS
<1>7. IsPiece(x, acc, HELLO_SIZE + 4 + 1, Len(acc)) /\ IsPiece(y, APResponse, 5, Len(APResponse))
  <2>1. HELLO_SIZE + 4 + 1 \in Nat \ {0} /\ HELLO_SIZE + 4 + 1 <= Len(acc) + 1
    BY DEF HELLO_SIZE, BODY_SIZE
  <2>2. 5 \in Nat \ {0} /\ Len(APResponse) \in Nat /\ 5 <= Len(APResponse) + 1
    BY <1>3 DEF BODY_SIZE
  <2> QED
    BY <1>1, <1>3, <2>1, <2>2, PieceIs
<1>8. /\ x \in Seq(Byte) /\ Len(x) = BODY_SIZE
      /\ \A i \in 1 .. BODY_SIZE : x[i] = acc[HELLO_SIZE + 4 + 1 + i - 1]
  BY <1>7 DEF IsPiece, HELLO_SIZE, BODY_SIZE
<1>9. /\ y \in Seq(Byte) /\ Len(y) = BODY_SIZE
      /\ \A i \in 1 .. BODY_SIZE : y[i] = APResponse[5 + i - 1]
  BY <1>3, <1>7 DEF IsPiece, BODY_SIZE
<1>10. ASSUME NEW i \in 1 .. BODY_SIZE
       PROVE  x[i] = y[i]
  <2>1. /\ HELLO_SIZE + 4 + 1 + i - 1 = HELLO_SIZE + (4 + i) /\ 5 + i - 1 = 4 + i
        /\ 4 + i \in 1 .. 4 + BODY_SIZE
    BY DEF HELLO_SIZE, BODY_SIZE
  <2>2. x[i] = both[HELLO_SIZE + (4 + i)] /\ y[i] = APResponse[4 + i]
    BY <1>6, <1>8, <1>9, <2>1
  <2> QED
    BY <1>3, <1>5, <2>1, <2>2
<1>11. x = y
  BY <1>8, <1>9, <1>10, SeqEqual
<1> QED
  BY <1>6, <1>11

LEMMA InvReadBody ==
  ASSUME ConnectionInv, ReadBody
  PROVE  ConnectionInv'
<1> USE DEF ReadBody, decoder, encoder, accesspoint
<1>1. /\ stage = "response_body" /\ stage \notin Over /\ stage \notin Framed /\ stage \notin Unread
      /\ wanted = 0 /\ socket = "open"
  BY DEF Over, Framed, Unread, ConnectionInv, InStage
<1>2. response # None /\ Transmits /\ Accumulates
  BY <1>1, ReadingCarries DEF Reading
<1>3. Len(accumulator) = HELLO_SIZE + 4 + BODY_SIZE /\ start = HELLO_SIZE + 4
  BY <1>1, <1>2 DEF Accumulates, HELLO_SIZE, BODY_SIZE
<1>4. PICK t, ends : Carries(t, ends)
  BY <1>2 DEF Transmits
<1>5. sent \in Seq(Packets) /\ IsTranscript(sent, t, ends) /\ Follows(t, 0, accumulator, down)
  BY <1>1, <1>4 DEF Carries, ConnectionInv, TypeOK
<1>6. /\ accumulator = ClientHello \o APResponse
      /\ SubSeq(accumulator, HELLO_SIZE + 4 + 1, Len(accumulator)) = SubSeq(APResponse, 5, Len(APResponse))
  BY <1>3, <1>5, WholeResponse
<1>7. Window = SubSeq(APResponse, 5, Len(APResponse))
  BY <1>3, <1>6 DEF Window
<1>8. \/ response \in {"good", "refusal"} /\ stage' = "client_response" /\ keys' = LocalKeys
      \/ response \notin {"good", "refusal"} /\ stage' = "panicked" /\ keys' = keys
  BY <1>6, <1>7 DEF LocalKeys, ChallengeKey
<1> HIDE DEF ReadBody
<1>9. /\ UNCHANGED <<address, socket, accumulator, start, wanted, decoder, encoder>>
      /\ UNCHANGED <<received, down, accesspoint>>
  BY DEF ReadBody
<1>10. TypeOK'
  BY <1>8, <1>9 DEF ConnectionInv, TypeOK, Stages, Read, Over
<1>11. InStage'
  BY <1>1, <1>8, <1>9 DEF ConnectionInv, InStage, Over, Framed
<1>12. InOrder'
  <2>1. CASE stage' = "panicked"
    BY <2>1 DEF InOrder, Over
  <2>2. CASE stage' = "client_response"
    <3>1. stage' \notin Framed /\ stage' \notin Unread /\ stage' \notin Over /\ stage' # "welcome"
      BY <2>2 DEF Framed, Unread, Over
    <3>2. Carries(t, ends)'
      BY <1>5, <1>9, <3>1 DEF Carries
    <3>3. Accumulates'
      BY <1>3, <1>9, <2>2 DEF Accumulates
    <3> QED
      BY <1>2, <1>9, <3>1, <3>2, <3>3 DEF InOrder, Transmits
  <2> QED
    BY <1>8, <2>1, <2>2
<1>13. Waiting'
  BY <1>8 DEF Waiting, Framed
<1>14. Keyed'
  <2>1. LocalKeys # <<>> /\ LocalKeys' = LocalKeys
    BY <1>9 DEF LocalKeys, ChallengeKey, KeysOf
  <2> QED
    BY <1>1, <1>2, <1>8, <1>9, <2>1 DEF ConnectionInv, Keyed, Read, Framed
<1>15. Ends'
  <2>1. response \in {"good", "refusal", "garbled", "short"}
    BY <1>2 DEF ConnectionInv, TypeOK
  <2> QED
    BY <1>8, <1>9, <2>1 DEF ConnectionInv, Ends, LocalKeys, ChallengeKey, RemoteKeys
<1> QED
  BY <1>10, <1>11, <1>12, <1>13, <1>14, <1>15 DEF ConnectionInv

LEMMA InvWriteClientResponse ==
  ASSUME ConnectionInv, NEW k, WriteClientResponse(k)
  PROVE  ConnectionInv'
<1> USE DEF WriteClientResponse, decoder, encoder, accesspoint
<1>1. /\ stage \in Read /\ stage' \in Read /\ socket = "open"
      /\ stage' \notin Over /\ stage' \notin Framed /\ stage' \notin Unread /\ stage' # "welcome"
      /\ stage \notin Over /\ stage \notin Framed /\ stage \notin Unread
      /\ stage' \notin {"resolve", "socket", "response_header", "response_body"}
  BY DEF Read, Over, Framed, Unread, ConnectionInv, InStage
<1>2. response # None /\ Transmits
  BY <1>1 DEF ConnectionInv, Keyed, InOrder, Read
<1>3. TypeOK'
  BY <1>1 DEF ConnectionInv, TypeOK, Stages
<1>4. InStage'
  BY <1>1 DEF ConnectionInv, InStage, Read
<1>5. InOrder'
  <2>1. PICK t, ends : Carries(t, ends)
    BY <1>2 DEF Transmits
  <2>2. Carries(t, ends)'
    BY <1>1, <2>1 DEF Carries
  <2>3. Accumulates'
    BY <1>1, <1>2 DEF Transmits, Accumulates
  <2> QED
    BY <1>1, <1>2, <2>2, <2>3 DEF InOrder, Transmits
<1>6. Waiting' /\ Keyed'
  BY <1>1, <1>2 DEF ConnectionInv, Waiting, Keyed, LocalKeys, ChallengeKey
<1>7. Ends'
  BY <1>1 DEF ConnectionInv, Ends, Over, LocalKeys, ChallengeKey, RemoteKeys
<1> QED
  BY <1>3, <1>4, <1>5, <1>6, <1>7 DEF ConnectionInv

\* What is written is numbered and has the length it should.
LEMMA Encoded ==
  ASSUME ConnectionInv, NEW size \in Sizes, Encode(size)
  PROVE  /\ uplink' \in Seq([nonce : Nat, length : Nat, size : Nat])
         /\ Len(uplink') = Len(uplink) + 1 /\ encode_nonce' = Len(uplink')
         /\ \A i \in 1 .. Len(uplink') : uplink'[i].nonce = i - 1 /\ uplink'[i].length = uplink'[i].size
         /\ uplink' # <<>> /\ heard \in 0 .. Len(uplink')
<1> PICK p : p = [nonce |-> encode_nonce, length |-> size % SIZE_MOD, size |-> size]
  OBVIOUS
<1>1. uplink \in Seq([nonce : Nat, length : Nat, size : Nat]) /\ encode_nonce = Len(uplink)
      /\ heard \in 0 .. Len(uplink)
  BY DEF ConnectionInv, TypeOK
<1>2. size \in Nat /\ size % SIZE_MOD = size
  BY SizeFits
<1>3. /\ p.nonce = encode_nonce /\ p.length = size /\ p.size = size
      /\ p \in [nonce : Nat, length : Nat, size : Nat] /\ Len(uplink) \in Nat
  BY <1>1, <1>2
<1>4. uplink' = Append(uplink, p) /\ encode_nonce' = encode_nonce + 1
  BY DEF Encode
<1>5. /\ uplink' \in Seq([nonce : Nat, length : Nat, size : Nat]) /\ Len(uplink') = Len(uplink) + 1
      /\ \A i \in 1 .. Len(uplink) : uplink'[i] = uplink[i]
      /\ uplink'[Len(uplink) + 1] = p
  BY <1>1, <1>3, <1>4
<1>6. ASSUME NEW i \in 1 .. Len(uplink')
      PROVE  uplink'[i].nonce = i - 1 /\ uplink'[i].length = uplink'[i].size
  <2>1. CASE i \in 1 .. Len(uplink)
    BY <1>5, <2>1 DEF ConnectionInv, Keyed
  <2>2. CASE i \notin 1 .. Len(uplink)
    <3>1. i = Len(uplink) + 1
      BY <1>3, <1>5, <2>2
    <3> QED
      BY <1>1, <1>3, <1>5, <3>1
  <2> QED
    BY <2>1, <2>2
<1>7. uplink' # <<>> /\ heard \in 0 .. Len(uplink')
  BY <1>1, <1>3, <1>5
<1> QED
  BY <1>1, <1>4, <1>5, <1>6, <1>7

LEMMA InvSendLogin ==
  ASSUME ConnectionInv, NEW size \in Sizes, SendLogin(size)
  PROVE  ConnectionInv'
<1>1. /\ stage = "login" /\ stage' = "welcome" /\ socket = "open"
      /\ stage \notin Over /\ stage \notin Framed /\ stage \notin Unread
      /\ stage' \notin Over /\ stage' \in Framed /\ stage' \notin Unread
      /\ Encode(size)
      /\ UNCHANGED <<address, socket, unwritten, accumulator, start, wanted, keys>>
      /\ UNCHANGED <<decode_state, decode_nonce, buffer, readable, eof, received, down>>
      /\ UNCHANGED <<response, sent, heard, closed, broken>>
  BY DEF SendLogin, handshake, decoder, accesspoint, Over, Framed, Unread, ConnectionInv, InStage
<1>2. response # None /\ Transmits /\ keys # <<>>
  BY <1>1 DEF ConnectionInv, Keyed, InOrder, Read
<1>3. /\ decode_state = Header /\ decode_nonce = 0 /\ buffer = <<>> /\ ~ readable /\ ~ eof
      /\ received = <<>> /\ sent = <<>> /\ sent \in Seq(Packets)
  BY <1>1 DEF ConnectionInv, InStage, TypeOK
<1>4. PICK t, ends : Carries(t, ends)
  BY <1>2 DEF Transmits
<1>5. IsTranscript(sent, t, ends) /\ Follows(t, 0, accumulator, down)
  BY <1>1, <1>4 DEF Carries
<1>6. Follows(t, ends[0], <<>>, down)
  <2>1. Len(accumulator) = HELLO_SIZE + 4 + BODY_SIZE
    BY <1>1, <1>2 DEF Transmits, Accumulates, Read
  <2>2. HELLO_SIZE + 4 + BODY_SIZE \in Nat /\ Len(accumulator) <= Len(accumulator)
        /\ Len(accumulator) \in Nat
    BY <2>1 DEF HELLO_SIZE, BODY_SIZE
  <2>3. Follows(t, 0 + Len(accumulator), SubSeq(accumulator, Len(accumulator) + 1, Len(accumulator)), down)
    BY <1>5, <2>2, FollowsDrop
  <2>4. SubSeq(accumulator, Len(accumulator) + 1, Len(accumulator)) = <<>>
    BY <2>2, SubSeqEmpty
  <2>5. ends[0] = HELLO_SIZE + (4 + BODY_SIZE)
    <3>1. 0 \in 0 .. Len(sent) /\ Begin(ends, 0) = HELLO_SIZE /\ SizeOf(sent, 0) = 4 + BODY_SIZE
      BY <1>3, PacketTypes DEF Begin, SizeOf
    <3> QED
      BY <1>5, <3>1 DEF IsTranscript
  <2>6. 0 + Len(accumulator) = ends[0]
    BY <2>1, <2>5 DEF HELLO_SIZE, BODY_SIZE
  <2> QED
    BY <2>3, <2>4, <2>6
<1>7. Placed(sent, t, ends, Header, 0, <<>>, down)
  BY <1>3, <1>6, PacketTypes DEF Placed
<1>8. Carries(t, ends)'
  BY <1>1, <1>3, <1>5, <1>7 DEF Carries
<1>9. Count(Header, 0) = 0 /\ SubSeq(sent, 1, 0) = <<>>
  BY SubSeqEmpty DEF Count
<1>10. InOrder'
  BY <1>1, <1>2, <1>3, <1>8, <1>9 DEF InOrder, Transmits
<1>11. Waiting'
  BY <1>1, <1>3 DEF Waiting, Lacks, HEADER_SIZE
<1>12. TypeOK'
  BY <1>1, Encoded DEF ConnectionInv, TypeOK, Stages
<1>13. InStage'
  BY <1>1, <1>2 DEF ConnectionInv, InStage
<1>14. Keyed'
  <2>1. LocalKeys' = LocalKeys
    BY <1>1 DEF LocalKeys, ChallengeKey
  <2> QED
    BY <1>1, <1>2, <2>1, Encoded DEF ConnectionInv, Keyed
<1>15. Ends'
  BY <1>1 DEF ConnectionInv, Ends, LocalKeys, ChallengeKey, RemoteKeys
<1> QED
  BY <1>10, <1>11, <1>12, <1>13, <1>14, <1>15 DEF ConnectionInv

LEMMA InvSendPacket ==
  ASSUME ConnectionInv, NEW size \in Sizes, SendPacket(size)
  PROVE  ConnectionInv'
<1>1. /\ stage = "up" /\ stage' = stage /\ socket = "open" /\ stage \in Framed /\ stage \notin Over
      /\ Encode(size)
      /\ UNCHANGED <<address, socket, unwritten, accumulator, start, wanted, keys>>
      /\ UNCHANGED <<decode_state, decode_nonce, buffer, readable, eof, received, down>>
      /\ UNCHANGED <<response, sent, heard, closed, broken>>
  BY DEF SendPacket, handshake, decoder, accesspoint, Over, Framed, ConnectionInv, InStage
<1>2. response # None /\ keys # <<>>
  BY <1>1 DEF ConnectionInv, Keyed
<1>3. InOrder'
  BY <1>1 DEF ConnectionInv, InOrder, Waits, Transmits, Carries, Accumulates
<1>4. TypeOK'
  BY <1>1, Encoded DEF ConnectionInv, TypeOK, Stages
<1>5. InStage' /\ Waiting'
  BY <1>1, <1>2 DEF ConnectionInv, InStage, Waiting
<1>6. Keyed'
  <2>1. LocalKeys' = LocalKeys
    BY <1>1 DEF LocalKeys, ChallengeKey
  <2> QED
    BY <1>1, <1>2, <2>1, Encoded DEF ConnectionInv, Keyed
<1>7. Ends'
  BY <1>1 DEF ConnectionInv, Ends, LocalKeys, ChallengeKey, RemoteKeys
<1> QED
  BY <1>3, <1>4, <1>5, <1>6, <1>7 DEF ConnectionInv

LEMMA PlacedCount ==
  ASSUME NEW packets \in Seq(Packets), NEW t, NEW ends, NEW state, NEW nonce, NEW rest, NEW coming,
         Placed(packets, t, ends, state, nonce, rest, coming)
  PROVE  Count(state, nonce) \in 0 .. Len(packets) /\ nonce \in 0 .. Len(packets)
<1>1. Len(packets) \in Nat
  BY PacketTypes
<1>2. CASE state = Header /\ nonce \in 0 .. Len(packets)
  BY <1>2 DEF Count
<1>3. CASE nonce \in 1 .. Len(packets) /\ state = Payload(packets[nonce].size)
  <2>1. Count(state, nonce) = nonce - 1
    BY <1>3, StatesDiffer DEF Count
  <2> QED
    BY <1>1, <1>3, <2>1
<1> QED
  BY <1>2, <1>3 DEF Placed

\* The first packets, and the next one.
LEMMA FirstPackets ==
  ASSUME NEW packets \in Seq(Packets), NEW count \in 0 .. Len(packets)
  PROVE  /\ SubSeq(packets, 1, count) \in Seq(Packets) /\ Len(SubSeq(packets, 1, count)) = count
         /\ \A i \in 1 .. count : SubSeq(packets, 1, count)[i] = packets[i]
<1>1. Len(packets) \in Nat /\ \A i \in 1 .. count : packets[i] \in Packets
  BY PacketTypes
<1> PICK s : s = SubSeq(packets, 1, count)
  OBVIOUS
<1>2. /\ s \in Seq(Packets) /\ Len(s) = IF 1 <= count THEN count - 1 + 1 ELSE 0
      /\ \A i \in 1 .. count - 1 + 1 : s[i] = packets[1 + i - 1]
  <2>1. 1 \in Int /\ count \in Int
    OBVIOUS
  <2> QED
    BY <1>1, <2>1, SubSeqProperties
<1>3. Len(s) = count
  BY <1>1, <1>2
<1>4. ASSUME NEW i \in 1 .. count
      PROVE  s[i] = packets[i]
  <2>1. i \in 1 .. count - 1 + 1 /\ 1 + i - 1 = i
    BY <1>1
  <2> QED
    BY <1>2, <2>1
<1> QED
  BY <1>2, <1>3, <1>4

LEMMA NextPacket ==
  ASSUME NEW packets \in Seq(Packets), NEW count \in Nat, count + 1 \in 1 .. Len(packets)
  PROVE  Append(SubSeq(packets, 1, count), packets[count + 1]) = SubSeq(packets, 1, count + 1)
<1>1. Len(packets) \in Nat /\ count \in 0 .. Len(packets) /\ count + 1 \in 0 .. Len(packets)
      /\ packets[count + 1] \in Packets
  BY PacketTypes
<1> PICK s : s = SubSeq(packets, 1, count)
  OBVIOUS
<1> PICK r : r = SubSeq(packets, 1, count + 1)
  OBVIOUS
<1> PICK p : p = packets[count + 1]
  OBVIOUS
<1>2. s \in Seq(Packets) /\ Len(s) = count /\ \A i \in 1 .. count : s[i] = packets[i]
  BY <1>1, FirstPackets
<1>3. r \in Seq(Packets) /\ Len(r) = count + 1 /\ \A i \in 1 .. count + 1 : r[i] = packets[i]
  BY <1>1, FirstPackets
<1>4. /\ Append(s, p) \in Seq(Packets) /\ Len(Append(s, p)) = count + 1
      /\ \A i \in 1 .. count : Append(s, p)[i] = s[i]
      /\ Append(s, p)[count + 1] = p
  BY <1>1, <1>2
<1>5. \A i \in 1 .. count + 1 : Append(s, p)[i] = r[i]
  BY <1>2, <1>3, <1>4
<1>6. Append(s, p) = r
  BY <1>3, <1>4, <1>5, SeqEqual
<1> QED
  BY <1>6

\* In Framed, the decoder is at its place.
LEMMA FramedCarries ==
  ASSUME ConnectionInv, stage \in Framed
  PROVE  /\ response # None /\ Transmits /\ stage \notin Over /\ stage \notin Unread /\ keys # <<>>
         /\ sent \in Seq(Packets) /\ socket = "open"
         /\ received = SubSeq(sent, 1, Count(decode_state, decode_nonce))
BY StageSets DEF ConnectionInv, TypeOK, InStage, InOrder, Transmits, Keyed, Unread

LEMMA InvPollBuffer ==
  ASSUME ConnectionInv, PollBuffer
  PROVE  ConnectionInv'
<1> PICK c : c = Decoded
  OBVIOUS
<1> PICK count : count = Count(decode_state, decode_nonce)
  OBVIOUS
<1>1. /\ stage \in Framed /\ readable
      /\ UNCHANGED <<address, socket, unwritten, accumulator, start, wanted, keys>>
      /\ UNCHANGED <<encode_nonce, uplink, down, response, sent, heard, closed, broken>>
  BY DEF PollBuffer, handshake, encoder, accesspoint
<1>2. /\ response # None /\ Transmits /\ stage \notin Over /\ stage \notin Unread /\ keys # <<>>
      /\ sent \in Seq(Packets) /\ socket = "open" /\ received = SubSeq(sent, 1, count)
  BY <1>1, FramedCarries
<1>3. PICK t, ends : Carries(t, ends)
  BY <1>2 DEF Transmits
<1>4. /\ IsTranscript(sent, t, ends)
      /\ Placed(sent, t, ends, decode_state, decode_nonce, buffer, down)
  BY <1>1, <1>3 DEF Carries
<1>5. DecodesWell(t, ends, count, c)
  BY <1>2, <1>4, DecoderDecodes
<1>6. count \in 0 .. Len(sent) /\ count \in Nat /\ Len(sent) \in Nat
  BY <1>2, <1>4, PlacedCount, PacketTypes
<1>7. LocalKeys' = LocalKeys /\ RemoteKeys' = RemoteKeys
  BY <1>1 DEF LocalKeys, ChallengeKey, RemoteKeys
<1>8. CASE /\ stage' \in Over /\ UNCHANGED <<decode_state, decode_nonce, buffer, readable, eof, received>>
           /\ closed
  <2>1. TypeOK'
    BY <1>1, <1>8 DEF ConnectionInv, TypeOK, Stages
  <2>2. InStage' /\ InOrder' /\ Waiting'
    BY <1>1, <1>2, <1>8, StageSets DEF ConnectionInv, InStage, InOrder, Waiting, Over
  <2>3. Keyed'
    BY <1>1, <1>2, <1>7, <1>8 DEF ConnectionInv, Keyed
  <2>4. Ends'
    BY <1>1, <1>7, <1>8 DEF ConnectionInv, Ends
  <2> QED
    BY <2>1, <2>2, <2>3, <2>4 DEF ConnectionInv
<1>9. CASE /\ c.item = Nothing
           /\ decode_state' = c.state /\ decode_nonce' = c.nonce /\ buffer' = c.rest
           /\ readable' = FALSE /\ UNCHANGED <<stage, received, eof>>
  <2>1. Placed(sent, t, ends, c.state, c.nonce, c.rest, down)
    BY <1>5 DEF DecodesWell
  <2>2. Lacks(c.state, c.rest) /\ Count(c.state, c.nonce) = count
    <3>1. count + 1 \in 1 .. Len(sent) => sent[count + 1] # Nothing
      BY <1>2, PacketTypes, NoPackets
    <3> QED
      BY <1>5, <1>9, <3>1 DEF DecodesWell
  <2>3. Carries(t, ends)'
    BY <1>1, <1>4, <1>9, <2>1 DEF Carries
  <2>4. InOrder'
    BY <1>1, <1>2, <1>9, <2>2, <2>3 DEF InOrder, Transmits
  <2>5. TypeOK' /\ InStage' /\ Waiting'
    BY <1>1, <1>2, <1>9, <2>2 DEF ConnectionInv, TypeOK, InStage, Waiting
  <2>6. Keyed' /\ Ends'
    BY <1>1, <1>2, <1>7, <1>9 DEF ConnectionInv, Keyed, Ends
  <2> QED
    BY <2>4, <2>5, <2>6 DEF ConnectionInv
<1>10. CASE /\ c.item \in Packets
            /\ decode_state' = c.state /\ decode_nonce' = c.nonce /\ buffer' = c.rest
            /\ HandOver(c.item) /\ UNCHANGED <<readable, eof>>
  <2>1. /\ c.item = sent[count + 1] /\ count + 1 \in 1 .. Len(sent)
        /\ c.state = Header /\ c.nonce = count + 1
        /\ Placed(sent, t, ends, c.state, c.nonce, c.rest, down)
    BY <1>5, <1>10, NoPackets DEF DecodesWell
  <2>2. CASE stage' = "up" /\ received' = SubSeq(sent, 1, count + 1)
    <3>1. stage' \in Framed /\ stage' \notin Over /\ stage' \notin Unread /\ stage' # "welcome"
      BY <2>2 DEF Framed, Over, Unread
    <3>2. Carries(t, ends)'
      BY <1>1, <1>4, <1>10, <2>1, <3>1 DEF Carries
    <3>3. Count(decode_state', decode_nonce') = count + 1
      BY <1>10, <2>1 DEF Count
    <3>4. InOrder'
      BY <1>1, <1>2, <2>2, <3>1, <3>2, <3>3 DEF InOrder, Transmits
    <3>5. TypeOK' /\ InStage' /\ Waiting'
      BY <1>1, <1>2, <1>10, <2>2, <3>1 DEF ConnectionInv, TypeOK, InStage, Waiting, Stages, Framed
    <3>6. Keyed' /\ Ends'
      BY <1>1, <1>2, <1>7, <1>10, <2>2 DEF ConnectionInv, Keyed, Ends
    <3> QED
      BY <3>4, <3>5, <3>6 DEF ConnectionInv
  <2>3. CASE stage = "up" /\ stage' = "up" /\ received' = Append(received, c.item)
    BY <1>2, <1>6, <2>1, <2>2, <2>3, NextPacket
  <2>4. CASE stage = "welcome" /\ stage' = "up" /\ received' = <<c.item>>
    <3>1. count = 0 /\ received = <<>>
      BY <1>2, <2>4, SubSeqEmpty DEF Transmits
    <3>2. received' = Append(received, c.item)
      BY <2>4, <3>1
    <3> QED
      BY <1>2, <1>6, <2>1, <2>2, <2>4, <3>2, NextPacket
  <2>5. CASE stage = "welcome" /\ c.item.cmd # "welcome" /\ stage' = "panicked" /\ received' = received
    <3>1. count = 0
      BY <1>2, <2>5 DEF Transmits
    <3>2. sent # <<>> /\ Head(sent) = sent[1]
      BY <1>2, <2>1
    <3>3. Head(sent).cmd # "welcome"
      BY <2>1, <2>5, <3>1, <3>2
    <3>4. TypeOK' /\ InStage' /\ InOrder' /\ Waiting'
      BY <1>1, <1>2, <1>10, <2>5
         DEF ConnectionInv, TypeOK, InStage, InOrder, Waiting, Stages, Framed, Over
    <3>5. Keyed'
      BY <1>1, <1>2, <1>7, <2>5 DEF ConnectionInv, Keyed
    <3>6. Ends'
      BY <1>1, <1>7, <1>10, <2>5, <3>2, <3>3 DEF ConnectionInv, Ends
    <3> QED
      BY <3>4, <3>5, <3>6 DEF ConnectionInv
  <2> QED
    BY <1>10, <2>3, <2>4, <2>5 DEF HandOver
<1>11. c.item # Garbage
  <2>1. count + 1 \in 1 .. Len(sent) => sent[count + 1] # Garbage
    BY <1>2, PacketTypes, NoPackets
  <2> QED
    BY <1>5, <2>1, NoPackets DEF DecodesWell
<1>12. eof => closed
  BY DEF ConnectionInv, Ends
<1> QED
  BY <1>8, <1>9, <1>10, <1>11, <1>12 DEF PollBuffer, decoder, Over

LEMMA InvPollSocket ==
  ASSUME ConnectionInv, NEW k \in 1 .. Len(down), PollSocket(k)
  PROVE  ConnectionInv'
<1>1. /\ stage \in Framed /\ ~ readable /\ stage' = stage
      /\ buffer' = buffer \o SubSeq(down, 1, k) /\ down' = SubSeq(down, k + 1, Len(down))
      /\ readable' = TRUE /\ UNCHANGED <<decode_state, decode_nonce, eof>>
      /\ UNCHANGED <<address, socket, unwritten, accumulator, start, wanted, keys>>
      /\ UNCHANGED <<encode_nonce, uplink, received, response, sent, heard, closed, broken>>
  BY DEF PollSocket, handshake, encoder, accesspoint
<1>2. /\ response # None /\ Transmits /\ stage \notin Over /\ stage \notin Unread /\ keys # <<>>
      /\ sent \in Seq(Packets) /\ socket = "open"
  BY <1>1, FramedCarries
<1>3. PICK t, ends : Carries(t, ends)
  BY <1>2 DEF Transmits
<1>4. /\ IsTranscript(sent, t, ends)
      /\ Placed(sent, t, ends, decode_state, decode_nonce, buffer, down)
  BY <1>1, <1>3 DEF Carries
<1>5. ASSUME NEW p, Follows(t, p, buffer, down)
      PROVE  Follows(t, p, buffer', down')
  <2>1. Len(down) \in Nat
    BY <1>5, ByteTypes DEF Follows
  <2>2. k \in Nat /\ k <= Len(down)
    BY <2>1
  <2> QED
    BY <1>1, <1>5, <2>2, FollowsMove
<1>6. Placed(sent, t, ends, decode_state, decode_nonce, buffer', down')
  BY <1>4, <1>5 DEF Placed
<1>7. Carries(t, ends)'
  BY <1>1, <1>4, <1>6 DEF Carries
<1>8. InOrder'
  BY <1>1, <1>2, <1>7 DEF InOrder, Transmits
<1>9. TypeOK' /\ InStage' /\ Waiting'
  BY <1>1, <1>2 DEF ConnectionInv, TypeOK, InStage, Waiting
<1>10. Keyed' /\ Ends'
  BY <1>1 DEF ConnectionInv, Keyed, Ends, LocalKeys, ChallengeKey, RemoteKeys
<1> QED
  BY <1>8, <1>9, <1>10 DEF ConnectionInv

LEMMA InvReadEnd ==
  ASSUME ConnectionInv, ReadEnd
  PROVE  ConnectionInv'
<1>1. /\ closed /\ UNCHANGED <<decode_state, decode_nonce, buffer, down>>
      /\ UNCHANGED <<address, socket, unwritten, accumulator, start, wanted, keys>>
      /\ UNCHANGED <<encode_nonce, uplink, received, response, sent, heard, closed, broken>>
  BY DEF ReadEnd, handshake, encoder, accesspoint
<1>2. CASE stage \in Reading /\ stage' = "failed" /\ UNCHANGED <<readable, eof>>
  <2>1. stage' \in Over /\ stage' \notin Framed /\ stage' # "panicked"
        /\ stage \notin Over /\ stage \notin Framed
    BY <1>2 DEF Over, Framed, Reading
  <2>2. TypeOK' /\ InStage' /\ InOrder' /\ Waiting'
    BY <1>1, <1>2, <2>1 DEF ConnectionInv, TypeOK, InStage, InOrder, Waiting, Stages, Over
  <2>3. Keyed' /\ Ends'
    BY <1>1, <1>2, <2>1
       DEF ConnectionInv, Keyed, Ends, LocalKeys, ChallengeKey, RemoteKeys, Read
  <2> QED
    BY <2>2, <2>3 DEF ConnectionInv
<1>3. CASE stage \in Framed /\ readable' = TRUE /\ eof' = TRUE /\ stage' = stage
  <2>1. response # None /\ Transmits /\ stage \notin Over
    BY <1>3, FramedCarries
  <2>2. TypeOK' /\ InStage' /\ Waiting'
    BY <1>1, <1>3 DEF ConnectionInv, TypeOK, InStage, Waiting
  <2>3. InOrder'
    BY <1>1, <1>3, <2>1 DEF InOrder, Transmits, Carries
  <2>4. Keyed' /\ Ends'
    BY <1>1, <1>3 DEF ConnectionInv, Keyed, Ends, LocalKeys, ChallengeKey, RemoteKeys
  <2> QED
    BY <2>2, <2>3, <2>4 DEF ConnectionInv
<1> QED
  BY <1>2, <1>3 DEF ReadEnd

LEMMA InvRespond ==
  ASSUME ConnectionInv, NEW kind \in Responses, Respond(kind)
  PROVE  ConnectionInv'
<1>1. /\ socket = "open" /\ ~ closed /\ response = None /\ response' = kind
      /\ stage \notin {"client_hello"} \cup Over /\ down' = down \o APResponse
      /\ UNCHANGED <<address, socket, stage, unwritten, accumulator, start, wanted, keys>>
      /\ UNCHANGED <<decode_state, decode_nonce, buffer, readable, eof>>
      /\ UNCHANGED <<encode_nonce, uplink, received, sent, heard, closed, broken>>
  BY DEF Respond, Online, handshake, decoder, encoder
<1>2. kind \in {"good", "refusal", "garbled", "short"} /\ kind # None /\ socket # None
  BY <1>1, ConnectionAssumption
<1>3. Waits
  BY <1>1 DEF ConnectionInv, InOrder
<1>4. /\ stage = "response_header" /\ down = <<>>
      /\ accumulator = ClientHello /\ start = HELLO_SIZE /\ wanted = 4
  BY <1>1, <1>2, <1>3 DEF ConnectionInv, InStage, Waits, Unread
<1>5. stage \notin Framed /\ stage \notin Over /\ stage \notin Unread /\ stage \notin Read
  BY <1>4 DEF Framed, Over, Unread, Read
<1>6. sent = <<>> /\ received = <<>> /\ uplink = <<>>
  BY <1>5 DEF ConnectionInv, InStage
<1>7. down' = APResponse
  <2>1. APResponse \in Seq(Byte)
    BY FirstTranscript
  <2> QED
    BY <1>1, <1>4, <2>1, ConcatEmptySeq
<1>8. PICK ends : IsTranscript(<<>>, ClientHello \o APResponse, ends)
  BY FirstTranscript
<1>9. Carries(ClientHello \o APResponse, ends)'
  <2>1. Follows(ClientHello \o APResponse, 0, accumulator', down')
    BY <1>1, <1>4, <1>7, FirstTranscript
  <2>2. IsTranscript(sent', ClientHello \o APResponse, ends)
    BY <1>1, <1>6, <1>8
  <2> QED
    BY <1>1, <1>5, <2>1, <2>2 DEF Carries
<1>10. Accumulates'
  <2>1. Len(accumulator) = HELLO_SIZE
    BY <1>4, FirstTranscript
  <2>2. wanted' \in 0 .. 4 /\ Len(accumulator') = HELLO_SIZE + 4 - wanted'
    BY <1>1, <1>4, <2>1 DEF HELLO_SIZE
  <2> QED
    BY <1>1, <1>4, <1>5, <2>2 DEF Accumulates
<1>11. InOrder'
  BY <1>1, <1>2, <1>4, <1>5, <1>9, <1>10 DEF InOrder, Transmits
<1>12. TypeOK' /\ InStage' /\ Waiting'
  BY <1>1, <1>2 DEF ConnectionInv, TypeOK, InStage, Waiting
<1>13. Keyed'
  BY <1>1, <1>2 DEF ConnectionInv, Keyed, LocalKeys, ChallengeKey
<1>14. Ends'
  BY <1>1, <1>4 DEF ConnectionInv, Ends, LocalKeys, ChallengeKey, RemoteKeys
<1> QED
  BY <1>11, <1>12, <1>13, <1>14 DEF ConnectionInv

LEMMA InvHear ==
  ASSUME ConnectionInv, Hear
  PROVE  ConnectionInv'
<1>1. /\ socket = "open" /\ ~ closed /\ heard < Len(uplink)
      /\ UNCHANGED <<address, socket, stage, unwritten, accumulator, start, wanted, keys>>
      /\ UNCHANGED <<decode_state, decode_nonce, buffer, readable, eof>>
      /\ UNCHANGED <<encode_nonce, uplink, received, down, response, sent, broken>>
  BY DEF Hear, Online, handshake, decoder, encoder
<1>2. heard \in 0 .. Len(uplink) /\ Len(uplink) \in Nat
  BY DEF ConnectionInv, TypeOK
<1>3. /\ uplink # <<>> /\ keys = LocalKeys
      /\ uplink[heard + 1].nonce = heard /\ uplink[heard + 1].length = uplink[heard + 1].size
  <2>1. uplink # <<>> /\ heard + 1 \in 1 .. Len(uplink) /\ (heard + 1) - 1 = heard
    BY <1>1, <1>2
  <2> QED
    BY <2>1 DEF ConnectionInv, Keyed
<1>4. \/ heard' = heard + 1 /\ closed' = closed
      \/ /\ keys # RemoteKeys \/ response = "refusal"
         /\ closed' = TRUE /\ heard' = heard
  BY <1>3 DEF Hear
<1>5. TypeOK' /\ InStage' /\ Waiting'
  <2>1. closed' \in BOOLEAN /\ heard' \in 0 .. Len(uplink')
    <3>1. closed \in BOOLEAN
      BY DEF ConnectionInv, TypeOK
    <3>2. closed' \in BOOLEAN
      BY <1>4, <3>1, Zenon
    <3>3. heard' = heard \/ heard' = heard + 1
      BY <1>4
    <3>4. heard' \in 0 .. Len(uplink')
      BY <1>1, <1>2, <3>3
    <3> QED
      BY <3>2, <3>4
  <2>2. TypeOK'
    BY <1>1, <2>1 DEF ConnectionInv, TypeOK
  <2> QED
    BY <1>1, <2>2 DEF ConnectionInv, InStage, Waiting
<1>6. InOrder'
  BY <1>1 DEF ConnectionInv, InOrder, Waits, Transmits, Carries, Accumulates
<1>7. Keyed'
  BY <1>1 DEF ConnectionInv, Keyed, LocalKeys, ChallengeKey
<1>8. Ends'
  <2>1. LocalKeys' = LocalKeys /\ RemoteKeys' = RemoteKeys
    BY <1>1 DEF LocalKeys, ChallengeKey, RemoteKeys
  <2> QED
    BY <1>1, <1>3, <1>4, <2>1 DEF ConnectionInv, Ends
<1> QED
  BY <1>5, <1>6, <1>7, <1>8 DEF ConnectionInv

\* The decoder keeps its place when more is sent.
LEMMA PlacedSend ==
  ASSUME NEW packets \in Seq(Packets), NEW t, NEW ends, IsTranscript(packets, t, ends),
         NEW state, NEW nonce, NEW rest, NEW coming,
         Placed(packets, t, ends, state, nonce, rest, coming),
         NEW packet \in Packets, NEW x \in Seq(Byte), NEW e, SameEnds(e, ends, Len(packets))
  PROVE  Placed(Append(packets, packet), t \o x, e, state, nonce, rest, coming \o x)
<1> PICK more : more = Append(packets, packet)
  OBVIOUS
<1>1. /\ Len(more) = Len(packets) + 1 /\ \A n \in 1 .. Len(packets) : more[n] = packets[n]
      /\ Len(packets) \in Nat
  BY AppendedPackets, PacketTypes
<1>2. t \in Seq(Byte)
  BY DEF IsTranscript
<1>3. nonce \in 0 .. Len(packets)
  BY PlacedCount
<1>4. e[nonce] = ends[nonce] /\ nonce \in 0 .. Len(more)
  BY <1>1, <1>3 DEF SameEnds
<1>5. CASE state = Header /\ Follows(t, ends[nonce], rest, coming)
  <2>1. Follows(t \o x, e[nonce], rest, coming \o x)
    BY <1>2, <1>4, <1>5, FollowsSend
  <2> QED
    BY <1>4, <1>5, <2>1 DEF Placed
<1>6. CASE /\ nonce \in 1 .. Len(packets) /\ state = Payload(packets[nonce].size)
           /\ Follows(t, Begin(ends, nonce) + HEADER_SIZE, rest, coming)
  <2>1. nonce - 1 \in 0 .. Len(packets) /\ nonce # 0
    BY <1>1, <1>6
  <2>2. Begin(e, nonce) = Begin(ends, nonce)
    BY <2>1 DEF Begin, SameEnds
  <2>3. Follows(t \o x, Begin(e, nonce) + HEADER_SIZE, rest, coming \o x)
    BY <1>2, <1>6, <2>2, FollowsSend
  <2>4. nonce \in 1 .. Len(more) /\ state = Payload(more[nonce].size)
    BY <1>1, <1>6
  <2> QED
    BY <2>3, <2>4 DEF Placed
<1> QED
  BY <1>5, <1>6 DEF Placed

LEMMA InvSend ==
  ASSUME ConnectionInv, NEW cmd \in FirstCmds \cup {"data"}, NEW size \in Sizes, Send(cmd, size)
  PROVE  ConnectionInv'
<1> PICK packet : packet = [cmd |-> cmd, size |-> size]
  OBVIOUS
<1> PICK x : x = Bytes(Len(sent) + 1, HEADER_SIZE + size + MAC_SIZE)
  OBVIOUS
<1>1. packet \in Packets /\ packet.size = size
  BY DEF Packets
<1>2. /\ socket = "open" /\ ~ closed /\ heard > 0 /\ sent' = Append(sent, packet)
      /\ UNCHANGED <<address, socket, stage, unwritten, accumulator, start, wanted, keys>>
      /\ UNCHANGED <<decode_state, decode_nonce, buffer, readable, eof>>
      /\ UNCHANGED <<encode_nonce, uplink, received, response, heard, closed, broken>>
  BY DEF Send, Online, handshake, decoder, encoder
<1>3. sent \in Seq(Packets) /\ sent' \in Seq(Packets) /\ Len(sent') = Len(sent) + 1
      /\ sent' # <<>> /\ (sent # <<>> => Head(sent') = Head(sent)) /\ Len(sent) \in Nat
  <2>1. sent \in Seq(Packets)
    BY DEF ConnectionInv, TypeOK
  <2> QED
    BY <1>1, <1>2, <2>1, AppendedPackets
<1>4. down' = down \o x
  BY <1>2, <1>3 DEF Send
<1>5. HEADER_SIZE + size + MAC_SIZE \in Nat /\ x \in Seq(Byte)
  <2>1. HEADER_SIZE + size + MAC_SIZE \in Nat /\ Len(sent) + 1 \in Int
    BY <1>1, <1>3, SizeTypes
  <2> QED
    BY <2>1, BytesAre
<1>6. uplink # <<>> /\ response # None
  <2>1. heard \in 0 .. Len(uplink) /\ uplink # <<>>
    BY <1>2 DEF ConnectionInv, TypeOK
  <2> QED
    BY <2>1 DEF ConnectionInv, Keyed
<1>7. InOrder'
  <2> SUFFICES ASSUME stage \notin Over
               PROVE  Transmits'
    BY <1>2, <1>6 DEF InOrder
  <2>1. stage \in Framed
    BY <1>6 DEF ConnectionInv, InStage
  <2>2. Transmits /\ stage \notin Unread /\ received = SubSeq(sent, 1, Count(decode_state, decode_nonce))
    BY <2>1, FramedCarries
  <2>3. PICK t, ends : Carries(t, ends)
    BY <2>2 DEF Transmits
  <2>4. /\ IsTranscript(sent, t, ends)
        /\ Placed(sent, t, ends, decode_state, decode_nonce, buffer, down)
    BY <2>1, <2>3 DEF Carries
  <2>5. PICK e : IsTranscript(Append(sent, packet),
                     t \o Bytes(Len(sent) + 1, HEADER_SIZE + packet.size + MAC_SIZE), e)
                 /\ SameEnds(e, ends, Len(sent))
    BY <1>1, <1>3, <2>4, TranscriptGrows
  <2>6. IsTranscript(sent', t \o x, e)
    BY <1>1, <1>2, <2>5
  <2>7. Placed(sent', t \o x, e, decode_state, decode_nonce, buffer, down \o x)
    BY <1>1, <1>2, <1>3, <1>5, <2>4, <2>5, PlacedSend
  <2>8. Carries(t \o x, e)'
    BY <1>2, <1>4, <2>1, <2>6, <2>7 DEF Carries
  <2>9. received' = SubSeq(sent', 1, Count(decode_state', decode_nonce'))
    <3> PICK count : count = Count(decode_state, decode_nonce)
      OBVIOUS
    <3>1. count \in 0 .. Len(sent) /\ count \in 0 .. Len(sent')
      BY <1>3, <2>4, PlacedCount
    <3> PICK s : s = SubSeq(sent, 1, count)
      OBVIOUS
    <3> PICK r : r = SubSeq(sent', 1, count)
      OBVIOUS
    <3>2. s \in Seq(Packets) /\ Len(s) = count /\ \A i \in 1 .. count : s[i] = sent[i]
      BY <1>3, <3>1, FirstPackets
    <3>3. r \in Seq(Packets) /\ Len(r) = count /\ \A i \in 1 .. count : r[i] = sent'[i]
      BY <1>3, <3>1, FirstPackets
    <3>4. \A i \in 1 .. count : sent'[i] = sent[i]
      BY <1>1, <1>2, <1>3, <3>1, AppendedPackets
    <3>5. s = r
      BY <3>2, <3>3, <3>4, SeqEqual
    <3> QED
      BY <1>2, <2>2, <3>5
  <2> QED
    BY <1>2, <2>1, <2>2, <2>8, <2>9 DEF Transmits
<1>8. TypeOK' /\ Waiting'
  BY <1>2, <1>3 DEF ConnectionInv, TypeOK, Waiting
<1>9. InStage'
  BY <1>2, <1>6 DEF ConnectionInv, InStage
<1>10. Keyed'
  BY <1>2 DEF ConnectionInv, Keyed, LocalKeys, ChallengeKey
<1>11. Ends'
  BY <1>2, <1>3 DEF ConnectionInv, Ends, LocalKeys, ChallengeKey, RemoteKeys
<1> QED
  BY <1>7, <1>8, <1>9, <1>10, <1>11 DEF ConnectionInv

LEMMA InvClose ==
  ASSUME ConnectionInv, Close
  PROVE  ConnectionInv'
<1>1. /\ socket = "open" /\ MayBreak /\ closed' = TRUE /\ broken' = TRUE
      /\ UNCHANGED <<address, socket, stage, unwritten, accumulator, start, wanted, keys>>
      /\ UNCHANGED <<decode_state, decode_nonce, buffer, readable, eof>>
      /\ UNCHANGED <<encode_nonce, uplink, received, down, response, sent, heard>>
  BY DEF Close, Online, handshake, decoder, encoder
<1>2. TypeOK' /\ InStage' /\ Waiting'
  BY <1>1 DEF ConnectionInv, TypeOK, InStage, Waiting
<1>3. InOrder'
  BY <1>1 DEF ConnectionInv, InOrder, Waits, Transmits, Carries, Accumulates
<1>4. Keyed' /\ Ends'
  BY <1>1 DEF ConnectionInv, Keyed, Ends, LocalKeys, ChallengeKey
<1> QED
  BY <1>2, <1>3, <1>4 DEF ConnectionInv

LEMMA InvReset ==
  ASSUME ConnectionInv, Reset
  PROVE  ConnectionInv'
<1>1. /\ socket = "open" /\ MayBreak /\ closed' = TRUE /\ broken' = TRUE /\ stage' = "failed"
      /\ UNCHANGED <<address, socket, unwritten, accumulator, start, wanted, keys>>
      /\ UNCHANGED <<decode_state, decode_nonce, buffer, readable, eof>>
      /\ UNCHANGED <<encode_nonce, uplink, received, down, response, sent, heard>>
  BY DEF Reset, handshake, decoder, encoder
<1>2. TypeOK' /\ InStage' /\ Waiting' /\ InOrder'
  BY <1>1 DEF ConnectionInv, TypeOK, InStage, Waiting, InOrder, Stages, Over, Framed
<1>3. Keyed' /\ Ends'
  BY <1>1 DEF ConnectionInv, Keyed, Ends, LocalKeys, ChallengeKey, Read, Framed
<1> QED
  BY <1>2, <1>3 DEF ConnectionInv

LEMMA InvStutter ==
  ASSUME ConnectionInv, UNCHANGED vars
  PROVE  ConnectionInv'
<1>1. /\ UNCHANGED <<address, socket, stage, unwritten, accumulator, start, wanted, keys>>
      /\ UNCHANGED <<decode_state, decode_nonce, buffer, readable, eof>>
      /\ UNCHANGED <<encode_nonce, uplink, received, down, response, sent, heard, closed, broken>>
  BY DEF vars, handshake, decoder, encoder, accesspoint
<1>2. TypeOK' /\ InStage' /\ Waiting'
  BY <1>1 DEF ConnectionInv, TypeOK, InStage, Waiting
<1>3. InOrder'
  BY <1>1 DEF ConnectionInv, InOrder, Waits, Transmits, Carries, Accumulates
<1>4. Keyed' /\ Ends'
  BY <1>1 DEF ConnectionInv, Keyed, Ends, LocalKeys, ChallengeKey, RemoteKeys
<1> QED
  BY <1>2, <1>3, <1>4 DEF ConnectionInv

\* ConnectionInv is invariant, for packets of any sizes, in any pieces, with
\* whatever failures (all of the modules of core/src/connection).
THEOREM ConnectionInvHolds == Spec => []ConnectionInv
<1>1. ASSUME ConnectionInv, Client
      PROVE  ConnectionInv'
  <2>1. CASE \E k \in 1 .. unwritten : WriteClientHello(k) \/ WriteClientResponse(k)
    BY <1>1, <2>1, InvWriteClientHello, InvWriteClientResponse
  <2>2. CASE \E k \in 1 .. Min({wanted, Len(down)}) : ReadExact(k)
    <3>1. PICK k \in 1 .. Lesser(wanted, Len(down)) : ReadExact(k)
      BY <2>2 DEF Lesser
    <3> QED
      BY <1>1, <3>1, InvReadExact
  <2>3. CASE ReadHeader \/ ReadBody \/ PollBuffer \/ ReadEnd
    BY <1>1, <2>3, InvReadHeader, InvReadBody, InvPollBuffer, InvReadEnd
  <2>4. CASE \E size \in Sizes : SendLogin(size)
    BY <1>1, <2>4, InvSendLogin
  <2>5. CASE \E k \in 1 .. Len(down) : PollSocket(k)
    BY <1>1, <2>5, InvPollSocket
  <2> QED
    BY <1>1, <2>1, <2>2, <2>3, <2>4, <2>5 DEF Client
<1>2. ASSUME ConnectionInv, [Next]_vars
      PROVE  ConnectionInv'
  <2>1. CASE Client
    BY <1>1, <1>2, <2>1
  <2>2. CASE \E resolution \in Resolutions : Resolve(resolution)
    BY <1>2, <2>2, InvResolve
  <2>3. CASE \E outcome \in Sockets : Connect(outcome)
    BY <1>2, <2>3, InvConnect
  <2>4. CASE \E size \in Sizes : SendPacket(size)
    BY <1>2, <2>4, InvSendPacket
  <2>5. CASE \E kind \in Responses : Respond(kind)
    BY <1>2, <2>5, InvRespond
  <2>6. CASE \E cmd \in FirstCmds \cup {"data"}, size \in Sizes : Send(cmd, size)
    BY <1>2, <2>6, InvSend
  <2>7. CASE Hear \/ Close \/ Reset
    BY <1>2, <2>7, InvHear, InvClose, InvReset
  <2>8. CASE Done \/ UNCHANGED vars
    BY <1>2, <2>8, InvStutter DEF Done
  <2> QED
    BY <1>2, <2>1, <2>2, <2>3, <2>4, <2>5, <2>6, <2>7, <2>8 DEF Next
<1> QED
  BY <1>2, InvInit, PTL DEF Spec

-----------------------------------------------------------------------------
\* What follows.

LEMMA Beyond == \A b, h, l, s, x, e \in Nat : l < s + x /\ e = b + (h + s + x) => (b + h) + l < e
OBVIOUS

LEMMA LackingStalls == ConnectionInv => NoStall
<1> SUFFICES ASSUME ConnectionInv, stage \in Framed, ~ readable,
                    NEW n \in Len(received) + 1 .. Len(sent)
             PROVE  \E i \in DOMAIN down : down[i] = <<n, PacketSize(n)>>
  BY DEF NoStall
<1> PICK count : count = Count(decode_state, decode_nonce)
  OBVIOUS
<1>1. Transmits /\ sent \in Seq(Packets) /\ received = SubSeq(sent, 1, count)
  BY FramedCarries
<1>2. PICK t, ends : Carries(t, ends)
  BY <1>1 DEF Transmits
<1>3. /\ IsTranscript(sent, t, ends)
      /\ Placed(sent, t, ends, decode_state, decode_nonce, buffer, down)
  BY <1>2 DEF Carries
<1>4. count \in 0 .. Len(sent) /\ Len(sent) \in Nat /\ Len(received) = count
  BY <1>1, <1>3, PlacedCount, FirstPackets, PacketTypes
<1>5. n \in Nat /\ n \in count + 1 .. Len(sent) /\ n \in 0 .. Len(sent) /\ n # 0
  BY <1>4
<1>6. /\ SizeOf(sent, n) = PacketSize(n) /\ PacketSize(n) \in Nat /\ PacketSize(n) > 0
      /\ ends[n] = Begin(ends, n) + SizeOf(sent, n) /\ Begin(ends, n) \in Nat
      /\ t[Begin(ends, n) + SizeOf(sent, n)] = <<n, SizeOf(sent, n)>>
  <2>1. SizeOf(sent, n) = PacketSize(n)
    BY <1>5 DEF SizeOf, PacketSize
  <2>2. SizeOf(sent, n) \in Nat \ {0}
    <3>1. sent[n] \in Packets
      BY <1>1, <1>4, <1>5, PacketTypes
    <3> QED
      BY <2>1, <3>1, SizeTypes DEF PacketSize
  <2>3. Begin(ends, n) \in Nat
    BY <1>1, <1>3, <1>5, EndTypes
  <2>4. /\ ends[n] = Begin(ends, n) + SizeOf(sent, n)
        /\ \A j \in 1 .. SizeOf(sent, n) : t[Begin(ends, n) + j] = <<n, j>>
    BY <1>3, <1>5 DEF IsTranscript
  <2>5. SizeOf(sent, n) \in 1 .. SizeOf(sent, n)
    BY <2>2
  <2> QED
    BY <2>1, <2>2, <2>3, <2>4, <2>5
<1>7. t[ends[n]] = <<n, PacketSize(n)>> /\ ends[n] \in Nat
  BY <1>1, <1>3, <1>5, <1>6, EndTypes
\* What is awaited is beyond what is buffered.
<1>8. PICK p : Follows(t, p, buffer, down) /\ p + Len(buffer) < ends[n]
  <2>1. Lacks(decode_state, buffer)
    BY DEF ConnectionInv, Waiting
  <2>2. CASE decode_state = Header /\ decode_nonce \in 0 .. Len(sent)
             /\ Follows(t, ends[decode_nonce], buffer, down)
    <3>1. buffer \in Seq(Byte) /\ Len(buffer) \in Nat /\ Len(buffer) < HEADER_SIZE
      BY <2>1, <2>2, ByteTypes DEF Follows, Lacks
    <3>2. count = decode_nonce
      BY <2>2 DEF Count
    <3>9. PICK m : m = count + 1
      OBVIOUS
    <3>3. m \in 1 .. Len(sent) /\ m <= n /\ m \in 0 .. Len(sent) /\ m - 1 = decode_nonce /\ m # 0
      BY <1>4, <1>5, <3>2, <3>9
    <3>4. ends[m] <= ends[n]
      BY <1>3, <1>5, <3>3 DEF IsTranscript
    <3>5. ends[m] = ends[decode_nonce] + SizeOf(sent, m)
      BY <1>3, <3>3 DEF IsTranscript, Begin
    <3>6. sent[m].size \in Nat /\ SizeOf(sent, m) = HEADER_SIZE + sent[m].size + MAC_SIZE
      BY <1>1, <3>3, PacketTypes DEF SizeOf
    <3>7. ends[decode_nonce] \in Nat /\ ends[m] \in Nat /\ ends[n] \in Nat
      BY <1>1, <1>3, <1>5, <2>2, <3>3, EndTypes
    <3>8. ends[decode_nonce] + Len(buffer) < ends[n]
      <4>1. HEADER_SIZE \in Nat /\ MAC_SIZE \in Nat
        BY DEF HEADER_SIZE, MAC_SIZE
      <4>2. ends[m] >= ends[decode_nonce] + HEADER_SIZE
        BY <3>5, <3>6, <3>7, <4>1
      <4> QED
        BY <3>1, <3>4, <3>7, <4>1, <4>2
    <3> QED
      BY <2>2, <3>8
  <2>3. CASE decode_nonce \in 1 .. Len(sent) /\ decode_state = Payload(sent[decode_nonce].size)
             /\ Follows(t, Begin(ends, decode_nonce) + HEADER_SIZE, buffer, down)
    <3>7. PICK m : m = decode_nonce
      OBVIOUS
    <3>1. m \in 1 .. Len(sent) /\ m \in 0 .. Len(sent) /\ m # 0 /\ count = m - 1 /\ m <= n
      <4>1. count = m - 1
        BY <2>3, <3>7, StatesDiffer DEF Count
      <4> QED
        BY <1>4, <1>5, <2>3, <3>7, <4>1
    <3>2. sent[m].size \in Nat /\ SizeOf(sent, m) = HEADER_SIZE + sent[m].size + MAC_SIZE
      BY <1>1, <3>1, PacketTypes DEF SizeOf
    <3>3. buffer \in Seq(Byte) /\ Len(buffer) \in Nat /\ Len(buffer) < sent[m].size + MAC_SIZE
      <4>1. decode_state # Header /\ decode_state.size = sent[m].size
        BY <2>3, <3>7, StatesDiffer DEF Payload
      <4> QED
        BY <2>1, <2>3, <4>1, ByteTypes DEF Follows, Lacks
    <3>4. ends[m] <= ends[n] /\ ends[m] = Begin(ends, m) + SizeOf(sent, m)
      BY <1>3, <1>5, <3>1 DEF IsTranscript
    <3>5. Begin(ends, m) \in Nat /\ ends[m] \in Nat /\ ends[n] \in Nat
      BY <1>1, <1>3, <1>5, <3>1, EndTypes
    <3>6. (Begin(ends, m) + HEADER_SIZE) + Len(buffer) < ends[n]
      <4>1. HEADER_SIZE \in Nat /\ MAC_SIZE \in Nat
        BY DEF HEADER_SIZE, MAC_SIZE
      <4>2. PICK b, e, l, size :
              b = Begin(ends, m) /\ e = ends[m] /\ l = Len(buffer) /\ size = sent[m].size
        OBVIOUS
      <4>3. /\ b \in Nat /\ size \in Nat /\ l \in Nat /\ e \in Nat
            /\ e = b + (HEADER_SIZE + size + MAC_SIZE) /\ l < size + MAC_SIZE
        BY <3>2, <3>3, <3>4, <3>5, <4>2
      <4>4. (b + HEADER_SIZE) + l < e
        BY <4>1, <4>3, Beyond
      <4>5. (b + HEADER_SIZE) + l < ends[n]
        BY <3>4, <3>5, <4>1, <4>2, <4>3, <4>4
      <4> QED
        BY <4>2, <4>5
    <3> QED
      BY <2>3, <3>6, <3>7
  <2> QED
    BY <1>3, <2>2, <2>3 DEF Placed
<1>9. /\ p \in Nat /\ Len(buffer) \in Nat /\ Len(down) \in Nat /\ down \in Seq(Byte)
      /\ Len(t) = p + Len(buffer) + Len(down)
      /\ \A j \in 1 .. Len(down) : down[j] = t[p + Len(buffer) + j]
  BY <1>8, ByteTypes DEF Follows
<1>10. ends[n] <= Len(t)
  BY <1>3, <1>4, <1>5 DEF IsTranscript
<1> PICK i : i = ends[n] - (p + Len(buffer))
  OBVIOUS
<1>11. i \in 1 .. Len(down) /\ p + Len(buffer) + i = ends[n]
  BY <1>7, <1>8, <1>9, <1>10
<1>12. down[i] = <<n, PacketSize(n)>>
  BY <1>7, <1>9, <1>11
<1>13. DOMAIN down = 1 .. Len(down)
  BY <1>9, LenProperties
<1> QED
  BY <1>11, <1>12, <1>13

\* Framed::poll never goes to wait for the socket over a packet that it has
\* all of (codec.rs and tokio's framed.rs, with authenticate's into_future).
THEOREM NothingStalls == Spec => []NoStall
BY LackingStalls, ConnectionInvHolds, PTL

\* Both ends compute the same secret, whichever keys they drew, so they compute
\* keys from the same, if the access point did not refuse.
LEMMA BothComputeTheSame == response # "refusal" => LocalKeys = RemoteKeys
BY TheSecretsAgree, ConnectionAssumption DEF LocalKeys, ChallengeKey, RemoteKeys, ConnectionAssumption

\* The keys of the two ends are computed from the same secret and the same
\* bytes, the whole of both packets (handshake.rs, compute_keys), so that they
\* can read each other from the first sealed packet on.
THEOREM TheKeysAgree == Spec => []KeysAgree
<1>1. ConnectionInv => KeysAgree
  BY BothComputeTheSame DEF ConnectionInv, Keyed, KeysAgree
<1> QED
  BY <1>1, ConnectionInvHolds, PTL

\* The connection is lost only by the network or the access point.
THEOREM TheConnectionEndsForAReason == Spec => []EndsForAReason
<1>1. ConnectionInv => EndsForAReason
  BY BothComputeTheSame DEF ConnectionInv, Ends, EndsForAReason
<1> QED
  BY <1>1, ConnectionInvHolds, PTL

-----------------------------------------------------------------------------
\* The connection implements Link.

LEMMA LinkEnds ==
  ASSUME stage' \in Over, UNCHANGED <<sent, received>>
  PROVE  Transport!Next
<1>1. stage' # "up"
  BY DEF Over
<1> QED
  BY <1>1 DEF Transport!Next, Transport!End

\* A step that hands nothing over, sends nothing, and neither begins nor ends
\* the link, is none of the link.
LEMMA LinkStays ==
  ASSUME UNCHANGED <<sent, received>>,
         stage' = stage \/ (stage \notin {"up"} \cup Over /\ stage' \notin {"up"} \cup Over)
  PROVE  UNCHANGED Transport!vars
BY DEF Transport!vars

LEMMA LinkPollBuffer ==
  ASSUME ConnectionInv, PollBuffer
  PROVE  Transport!Next \/ UNCHANGED Transport!vars
<1> PICK c : c = Decoded
  OBVIOUS
<1> PICK count : count = Count(decode_state, decode_nonce)
  OBVIOUS
<1>1. stage \in Framed /\ readable /\ sent' = sent
  BY DEF PollBuffer, accesspoint
<1>2. /\ Transmits /\ stage \notin Over /\ sent \in Seq(Packets)
      /\ received = SubSeq(sent, 1, count)
  BY <1>1, FramedCarries
<1>3. PICK t, ends : Carries(t, ends)
  BY <1>2 DEF Transmits
<1>4. /\ IsTranscript(sent, t, ends)
      /\ Placed(sent, t, ends, decode_state, decode_nonce, buffer, down)
  BY <1>1, <1>3 DEF Carries
<1>5. DecodesWell(t, ends, count, c)
  BY <1>2, <1>4, DecoderDecodes
<1>6. count \in 0 .. Len(sent) /\ Len(received) = count /\ Len(sent) \in Nat
  BY <1>2, <1>4, PlacedCount, FirstPackets, PacketTypes
<1>7. CASE stage' \in Over /\ received' = received
  BY <1>1, <1>7, LinkEnds
<1>8. CASE stage' = stage /\ received' = received
  BY <1>1, <1>8, LinkStays
<1>9. CASE c.item \in Packets /\ HandOver(c.item)
  <2>1. c.item = sent[count + 1] /\ count + 1 \in 1 .. Len(sent)
    BY <1>5, <1>9, NoPackets DEF DecodesWell
  <2>2. CASE stage = "up" /\ stage' = "up" /\ received' = Append(received, c.item)
    <3>1. Len(received) < Len(sent) /\ received' = Append(received, sent[Len(received) + 1])
      BY <1>6, <2>1, <2>2
    <3>2. Transport!Take
      BY <1>1, <2>2, <3>1 DEF Transport!Take
    <3> QED
      BY <3>2 DEF Transport!Next
  <2>3. CASE stage = "welcome" /\ c.item.cmd = "welcome" /\ stage' = "up" /\ received' = <<c.item>>
    <3>1. count = 0
      BY <1>2, <2>3 DEF Transmits
    <3>2. sent # <<>> /\ Head(sent) = c.item
      BY <1>2, <2>1, <3>1
    <3>3. Transport!Login
      BY <1>1, <2>3, <3>2 DEF Transport!Login, Over
    <3> QED
      BY <3>3 DEF Transport!Next
  <2>4. CASE stage' = "panicked" /\ received' = received
    BY <1>7, <2>4 DEF Over
  <2> QED
    BY <1>9, <2>2, <2>3, <2>4 DEF HandOver
<1> QED
  BY <1>7, <1>8, <1>9 DEF PollBuffer, decoder, Over

LEMMA LinkSend ==
  ASSUME NEW cmd \in FirstCmds \cup {"data"}, NEW size \in Sizes, Send(cmd, size)
  PROVE  Transport!Next
<1> PICK packet : packet = [cmd |-> cmd, size |-> size]
  OBVIOUS
<1>1. packet \in Packets
  BY DEF Packets
<1>2. sent' = Append(sent, packet) /\ UNCHANGED <<stage, received>>
  BY DEF Send
<1>3. Transport!Send(packet)
  BY <1>2 DEF Transport!Send
<1> QED
  BY <1>1, <1>3 DEF Transport!Next

\* The packets of the access point reach the session in order, whole, each
\* once, and none before the welcome (connection/mod.rs, codec.rs).
THEOREM RefinesLink == Spec => ImplementsLink
<1>1. Init => Transport!Init
  BY DEF Init, Transport!Init, Over
<1>2. ASSUME ConnectionInv, Client
      PROVE  Transport!Next \/ UNCHANGED Transport!vars
  <2> DEFINE Quiet == UNCHANGED <<sent, received>>
  <2>1. CASE \E k \in 1 .. unwritten : WriteClientHello(k) \/ WriteClientResponse(k)
    <3>1. Quiet /\ stage \notin {"up"} \cup Over /\ stage' \notin {"up"} \cup Over
      BY <2>1 DEF WriteClientHello, WriteClientResponse, accesspoint, Over
    <3> QED
      BY <3>1, LinkStays
  <2>2. CASE \E k \in 1 .. Min({wanted, Len(down)}) : ReadExact(k)
    <3>1. Quiet /\ stage' = stage
      BY <2>2 DEF ReadExact, accesspoint
    <3> QED
      BY <3>1, LinkStays
  <2>3. CASE ReadHeader \/ ReadBody
    <3>1. Quiet /\ (stage' \in Over \/ (stage \notin {"up"} \cup Over /\ stage' \notin {"up"} \cup Over))
      BY <2>3 DEF ReadHeader, ReadBody, accesspoint, Over
    <3> QED
      BY <3>1, LinkStays, LinkEnds
  <2>4. CASE \E size \in Sizes : SendLogin(size)
    <3>1. Quiet /\ stage \notin {"up"} \cup Over /\ stage' \notin {"up"} \cup Over
      BY <2>4 DEF SendLogin, accesspoint, Over
    <3> QED
      BY <3>1, LinkStays
  <2>5. CASE PollBuffer
    BY <1>2, <2>5, LinkPollBuffer
  <2>6. CASE \E k \in 1 .. Len(down) : PollSocket(k)
    <3>1. Quiet /\ stage' = stage
      BY <2>6 DEF PollSocket, accesspoint
    <3> QED
      BY <3>1, LinkStays
  <2>7. CASE ReadEnd
    <3>1. Quiet /\ (stage' \in Over \/ stage' = stage)
      BY <2>7 DEF ReadEnd, accesspoint, Over
    <3> QED
      BY <3>1, LinkStays, LinkEnds
  <2> QED
    BY <1>2, <2>1, <2>2, <2>3, <2>4, <2>5, <2>6, <2>7 DEF Client
<1>3. ConnectionInv /\ [Next]_vars => [Transport!Next]_(Transport!vars)
  <2> SUFFICES ASSUME ConnectionInv, [Next]_vars
               PROVE  Transport!Next \/ UNCHANGED Transport!vars
    OBVIOUS
  <2> DEFINE Quiet == UNCHANGED <<sent, received>>
  <2>1. CASE Client
    BY <1>2, <2>1
  <2>2. CASE \E resolution \in Resolutions : Resolve(resolution)
    <3>1. Quiet /\ stage \notin {"up"} \cup Over /\ stage' \notin {"up"} \cup Over
      BY <2>2 DEF Resolve, accesspoint, Over
    <3> QED
      BY <3>1, LinkStays
  <2>3. CASE \E outcome \in Sockets : Connect(outcome)
    <3>1. PICK outcome \in Sockets : Connect(outcome)
      BY <2>3
    <3>2. outcome \in {"open", "refused", "unknown"}
      BY ConnectionAssumption
    <3>3. Quiet /\ (stage' \in Over \/ (stage \notin {"up"} \cup Over /\ stage' \notin {"up"} \cup Over))
      BY <3>1, <3>2 DEF Connect, accesspoint, Over
    <3> QED
      BY <3>3, LinkStays, LinkEnds
  <2>4. CASE \E cmd \in FirstCmds \cup {"data"}, size \in Sizes : Send(cmd, size)
    BY <2>4, LinkSend
  <2>5. CASE \/ \E size \in Sizes : SendPacket(size)
             \/ \E kind \in Responses : Respond(kind)
             \/ Hear \/ Close
    <3>1. Quiet /\ stage' = stage
      BY <2>5 DEF SendPacket, Respond, Hear, Close, accesspoint
    <3> QED
      BY <3>1, LinkStays
  <2>6. CASE Reset
    <3>1. Quiet /\ stage' \in Over
      BY <2>6 DEF Reset, Over
    <3> QED
      BY <3>1, LinkEnds
  <2>7. CASE Done \/ UNCHANGED vars
    <3>1. Quiet /\ stage' = stage
      BY <2>7 DEF Done, vars, accesspoint
    <3> QED
      BY <3>1, LinkStays
  <2> QED
    BY <2>1, <2>2, <2>3, <2>4, <2>5, <2>6, <2>7 DEF Next
<1> QED
  BY <1>1, <1>3, ConnectionInvHolds, PTL DEF Spec, ImplementsLink, Transport!Spec
=============================================================================
