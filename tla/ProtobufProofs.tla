---------------------------- MODULE ProtobufProofs ----------------------------
(***************************************************************************)
(* Proofs about module Protobuf, for any messages whose values are of the  *)
(* types of their fields, nested as deep as one likes, and for any of the  *)
(* elements that a newer schema may add.                                   *)
(*                                                                         *)
(* - Totals and concatenations of sequences, which Protobuf defines by     *)
(*   recursive functions, are what one expects.                            *)
(* - The tables of what comes of nested messages, NestedSize and the like, *)
(*   exist: a message is deeper than those nested in it, so a table can be *)
(*   made up to any depth (TableExists).                                   *)
(* - What is written of a message has the size computed of it (WrittenIs). *)
(* - What is written is a sequence of pieces, each with the values of a    *)
(*   field that are in its elements (TodoIs, PackedTodoExists).            *)
(* - The reader follows a plan: the pieces that are left of each of the    *)
(*   messages on its stack (Follows).  Each of its turns takes one piece,  *)
(*   opens a nested message, or closes it; or the piece is a bad one, and  *)
(*   that is why the message is garbled (TurnIsRight, EndIsRight).         *)
(***************************************************************************)
EXTENDS Protobuf, SequenceTheorems, FiniteSetTheorems, WellFoundedInduction, TLAPS

\* Every set of numbers that is not empty has a least one.
LEMMA LeastNumber ==
  ASSUME NEW T, T \subseteq Nat, T # {}
  PROVE  \E x \in T : \A y \in T : x <= y
<1> DEFINE Less == {ss \in Nat \X Nat : ss[1] < ss[2]}
<1>1. IsWellFoundedOn(Less, Nat)
  BY NatLessThanWellFounded DEF OpToRel
<1> HIDE DEF Less
<1>2. PICK x \in T : \A y \in T : ~ (<<y, x>> \in Less)
  BY <1>1, WFMin
<1>3. ASSUME NEW y \in T
      PROVE  x <= y
  <2>1. x \in Nat /\ y \in Nat /\ ~ (<<y, x>> \in Less)
    BY <1>2
  <2> QED
    BY <2>1 DEF Less
<1> QED
  BY <1>3

\* What holds of the empty sequence, and of one with an element more, holds of all.
LEMMA SequenceInduction ==
  ASSUME NEW S, NEW P, <<>> \in P,
         \A s \in Seq(S) : \A x \in S : s \in P => Append(s, x) \in P
  PROVE  Seq(S) \subseteq P
<1> DEFINE Bad == {n \in Nat : \E s \in Seq(S) : Len(s) = n /\ s \notin P}
<1>1. SUFFICES ASSUME NEW t \in Seq(S), t \notin P
               PROVE  FALSE
  OBVIOUS
<1>2. Len(t) \in Bad
  BY <1>1, LenProperties
<1>3. PICK n \in Bad : \A k \in Bad : n <= k
  BY <1>2, LeastNumber
<1>4. PICK s \in Seq(S) : Len(s) = n /\ s \notin P
  BY <1>3
<1>5. s # <<>>
  BY <1>4
<1>6. PICK r \in Seq(S), x \in S : s = Append(r, x)
  BY <1>5, SequenceEmptyOrAppend
<1>7. Len(r) \in Nat /\ Len(s) = Len(r) + 1
  BY <1>6, LenProperties, AppendProperties
<1>8. r \notin P
  BY <1>4, <1>6
<1>9. Len(r) \in Bad
  BY <1>7, <1>8
<1> QED
  BY <1>3, <1>4, <1>7, <1>9

Agree(s, t, from, n) == \A i \in from .. n : s[i] = t[i]

-----------------------------------------------------------------------------
(* Sums.                                                                   *)

\* The function in Total: in F[i] the first i numbers are added up.
IsTotal(F, s, n) == F = [i \in 0 .. n |-> IF i = 0 THEN 0 ELSE F[i - 1] + s[i]]

\* There is a table of the totals of any sequence's beginnings.
LEMMA TotalExists ==
  ASSUME NEW s, NEW n \in Nat
  PROVE  \E F : IsTotal(F, s, n)
<1> DEFINE None == {m \in Nat : ~ \E F : IsTotal(F, s, m)}
<1>1. SUFFICES ASSUME None # {}
               PROVE  FALSE
  OBVIOUS
<1>2. PICK m \in None : \A k \in None : m <= k
  BY <1>1, LeastNumber
<1>3. m \in Nat /\ ~ \E F : IsTotal(F, s, m)
  BY <1>2
<1>4. m # 0
  <2>1. ASSUME m = 0
        PROVE  FALSE
    <3> PICK F : F = [k \in 0 .. 0 |-> 0]
      OBVIOUS
    <3>1. IsTotal(F, s, 0)
      BY DEF IsTotal
    <3> QED
      BY <1>3, <2>1, <3>1
  <2> QED
    BY <2>1
<1>5. m - 1 \in Nat /\ ~ (m <= m - 1)
  BY <1>3, <1>4
<1>6. PICK G : IsTotal(G, s, m - 1)
  BY <1>2, <1>5
<1> PICK F : F = [k \in 0 .. m |-> IF k = m THEN G[m - 1] + s[m] ELSE G[k]]
  OBVIOUS
<1>7. ASSUME NEW k \in 0 .. m
      PROVE  F[k] = IF k = 0 THEN 0 ELSE F[k - 1] + s[k]
  <2>1. k # 0 => k - 1 \in 0 .. m /\ k - 1 # m /\ F[k - 1] = G[k - 1]
    BY <1>3
  <2>2. CASE k = m
    BY <1>4, <2>1, <2>2
  <2>3. CASE k # m
    <3>1. k \in 0 .. m - 1 /\ F[k] = G[k]
      BY <1>3, <2>3
    <3>2. G[k] = IF k = 0 THEN 0 ELSE G[k - 1] + s[k]
      BY <1>6, <3>1 DEF IsTotal
    <3> QED
      BY <2>1, <3>1, <3>2
  <2> QED
    BY <2>2, <2>3
<1>8. IsTotal(F, s, m)
  BY <1>7 DEF IsTotal
<1> QED
  BY <1>3, <1>8

\* Total is the last entry of that table.
LEMMA TotalIs ==
  ASSUME NEW s, Len(s) \in Nat
  PROVE  \E F : IsTotal(F, s, Len(s)) /\ Total(s) = F[Len(s)]
<1> DEFINE F == CHOOSE f : IsTotal(f, s, Len(s))
<1>1. IsTotal(F, s, Len(s))
  BY TotalExists
<1>2. Total(s) = F[Len(s)]
  BY DEF Total, IsTotal
<1> QED
  BY <1>1, <1>2

\* Sequences that begin alike have the same totals so far.
LEMMA TotalsAgree ==
  ASSUME NEW s, NEW t, NEW n \in Nat, NEW m \in Nat, n <= m, Agree(s, t, 1, n),
         NEW F, NEW G, IsTotal(F, s, n), IsTotal(G, t, m)
  PROVE  Agree(F, G, 0, n)
<1> DEFINE Bad == {i \in 0 .. n : F[i] # G[i]}
<1>1. SUFFICES ASSUME Bad # {}
               PROVE  FALSE
  BY DEF Agree
<1>a. Bad \subseteq Nat
  OBVIOUS
<1>2. PICK k \in Bad : \A i \in Bad : k <= i
  BY <1>1, <1>a, LeastNumber
<1>3. k \in 0 .. n /\ k \in 0 .. m /\ F[k] # G[k]
  BY <1>2
<1>4. F[k] = IF k = 0 THEN 0 ELSE F[k - 1] + s[k]
  BY <1>3 DEF IsTotal
<1>5. G[k] = IF k = 0 THEN 0 ELSE G[k - 1] + t[k]
  BY <1>3 DEF IsTotal
<1>6. k # 0 /\ k - 1 \in 0 .. n /\ k \in 1 .. n /\ ~ (k <= k - 1)
  BY <1>3, <1>4, <1>5
<1>7. F[k - 1] = G[k - 1] /\ s[k] = t[k]
  BY <1>2, <1>6 DEF Agree
<1> QED
  BY <1>3, <1>4, <1>5, <1>6, <1>7

\* Nothing adds up to 0.
LEMMA TotalOfNothing == Total(<<>>) = 0
<1>1. Len(<<>>) = 0
  OBVIOUS
<1>2. PICK F : IsTotal(F, <<>>, 0) /\ Total(<<>>) = F[0]
  BY <1>1, TotalIs
<1> QED
  BY <1>2 DEF IsTotal

\* One number more is added.
LEMMA TotalOfAppend ==
  ASSUME NEW S, NEW s \in Seq(S), NEW x \in S
  PROVE  Total(Append(s, x)) = Total(s) + x
<1> PICK t, n : t = Append(s, x) /\ n = Len(s)
  OBVIOUS
<1>1. n \in Nat /\ Len(t) = n + 1 /\ t[n + 1] = x /\ Agree(s, t, 1, n)
  BY LenProperties, AppendProperties DEF Agree
<1>2. PICK F : IsTotal(F, s, n) /\ Total(s) = F[n]
  BY <1>1, TotalIs
<1>3. n + 1 \in Nat /\ n <= n + 1 /\ n \in 0 .. n /\ Len(t) \in Nat
  BY <1>1
<1>4. PICK G : IsTotal(G, t, Len(t)) /\ Total(t) = G[Len(t)]
  BY <1>3, TotalIs
<1>5. IsTotal(G, t, n + 1) /\ Total(t) = G[n + 1]
  BY <1>1, <1>4
<1>6. Agree(F, G, 0, n)
  BY <1>1, <1>2, <1>3, <1>5, TotalsAgree
<1>7. F[n] = G[n]
  BY <1>3, <1>6 DEF Agree
<1>8. G[n + 1] = G[n] + x
  <2>1. n + 1 \in 0 .. n + 1 /\ n + 1 # 0 /\ (n + 1) - 1 = n
    BY <1>1
  <2>2. G[n + 1] = IF n + 1 = 0 THEN 0 ELSE G[(n + 1) - 1] + t[n + 1]
    BY <1>5, <2>1 DEF IsTotal
  <2> QED
    BY <1>1, <2>1, <2>2
<1> QED
  BY <1>2, <1>5, <1>7, <1>8

\* A total of naturals is one.
LEMMA TotalIsNat == \A s \in Seq(Nat) : Total(s) \in Nat
<1> DEFINE P == {s \in Seq(Nat) : Total(s) \in Nat}
<1>1. <<>> \in P
  BY TotalOfNothing, EmptySeq
<1>2. ASSUME NEW s \in Seq(Nat), NEW x \in Nat, s \in P
      PROVE  Append(s, x) \in P
  BY <1>2, TotalOfAppend, AppendProperties
<1> HIDE DEF P
<1>3. Seq(Nat) \subseteq P
  BY <1>1, <1>2, SequenceInduction
<1> QED
  BY <1>3 DEF P

\* The total of a concatenation is the sum of the totals.
LEMMA TotalOfConcat ==
  ASSUME NEW s \in Seq(Nat), NEW t \in Seq(Nat)
  PROVE  Total(s \o t) = Total(s) + Total(t)
<1> DEFINE P == {r \in Seq(Nat) : Total(s \o r) = Total(s) + Total(r)}
<1>1. <<>> \in P
  BY TotalOfNothing, EmptySeq, ConcatEmptySeq, TotalIsNat
<1>2. ASSUME NEW r \in Seq(Nat), NEW x \in Nat, r \in P
      PROVE  Append(r, x) \in P
  <2>1. s \o r \in Seq(Nat) /\ Append(r, x) \in Seq(Nat)
    BY ConcatProperties, AppendProperties
  <2>2. s \o Append(r, x) = Append(s \o r, x)
    <3>1. <<x>> \in Seq(Nat)
      OBVIOUS
    <3>2. Append(r, x) = r \o <<x>> /\ Append(s \o r, x) = (s \o r) \o <<x>>
      BY <2>1, AppendIsConcat
    <3> QED
      BY <3>1, <3>2, ConcatAssociative
  <2>3. Total(s \o Append(r, x)) = Total(s \o r) + x /\ Total(Append(r, x)) = Total(r) + x
    BY <2>1, <2>2, TotalOfAppend
  <2>4. Total(s) \in Nat /\ Total(r) \in Nat /\ Total(s \o r) = Total(s) + Total(r)
    BY <1>2, TotalIsNat
  <2> QED
    BY <2>1, <2>3, <2>4
<1> HIDE DEF P
<1>3. Seq(Nat) \subseteq P
  BY <1>1, <1>2, SequenceInduction
<1> QED
  BY <1>3 DEF P

-----------------------------------------------------------------------------
(* One sequence after the other.                                           *)

\* The function that FlattenSeq computes: in F[i] the first i lists are joined.
IsFlat(F, s, n) == F = [i \in 1 .. n |-> IF i = 1 THEN s[i] ELSE F[i - 1] \o s[i]]

\* There is a table of the concatenations of any sequence's beginnings.
LEMMA FlatExists ==
  ASSUME NEW s, NEW n \in Nat
  PROVE  \E F : IsFlat(F, s, n)
<1> DEFINE None == {m \in Nat : ~ \E F : IsFlat(F, s, m)}
<1>1. SUFFICES ASSUME None # {}
               PROVE  FALSE
  OBVIOUS
<1>2. PICK m \in None : \A k \in None : m <= k
  BY <1>1, LeastNumber
<1>3. m \in Nat /\ ~ \E F : IsFlat(F, s, m)
  BY <1>2
<1>4. m # 0
  <2>1. ASSUME m = 0
        PROVE  FALSE
    <3> PICK F : F = [i \in 1 .. 0 |-> <<>>]
      OBVIOUS
    <3>1. IsFlat(F, s, 0)
      BY DEF IsFlat
    <3> QED
      BY <1>3, <2>1, <3>1
  <2> QED
    BY <2>1
<1>5. m - 1 \in Nat /\ ~ (m <= m - 1)
  BY <1>3, <1>4
<1>6. PICK G : IsFlat(G, s, m - 1)
  BY <1>2, <1>5
<1> PICK top : top = IF m = 1 THEN s[m] ELSE G[m - 1] \o s[m]
  OBVIOUS
<1> PICK F : F = [i \in 1 .. m |-> IF i = m THEN top ELSE G[i]]
  OBVIOUS
<1>7. ASSUME NEW i \in 1 .. m
      PROVE  F[i] = IF i = 1 THEN s[i] ELSE F[i - 1] \o s[i]
  <2>1. CASE i = m
    <3>1. F[i] = top
      BY <2>1
    <3>2. i # 1 => i - 1 \in 1 .. m /\ i - 1 # m
      BY <1>3
    <3>3. i # 1 => F[i - 1] = G[i - 1]
      BY <3>2
    <3> QED
      BY <2>1, <3>1, <3>3
  <2>2. CASE i # m
    <3>1. i \in 1 .. m - 1
      BY <1>3, <2>2
    <3>2. G[i] = IF i = 1 THEN s[i] ELSE G[i - 1] \o s[i]
      BY <1>6, <3>1 DEF IsFlat
    <3>3. F[i] = G[i]
      BY <2>2
    <3>4. i # 1 => i - 1 \in 1 .. m /\ i - 1 # m
      BY <1>3, <2>2
    <3>5. i # 1 => F[i - 1] = G[i - 1]
      BY <3>4
    <3> QED
      BY <3>2, <3>3, <3>5
  <2> QED
    BY <2>1, <2>2
<1>8. IsFlat(F, s, m)
  BY <1>7 DEF IsFlat
<1> QED
  BY <1>3, <1>8

\* FlattenSeq is the last entry of that table.
LEMMA FlatIs ==
  ASSUME NEW s, Len(s) \in Nat \ {0}
  PROVE  \E F : IsFlat(F, s, Len(s)) /\ FlattenSeq(s) = F[Len(s)]
<1> DEFINE F == CHOOSE f : IsFlat(f, s, Len(s))
<1>1. IsFlat(F, s, Len(s))
  BY FlatExists
<1>2. FlattenSeq(s) = F[Len(s)]
  BY DEF FlattenSeq, IsFlat
<1> QED
  BY <1>1, <1>2

\* Sequences that begin alike have the same concatenations so far.
LEMMA FlatsAgree ==
  ASSUME NEW s, NEW t, NEW n \in Nat, NEW m \in Nat, n <= m, Agree(s, t, 1, n),
         NEW F, NEW G, IsFlat(F, s, n), IsFlat(G, t, m)
  PROVE  Agree(F, G, 1, n)
<1> DEFINE Bad == {i \in 1 .. n : F[i] # G[i]}
<1>1. SUFFICES ASSUME Bad # {}
               PROVE  FALSE
  BY DEF Agree
<1>a. Bad \subseteq Nat
  OBVIOUS
<1>2. PICK k \in Bad : \A i \in Bad : k <= i
  BY <1>1, <1>a, LeastNumber
<1>3. k \in 1 .. n /\ k \in 1 .. m /\ F[k] # G[k]
  BY <1>2
<1>4. F[k] = IF k = 1 THEN s[k] ELSE F[k - 1] \o s[k]
  BY <1>3 DEF IsFlat
<1>5. G[k] = IF k = 1 THEN t[k] ELSE G[k - 1] \o t[k]
  BY <1>3 DEF IsFlat
<1>6. s[k] = t[k]
  BY <1>3 DEF Agree
<1>7. k # 1 /\ k - 1 \in 1 .. n /\ ~ (k <= k - 1)
  BY <1>3, <1>4, <1>5, <1>6
<1>8. F[k - 1] = G[k - 1]
  BY <1>2, <1>7
<1> QED
  BY <1>3, <1>4, <1>5, <1>6, <1>7, <1>8

\* Of no sequences there is no element.
LEMMA FlatOfNothing == FlattenSeq(<<>>) = <<>>
BY DEF FlattenSeq

\* One sequence more is put at the end.
LEMMA FlatOfAppend ==
  ASSUME NEW S, NEW ss \in Seq(Seq(S)), NEW s \in Seq(S)
  PROVE  FlattenSeq(Append(ss, s)) = FlattenSeq(ss) \o s
<1> PICK t, n : t = Append(ss, s) /\ n = Len(ss)
  OBVIOUS
<1>1. n \in Nat /\ Len(t) = n + 1 /\ t[n + 1] = s /\ Agree(ss, t, 1, n)
  BY LenProperties, AppendProperties DEF Agree
<1>2. n + 1 \in Nat \ {0} /\ n + 1 \in 1 .. n + 1 /\ n <= n + 1 /\ (n + 1) - 1 = n
  BY <1>1
<1>a. PICK G : IsFlat(G, t, Len(t)) /\ FlattenSeq(t) = G[Len(t)]
  BY <1>1, <1>2, FlatIs
<1>3. IsFlat(G, t, n + 1) /\ FlattenSeq(t) = G[n + 1]
  BY <1>1, <1>a
<1>4. G[n + 1] = IF n + 1 = 1 THEN s ELSE G[n] \o s
  BY <1>1, <1>2, <1>3 DEF IsFlat
<1>5. CASE n = 0
  <2>1. ss = <<>>
    BY <1>5, EmptySeq
  <2>2. FlattenSeq(ss) = <<>> /\ <<>> \o s = s
    BY <2>1, FlatOfNothing, ConcatEmptySeq
  <2> QED
    BY <1>3, <1>4, <1>5, <2>2
<1>6. CASE n # 0
  <2>1. PICK F : IsFlat(F, ss, n) /\ FlattenSeq(ss) = F[n]
    BY <1>1, <1>6, FlatIs
  <2>2. Agree(F, G, 1, n)
    BY <1>1, <1>2, <1>3, <2>1, FlatsAgree
  <2>3. F[n] = G[n] /\ n + 1 # 1
    BY <1>1, <1>6, <2>2 DEF Agree
  <2> QED
    BY <1>3, <1>4, <2>1, <2>3
<1> QED
  BY <1>5, <1>6

\* What comes of sequences over a set is one.
LEMMA FlatIsSeq ==
  ASSUME NEW S, NEW ss \in Seq(Seq(S))
  PROVE  FlattenSeq(ss) \in Seq(S)
<1> DEFINE P == {rr \in Seq(Seq(S)) : FlattenSeq(rr) \in Seq(S)}
<1>1. <<>> \in P
  BY FlatOfNothing, EmptySeq
<1>2. ASSUME NEW rr \in Seq(Seq(S)), NEW s \in Seq(S), rr \in P
      PROVE  Append(rr, s) \in P
  BY <1>2, FlatOfAppend, AppendProperties, ConcatProperties
<1> HIDE DEF P
<1>3. Seq(Seq(S)) \subseteq P
  BY <1>1, <1>2, SequenceInduction
<1> QED
  BY <1>3 DEF P

\* An element appended to the second part is appended to the whole.
LEMMA ConcatOfAppend ==
  ASSUME NEW S, NEW s \in Seq(S), NEW t \in Seq(S), NEW x \in S
  PROVE  s \o Append(t, x) = Append(s \o t, x)
<1>1. s \o t \in Seq(S) /\ <<x>> \in Seq(S)
  BY ConcatProperties
<1>2. Append(t, x) = t \o <<x>> /\ Append(s \o t, x) = (s \o t) \o <<x>>
  BY <1>1, AppendIsConcat
<1> QED
  BY <1>1, <1>2, ConcatAssociative

\* Concatenation is associative, said of all sequences at once.
LEMMA Associates ==
  ASSUME NEW S
  PROVE  \A x, y, z \in Seq(S) : (x \o y) \o z = x \o (y \o z)
BY ConcatAssociative

\* Flattening a concatenation is concatenating what is flat.
LEMMA FlatOfConcat ==
  ASSUME NEW S, NEW ss \in Seq(Seq(S)), NEW tt \in Seq(Seq(S))
  PROVE  FlattenSeq(ss \o tt) = FlattenSeq(ss) \o FlattenSeq(tt)
<1> DEFINE P == {rr \in Seq(Seq(S)) : FlattenSeq(ss \o rr) = FlattenSeq(ss) \o FlattenSeq(rr)}
<1>1. <<>> \in P
  <2>1. ss \o <<>> = ss /\ FlattenSeq(ss) \in Seq(S)
    BY ConcatEmptySeq, FlatIsSeq
  <2> QED
    BY <2>1, FlatOfNothing, EmptySeq, ConcatEmptySeq
<1>2. ASSUME NEW rr \in Seq(Seq(S)), NEW s \in Seq(S), rr \in P
      PROVE  Append(rr, s) \in P
  <2>1. ss \o rr \in Seq(Seq(S)) /\ Append(rr, s) \in Seq(Seq(S))
    BY ConcatProperties, AppendProperties
  <2>2. ss \o Append(rr, s) = Append(ss \o rr, s)
    BY ConcatOfAppend
  <2>3. FlattenSeq(ss \o Append(rr, s)) = FlattenSeq(ss \o rr) \o s
    BY <2>1, <2>2, FlatOfAppend
  <2>4. FlattenSeq(Append(rr, s)) = FlattenSeq(rr) \o s
    BY FlatOfAppend
  <2>5. FlattenSeq(ss) \in Seq(S) /\ FlattenSeq(rr) \in Seq(S)
    BY FlatIsSeq
  <2>6. (FlattenSeq(ss) \o FlattenSeq(rr)) \o s = FlattenSeq(ss) \o (FlattenSeq(rr) \o s)
    <3>1. \A q, r, u \in Seq(S) : (q \o r) \o u = q \o (r \o u)
      BY Associates
    <3> QED
      BY <2>5, <3>1, Zenon
  <2>7. FlattenSeq(ss \o rr) = FlattenSeq(ss) \o FlattenSeq(rr)
    BY <1>2
  <2>8. FlattenSeq(ss \o Append(rr, s)) = FlattenSeq(ss) \o FlattenSeq(Append(rr, s))
    BY <2>3, <2>4, <2>6, <2>7, Zenon
  <2> QED
    BY <2>1, <2>8, Zenon
<1>3. P \subseteq Seq(Seq(S))
  OBVIOUS
<1> SUFFICES tt \in P
  OBVIOUS
<1> HIDE DEF P
<1> QED
  BY <1>1, <1>2, SequenceInduction

\* One sequence is flat.
LEMMA FlatOfOne ==
  ASSUME NEW S, NEW s \in Seq(S)
  PROVE  FlattenSeq(<<s>>) = s
<1>1. Append(<<>>, s) = <<s>> /\ <<>> \in Seq(Seq(S))
  BY EmptySeq
<1>2. FlattenSeq(<<s>>) = FlattenSeq(<<>>) \o s
  BY <1>1, FlatOfAppend
<1> QED
  BY <1>2, FlatOfNothing, ConcatEmptySeq

\* The first sequence comes first.
LEMMA FlatOfFirst ==
  ASSUME NEW S, NEW s \in Seq(S), NEW ss \in Seq(Seq(S))
  PROVE  FlattenSeq(<<s>> \o ss) = s \o FlattenSeq(ss)
<1>1. <<s>> \in Seq(Seq(S))
  OBVIOUS
<1>2. FlattenSeq(<<s>> \o ss) = FlattenSeq(<<s>>) \o FlattenSeq(ss)
  BY <1>1, FlatOfConcat
<1> QED
  BY <1>2, FlatOfOne, Zenon

\* A sequence cut into its elements, put together again.
LEMMA FlatOfElements ==
  ASSUME NEW S, NEW s \in Seq(S)
  PROVE  FlattenSeq([j \in DOMAIN s |-> <<s[j]>>]) = s
<1> DEFINE Cut(r) == [j \in DOMAIN r |-> <<r[j]>>]
           P == {r \in Seq(S) : Cut(r) \in Seq(Seq(S)) /\ FlattenSeq(Cut(r)) = r}
<1>1. <<>> \in P
  <2>1. Cut(<<>>) = <<>>
    OBVIOUS
  <2> QED
    BY <2>1, FlatOfNothing, EmptySeq
<1>2. ASSUME NEW r \in Seq(S), NEW x \in S, r \in P
      PROVE  Append(r, x) \in P
  <2>1. Append(r, x) \in Seq(S) /\ Append(r, x) = r \o <<x>> /\ <<x>> \in Seq(S)
    BY AppendProperties, AppendIsConcat
  <2>2. Cut(Append(r, x)) = Append(Cut(r), <<x>>)
    OBVIOUS
  <2>3. FlattenSeq(Append(Cut(r), <<x>>)) = FlattenSeq(Cut(r)) \o <<x>>
    BY <1>2, <2>1, FlatOfAppend
  <2>4. Append(Cut(r), <<x>>) \in Seq(Seq(S))
    BY <1>2, <2>1, AppendProperties
  <2> QED
    BY <1>2, <2>1, <2>2, <2>3, <2>4
<1> HIDE DEF P
<1>3. Seq(S) \subseteq P
  BY <1>1, <1>2, SequenceInduction
<1> QED
  BY <1>3 DEF P

\* Empty sequences make an empty one.
LEMMA FlatOfNothings ==
  ASSUME NEW n \in Nat
  PROVE  FlattenSeq([j \in 1 .. n |-> <<>>]) = <<>>
<1> DEFINE None(m) == [j \in 1 .. m |-> <<>>]
           Bad == {m \in Nat : FlattenSeq(None(m)) # <<>>}
<1>1. SUFFICES ASSUME Bad # {}
               PROVE  FALSE
  OBVIOUS
<1>2. PICK m \in Bad : \A k \in Bad : m <= k
  <2>1. Bad \subseteq Nat
    OBVIOUS
  <2> HIDE DEF Bad
  <2> QED
    BY <1>1, <2>1, LeastNumber
<1>3. m # 0
  <2>1. None(0) = <<>>
    OBVIOUS
  <2> QED
    BY <2>1, FlatOfNothing
<1>4. m - 1 \in Nat /\ ~ (m <= m - 1)
  BY <1>3
<1>5. FlattenSeq(None(m - 1)) = <<>>
  BY <1>2, <1>4
<1>6. None(m) = Append(None(m - 1), <<>>)
  BY <1>4
<1>7. None(m - 1) \in Seq(Seq({})) /\ <<>> \in Seq({})
  <2>1. <<>> \in Seq({})
    OBVIOUS
  <2> QED
    BY <1>4, <2>1, IsASeq
<1>8. FlattenSeq(None(m)) = FlattenSeq(None(m - 1)) \o <<>>
  BY <1>6, <1>7, FlatOfAppend
<1> QED
  BY <1>5, <1>8, ConcatEmptySeq

\* If only one of the sequences has something in it, then that is all there is.
LEMMA FlatOfOnly ==
  ASSUME NEW S, NEW ss \in Seq(Seq(S)), NEW k \in DOMAIN ss,
         \A i \in DOMAIN ss : i # k => ss[i] = <<>>
  PROVE  FlattenSeq(ss) = ss[k]
<1> DEFINE Only(rr, i) == \A j \in DOMAIN rr : j # i => rr[j] = <<>>
           P == {rr \in Seq(Seq(S)) : \A i \in DOMAIN rr : Only(rr, i) => FlattenSeq(rr) = rr[i]}
<1>1. <<>> \in P
  BY EmptySeq
<1>2. ASSUME NEW rr \in Seq(Seq(S)), NEW s \in Seq(S), rr \in P
      PROVE  Append(rr, s) \in P
  <2> PICK tt, n : tt = Append(rr, s) /\ n = Len(rr)
    OBVIOUS
  <2>1. /\ n \in Nat /\ tt \in Seq(Seq(S)) /\ DOMAIN tt = 1 .. n + 1 /\ DOMAIN rr = 1 .. n
        /\ tt[n + 1] = s /\ \A j \in 1 .. n : tt[j] = rr[j]
    BY LenProperties, AppendProperties
  <2>2. FlattenSeq(tt) = FlattenSeq(rr) \o s /\ FlattenSeq(rr) \in Seq(S)
    BY FlatOfAppend, FlatIsSeq
  <2>3. ASSUME NEW i \in DOMAIN tt, Only(tt, i)
        PROVE  FlattenSeq(tt) = tt[i]
    <3>1. CASE i = n + 1
      <4>1. rr = [j \in 1 .. n |-> <<>>]
        <5>1. ASSUME NEW j \in 1 .. n
              PROVE  rr[j] = <<>>
          <6>1. j \in DOMAIN tt /\ j # i
            BY <2>1, <3>1
          <6> QED
            BY <2>1, <2>3, <6>1
        <5>2. rr = [j \in 1 .. n |-> rr[j]]
          BY <2>1, LenProperties
        <5> QED
          BY <5>1, <5>2
      <4>2. FlattenSeq(rr) = <<>>
        BY <2>1, <4>1, FlatOfNothings
      <4> QED
        BY <2>1, <2>2, <3>1, <4>2, ConcatEmptySeq
    <3>2. CASE i # n + 1
      <4>1. i \in DOMAIN rr /\ tt[i] = rr[i] /\ s = <<>>
        <5>1. i \in 1 .. n /\ n + 1 \in DOMAIN tt /\ n + 1 # i
          BY <2>1, <3>2
        <5>2. tt[n + 1] = <<>>
          BY <2>3, <5>1
        <5> QED
          BY <2>1, <5>1, <5>2
      <4>2. Only(rr, i)
        BY <2>1, <2>3
      <4>3. FlattenSeq(rr) = rr[i]
        BY <1>2, <4>1, <4>2
      <4>4. FlattenSeq(rr) \o <<>> = FlattenSeq(rr)
        BY <2>2, ConcatEmptySeq
      <4> QED
        BY <2>2, <4>1, <4>3, <4>4
    <3> QED
      BY <3>1, <3>2
  <2> QED
    BY <2>1, <2>3
<1>3. ss \in P
  <2> HIDE DEF P
  <2> QED
    BY <1>1, <1>2, SequenceInduction
<1> QED
  BY <1>3

-----------------------------------------------------------------------------
(* The size of elements.                                                   *)

AnyValue == Int \cup Seq(STRING) \cup Seq(Int)

AnyElement ==
  [number : Nat \ {0}, wire : {"varint", "length"}, value : AnyValue, size : Nat \ {0}]

Sizes(elements) == [j \in DOMAIN elements |-> elements[j].size]

\* The sizes of elements are naturals, and SizeOf is their total.
LEMMA SizesAre ==
  ASSUME NEW es \in Seq(AnyElement)
  PROVE  Sizes(es) \in Seq(Nat) /\ SizeOf(es) = Total(Sizes(es)) /\ SizeOf(es) \in Nat
<1>1. \A j \in 1 .. Len(es) : es[j] \in AnyElement
  BY ElementOfSeq
<1>2. Len(es) \in Nat /\ DOMAIN es = 1 .. Len(es)
  BY LenProperties
<1>3. \A j \in 1 .. Len(es) : es[j].size \in Nat
  BY <1>1 DEF AnyElement
<1>4. Sizes(es) \in Seq(Nat)
  BY <1>2, <1>3, IsASeq DEF Sizes
<1> QED
  BY <1>4, TotalIsNat DEF SizeOf, Sizes

\* No elements take no bytes.
LEMMA SizeOfNothing == SizeOf(<<>>) = 0
<1>1. Sizes(<<>>) = <<>>
  BY DEF Sizes
<1> QED
  BY <1>1, TotalOfNothing DEF SizeOf, Sizes

\* An element more takes its own size more.
LEMMA SizeOfAppend ==
  ASSUME NEW es \in Seq(AnyElement), NEW e \in AnyElement
  PROVE  SizeOf(Append(es, e)) = SizeOf(es) + e.size
<1>1. Append(es, e) \in Seq(AnyElement) /\ e.size \in Nat
  BY AppendProperties DEF AnyElement
<1>2. Sizes(Append(es, e)) = Append(Sizes(es), e.size)
  BY SizesAre DEF Sizes
<1>3. Total(Append(Sizes(es), e.size)) = Total(Sizes(es)) + e.size
  BY <1>1, SizesAre, TotalOfAppend
<1> QED
  BY <1>1, <1>2, <1>3, SizesAre

\* Sizes add up.
LEMMA SizeOfConcat ==
  ASSUME NEW es \in Seq(AnyElement), NEW fs \in Seq(AnyElement)
  PROVE  SizeOf(es \o fs) = SizeOf(es) + SizeOf(fs)
<1>1. es \o fs \in Seq(AnyElement)
  BY ConcatProperties
<1>2. Sizes(es \o fs) = Sizes(es) \o Sizes(fs)
  <2>1. Len(es) \in Nat /\ Len(fs) \in Nat /\ DOMAIN es = 1 .. Len(es) /\ DOMAIN fs = 1 .. Len(fs)
    BY LenProperties
  <2>2. Len(Sizes(es)) = Len(es) /\ Len(Sizes(fs)) = Len(fs)
    BY <2>1, SizesAre DEF Sizes
  <2> QED
    BY <2>1, <2>2, <1>1, SizesAre DEF Sizes
<1>3. Total(Sizes(es) \o Sizes(fs)) = Total(Sizes(es)) + Total(Sizes(fs))
  BY SizesAre, TotalOfConcat
<1> QED
  BY <1>1, <1>2, <1>3, SizesAre

\* The size of one element.
LEMMA SizeOfOne ==
  ASSUME NEW e \in AnyElement
  PROVE  SizeOf(<<e>>) = e.size
<1>1. <<>> \in Seq(AnyElement) /\ Append(<<>>, e) = <<e>> /\ e.size \in Nat
  BY DEF AnyElement
<1>2. SizeOf(Append(<<>>, e)) = SizeOf(<<>>) + e.size
  BY <1>1, SizeOfAppend
<1> QED
  BY <1>1, <1>2, SizeOfNothing

\* Elements take at least a byte.
LEMMA SizeIsPositive ==
  ASSUME NEW es \in Seq(AnyElement), es # <<>>
  PROVE  SizeOf(es) \in Nat \ {0}
<1>1. PICK fs \in Seq(AnyElement), e \in AnyElement : es = Append(fs, e)
  BY SequenceEmptyOrAppend
<1>2. e.size \in Nat \ {0} /\ SizeOf(fs) \in Nat
  BY SizesAre DEF AnyElement
<1> QED
  BY <1>1, <1>2, SizeOfAppend

\* The size of parts put together is the total of their sizes.
LEMMA SizeOfFlat ==
  ASSUME NEW ss \in Seq(Seq(AnyElement))
  PROVE  SizeOf(FlattenSeq(ss)) = Total([j \in DOMAIN ss |-> SizeOf(ss[j])])
<1> DEFINE All(rr) == [j \in DOMAIN rr |-> SizeOf(rr[j])]
           P == {rr \in Seq(Seq(AnyElement)) :
                   All(rr) \in Seq(Nat) /\ SizeOf(FlattenSeq(rr)) = Total(All(rr))}
<1>1. <<>> \in P
  <2>1. All(<<>>) = <<>>
    OBVIOUS
  <2> QED
    BY <2>1, FlatOfNothing, TotalOfNothing, SizeOfNothing
<1>2. ASSUME NEW rr \in Seq(Seq(AnyElement)), NEW s \in Seq(AnyElement), rr \in P
      PROVE  Append(rr, s) \in P
  <2>1. SizeOf(s) \in Nat /\ FlattenSeq(rr) \in Seq(AnyElement)
    BY SizesAre, FlatIsSeq
  <2>2. All(Append(rr, s)) = Append(All(rr), SizeOf(s))
    OBVIOUS
  <2>3. SizeOf(FlattenSeq(Append(rr, s))) = SizeOf(FlattenSeq(rr)) + SizeOf(s)
    <3>1. FlattenSeq(Append(rr, s)) = FlattenSeq(rr) \o s
      BY FlatOfAppend
    <3> QED
      BY <2>1, <3>1, SizeOfConcat
  <2>4. All(rr) \in Seq(Nat) /\ SizeOf(FlattenSeq(rr)) = Total(All(rr))
    BY <1>2
  <2>5. Total(Append(All(rr), SizeOf(s))) = Total(All(rr)) + SizeOf(s)
    BY <2>1, <2>4, TotalOfAppend
  <2>6. Append(All(rr), SizeOf(s)) \in Seq(Nat) /\ Append(rr, s) \in Seq(Seq(AnyElement))
    BY <2>1, <2>4, AppendProperties
  <2> HIDE DEF All
  <2> QED
    BY <2>2, <2>3, <2>4, <2>5, <2>6
<1>3. ss \in P
  <2> HIDE DEF P
  <2> QED
    BY <1>1, <1>2, SequenceInduction
<1> QED
  BY <1>3

-----------------------------------------------------------------------------
(* Numbers on the wire.                                                    *)

\* A number takes at least one byte.
LEMMA VarintBytesAre ==
  ASSUME NEW raw \in Int
  PROVE  VarintBytes(raw) \in Nat \ {0}
<1> DEFINE more == {n \in 1 .. 4 : raw >= 128 ^ n}
<1>1. IsFiniteSet(1 .. 4)
  <2>1. \A a, b \in Int : IsFiniteSet(a .. b)
    BY FS_Interval
  <2>2. 1 \in Int /\ 4 \in Int
    OBVIOUS
  <2> QED
    BY <2>1, <2>2, Zenon
<1>2. IsFiniteSet(more)
  BY <1>1, FS_Subset
<1>3. Cardinality(more) \in Nat
  BY <1>2, FS_CardinalityType
<1>4. VarintBytes(raw) = IF raw < 0 THEN 10 ELSE 1 + Cardinality(more)
  BY Zenon DEF VarintBytes
<1> HIDE DEF more
<1>5. 1 + Cardinality(more) \in Nat \ {0} /\ 10 \in Nat \ {0}
  BY <1>3
<1> QED
  BY <1>4, <1>5

\* What Raw makes of a value is a number, and FromRaw makes the value of it.
LEMMA RawIsRead ==
  ASSUME NEW kind, NEW messages, kind.type \notin {"message", "string", "bytes"},
         NEW value \in Possible(kind, messages)
  PROVE  Raw(kind, value) \in Int /\ FromRaw(kind, Raw(kind, value)) = value
<1>1. CASE kind.type = "bool"
  BY <1>1 DEF Possible, Raw, FromRaw
<1>2. CASE kind.type = "sint32"
  <2>1. value \in Int
    BY <1>2 DEF Possible
  <2>2. CASE value < 0
    <3>1. Raw(kind, value) = -2 * value - 1
      BY <1>2, <2>2 DEF Raw
    <3>2. (-2 * value - 1) % 2 # 0 /\ ((-2 * value - 1) + 1) \div 2 = -value
      BY <2>1
    <3> QED
      BY <1>2, <2>1, <3>1, <3>2 DEF FromRaw
  <2>3. CASE ~ (value < 0)
    <3>1. Raw(kind, value) = 2 * value
      BY <1>2, <2>3 DEF Raw
    <3>2. (2 * value) % 2 = 0 /\ (2 * value) \div 2 = value
      BY <2>1
    <3> QED
      BY <1>2, <2>1, <3>1, <3>2 DEF FromRaw
  <2> QED
    BY <2>2, <2>3
<1>3. CASE kind.type \notin {"bool", "sint32"}
  BY <1>3 DEF Possible, Raw, FromRaw
<1> QED
  BY <1>1, <1>2, <1>3

\* A number, a text and the beginning of a message are elements.
LEMMA ElementsAre ==
  ASSUME NEW number \in Nat \ {0}, NEW wire \in {"varint", "length"},
         NEW value \in AnyValue, NEW bytes \in Nat
  PROVE  Element(number, wire, value, bytes) \in AnyElement
<1>1. 8 * number \in Int
  OBVIOUS
<1>2. VarintBytes(8 * number) + bytes \in Nat \ {0}
  BY <1>1, VarintBytesAre
<1> QED
  BY <1>2 DEF Element, AnyElement

-----------------------------------------------------------------------------
(* The messages that there are, and those nested in them.                  *)

AllMessages == UNION {NewerMessages[type] : type \in DOMAIN Schemas}

IsNesting(message, i) == Schemas[message.type][i].kind.type = "message"

Kids(message) ==
  UNION {{message.fields[i][j] : j \in DOMAIN message.fields[i]} :
           i \in {k \in DOMAIN message.fields : IsNesting(message, k)}}

DepthOf(message) == Depth[message.type][message]

\* What SchemasAssumption says, by parts.
LEMMA SchemaIs ==
  ASSUME NEW type \in DOMAIN Schemas
  PROVE  /\ Len(Schemas[type]) \in Nat
         /\ DOMAIN Schemas[type] = 1 .. Len(Schemas[type])
         /\ \A i \in DOMAIN Schemas[type] : IsField(Schemas[type][i])
         /\ \A i, k \in DOMAIN Schemas[type] :
              Schemas[type][i].number = Schemas[type][k].number => i = k
<1> PICK fields : fields = Schemas[type]
  OBVIOUS
<1>1. /\ Len(fields) \in Nat /\ fields = [i \in 1 .. Len(fields) |-> fields[i]]
      /\ \A i \in DOMAIN fields : IsField(fields[i])
      /\ \A i, k \in DOMAIN fields : fields[i].number = fields[k].number => i = k
  BY SchemasAssumption
<1> QED
  BY <1>1

\* Which messages are of a type, and what is in the fields of one.
LEMMA MessageIs ==
  ASSUME NEW type \in DOMAIN Schemas, NEW messages, NEW m, IsMessage(m, type, messages)
  PROVE  /\ m.type = type /\ m = [type |-> type, fields |-> m.fields, unknown |-> m.unknown]
         /\ DOMAIN m.fields = DOMAIN Schemas[type]
         /\ m.fields = [i \in DOMAIN Schemas[type] |-> m.fields[i]]
         /\ \A i \in DOMAIN m.fields :
              /\ m.fields[i] \in Seq(Possible(Schemas[type][i].kind, messages))
              /\ Schemas[type][i].label # "repeated" => Len(m.fields[i]) <= 1
<1> PICK fields, mine : fields = Schemas[type] /\ mine = m.fields
  OBVIOUS
<1>1. m = [type |-> type, fields |-> m.fields, unknown |-> m.unknown]
  BY DEF IsMessage
<1>2. mine = [i \in DOMAIN fields |-> mine[i]]
  BY DEF IsMessage
<1>3. m.type = type
  BY <1>1
<1>4. DOMAIN mine = DOMAIN fields
  BY <1>2
<1>5. \A i \in DOMAIN fields :
         /\ mine[i] \in Seq(Possible(fields[i].kind, messages))
         /\ fields[i].label # "repeated" => Len(mine[i]) <= 1
  BY DEF IsMessage
<1> QED
  BY <1>1, <1>2, <1>3, <1>4, <1>5

\* A message is among those of its own type, and of no other.
LEMMA AllMessagesAre ==
  ASSUME NEW m
  PROVE  /\ m \in AllMessages <=> m.type \in DOMAIN Schemas /\ m \in NewerMessages[m.type]
         /\ \A type \in DOMAIN Schemas : m \in NewerMessages[type] => m.type = type
         /\ m \in AllMessages => IsMessage(m, m.type, NewerMessages)
<1>1. ASSUME NEW type \in DOMAIN Schemas, m \in NewerMessages[type]
      PROVE  IsMessage(m, type, NewerMessages) /\ m.type = type
  <2>1. IsMessage(m, type, NewerMessages)
    BY <1>1, MessagesAssumption
  <2> QED
    BY <2>1, MessageIs
<1> QED
  BY <1>1 DEF AllMessages

\* A message as it is filled in: its fields are of their types, and its other
\* elements are not of fields.
IsWhole(m) ==
  /\ m.type \in DOMAIN Schemas /\ IsMessage(m, m.type, NewerMessages)
  /\ m.unknown \in Seq({e \in AnyElement : IsForeign(e, m.type)})

\* Elements of a newer schema are elements.
LEMMA ForeignIsElement ==
  ASSUME NEW e, NEW type, IsForeign(e, type)
  PROVE  e \in AnyElement
<1>1. e = [number |-> e.number, wire |-> e.wire, value |-> e.value, size |-> e.size]
  BY DEF IsForeign
<1>2. /\ e.number \in Nat \ {0} /\ e.size \in Nat \ {0}
      /\ \/ e.wire = "varint" /\ e.value \in Int
         \/ e.wire = "length" /\ e.value \in Seq(STRING)
  BY DEF IsForeign
<1> QED
  BY <1>1, <1>2 DEF AnyElement, AnyValue

\* All messages that are nested, or begun with, are whole.
LEMMA AllAreWhole ==
  ASSUME NEW m \in AllMessages
  PROVE  IsWhole(m)
<1>1. m.type \in DOMAIN Schemas /\ m \in NewerMessages[m.type] /\ IsMessage(m, m.type, NewerMessages)
  BY AllMessagesAre
<1> PICK unknown : unknown = m.unknown
  OBVIOUS
<1>2. /\ Len(unknown) \in Nat
      /\ unknown = [j \in 1 .. Len(unknown) |-> unknown[j]]
      /\ \A j \in DOMAIN unknown : IsForeign(unknown[j], m.type)
  BY <1>1, MessagesAssumption
<1>3. DOMAIN unknown = 1 .. Len(unknown)
  BY <1>2
<1>4. \A j \in 1 .. Len(unknown) : unknown[j] \in {e \in AnyElement : IsForeign(e, m.type)}
  BY <1>2, <1>3, ForeignIsElement
<1>5. [j \in 1 .. Len(unknown) |-> unknown[j]] \in Seq({e \in AnyElement : IsForeign(e, m.type)})
  BY <1>2, <1>4, IsASeq
<1> QED
  BY <1>1, <1>2, <1>5 DEF IsWhole

\* The values of a field of messages are messages nested in this one.
LEMMA KidsAre ==
  ASSUME NEW m, IsWhole(m), NEW i \in DOMAIN m.fields, IsNesting(m, i),
         NEW j \in DOMAIN m.fields[i]
  PROVE  /\ m.fields[i][j] \in Kids(m)
         /\ m.fields[i][j] \in NewerMessages[Schemas[m.type][i].kind.message]
         /\ Schemas[m.type][i].kind.message \in DOMAIN Schemas
<1> PICK kind : kind = Schemas[m.type][i].kind
  OBVIOUS
<1>1. m.type \in DOMAIN Schemas /\ IsMessage(m, m.type, NewerMessages)
  BY DEF IsWhole
<1>2. i \in DOMAIN Schemas[m.type] /\ m.fields[i] \in Seq(Possible(kind, NewerMessages))
  BY <1>1, MessageIs
<1>3. kind.type = "message" /\ IsField(Schemas[m.type][i])
  BY <1>1, <1>2, SchemaIs DEF IsNesting
<1>4. kind.message \in DOMAIN Schemas
  <2> PICK field : field = Schemas[m.type][i]
    OBVIOUS
  <2>1. IsField(field) /\ field.kind = kind
    BY <1>3
  <2>2. field.kind.type = "message" => field.kind.message \in DOMAIN Schemas
    BY <2>1, Zenon DEF IsField
  <2> QED
    BY <1>3, <2>1, <2>2
<1>5. Possible(kind, NewerMessages) = NewerMessages[kind.message]
  BY <1>3 DEF Possible
<1>6. m.fields[i] \in Seq(NewerMessages[kind.message])
  BY <1>2, <1>5
<1>7. m.fields[i][j] \in NewerMessages[kind.message]
  BY <1>6, ElementOfSeq, LenProperties
<1>8. m.fields[i][j] \in Kids(m)
  BY DEF Kids
<1> QED
  BY <1>4, <1>7, <1>8

\* A nested message is not as deep as the one around it.
LEMMA KidsAreLess ==
  ASSUME NEW m \in AllMessages, NEW k \in Kids(m)
  PROVE  k \in AllMessages /\ DepthOf(k) < DepthOf(m)
<1>1. PICK i \in DOMAIN m.fields : IsNesting(m, i) /\ \E j \in DOMAIN m.fields[i] : k = m.fields[i][j]
  BY DEF Kids
<1>2. PICK j \in DOMAIN m.fields[i] : k = m.fields[i][j]
  BY <1>1
<1> PICK type : type = Schemas[m.type][i].kind.message
  OBVIOUS
<1>3. k \in NewerMessages[type] /\ type \in DOMAIN Schemas
  BY <1>1, <1>2, AllAreWhole, KidsAre
<1>4. k \in AllMessages /\ k.type = type
  BY <1>3, AllMessagesAre DEF AllMessages
<1>5. m.type \in DOMAIN Schemas /\ m \in NewerMessages[m.type]
  BY AllMessagesAre
<1>6. Depth[type][k] < Depth[m.type][m]
  <2>1. \A i2 \in DOMAIN m.fields :
          Schemas[m.type][i2].kind.type = "message" =>
            \A j2 \in DOMAIN m.fields[i2] :
              Depth[Schemas[m.type][i2].kind.message][m.fields[i2][j2]] < Depth[m.type][m]
    BY <1>5, DepthAssumption
  <2> QED
    BY <1>1, <1>2, <2>1 DEF IsNesting
<1> QED
  BY <1>4, <1>6 DEF DepthOf

\* The depth of a message is a number.
LEMMA DepthIsNat == \A m \in AllMessages : DepthOf(m) \in Nat
<1>1. ASSUME NEW m \in AllMessages
      PROVE  DepthOf(m) \in Nat
  <2>1. m.type \in DOMAIN Schemas /\ m \in NewerMessages[m.type]
    BY AllMessagesAre
  <2> QED
    BY <2>1, DepthAssumption DEF DepthOf
<1> QED
  BY <1>1

\* What holds of a message when it holds of those nested in it, holds of all.
LEMMA MessageInduction ==
  ASSUME NEW P, \A m \in AllMessages : Kids(m) \subseteq P => m \in P
  PROVE  AllMessages \subseteq P
<1> DEFINE Bad == {DepthOf(m) : m \in AllMessages \ P}
<1>1. SUFFICES ASSUME NEW bad \in AllMessages, bad \notin P
               PROVE  FALSE
  OBVIOUS
<1>2. Bad \subseteq Nat /\ Bad # {}
  BY <1>1, DepthIsNat
<1>3. PICK n \in Bad : \A k \in Bad : n <= k
  <2> HIDE DEF Bad
  <2> QED
    BY <1>2, LeastNumber
<1>4. PICK m \in AllMessages : m \notin P /\ DepthOf(m) = n
  BY <1>3
<1>5. PICK k \in Kids(m) : k \notin P
  BY <1>4
<1>6. k \in AllMessages /\ DepthOf(k) < DepthOf(m)
  BY <1>5, KidsAreLess
<1>7. DepthOf(k) \in Bad /\ DepthOf(k) \in Nat /\ n \in Nat
  BY <1>2, <1>3, <1>5, <1>6
<1> QED
  BY <1>3, <1>4, <1>6, <1>7

-----------------------------------------------------------------------------
(* Tables: what is computed of every message from what comes of those that *)
(* are nested in it.                                                       *)

IsLocal(G, V) ==
  \A m \in AllMessages : \A f, h \in [AllMessages -> V] :
    (\A k \in Kids(m) : f[k] = h[k]) => G[m][f] = G[m][h]

IsTableTo(n, f, G, V) ==
  f \in [AllMessages -> V] /\ \A m \in AllMessages : DepthOf(m) <= n => f[m] = G[m][f]

\* Tables that are right up to some depths are equal as far as both are right.
LEMMA TablesAgree ==
  ASSUME NEW V, NEW G, IsLocal(G, V),
         NEW n \in Nat, NEW f, IsTableTo(n, f, G, V),
         NEW l \in Nat, NEW h, IsTableTo(l, h, G, V),
         NEW m \in AllMessages, DepthOf(m) <= n, DepthOf(m) <= l
  PROVE  f[m] = h[m]
<1> DEFINE P == {o \in AllMessages : DepthOf(o) <= n /\ DepthOf(o) <= l => f[o] = h[o]}
<1>1. ASSUME NEW o \in AllMessages, Kids(o) \subseteq P
      PROVE  o \in P
  <2>1. SUFFICES ASSUME DepthOf(o) <= n, DepthOf(o) <= l
                 PROVE  f[o] = h[o]
    OBVIOUS
  <2>2. ASSUME NEW k \in Kids(o)
        PROVE  f[k] = h[k]
    <3>1. k \in AllMessages /\ DepthOf(k) < DepthOf(o)
      BY KidsAreLess
    <3>2. DepthOf(k) \in Nat /\ DepthOf(o) \in Nat
      BY <3>1, DepthIsNat
    <3>3. DepthOf(k) <= n /\ DepthOf(k) <= l
      BY <2>1, <3>1, <3>2
    <3> QED
      BY <1>1, <3>3
  <2>3. G[o][f] = G[o][h]
    BY <2>2, Zenon DEF IsLocal, IsTableTo
  <2> QED
    BY <2>1, <2>3 DEF IsTableTo
<1> HIDE DEF P
<1>2. AllMessages \subseteq P
  BY <1>1, MessageInduction
<1> QED
  BY <1>2 DEF P

\* There is a table that is right up to any depth.
LEMMA TableExistsTo ==
  ASSUME NEW V, NEW v0 \in V, NEW G \in [AllMessages -> [[AllMessages -> V] -> V]],
         IsLocal(G, V), NEW n \in Nat
  PROVE  \E f : IsTableTo(n, f, G, V)
<1> DEFINE None == {l \in Nat : ~ \E f : IsTableTo(l, f, G, V)}
<1>1. SUFFICES ASSUME None # {}
               PROVE  FALSE
  OBVIOUS
<1>2. PICK l \in None : \A k \in None : l <= k
  BY <1>1, LeastNumber
<1>3. l \in Nat /\ ~ \E f : IsTableTo(l, f, G, V)
  BY <1>2
<1>4. ASSUME NEW h \in [AllMessages -> V],
             \A m \in AllMessages : DepthOf(m) < l => h[m] = G[m][h]
      PROVE  FALSE
  <2> PICK f : f = [m \in AllMessages |-> G[m][h]]
    OBVIOUS
  <2>1. f \in [AllMessages -> V]
    OBVIOUS
  <2>2. ASSUME NEW m \in AllMessages, DepthOf(m) <= l
        PROVE  f[m] = G[m][f]
    <3>1. ASSUME NEW k \in Kids(m)
          PROVE  f[k] = h[k]
      <4>1. k \in AllMessages /\ DepthOf(k) < DepthOf(m)
        BY KidsAreLess
      <4>2. DepthOf(k) \in Nat /\ DepthOf(m) \in Nat
        BY <4>1, DepthIsNat
      <4>3. DepthOf(k) < l
        BY <1>3, <2>2, <4>1, <4>2
      <4> QED
        BY <1>4, <4>1, <4>3
    <3>2. G[m][f] = G[m][h]
      BY <2>1, <3>1, Zenon DEF IsLocal
    <3> QED
      BY <3>2
  <2>3. IsTableTo(l, f, G, V)
    BY <2>1, <2>2 DEF IsTableTo
  <2> QED
    BY <1>3, <2>3
<1>5. CASE l = 0
  <2> PICK h : h = [m \in AllMessages |-> v0]
    OBVIOUS
  <2>1. \A m \in AllMessages : ~ (DepthOf(m) < 0)
    BY DepthIsNat
  <2>2. h \in [AllMessages -> V]
    OBVIOUS
  <2> QED
    BY <1>4, <1>5, <2>1, <2>2
<1>6. CASE l # 0
  <2>1. l - 1 \in Nat /\ ~ (l <= l - 1)
    BY <1>3, <1>6
  <2>2. PICK h : IsTableTo(l - 1, h, G, V)
    BY <1>2, <2>1
  <2>3. \A m \in AllMessages : DepthOf(m) < l => DepthOf(m) <= l - 1
    BY <1>3, DepthIsNat
  <2> QED
    BY <1>4, <2>2, <2>3 DEF IsTableTo
<1> QED
  BY <1>5, <1>6

HasTable(G, V) == \E f \in [AllMessages -> V] : \A m \in AllMessages : f[m] = G[m][f]

\* So there is one that is right for all messages.
LEMMA TableExists ==
  ASSUME NEW V, V # {}, NEW G, G \in [AllMessages -> [[AllMessages -> V] -> V]],
         IsLocal(G, V)
  PROVE  HasTable(G, V)
<1> DEFINE T(n) == CHOOSE f : IsTableTo(n, f, G, V)
<1>1. ASSUME NEW n \in Nat
      PROVE  IsTableTo(n, T(n), G, V)
  <2>1. PICK v0 : v0 \in V
    OBVIOUS
  <2> QED
    BY <2>1, TableExistsTo
<1> HIDE DEF T
<1>2. PICK f : f = [m \in AllMessages |-> T(DepthOf(m))[m]]
  OBVIOUS
<1>3. ASSUME NEW m \in AllMessages
      PROVE  DepthOf(m) \in Nat /\ T(DepthOf(m)) \in [AllMessages -> V]
  BY <1>1, DepthIsNat DEF IsTableTo
<1>4. f \in [AllMessages -> V]
  BY <1>2, <1>3
<1>5. ASSUME NEW m \in AllMessages
      PROVE  f[m] = G[m][f]
  <2> PICK n, h : n = DepthOf(m) /\ h = T(n)
    OBVIOUS
  <2>1. n \in Nat /\ IsTableTo(n, h, G, V) /\ f[m] = h[m]
    BY <1>1, <1>2, DepthIsNat
  <2>2. h[m] = G[m][h]
    BY <2>1 DEF IsTableTo
  <2>3. ASSUME NEW k \in Kids(m)
        PROVE  f[k] = h[k]
    <3>1. k \in AllMessages /\ DepthOf(k) < DepthOf(m)
      BY KidsAreLess
    <3>2. DepthOf(k) \in Nat /\ DepthOf(k) <= n /\ DepthOf(k) <= DepthOf(k)
      BY <2>1, <3>1, DepthIsNat
    <3>3. IsTableTo(DepthOf(k), T(DepthOf(k)), G, V)
      BY <1>1, <3>2
    <3>4. T(DepthOf(k))[k] = h[k]
      BY <2>1, <3>1, <3>2, <3>3, TablesAgree
    <3> QED
      BY <1>2, <3>1, <3>4
  <2>4. h \in [AllMessages -> V]
    BY <2>1 DEF IsTableTo
  <2>5. G[m][f] = G[m][h]
    BY <1>4, <2>3, <2>4, Zenon DEF IsLocal
  <2> QED
    BY <2>1, <2>2, <2>5
<1> QED
  BY <1>4, <1>5 DEF HasTable

\* A table as the definitions have it: by type, then by message.
Curry(f) == [type \in DOMAIN Schemas |-> [message \in NewerMessages[type] |-> f[message]]]

\* A table by messages is one by types and messages.
LEMMA CurryIs ==
  ASSUME NEW f, NEW m \in AllMessages
  PROVE  Curry(f)[m.type][m] = f[m]
<1>1. m.type \in DOMAIN Schemas /\ m \in NewerMessages[m.type]
  BY AllMessagesAre
<1> QED
  BY <1>1 DEF Curry

\* It is looked up by the type that the field says.
LEMMA CurryOfKid ==
  ASSUME NEW f, NEW m \in AllMessages, NEW i \in DOMAIN m.fields, IsNesting(m, i),
         NEW j \in DOMAIN m.fields[i]
  PROVE  Curry(f)[Schemas[m.type][i].kind.message][m.fields[i][j]] = f[m.fields[i][j]]
BY AllAreWhole, KidsAre DEF Curry

\* What a table has for a nested message.
Of(table, m, i, j) == table[Schemas[m.type][i].kind.message][m.fields[i][j]]

HasKidsIn(table, m, V) ==
  \A i \in DOMAIN m.fields : IsNesting(m, i) =>
    \A j \in DOMAIN m.fields[i] : Of(table, m, i, j) \in V

HaveSameKids(table, other, m) ==
  \A i \in DOMAIN m.fields : IsNesting(m, i) =>
    \A j \in DOMAIN m.fields[i] : Of(table, m, i, j) = Of(other, m, i, j)

\* All that is looked up for a message is of the table's type.
LEMMA CurryHasKids ==
  ASSUME NEW V, NEW f \in [AllMessages -> V], NEW m \in AllMessages
  PROVE  HasKidsIn(Curry(f), m, V)
<1>1. ASSUME NEW i \in DOMAIN m.fields, IsNesting(m, i), NEW j \in DOMAIN m.fields[i]
      PROVE  Of(Curry(f), m, i, j) \in V
  <2>1. m.fields[i][j] \in AllMessages
    BY <1>1, AllAreWhole, KidsAre, KidsAreLess
  <2> QED
    BY <1>1, <2>1, CurryOfKid DEF Of
<1> QED
  BY <1>1 DEF HasKidsIn

\* Tables that agree on the nested messages agree on what is looked up.
LEMMA CurriesHaveSameKids ==
  ASSUME NEW f, NEW h, NEW m \in AllMessages, \A k \in Kids(m) : f[k] = h[k]
  PROVE  HaveSameKids(Curry(f), Curry(h), m)
<1>1. ASSUME NEW i \in DOMAIN m.fields, IsNesting(m, i), NEW j \in DOMAIN m.fields[i]
      PROVE  Of(Curry(f), m, i, j) = Of(Curry(h), m, i, j)
  BY <1>1, AllAreWhole, KidsAre, CurryOfKid DEF Of
<1> QED
  BY <1>1 DEF HaveSameKids

\* A table that has for every message what it should has values of one set.
LEMMA TableIsTyped ==
  ASSUME NEW V, NEW table,
         \A m \in AllMessages : HasKidsIn(table, m, V) => table[m.type][m] \in V
  PROVE  \A m \in AllMessages : table[m.type][m] \in V
<1> DEFINE P == {m \in AllMessages : table[m.type][m] \in V}
<1>1. ASSUME NEW m \in AllMessages, Kids(m) \subseteq P
      PROVE  m \in P
  <2>1. ASSUME NEW i \in DOMAIN m.fields, IsNesting(m, i), NEW j \in DOMAIN m.fields[i]
        PROVE  Of(table, m, i, j) \in V
    <3> PICK k, type : k = m.fields[i][j] /\ type = Schemas[m.type][i].kind.message
      OBVIOUS
    <3>1. k \in Kids(m) /\ k \in NewerMessages[type] /\ type \in DOMAIN Schemas
      BY <2>1, AllAreWhole, KidsAre
    <3>2. k \in P /\ k.type = type
      BY <1>1, <3>1, AllMessagesAre
    <3> QED
      BY <3>2 DEF Of
  <2> QED
    BY <2>1 DEF HasKidsIn
<1> HIDE DEF P
<1>2. AllMessages \subseteq P
  BY <1>1, MessageInduction
<1> QED
  BY <1>2 DEF P

\* The same for a message that is not in the table itself.
LEMMA KidsOfTable ==
  ASSUME NEW V, NEW table, \A m \in AllMessages : table[m.type][m] \in V,
         NEW m, IsWhole(m)
  PROVE  HasKidsIn(table, m, V)
<1>1. ASSUME NEW i \in DOMAIN m.fields, IsNesting(m, i), NEW j \in DOMAIN m.fields[i]
      PROVE  Of(table, m, i, j) \in V
  <2> PICK k, type : k = m.fields[i][j] /\ type = Schemas[m.type][i].kind.message
    OBVIOUS
  <2>1. k \in NewerMessages[type] /\ type \in DOMAIN Schemas
    BY <1>1, KidsAre
  <2>2. k \in AllMessages /\ k.type = type
    BY <2>1, AllMessagesAre DEF AllMessages
  <2> QED
    BY <2>2 DEF Of
<1> QED
  BY <1>1 DEF HasKidsIn

-----------------------------------------------------------------------------
(* Sizes.                                                                  *)

\* The field of a whole message.
LEMMA FieldIs ==
  ASSUME NEW m, IsWhole(m), NEW i \in DOMAIN m.fields
  PROVE  /\ i \in DOMAIN Schemas[m.type] /\ IsField(Schemas[m.type][i])
         /\ m.fields[i] \in Seq(Possible(Schemas[m.type][i].kind, NewerMessages))
         /\ Schemas[m.type][i].label # "repeated" => Len(m.fields[i]) <= 1
         /\ DOMAIN m.fields = 1 .. Len(Schemas[m.type]) /\ Len(Schemas[m.type]) \in Nat
<1>1. m.type \in DOMAIN Schemas /\ IsMessage(m, m.type, NewerMessages)
  BY DEF IsWhole
<1>2. /\ DOMAIN m.fields = DOMAIN Schemas[m.type]
      /\ \A k \in DOMAIN m.fields :
           /\ m.fields[k] \in Seq(Possible(Schemas[m.type][k].kind, NewerMessages))
           /\ Schemas[m.type][k].label # "repeated" => Len(m.fields[k]) <= 1
  BY <1>1, MessageIs
<1>3. /\ Len(Schemas[m.type]) \in Nat /\ DOMAIN Schemas[m.type] = 1 .. Len(Schemas[m.type])
      /\ \A k \in DOMAIN Schemas[m.type] : IsField(Schemas[m.type][k])
  BY <1>1, SchemaIs
<1> QED
  BY <1>2, <1>3

\* A value of a field, and what a table has for it if it is a message.
ValueIs(kind, value, nested, V) ==
  /\ value \in Possible(kind, NewerMessages)
  /\ kind.type = "message" => nested[kind.message][value] \in V

\* A value in a whole message.
LEMMA ValuesAre ==
  ASSUME NEW V, NEW nested, NEW m, IsWhole(m), HasKidsIn(nested, m, V),
         NEW i \in DOMAIN m.fields, NEW j \in DOMAIN m.fields[i]
  PROVE  ValueIs(Schemas[m.type][i].kind, m.fields[i][j], nested, V)
<1> PICK kind : kind = Schemas[m.type][i].kind
  OBVIOUS
<1>1. m.fields[i] \in Seq(Possible(kind, NewerMessages))
  BY FieldIs
<1>2. m.fields[i][j] \in Possible(kind, NewerMessages)
  BY <1>1, ElementOfSeq, LenProperties
<1>3. kind.type = "message" => nested[kind.message][m.fields[i][j]] \in V
  BY DEF HasKidsIn, IsNesting, Of
<1> QED
  BY <1>2, <1>3 DEF ValueIs

\* The three sorts of kinds.
LEMMA KindIs ==
  ASSUME NEW field, IsField(field), NEW value, NEW nested, NEW V,
         ValueIs(field.kind, value, nested, V)
  PROVE  \/ /\ field.kind.type = "message" /\ field.kind.wire = "length"
            /\ field.kind.message \in DOMAIN Schemas
            /\ value \in NewerMessages[field.kind.message]
            /\ nested[field.kind.message][value] \in V
         \/ /\ field.kind.type \in {"string", "bytes"} /\ field.kind.wire = "length"
            /\ value \in Seq(STRING)
         \/ /\ field.kind.type \notin {"message", "string", "bytes"} /\ field.kind.wire = "varint"
            /\ value \in BOOLEAN \cup Int
            /\ Raw(field.kind, value) \in Int /\ FromRaw(field.kind, Raw(field.kind, value)) = value
<1> PICK kind : kind = field.kind
  OBVIOUS
<1>1. /\ \/ /\ kind.type \in {"bool", "int32", "int64", "uint32", "uint64", "sint32", "enum"}
            /\ kind.wire = "varint"
         \/ kind.type \in {"string", "bytes", "message"} /\ kind.wire = "length"
      /\ kind.type = "message" => kind.message \in DOMAIN Schemas
  BY DEF IsField
<1>2. value \in Possible(kind, NewerMessages)
  BY DEF ValueIs
<1>3. CASE kind.type = "message"
  BY <1>1, <1>2, <1>3 DEF Possible, ValueIs
<1>4. CASE kind.type \in {"string", "bytes"}
  BY <1>1, <1>2, <1>4 DEF Possible
<1>5. CASE kind.type \notin {"message", "string", "bytes"}
  <2>1. Raw(kind, value) \in Int /\ FromRaw(kind, Raw(kind, value)) = value
    BY <1>2, <1>5, RawIsRead
  <2>2. value \in BOOLEAN \cup Int
    BY <1>2, <1>5 DEF Possible
  <2> QED
    BY <1>1, <1>5, <2>1, <2>2
<1> QED
  BY <1>3, <1>4, <1>5

\* The size of a value, and of its tag, is a number.
LEMMA ValueSizeIsNat ==
  ASSUME NEW field, IsField(field), NEW value, NEW nested, ValueIs(field.kind, value, nested, Nat)
  PROVE  /\ ValueSize(field.kind, value, nested) \in Nat
         /\ VarintBytes(8 * field.number) \in Nat \ {0}
<1> PICK kind : kind = field.kind
  OBVIOUS
<1>1. ASSUME kind.type = "message"
      PROVE  ValueSize(kind, value, nested) \in Nat
  <2> PICK n : n = nested[kind.message][value]
    OBVIOUS
  <2>1. n \in Nat
    BY <1>1 DEF ValueIs
  <2>2. ValueSize(kind, value, nested) = VarintBytes(n) + n
    BY <1>1 DEF ValueSize
  <2>3. VarintBytes(n) \in Nat
    BY <2>1, VarintBytesAre
  <2> QED
    BY <2>1, <2>2, <2>3
<1>2. ASSUME kind.type \in {"string", "bytes"}
      PROVE  ValueSize(kind, value, nested) \in Nat
  <2>1. value \in Seq(STRING)
    BY <1>2, KindIs
  <2>2. Len(value) \in Nat
    BY <2>1, LenProperties
  <2>3. VarintBytes(Len(value)) \in Nat
    BY <2>2, VarintBytesAre
  <2>4. ValueSize(kind, value, nested) = VarintBytes(Len(value)) + Len(value)
    BY <1>2 DEF ValueSize
  <2> QED
    BY <2>2, <2>3, <2>4
<1>3. ASSUME kind.type \notin {"message", "string", "bytes"}
      PROVE  ValueSize(kind, value, nested) \in Nat
  <2>1. Raw(kind, value) \in Int
    BY <1>3, KindIs
  <2>2. ValueSize(kind, value, nested) = VarintBytes(Raw(kind, value))
    BY <1>3 DEF ValueSize
  <2> QED
    BY <2>1, <2>2, VarintBytesAre
<1>4. VarintBytes(8 * field.number) \in Nat \ {0}
  <2>1. field.number \in Nat
    BY DEF IsField
  <2>2. 8 * field.number \in Int
    BY <2>1
  <2> QED
    BY <2>2, VarintBytesAre
<1> QED
  BY <1>1, <1>2, <1>3, <1>4

\* The summands of FieldSize and of SizeWith.
ValueSizes(field, values, nested) ==
  [j \in DOMAIN values |-> VarintBytes(8 * field.number) + ValueSize(field.kind, values[j], nested)]

FieldSizes(m, nested) ==
  [i \in DOMAIN m.fields |-> FieldSize(Schemas[m.type][i], m.fields[i], nested)]

\* All the sizes that compute_size adds are numbers.
LEMMA SizesInMessage ==
  ASSUME NEW m, IsWhole(m), NEW nested, HasKidsIn(nested, m, Nat)
  PROVE  /\ \A i \in DOMAIN m.fields :
              /\ ValueSizes(Schemas[m.type][i], m.fields[i], nested) \in Seq(Nat)
              /\ FieldSize(Schemas[m.type][i], m.fields[i], nested) \in Nat
         /\ FieldSizes(m, nested) \in Seq(Nat) /\ SizeWith(m, nested) \in Nat
<1>1. ASSUME NEW i \in DOMAIN m.fields
      PROVE  /\ ValueSizes(Schemas[m.type][i], m.fields[i], nested) \in Seq(Nat)
             /\ FieldSize(Schemas[m.type][i], m.fields[i], nested) \in Nat
  <2> PICK field, values : field = Schemas[m.type][i] /\ values = m.fields[i]
    OBVIOUS
  <2>1. IsField(field) /\ values \in Seq(Possible(field.kind, NewerMessages))
    BY FieldIs
  <2>2. Len(values) \in Nat /\ DOMAIN values = 1 .. Len(values)
    BY <2>1, LenProperties
  <2>3. ASSUME NEW j \in 1 .. Len(values)
        PROVE  VarintBytes(8 * field.number) + ValueSize(field.kind, values[j], nested) \in Nat
    <3>1. ValueIs(field.kind, values[j], nested, Nat)
      BY <2>2, <2>3, ValuesAre
    <3>2. ValueSize(field.kind, values[j], nested) \in Nat /\ VarintBytes(8 * field.number) \in Nat
      BY <2>1, <3>1, ValueSizeIsNat
    <3> QED
      BY <3>2
  <2>4. ValueSizes(field, values, nested) \in Seq(Nat)
    BY <2>2, <2>3, IsASeq DEF ValueSizes
  <2> QED
    BY <2>4, TotalIsNat DEF FieldSize, ValueSizes
<1>2. FieldSizes(m, nested) \in Seq(Nat)
  <2> PICK n : n = Len(Schemas[m.type])
    OBVIOUS
  <2>1. m.type \in DOMAIN Schemas /\ IsMessage(m, m.type, NewerMessages)
    BY DEF IsWhole
  <2>2. n \in Nat /\ DOMAIN m.fields = 1 .. n
    <3>1. DOMAIN m.fields = DOMAIN Schemas[m.type]
      BY <2>1, MessageIs
    <3> QED
      BY <2>1, <3>1, SchemaIs
  <2>3. \A i \in 1 .. n : FieldSize(Schemas[m.type][i], m.fields[i], nested) \in Nat
    BY <1>1, <2>2
  <2> QED
    BY <2>2, <2>3, IsASeq DEF FieldSizes
<1>3. Total(FieldSizes(m, nested)) \in Nat
  BY <1>2, TotalIsNat
<1>4. SizeOf(m.unknown) \in Nat
  <2>1. m.unknown \in Seq(AnyElement)
    <3>1. m.unknown \in Seq({e \in AnyElement : IsForeign(e, m.type)})
      BY DEF IsWhole
    <3> QED
      BY <3>1, SeqMonotonic
  <2> QED
    BY <2>1, SizesAre
<1>5. SizeWith(m, nested) = Total(FieldSizes(m, nested)) + SizeOf(m.unknown)
  BY DEF SizeWith, FieldSizes
<1> QED
  BY <1>1, <1>2, <1>3, <1>4, <1>5

\* The size of a message depends on those nested in it, and on no others.
LEMMA SizeIsLocal ==
  ASSUME NEW m, NEW nested, NEW other, HaveSameKids(nested, other, m)
  PROVE  SizeWith(m, nested) = SizeWith(m, other)
<1>1. ASSUME NEW i \in DOMAIN m.fields
      PROVE  FieldSize(Schemas[m.type][i], m.fields[i], nested)
               = FieldSize(Schemas[m.type][i], m.fields[i], other)
  <2> PICK field, values : field = Schemas[m.type][i] /\ values = m.fields[i]
    OBVIOUS
  <2>1. ASSUME NEW j \in DOMAIN values
        PROVE  ValueSize(field.kind, values[j], nested) = ValueSize(field.kind, values[j], other)
    <3>1. field.kind.type = "message" =>
            nested[field.kind.message][values[j]] = other[field.kind.message][values[j]]
      BY <2>1 DEF HaveSameKids, IsNesting, Of
    <3>2. CASE field.kind.type = "message"
      BY <3>1, <3>2 DEF ValueSize
    <3>3. CASE field.kind.type # "message"
      BY <3>3 DEF ValueSize
    <3> QED
      BY <3>2, <3>3
  <2>2. ValueSizes(field, values, nested) = ValueSizes(field, values, other)
    BY <2>1 DEF ValueSizes
  <2> QED
    BY <2>2 DEF FieldSize, ValueSizes
<1>2. FieldSizes(m, nested) = FieldSizes(m, other)
  BY <1>1 DEF FieldSizes
<1> QED
  BY <1>2 DEF SizeWith, FieldSizes

\* The equation that defines NestedSize has a solution, and its values are numbers.
LEMMA NestedSizeIs ==
  /\ NestedSize = [type \in DOMAIN Schemas |->
                     [m \in NewerMessages[type] |-> SizeWith(m, NestedSize)]]
  /\ \A m \in AllMessages :
       NestedSize[m.type][m] = SizeWith(m, NestedSize) /\ NestedSize[m.type][m] \in Nat
<1> DEFINE G == [m \in AllMessages |-> [f \in [AllMessages -> Nat] |-> SizeWith(m, Curry(f))]]
<1>1. G \in [AllMessages -> [[AllMessages -> Nat] -> Nat]]
  BY CurryHasKids, AllAreWhole, SizesInMessage
<1>2. IsLocal(G, Nat)
  <2>1. ASSUME NEW m \in AllMessages, NEW f \in [AllMessages -> Nat],
               NEW h \in [AllMessages -> Nat], \A k \in Kids(m) : f[k] = h[k]
        PROVE  SizeWith(m, Curry(f)) = SizeWith(m, Curry(h))
    BY <2>1, CurriesHaveSameKids, SizeIsLocal
  <2> QED
    BY <2>1 DEF IsLocal
<1>3. PICK f \in [AllMessages -> Nat] : \A m \in AllMessages : f[m] = G[m][f]
  <2>1. Nat # {}
    OBVIOUS
  <2> HIDE DEF G
  <2>2. HasTable(G, Nat)
    BY <1>1, <1>2, <2>1, TableExists
  <2> QED
    BY <2>2 DEF HasTable
<1>4. \A m \in AllMessages : f[m] = SizeWith(m, Curry(f))
  BY <1>3
<1> DEFINE Solves(table) ==
             table = [type \in DOMAIN Schemas |-> [m \in NewerMessages[type] |-> SizeWith(m, table)]]
<1>5. Solves(Curry(f))
  <2>1. ASSUME NEW type \in DOMAIN Schemas, NEW m \in NewerMessages[type]
        PROVE  f[m] = SizeWith(m, Curry(f))
    <3>1. m \in AllMessages
      BY <2>1 DEF AllMessages
    <3> QED
      BY <1>4, <3>1
  <2> QED
    BY <2>1 DEF Curry
<1>6. Solves(NestedSize)
  <2>1. NestedSize = CHOOSE table : Solves(table)
    BY DEF NestedSize
  <2> HIDE DEF Solves
  <2> QED
    BY <1>5, <2>1
<1>7. \A m \in AllMessages : NestedSize[m.type][m] = SizeWith(m, NestedSize)
  <2>1. \A m \in AllMessages : m.type \in DOMAIN Schemas /\ m \in NewerMessages[m.type]
    BY AllMessagesAre
  <2> QED
    BY <1>6, <2>1
<1>8. \A m \in AllMessages : HasKidsIn(NestedSize, m, Nat) => NestedSize[m.type][m] \in Nat
  BY <1>7, AllAreWhole, SizesInMessage
<1>9. \A m \in AllMessages : NestedSize[m.type][m] \in Nat
  BY <1>8, TableIsTyped
<1> QED
  BY <1>6, <1>7, <1>9

-----------------------------------------------------------------------------
(* What is written.                                                        *)

\* A nested message has an entry in the table of sizes.
LEMMA NestedSizeOfValue ==
  ASSUME NEW type \in DOMAIN Schemas, NEW m \in NewerMessages[type]
  PROVE  m \in AllMessages /\ m.type = type /\ NestedSize[type][m] \in Nat
<1>1. m \in AllMessages /\ m.type = type
  BY AllMessagesAre DEF AllMessages
<1> QED
  BY <1>1, NestedSizeIs

\* The elements that a field's values are written as.
LEMMA ElementsOfField ==
  ASSUME NEW field, IsField(field)
  PROVE  /\ \A raw \in Int :
              /\ Number(field.number, raw) \in AnyElement
              /\ Number(field.number, raw).size = VarintBytes(8 * field.number) + VarintBytes(raw)
         /\ \A text \in Seq(STRING) :
              /\ Text(field.number, text) \in AnyElement
              /\ Text(field.number, text).size
                   = VarintBytes(8 * field.number) + (VarintBytes(Len(text)) + Len(text))
         /\ \A size \in Nat :
              /\ Announced(field, size) \in AnyElement
              /\ Announced(field, size).size = VarintBytes(8 * field.number) + VarintBytes(size)
<1>1. field.number \in Nat \ {0}
  BY DEF IsField
<1>2. ASSUME NEW raw \in Int
      PROVE  Number(field.number, raw) \in AnyElement
  <2>1. VarintBytes(raw) \in Nat /\ raw \in AnyValue
    BY VarintBytesAre DEF AnyValue
  <2> QED
    BY <1>1, <2>1, ElementsAre DEF Number
<1>3. ASSUME NEW text \in Seq(STRING)
      PROVE  Text(field.number, text) \in AnyElement
  <2>1. Len(text) \in Nat /\ text \in AnyValue
    BY LenProperties DEF AnyValue
  <2>2. VarintBytes(Len(text)) \in Nat
    BY <2>1, VarintBytesAre
  <2>3. VarintBytes(Len(text)) + Len(text) \in Nat
    BY <2>1, <2>2
  <2> QED
    BY <1>1, <2>1, <2>3, ElementsAre DEF Text
<1>4. ASSUME NEW size \in Nat
      PROVE  Announced(field, size) \in AnyElement
  <2>1. VarintBytes(size) \in Nat /\ size \in AnyValue
    BY VarintBytesAre DEF AnyValue
  <2> QED
    BY <1>1, <2>1, ElementsAre DEF Announced
<1> QED
  BY <1>2, <1>3, <1>4 DEF Number, Text, Announced, Element

\* A value is written as elements.
LEMMA WrittenValueIs ==
  ASSUME NEW field, IsField(field), NEW value, NEW nested,
         ValueIs(field.kind, value, nested, Seq(AnyElement))
  PROVE  WrittenValue(field, value, nested) \in Seq(AnyElement)
<1> PICK kind : kind = field.kind
  OBVIOUS
<1>1. CASE kind.type = "message"
  <2> PICK size, rest : size = NestedSize[kind.message][value] /\ rest = nested[kind.message][value]
    OBVIOUS
  <2>1. size \in Nat /\ rest \in Seq(AnyElement)
    BY <1>1, KindIs, NestedSizeOfValue
  <2>2. Announced(field, size) \in AnyElement
    BY <2>1, ElementsOfField
  <2>3. WrittenValue(field, value, nested) = <<Announced(field, size)>> \o rest
    BY <1>1 DEF WrittenValue, Announced
  <2> HIDE DEF Announced
  <2>4. <<Announced(field, size)>> \in Seq(AnyElement)
    BY <2>2
  <2> QED
    BY <2>1, <2>3, <2>4, ConcatProperties
<1>2. CASE kind.type \in {"string", "bytes"}
  <2>1. value \in Seq(STRING)
    BY <1>2, KindIs
  <2>2. Text(field.number, value) \in AnyElement
    BY <2>1, ElementsOfField
  <2>3. WrittenValue(field, value, nested) = <<Text(field.number, value)>>
    BY <1>2 DEF WrittenValue
  <2> QED
    BY <2>2, <2>3
<1>3. CASE kind.type \notin {"message", "string", "bytes"}
  <2>1. Raw(kind, value) \in Int
    BY <1>3, KindIs
  <2>2. Number(field.number, Raw(kind, value)) \in AnyElement
    BY <2>1, ElementsOfField
  <2>3. WrittenValue(field, value, nested) = <<Number(field.number, Raw(kind, value))>>
    BY <1>3 DEF WrittenValue
  <2> QED
    BY <2>2, <2>3
<1> QED
  BY <1>1, <1>2, <1>3

\* A value takes the bytes that compute_size adds for it and its tag, if the
\* messages nested in it do.
LEMMA WrittenValueSize ==
  ASSUME NEW field, IsField(field), NEW value, NEW nested,
         ValueIs(field.kind, value, nested, Seq(AnyElement)),
         field.kind.type = "message" =>
           SizeOf(nested[field.kind.message][value]) = NestedSize[field.kind.message][value]
  PROVE  SizeOf(WrittenValue(field, value, nested))
           = VarintBytes(8 * field.number) + ValueSize(field.kind, value, NestedSize)
<1> PICK kind, tag : kind = field.kind /\ tag = VarintBytes(8 * field.number)
  OBVIOUS
<1>0. tag \in Nat
  <2>1. field.number \in Nat
    BY DEF IsField
  <2>2. 8 * field.number \in Int
    BY <2>1
  <2> QED
    BY <2>2, VarintBytesAre
<1>1. CASE kind.type = "message"
  <2> PICK size, rest : size = NestedSize[kind.message][value] /\ rest = nested[kind.message][value]
    OBVIOUS
  <2>1. size \in Nat /\ rest \in Seq(AnyElement) /\ SizeOf(rest) = size
    BY <1>1, KindIs, NestedSizeOfValue
  <2>2. Announced(field, size) \in AnyElement /\ Announced(field, size).size = tag + VarintBytes(size)
    BY <2>1, ElementsOfField
  <2>3. WrittenValue(field, value, nested) = <<Announced(field, size)>> \o rest
    BY <1>1 DEF WrittenValue, Announced
  <2>4. ValueSize(kind, value, NestedSize) = VarintBytes(size) + size
    BY <1>1 DEF ValueSize
  <2>5. VarintBytes(size) \in Nat
    BY <2>1, VarintBytesAre
  <2> HIDE DEF Announced
  <2>6. <<Announced(field, size)>> \in Seq(AnyElement) /\ SizeOf(<<Announced(field, size)>>) = tag + VarintBytes(size)
    BY <2>2, SizeOfOne
  <2>7. SizeOf(<<Announced(field, size)>> \o rest) = SizeOf(<<Announced(field, size)>>) + SizeOf(rest)
    BY <2>1, <2>6, SizeOfConcat
  <2>8. SizeOf(WrittenValue(field, value, nested)) = (tag + VarintBytes(size)) + size
    BY <2>1, <2>3, <2>6, <2>7
  <2>9. (tag + VarintBytes(size)) + size = tag + (VarintBytes(size) + size)
    BY <1>0, <2>1, <2>5
  <2> QED
    BY <2>4, <2>8, <2>9
<1>2. CASE kind.type \in {"string", "bytes"}
  <2>1. value \in Seq(STRING)
    BY <1>2, KindIs
  <2>2. Text(field.number, value) \in AnyElement
        /\ Text(field.number, value).size = tag + (VarintBytes(Len(value)) + Len(value))
    BY <2>1, ElementsOfField
  <2>3. WrittenValue(field, value, nested) = <<Text(field.number, value)>>
    BY <1>2 DEF WrittenValue
  <2>4. ValueSize(kind, value, NestedSize) = VarintBytes(Len(value)) + Len(value)
    BY <1>2 DEF ValueSize
  <2> QED
    BY <2>2, <2>3, <2>4, SizeOfOne
<1>3. CASE kind.type \notin {"message", "string", "bytes"}
  <2>1. Raw(kind, value) \in Int
    BY <1>3, KindIs
  <2>2. Number(field.number, Raw(kind, value)) \in AnyElement
        /\ Number(field.number, Raw(kind, value)).size = tag + VarintBytes(Raw(kind, value))
    BY <2>1, ElementsOfField
  <2>3. WrittenValue(field, value, nested) = <<Number(field.number, Raw(kind, value))>>
    BY <1>3 DEF WrittenValue
  <2>4. ValueSize(kind, value, NestedSize) = VarintBytes(Raw(kind, value))
    BY <1>3 DEF ValueSize
  <2> QED
    BY <2>2, <2>3, <2>4, SizeOfOne
<1> QED
  BY <1>1, <1>2, <1>3

\* The parts that WrittenField and WrittenWith put together.
WrittenValues(field, values, nested) ==
  [j \in DOMAIN values |-> WrittenValue(field, values[j], nested)]

WrittenFields(m, nested) ==
  [i \in DOMAIN m.fields |-> WrittenField(Schemas[m.type][i], m.fields[i], nested)]

\* What is not a field's is elements.
LEMMA UnknownIs ==
  ASSUME NEW m, IsWhole(m)
  PROVE  m.unknown \in Seq(AnyElement)
<1>1. m.unknown \in Seq({e \in AnyElement : IsForeign(e, m.type)})
  BY DEF IsWhole
<1> QED
  BY <1>1, SeqMonotonic

\* All that is written of a message is elements.
LEMMA WrittenInMessage ==
  ASSUME NEW m, IsWhole(m), NEW nested, HasKidsIn(nested, m, Seq(AnyElement))
  PROVE  /\ \A i \in DOMAIN m.fields :
              /\ WrittenValues(Schemas[m.type][i], m.fields[i], nested) \in Seq(Seq(AnyElement))
              /\ WrittenField(Schemas[m.type][i], m.fields[i], nested) \in Seq(AnyElement)
         /\ WrittenFields(m, nested) \in Seq(Seq(AnyElement))
         /\ WrittenWith(m, nested) \in Seq(AnyElement)
<1>1. ASSUME NEW i \in DOMAIN m.fields
      PROVE  /\ WrittenValues(Schemas[m.type][i], m.fields[i], nested) \in Seq(Seq(AnyElement))
             /\ WrittenField(Schemas[m.type][i], m.fields[i], nested) \in Seq(AnyElement)
  <2> PICK field, values : field = Schemas[m.type][i] /\ values = m.fields[i]
    OBVIOUS
  <2>1. IsField(field) /\ values \in Seq(Possible(field.kind, NewerMessages))
    BY FieldIs
  <2>2. Len(values) \in Nat /\ DOMAIN values = 1 .. Len(values)
    BY <2>1, LenProperties
  <2>3. ASSUME NEW j \in 1 .. Len(values)
        PROVE  WrittenValue(field, values[j], nested) \in Seq(AnyElement)
    <3>1. ValueIs(field.kind, values[j], nested, Seq(AnyElement))
      BY <2>2, <2>3, ValuesAre
    <3> QED
      BY <2>1, <3>1, WrittenValueIs
  <2>4. WrittenValues(field, values, nested) \in Seq(Seq(AnyElement))
    BY <2>2, <2>3, IsASeq DEF WrittenValues
  <2>5. WrittenField(field, values, nested) = FlattenSeq(WrittenValues(field, values, nested))
    BY DEF WrittenField, WrittenValues
  <2> QED
    BY <2>4, <2>5, FlatIsSeq
<1>2. WrittenFields(m, nested) \in Seq(Seq(AnyElement))
  <2> PICK n : n = Len(Schemas[m.type])
    OBVIOUS
  <2>1. m.type \in DOMAIN Schemas /\ IsMessage(m, m.type, NewerMessages)
    BY DEF IsWhole
  <2>2. n \in Nat /\ DOMAIN m.fields = 1 .. n
    <3>1. DOMAIN m.fields = DOMAIN Schemas[m.type]
      BY <2>1, MessageIs
    <3> QED
      BY <2>1, <3>1, SchemaIs
  <2>3. \A i \in 1 .. n : WrittenField(Schemas[m.type][i], m.fields[i], nested) \in Seq(AnyElement)
    BY <1>1, <2>2
  <2> QED
    BY <2>2, <2>3, IsASeq DEF WrittenFields
<1>3. FlattenSeq(WrittenFields(m, nested)) \in Seq(AnyElement)
  BY <1>2, FlatIsSeq
<1>4. WrittenWith(m, nested) = FlattenSeq(WrittenFields(m, nested)) \o m.unknown
  BY DEF WrittenWith, WrittenFields
<1>5. m.unknown \in Seq(AnyElement)
  BY UnknownIs
<1> QED
  BY <1>1, <1>2, <1>3, <1>4, <1>5, ConcatProperties

\* What is written depends on the messages nested, and on no others.
LEMMA WrittenIsLocal ==
  ASSUME NEW m, NEW nested, NEW other, HaveSameKids(nested, other, m)
  PROVE  WrittenWith(m, nested) = WrittenWith(m, other)
<1>1. ASSUME NEW i \in DOMAIN m.fields
      PROVE  WrittenField(Schemas[m.type][i], m.fields[i], nested)
               = WrittenField(Schemas[m.type][i], m.fields[i], other)
  <2> PICK field, values : field = Schemas[m.type][i] /\ values = m.fields[i]
    OBVIOUS
  <2>1. ASSUME NEW j \in DOMAIN values
        PROVE  WrittenValue(field, values[j], nested) = WrittenValue(field, values[j], other)
    <3>1. field.kind.type = "message" =>
            nested[field.kind.message][values[j]] = other[field.kind.message][values[j]]
      BY <2>1 DEF HaveSameKids, IsNesting, Of
    <3>2. CASE field.kind.type = "message"
      BY <3>1, <3>2 DEF WrittenValue
    <3>3. CASE field.kind.type # "message"
      BY <3>3 DEF WrittenValue
    <3> QED
      BY <3>2, <3>3
  <2>2. WrittenValues(field, values, nested) = WrittenValues(field, values, other)
    BY <2>1 DEF WrittenValues
  <2> QED
    BY <2>2 DEF WrittenField, WrittenValues
<1>2. WrittenFields(m, nested) = WrittenFields(m, other)
  BY <1>1 DEF WrittenFields
<1> QED
  BY <1>2 DEF WrittenWith, WrittenFields

\* The table of what is written exists, and has in it what it should.
LEMMA NestedWrittenIs ==
  \A m \in AllMessages :
    /\ NestedWritten[m.type][m] = WrittenWith(m, NestedWritten)
    /\ NestedWritten[m.type][m] \in Seq(AnyElement)
<1> DEFINE V == Seq(AnyElement)
           G == [m \in AllMessages |-> [f \in [AllMessages -> V] |-> WrittenWith(m, Curry(f))]]
<1>1. G \in [AllMessages -> [[AllMessages -> V] -> V]]
  BY CurryHasKids, AllAreWhole, WrittenInMessage
<1>2. IsLocal(G, V)
  <2>1. ASSUME NEW m \in AllMessages, NEW f \in [AllMessages -> V],
               NEW h \in [AllMessages -> V], \A k \in Kids(m) : f[k] = h[k]
        PROVE  WrittenWith(m, Curry(f)) = WrittenWith(m, Curry(h))
    BY <2>1, CurriesHaveSameKids, WrittenIsLocal
  <2> QED
    BY <2>1 DEF IsLocal
<1>3. PICK f \in [AllMessages -> V] : \A m \in AllMessages : f[m] = G[m][f]
  <2>1. V # {}
    BY EmptySeq
  <2> HIDE DEF G, V
  <2>2. HasTable(G, V)
    BY <1>1, <1>2, <2>1, TableExists
  <2> QED
    BY <2>2 DEF HasTable
<1>4. \A m \in AllMessages : f[m] = WrittenWith(m, Curry(f))
  BY <1>3
<1> DEFINE Solves(table) ==
             table = [type \in DOMAIN Schemas |->
                        [m \in NewerMessages[type] |-> WrittenWith(m, table)]]
<1>5. Solves(Curry(f))
  <2>1. ASSUME NEW type \in DOMAIN Schemas, NEW m \in NewerMessages[type]
        PROVE  f[m] = WrittenWith(m, Curry(f))
    <3>1. m \in AllMessages
      BY <2>1 DEF AllMessages
    <3> QED
      BY <1>4, <3>1
  <2> QED
    BY <2>1 DEF Curry
<1>6. Solves(NestedWritten)
  <2>1. NestedWritten = CHOOSE table : Solves(table)
    BY DEF NestedWritten
  <2> HIDE DEF Solves
  <2> QED
    BY <1>5, <2>1
<1>7. \A m \in AllMessages : NestedWritten[m.type][m] = WrittenWith(m, NestedWritten)
  <2>1. \A m \in AllMessages : m.type \in DOMAIN Schemas /\ m \in NewerMessages[m.type]
    BY AllMessagesAre
  <2>2. ASSUME NEW m \in AllMessages
        PROVE  NestedWritten[m.type][m] = WrittenWith(m, NestedWritten)
    <3>1. NestedWritten[m.type] = [o \in NewerMessages[m.type] |-> WrittenWith(o, NestedWritten)]
      BY <1>6, <2>1
    <3> QED
      BY <2>1, <3>1
  <2> QED
    BY <2>2
<1>8. \A m \in AllMessages : HasKidsIn(NestedWritten, m, V) => NestedWritten[m.type][m] \in V
  BY <1>7, AllAreWhole, WrittenInMessage
<1>9. \A m \in AllMessages : NestedWritten[m.type][m] \in V
  <2> HIDE DEF V
  <2> QED
    BY <1>8, TableIsTyped
<1> QED
  BY <1>7, <1>9

\* What is written takes the bytes that were computed, nested or not.
LEMMA WrittenSize ==
  ASSUME NEW m, IsWhole(m),
         \A i \in DOMAIN m.fields : IsNesting(m, i) =>
           \A j \in DOMAIN m.fields[i] :
             SizeOf(Of(NestedWritten, m, i, j)) = Of(NestedSize, m, i, j)
  PROVE  SizeOf(WrittenWith(m, NestedWritten)) = SizeWith(m, NestedSize)
<1>1. HasKidsIn(NestedSize, m, Nat) /\ HasKidsIn(NestedWritten, m, Seq(AnyElement))
  BY NestedSizeIs, NestedWrittenIs, KidsOfTable
<1>2. ASSUME NEW i \in DOMAIN m.fields
      PROVE  SizeOf(WrittenField(Schemas[m.type][i], m.fields[i], NestedWritten))
               = FieldSize(Schemas[m.type][i], m.fields[i], NestedSize)
  <2> PICK field, values : field = Schemas[m.type][i] /\ values = m.fields[i]
    OBVIOUS
  <2>1. IsField(field)
    BY FieldIs
  <2> DEFINE parts == WrittenValues(field, values, NestedWritten)
  <2>2. parts \in Seq(Seq(AnyElement)) /\ DOMAIN parts = DOMAIN values
    BY <1>1, WrittenInMessage DEF WrittenValues
  <2>3. ASSUME NEW j \in DOMAIN values
        PROVE  SizeOf(parts[j])
                 = VarintBytes(8 * field.number) + ValueSize(field.kind, values[j], NestedSize)
    <3>1. ValueIs(field.kind, values[j], NestedWritten, Seq(AnyElement))
      BY <1>1, <2>3, ValuesAre
    <3>2. field.kind.type = "message" =>
            SizeOf(NestedWritten[field.kind.message][values[j]])
              = NestedSize[field.kind.message][values[j]]
      BY <2>3 DEF IsNesting, Of
    <3>3. parts[j] = WrittenValue(field, values[j], NestedWritten)
      BY <2>3 DEF WrittenValues
    <3> QED
      BY <2>1, <3>1, <3>2, <3>3, WrittenValueSize
  <2>4. SizeOf(FlattenSeq(parts)) = Total([j \in DOMAIN parts |-> SizeOf(parts[j])])
    BY <2>2, SizeOfFlat
  <2>5. [j \in DOMAIN parts |-> SizeOf(parts[j])] = ValueSizes(field, values, NestedSize)
    BY <2>2, <2>3 DEF ValueSizes
  <2>6. WrittenField(field, values, NestedWritten) = FlattenSeq(parts)
    BY DEF WrittenField, WrittenValues
  <2>7. FieldSize(field, values, NestedSize) = Total(ValueSizes(field, values, NestedSize))
    BY DEF FieldSize, ValueSizes
  <2> QED
    BY <2>4, <2>5, <2>6, <2>7
<1> DEFINE parts == WrittenFields(m, NestedWritten)
<1>3. parts \in Seq(Seq(AnyElement)) /\ DOMAIN parts = DOMAIN m.fields
  BY <1>1, WrittenInMessage DEF WrittenFields
<1>4. [i \in DOMAIN parts |-> SizeOf(parts[i])] = FieldSizes(m, NestedSize)
  BY <1>2, <1>3 DEF WrittenFields, FieldSizes
<1>5. SizeOf(FlattenSeq(parts)) = Total(FieldSizes(m, NestedSize))
  BY <1>3, <1>4, SizeOfFlat
<1>6. FlattenSeq(parts) \in Seq(AnyElement) /\ m.unknown \in Seq(AnyElement)
  BY <1>3, FlatIsSeq, UnknownIs
<1>7. SizeOf(FlattenSeq(parts) \o m.unknown) = SizeOf(FlattenSeq(parts)) + SizeOf(m.unknown)
  BY <1>6, SizeOfConcat
<1>8. WrittenWith(m, NestedWritten) = FlattenSeq(parts) \o m.unknown
  BY DEF WrittenWith, WrittenFields
<1>9. SizeWith(m, NestedSize) = Total(FieldSizes(m, NestedSize)) + SizeOf(m.unknown)
  BY DEF SizeWith, FieldSizes
<1> QED
  BY <1>5, <1>7, <1>8, <1>9

\* The size of a nested message is that of what is written of it.
LEMMA NestedSizeIsExact ==
  \A m \in AllMessages : SizeOf(NestedWritten[m.type][m]) = NestedSize[m.type][m]
<1> DEFINE P == {m \in AllMessages : SizeOf(NestedWritten[m.type][m]) = NestedSize[m.type][m]}
<1>1. ASSUME NEW m \in AllMessages, Kids(m) \subseteq P
      PROVE  m \in P
  <2>1. ASSUME NEW i \in DOMAIN m.fields, IsNesting(m, i), NEW j \in DOMAIN m.fields[i]
        PROVE  SizeOf(Of(NestedWritten, m, i, j)) = Of(NestedSize, m, i, j)
    <3> PICK k, type : k = m.fields[i][j] /\ type = Schemas[m.type][i].kind.message
      OBVIOUS
    <3>1. k \in Kids(m) /\ k \in NewerMessages[type] /\ type \in DOMAIN Schemas
      BY <2>1, AllAreWhole, KidsAre
    <3>2. k \in P /\ k.type = type
      BY <1>1, <3>1, AllMessagesAre
    <3> QED
      BY <3>2 DEF Of
  <2>2. SizeOf(WrittenWith(m, NestedWritten)) = SizeWith(m, NestedSize)
    BY <2>1, AllAreWhole, WrittenSize
  <2> QED
    BY <2>2, NestedSizeIs, NestedWrittenIs
<1> HIDE DEF P
<1>2. AllMessages \subseteq P
  BY <1>1, MessageInduction
<1> QED
  BY <1>2 DEF P

\* So is that of a message that is not nested.
LEMMA WrittenIs ==
  ASSUME NEW m, IsWhole(m)
  PROVE  Written(m) \in Seq(AnyElement) /\ SizeOf(Written(m)) = ComputeSize(m)
<1>1. ASSUME NEW i \in DOMAIN m.fields, IsNesting(m, i), NEW j \in DOMAIN m.fields[i]
      PROVE  SizeOf(Of(NestedWritten, m, i, j)) = Of(NestedSize, m, i, j)
  <2> PICK k, type : k = m.fields[i][j] /\ type = Schemas[m.type][i].kind.message
    OBVIOUS
  <2>1. k \in NewerMessages[type] /\ type \in DOMAIN Schemas
    BY <1>1, KidsAre
  <2>2. k \in AllMessages /\ k.type = type
    BY <2>1, AllMessagesAre DEF AllMessages
  <2> QED
    BY <2>2, NestedSizeIsExact DEF Of
<1>2. SizeOf(WrittenWith(m, NestedWritten)) = SizeWith(m, NestedSize)
  BY <1>1, WrittenSize
<1>3. HasKidsIn(NestedWritten, m, Seq(AnyElement))
  BY NestedWrittenIs, KidsOfTable
<1>4. WrittenWith(m, NestedWritten) \in Seq(AnyElement)
  BY <1>3, WrittenInMessage
<1> QED
  BY <1>2, <1>4 DEF Written, ComputeSize

-----------------------------------------------------------------------------
(* What cannot be read.                                                    *)

\* Whether a message is garbled depends on those nested, and on no others.
LEMMA GarbledIsLocal ==
  ASSUME NEW m, NEW nested, NEW other, HaveSameKids(nested, other, m)
  PROVE  GarbledWith(m, nested) = GarbledWith(m, other)
<1>1. ASSUME NEW i \in DOMAIN m.fields, Schemas[m.type][i].kind.type = "message",
             NEW j \in DOMAIN m.fields[i]
      PROVE  nested[Schemas[m.type][i].kind.message][m.fields[i][j]]
               = other[Schemas[m.type][i].kind.message][m.fields[i][j]]
  BY <1>1 DEF HaveSameKids, IsNesting, Of
<1>2. ASSUME NEW i \in DOMAIN m.fields, Schemas[m.type][i].kind.type = "message"
      PROVE  (\E j \in DOMAIN m.fields[i] : nested[Schemas[m.type][i].kind.message][m.fields[i][j]])
               <=> \E j \in DOMAIN m.fields[i] : other[Schemas[m.type][i].kind.message][m.fields[i][j]]
  BY <1>1, <1>2, Zenon
<1>3. GarbledWith(m, nested) <=> GarbledWith(m, other)
  BY <1>2, Zenon DEF GarbledWith
<1>4. GarbledWith(m, nested) \in BOOLEAN /\ GarbledWith(m, other) \in BOOLEAN
  BY DEF GarbledWith
<1> QED
  BY <1>3, <1>4

\* The table of garbled messages exists.
LEMMA NestedGarbledIs ==
  \A m \in AllMessages : NestedGarbled[m.type][m] = GarbledWith(m, NestedGarbled)
<1> DEFINE G == [m \in AllMessages |-> [f \in [AllMessages -> BOOLEAN] |-> GarbledWith(m, Curry(f))]]
<1>1. G \in [AllMessages -> [[AllMessages -> BOOLEAN] -> BOOLEAN]]
  <2>1. \A m \in AllMessages : \A f \in [AllMessages -> BOOLEAN] :
          GarbledWith(m, Curry(f)) \in BOOLEAN
    BY DEF GarbledWith
  <2> QED
    BY <2>1
<1>2. IsLocal(G, BOOLEAN)
  <2>1. ASSUME NEW m \in AllMessages, NEW f \in [AllMessages -> BOOLEAN],
               NEW h \in [AllMessages -> BOOLEAN], \A k \in Kids(m) : f[k] = h[k]
        PROVE  GarbledWith(m, Curry(f)) = GarbledWith(m, Curry(h))
    BY <2>1, CurriesHaveSameKids, GarbledIsLocal
  <2> QED
    BY <2>1 DEF IsLocal
<1>3. PICK f \in [AllMessages -> BOOLEAN] : \A m \in AllMessages : f[m] = G[m][f]
  <2>1. BOOLEAN # {}
    OBVIOUS
  <2> HIDE DEF G
  <2>2. HasTable(G, BOOLEAN)
    BY <1>1, <1>2, <2>1, TableExists
  <2> QED
    BY <2>2 DEF HasTable
<1>4. \A m \in AllMessages : f[m] = GarbledWith(m, Curry(f))
  BY <1>3
<1> DEFINE Solves(table) ==
             table = [type \in DOMAIN Schemas |->
                        [m \in NewerMessages[type] |-> GarbledWith(m, table)]]
<1>5. Solves(Curry(f))
  <2>1. ASSUME NEW type \in DOMAIN Schemas, NEW m \in NewerMessages[type]
        PROVE  f[m] = GarbledWith(m, Curry(f))
    <3>1. m \in AllMessages
      BY <2>1 DEF AllMessages
    <3> QED
      BY <1>4, <3>1
  <2> QED
    BY <2>1 DEF Curry
<1>6. Solves(NestedGarbled)
  <2>1. NestedGarbled = CHOOSE table : Solves(table)
    BY DEF NestedGarbled
  <2> HIDE DEF Solves
  <2> QED
    BY <1>5, <2>1
<1>7. ASSUME NEW m \in AllMessages
      PROVE  NestedGarbled[m.type][m] = GarbledWith(m, NestedGarbled)
  <2>1. m.type \in DOMAIN Schemas /\ m \in NewerMessages[m.type]
    BY AllMessagesAre
  <2>2. NestedGarbled[m.type] = [o \in NewerMessages[m.type] |-> GarbledWith(o, NestedGarbled)]
    BY <1>6, <2>1
  <2> QED
    BY <2>1, <2>2
<1> QED
  BY <1>7

\* A message that the program itself can put together is not garbled.
IsOurs(m) ==
  /\ m.type \in DOMAIN Schemas /\ IsMessage(m, m.type, Messages) /\ m.unknown = <<>>
  /\ \A i \in DOMAIN m.fields :
       LET kind == Schemas[m.type][i].kind IN
       kind.type = "enum" => Range(m.fields[i]) \subseteq Range(kind.values)

\* The messages of this program have only what is in its schema.
LEMMA MessagesAreOurs ==
  ASSUME NEW type \in DOMAIN Schemas, NEW m \in Messages[type]
  PROVE  IsOurs(m) /\ m.type = type /\ m \in NewerMessages[type] /\ m \in AllMessages
<1>1. m \in NewerMessages[type] /\ IsMessage(m, type, Messages) /\ m.unknown = <<>>
  BY MessagesAssumption
<1>2. m.type = type
  BY <1>1, AllMessagesAre
<1>3. \A i \in DOMAIN m.fields :
         LET kind == Schemas[type][i].kind IN
         kind.type = "enum" => Range(m.fields[i]) \subseteq Range(kind.values)
  BY MessagesAssumption
<1> QED
  BY <1>1, <1>2, <1>3 DEF IsOurs, AllMessages

\* They are not garbled if those nested in them are not.
LEMMA OursIsNotGarbled ==
  ASSUME NEW m, IsOurs(m),
         \A i \in DOMAIN m.fields : IsNesting(m, i) =>
           \A j \in DOMAIN m.fields[i] : ~ Of(NestedGarbled, m, i, j)
  PROVE  ~ GarbledWith(m, NestedGarbled)
<1>1. ~ \E j \in DOMAIN m.unknown : FieldOf(m.type, m.unknown[j].number) # 0
  <2>1. DOMAIN m.unknown = {}
    BY DEF IsOurs
  <2> QED
    BY <2>1
<1>2. ASSUME NEW i \in DOMAIN m.fields
      PROVE  /\ ~ (/\ Schemas[m.type][i].kind.type = "enum"
                   /\ ~ (Range(m.fields[i]) \subseteq Range(Schemas[m.type][i].kind.values)))
             /\ ~ (/\ Schemas[m.type][i].kind.type = "message"
                   /\ \E j \in DOMAIN m.fields[i] :
                        NestedGarbled[Schemas[m.type][i].kind.message][m.fields[i][j]])
  <2>1. Schemas[m.type][i].kind.type = "enum" =>
          Range(m.fields[i]) \subseteq Range(Schemas[m.type][i].kind.values)
    BY Zenon DEF IsOurs
  <2>2. Schemas[m.type][i].kind.type = "message" =>
          \A j \in DOMAIN m.fields[i] :
            ~ NestedGarbled[Schemas[m.type][i].kind.message][m.fields[i][j]]
    BY Zenon DEF IsNesting, Of
  <2> QED
    BY <2>1, <2>2, Zenon
<1> QED
  BY <1>1, <1>2, Zenon DEF GarbledWith

\* The messages nested in ours are ours.
LEMMA OurKidsAre ==
  ASSUME NEW m, IsOurs(m), NEW i \in DOMAIN m.fields, IsNesting(m, i),
         NEW j \in DOMAIN m.fields[i]
  PROVE  /\ m.fields[i][j] \in Messages[Schemas[m.type][i].kind.message]
         /\ Schemas[m.type][i].kind.message \in DOMAIN Schemas
<1> PICK field, kind : field = Schemas[m.type][i] /\ kind = field.kind
  OBVIOUS
<1>1. m.type \in DOMAIN Schemas /\ IsMessage(m, m.type, Messages)
  BY DEF IsOurs
<1>2. i \in DOMAIN Schemas[m.type] /\ m.fields[i] \in Seq(Possible(kind, Messages))
  BY <1>1, MessageIs
<1>3. kind.type = "message" /\ IsField(field)
  BY <1>1, <1>2, SchemaIs DEF IsNesting
<1>4. field.kind.type = "message" => field.kind.message \in DOMAIN Schemas
  BY <1>3, Zenon DEF IsField
<1>5. Possible(kind, Messages) = Messages[kind.message]
  BY <1>3 DEF Possible
<1>6. m.fields[i] \in Seq(Messages[kind.message])
  BY <1>2, <1>5
<1>7. m.fields[i][j] \in Messages[kind.message]
  BY <1>6, ElementOfSeq, LenProperties
<1> QED
  BY <1>3, <1>4, <1>7

\* So none that is nested is garbled.
LEMMA OurNestedAreNotGarbled ==
  \A m \in AllMessages : m \in Messages[m.type] => ~ NestedGarbled[m.type][m]
<1> DEFINE P == {m \in AllMessages : m \in Messages[m.type] => ~ NestedGarbled[m.type][m]}
<1>1. ASSUME NEW m \in AllMessages, Kids(m) \subseteq P
      PROVE  m \in P
  <2>1. SUFFICES ASSUME m \in Messages[m.type]
                 PROVE  ~ NestedGarbled[m.type][m]
    OBVIOUS
  <2>2. IsOurs(m)
    BY <2>1, AllMessagesAre, MessagesAreOurs
  <2>3. ASSUME NEW i \in DOMAIN m.fields, IsNesting(m, i), NEW j \in DOMAIN m.fields[i]
        PROVE  ~ Of(NestedGarbled, m, i, j)
    <3> PICK k, type : k = m.fields[i][j] /\ type = Schemas[m.type][i].kind.message
      OBVIOUS
    <3>1. k \in Kids(m)
      BY <2>3, AllAreWhole, KidsAre
    <3>2. k \in Messages[type] /\ type \in DOMAIN Schemas
      BY <2>2, <2>3, OurKidsAre
    <3>3. k.type = type /\ k \in P
      BY <1>1, <3>1, <3>2, MessagesAreOurs
    <3> QED
      BY <3>2, <3>3 DEF Of
  <2>4. ~ GarbledWith(m, NestedGarbled)
    BY <2>2, <2>3, OursIsNotGarbled
  <2> QED
    BY <2>4, NestedGarbledIs
<1> HIDE DEF P
<1>2. AllMessages \subseteq P
  BY <1>1, MessageInduction
<1> QED
  BY <1>2 DEF P

\* And none that is not.
LEMMA OursAreNotGarbled ==
  ASSUME NEW m, IsOurs(m)
  PROVE  ~ GarbledWith(m, NestedGarbled)
<1>1. ASSUME NEW i \in DOMAIN m.fields, IsNesting(m, i), NEW j \in DOMAIN m.fields[i]
      PROVE  ~ Of(NestedGarbled, m, i, j)
  <2> PICK k, type : k = m.fields[i][j] /\ type = Schemas[m.type][i].kind.message
    OBVIOUS
  <2>1. k \in Messages[type] /\ type \in DOMAIN Schemas
    BY <1>1, OurKidsAre
  <2>2. k.type = type /\ k \in AllMessages
    BY <2>1, MessagesAreOurs
  <2> QED
    BY <2>1, <2>2, OurNestedAreNotGarbled DEF Of
<1> QED
  BY <1>1, OursIsNotGarbled

-----------------------------------------------------------------------------
(* What is made of each of the parts of a sequence, one after the other.   *)

MapOf(F, s) == [k \in DOMAIN s |-> F[s[k]]]

Mapped(F, s) == FlattenSeq(MapOf(F, s))

IsMap(F, A, B) == F \in [A -> Seq(B)]

\* What a map to sequences makes of a sequence.
LEMMA MapIs ==
  ASSUME NEW A, NEW B, NEW F, IsMap(F, A, B), NEW s \in Seq(A)
  PROVE  MapOf(F, s) \in Seq(Seq(B)) /\ Mapped(F, s) \in Seq(B)
<1>1. Len(s) \in Nat /\ DOMAIN s = 1 .. Len(s) /\ \A k \in 1 .. Len(s) : s[k] \in A
  BY LenProperties, ElementOfSeq
<1>2. \A k \in 1 .. Len(s) : F[s[k]] \in Seq(B)
  BY <1>1 DEF IsMap
<1>3. MapOf(F, s) \in Seq(Seq(B))
  BY <1>1, <1>2, IsASeq DEF MapOf
<1> QED
  BY <1>3, FlatIsSeq DEF Mapped

\* Of nothing, nothing.
LEMMA MappedOfNothing ==
  ASSUME NEW F
  PROVE  Mapped(F, <<>>) = <<>>
<1>1. MapOf(F, <<>>) = <<>>
  BY DEF MapOf
<1> QED
  BY <1>1, FlatOfNothing DEF Mapped

\* Of a concatenation, the concatenation.
LEMMA MappedOfConcat ==
  ASSUME NEW A, NEW B, NEW F, IsMap(F, A, B), NEW s \in Seq(A), NEW t \in Seq(A)
  PROVE  Mapped(F, s \o t) = Mapped(F, s) \o Mapped(F, t)
<1> DEFINE Map(r) == MapOf(F, r)
<1>1. s \o t \in Seq(A)
  BY ConcatProperties
<1>2. Map(s) \in Seq(Seq(B)) /\ Map(t) \in Seq(Seq(B))
  BY MapIs
<1>3. Map(s \o t) = Map(s) \o Map(t)
  <2>1. /\ Len(s) \in Nat /\ Len(t) \in Nat /\ DOMAIN s = 1 .. Len(s) /\ DOMAIN t = 1 .. Len(t)
        /\ Len(s \o t) = Len(s) + Len(t) /\ DOMAIN (s \o t) = 1 .. Len(s) + Len(t)
    BY <1>1, LenProperties, ConcatProperties
  <2>2. Len(Map(s)) = Len(s) /\ Len(Map(t)) = Len(t)
    BY <2>1 DEF MapOf
  <2>3. Map(s) \o Map(t) = [k \in 1 .. Len(s) + Len(t) |->
                              IF k <= Len(s) THEN Map(s)[k] ELSE Map(t)[k - Len(s)]]
    BY <2>1, <2>2 DEF MapOf
  <2>4. ASSUME NEW k \in 1 .. Len(s) + Len(t)
        PROVE  F[(s \o t)[k]] = IF k <= Len(s) THEN Map(s)[k] ELSE Map(t)[k - Len(s)]
    <3>1. (s \o t)[k] = IF k <= Len(s) THEN s[k] ELSE t[k - Len(s)]
      BY <2>1
    <3>2. CASE k <= Len(s)
      BY <2>1, <3>1, <3>2 DEF MapOf
    <3>3. CASE ~ (k <= Len(s))
      <4>1. k - Len(s) \in DOMAIN t
        BY <2>1, <3>3
      <4> QED
        BY <3>1, <3>3, <4>1 DEF MapOf
    <3> QED
      BY <3>2, <3>3
  <2> QED
    BY <2>1, <2>3, <2>4 DEF MapOf
<1>4. FlattenSeq(Map(s) \o Map(t)) = FlattenSeq(Map(s)) \o FlattenSeq(Map(t))
  BY <1>2, FlatOfConcat
<1> QED
  BY <1>3, <1>4 DEF Mapped

\* Of one element, what it is mapped to.
LEMMA MappedOfOne ==
  ASSUME NEW A, NEW B, NEW F, IsMap(F, A, B), NEW a \in A
  PROVE  Mapped(F, <<a>>) = F[a]
<1>1. MapOf(F, <<a>>) = <<F[a]>>
  BY DEF MapOf
<1>2. F[a] \in Seq(B)
  BY DEF IsMap
<1>3. FlattenSeq(<<F[a]>>) = F[a]
  BY <1>2, FlatOfOne
<1> QED
  BY <1>1, <1>3 DEF Mapped

\* The first element's comes first.
LEMMA MappedOfFirst ==
  ASSUME NEW A, NEW B, NEW F, IsMap(F, A, B), NEW s \in Seq(A), s # <<>>
  PROVE  /\ Head(s) \in A /\ Tail(s) \in Seq(A)
         /\ Mapped(F, s) = F[Head(s)] \o Mapped(F, Tail(s))
<1> PICK one, rest : one = <<Head(s)>> /\ rest = Tail(s)
  OBVIOUS
<1>1. Head(s) \in A /\ rest \in Seq(A) /\ one \in Seq(A)
  BY HeadTailProperties
<1>2. s = one \o rest
  BY <1>1, HeadTailProperties
<1>3. Mapped(F, one \o rest) = Mapped(F, one) \o Mapped(F, rest)
  <2>1. \A p, q \in Seq(A) : Mapped(F, p \o q) = Mapped(F, p) \o Mapped(F, q)
    BY MappedOfConcat
  <2> QED
    BY <1>1, <2>1, Zenon
<1>4. Mapped(F, one) = F[Head(s)]
  BY <1>1, MappedOfOne
<1> QED
  BY <1>1, <1>2, <1>3, <1>4

\* Of what is flattened, the flattened.
LEMMA MappedOfFlat ==
  ASSUME NEW A, NEW B, NEW F, IsMap(F, A, B), NEW ss \in Seq(Seq(A))
  PROVE  Mapped(F, FlattenSeq(ss)) = FlattenSeq([k \in DOMAIN ss |-> Mapped(F, ss[k])])
<1> DEFINE All(rr) == [k \in DOMAIN rr |-> Mapped(F, rr[k])]
           P == {rr \in Seq(Seq(A)) : /\ All(rr) \in Seq(Seq(B))
                                      /\ Mapped(F, FlattenSeq(rr)) = FlattenSeq(All(rr))}
<1>1. <<>> \in P
  <2>1. All(<<>>) = <<>>
    OBVIOUS
  <2> QED
    BY <2>1, FlatOfNothing, MappedOfNothing
<1>2. ASSUME NEW rr \in Seq(Seq(A)), NEW s \in Seq(A), rr \in P
      PROVE  Append(rr, s) \in P
  <2>1. Mapped(F, s) \in Seq(B) /\ FlattenSeq(rr) \in Seq(A)
    BY MapIs, FlatIsSeq
  <2>2. All(Append(rr, s)) = Append(All(rr), Mapped(F, s))
    OBVIOUS
  <2>3. FlattenSeq(Append(rr, s)) = FlattenSeq(rr) \o s
    BY FlatOfAppend
  <2>4. Mapped(F, FlattenSeq(rr) \o s) = Mapped(F, FlattenSeq(rr)) \o Mapped(F, s)
    BY <2>1, MappedOfConcat
  <2>5. All(rr) \in Seq(Seq(B)) /\ Mapped(F, FlattenSeq(rr)) = FlattenSeq(All(rr))
    BY <1>2
  <2>6. FlattenSeq(Append(All(rr), Mapped(F, s))) = FlattenSeq(All(rr)) \o Mapped(F, s)
    BY <2>1, <2>5, FlatOfAppend
  <2>7. Append(All(rr), Mapped(F, s)) \in Seq(Seq(B)) /\ Append(rr, s) \in Seq(Seq(A))
    BY <2>1, <2>5, AppendProperties
  <2> HIDE DEF All
  <2> QED
    BY <2>2, <2>3, <2>4, <2>5, <2>6, <2>7
<1>3. ss \in P
  <2> HIDE DEF P
  <2> QED
    BY <1>1, <1>2, SequenceInduction
<1> QED
  BY <1>3

-----------------------------------------------------------------------------
(* Pieces: what the reader takes in one go, a value with what is written   *)
(* of it, and all the values of a field that are packed.  An element that  *)
(* is not of a field is a piece of field 0.                                *)

Anything ==
  BOOLEAN \cup Int \cup Seq(STRING) \cup AllMessages \cup {Empty(type) : type \in DOMAIN Schemas}
    \cup AnyElement

\* Concatenations of elements, and of values, may be bracketed either way.
LEMMA AssociatesHere ==
  /\ \A x, y, z \in Seq(AnyElement) : (x \o y) \o z = x \o (y \o z)
  /\ \A x, y, z \in Seq(Anything) : (x \o y) \o z = x \o (y \o z)
BY Associates

AnyPiece == [field : Nat, values : Seq(Anything), elements : Seq(AnyElement)]

Piece(field, values, elements) == [field |-> field, values |-> values, elements |-> elements]

IsUnknownPiece(p, type) ==
  \E e \in AnyElement : IsForeign(e, type) /\ p = Piece(0, <<e>>, <<e>>)

IsValuePiece(p, type) ==
  \E i \in DOMAIN Schemas[type] : \E value \in Anything :
    /\ ValueIs(Schemas[type][i].kind, value, NestedWritten, Seq(AnyElement))
    /\ p = Piece(i, <<value>>, WrittenValue(Schemas[type][i], value, NestedWritten))

IsPackedPiece(p, type) ==
  \E i \in DOMAIN Schemas[type] : \E values \in Seq(Anything) :
    /\ IsPackable(Schemas[type][i]) /\ values # <<>>
    /\ values \in Seq(Possible(Schemas[type][i].kind, NewerMessages))
    /\ p = Piece(i, values, <<Packed(Schemas[type][i], values)>>)

Pieces(type) ==
  {p \in AnyPiece : IsUnknownPiece(p, type) \/ IsValuePiece(p, type) \/ IsPackedPiece(p, type)}

ElementsOf == [p \in AnyPiece |-> p.elements]

ValuesOf(i) == [p \in AnyPiece |-> IF p.field = i THEN p.values ELSE <<>>]

\* The elements of the pieces, and the values of field i in them.
Elements(todo) == Mapped(ElementsOf, todo)

ValuesIn(todo, i) == Mapped(ValuesOf(i), todo)

\* A piece is mapped to its elements, and to its values of a field.
LEMMA PieceMaps ==
  ASSUME NEW i
  PROVE  IsMap(ElementsOf, AnyPiece, AnyElement) /\ IsMap(ValuesOf(i), AnyPiece, Anything)
<1>1. \A p \in AnyPiece : p.elements \in Seq(AnyElement) /\ p.values \in Seq(Anything)
  BY DEF AnyPiece
<1>2. \A p \in AnyPiece : (IF p.field = i THEN p.values ELSE <<>>) \in Seq(Anything)
  BY <1>1, EmptySeq
<1> QED
  BY <1>1, <1>2 DEF IsMap, ElementsOf, ValuesOf

\* A sequence of the pieces of a type is one of pieces.
LEMMA PiecesAre ==
  ASSUME NEW type, NEW todo \in Seq(Pieces(type))
  PROVE  todo \in Seq(AnyPiece)
<1>1. Pieces(type) \subseteq AnyPiece
  BY DEF Pieces
<1> QED
  BY <1>1, SeqMonotonic

\* The values of a kind are among all that there are.
LEMMA PossibleIsAnything ==
  ASSUME NEW field, IsField(field)
  PROVE  Possible(field.kind, NewerMessages) \subseteq Anything
<1> PICK kind : kind = field.kind
  OBVIOUS
<1>1. CASE kind.type = "message"
  <2>1. kind.message \in DOMAIN Schemas
    BY <1>1, Zenon DEF IsField
  <2>2. Possible(kind, NewerMessages) = NewerMessages[kind.message]
    BY <1>1 DEF Possible
  <2> QED
    BY <2>1, <2>2 DEF Anything, AllMessages
<1>2. CASE kind.type # "message"
  BY <1>2 DEF Possible, Anything
<1> QED
  BY <1>1, <1>2

\* The pieces of the values of a field.
FieldPieces(m, i) ==
  [j \in DOMAIN m.fields[i] |->
     Piece(i, <<m.fields[i][j]>>, WrittenValue(Schemas[m.type][i], m.fields[i][j], NestedWritten))]

\* The pieces of a field have its values and are written as its elements.
LEMMA FieldPiecesAre ==
  ASSUME NEW m, IsWhole(m), NEW i \in DOMAIN m.fields
  PROVE  /\ FieldPieces(m, i) \in Seq(Pieces(m.type))
         /\ Elements(FieldPieces(m, i)) = WrittenField(Schemas[m.type][i], m.fields[i], NestedWritten)
         /\ \A k : ValuesIn(FieldPieces(m, i), k) = IF k = i THEN m.fields[i] ELSE <<>>
<1> PICK field, values, pieces :
      field = Schemas[m.type][i] /\ values = m.fields[i] /\ pieces = FieldPieces(m, i)
  OBVIOUS
<1>1. /\ IsField(field) /\ values \in Seq(Possible(field.kind, NewerMessages))
      /\ i \in DOMAIN Schemas[m.type] /\ i \in Nat
  BY FieldIs
<1>2. Len(values) \in Nat /\ DOMAIN values = 1 .. Len(values)
  BY <1>1, LenProperties
<1>3. \A j \in 1 .. Len(values) : values[j] \in Anything
  <2>1. \A j \in 1 .. Len(values) : values[j] \in Possible(field.kind, NewerMessages)
    BY <1>1, ElementOfSeq
  <2> QED
    BY <1>1, <2>1, PossibleIsAnything
<1> DEFINE P(j) == Piece(i, <<values[j]>>, WrittenValue(field, values[j], NestedWritten))
<1>4. ASSUME NEW j \in 1 .. Len(values)
      PROVE  P(j) \in Pieces(m.type)
  <2>1. HasKidsIn(NestedWritten, m, Seq(AnyElement))
    BY NestedWrittenIs, KidsOfTable
  <2>2. ValueIs(field.kind, values[j], NestedWritten, Seq(AnyElement))
    BY <1>2, <2>1, ValuesAre
  <2>3. WrittenValue(field, values[j], NestedWritten) \in Seq(AnyElement)
    BY <1>1, <2>2, WrittenValueIs
  <2>4. <<values[j]>> \in Seq(Anything)
    BY <1>3
  <2>5. P(j) \in AnyPiece
    BY <1>1, <2>3, <2>4 DEF AnyPiece, Piece
  <2>6. IsValuePiece(P(j), m.type)
    BY <1>1, <1>3, <2>2 DEF IsValuePiece
  <2> QED
    BY <2>5, <2>6 DEF Pieces
<1>5. pieces = [j \in 1 .. Len(values) |-> P(j)]
  BY <1>2 DEF FieldPieces
<1>6. pieces \in Seq(Pieces(m.type))
  <2> HIDE DEF P
  <2> QED
    BY <1>2, <1>4, <1>5, IsASeq
<1>7. \A j \in 1 .. Len(values) : P(j) \in AnyPiece
  BY <1>4 DEF Pieces
<1>8. Elements(pieces) = WrittenField(field, values, NestedWritten)
  <2>1. MapOf(ElementsOf, pieces) = [j \in DOMAIN values |-> WrittenValue(field, values[j], NestedWritten)]
    <3>1. ASSUME NEW j \in 1 .. Len(values)
          PROVE  ElementsOf[P(j)] = WrittenValue(field, values[j], NestedWritten)
      <4>1. ElementsOf[P(j)] = P(j).elements
        BY <1>7, <3>1 DEF ElementsOf
      <4> QED
        BY <4>1 DEF Piece
    <3> HIDE DEF P
    <3> QED
      BY <1>2, <1>5, <3>1 DEF MapOf
  <2> QED
    BY <2>1 DEF Elements, Mapped, WrittenField
<1>9. ASSUME NEW k
      PROVE  ValuesIn(pieces, k) = IF k = i THEN values ELSE <<>>
  <2>1. ASSUME NEW j \in 1 .. Len(values)
        PROVE  ValuesOf(k)[P(j)] = IF k = i THEN <<values[j]>> ELSE <<>>
    <3>1. ValuesOf(k)[P(j)] = IF P(j).field = k THEN P(j).values ELSE <<>>
      BY <1>7, <2>1 DEF ValuesOf
    <3> QED
      BY <3>1 DEF Piece
  <2>2. MapOf(ValuesOf(k), pieces) = [j \in 1 .. Len(values) |-> IF k = i THEN <<values[j]>> ELSE <<>>]
    <3> HIDE DEF P
    <3> QED
      BY <1>5, <2>1 DEF MapOf
  <2>3. CASE k = i
    <3>1. MapOf(ValuesOf(k), pieces) = [j \in DOMAIN values |-> <<values[j]>>]
      BY <1>2, <2>2, <2>3
    <3>2. FlattenSeq([j \in DOMAIN values |-> <<values[j]>>]) = values
      BY <1>1, FlatOfElements
    <3> QED
      BY <2>3, <3>1, <3>2 DEF ValuesIn, Mapped
  <2>4. CASE k # i
    <3>1. MapOf(ValuesOf(k), pieces) = [j \in 1 .. Len(values) |-> <<>>]
      BY <2>2, <2>4
    <3> QED
      BY <1>2, <2>4, <3>1, FlatOfNothings DEF ValuesIn, Mapped
  <2> QED
    BY <2>3, <2>4
<1> QED
  BY <1>6, <1>8, <1>9

\* The pieces that a message is read by.
IsTodo(todo, m) ==
  /\ todo \in Seq(Pieces(m.type))
  /\ \A i \in DOMAIN m.fields : ValuesIn(todo, i) = m.fields[i]
  /\ ValuesIn(todo, 0) = m.unknown

\* What pieces have, when they are put together.
LEMMA ValuesOfConcat ==
  ASSUME NEW s \in Seq(AnyPiece), NEW t \in Seq(AnyPiece), NEW i
  PROVE  /\ s \o t \in Seq(AnyPiece)
         /\ Elements(s \o t) = Elements(s) \o Elements(t)
         /\ ValuesIn(s \o t, i) = ValuesIn(s, i) \o ValuesIn(t, i)
         /\ Elements(s) \in Seq(AnyElement) /\ ValuesIn(s, i) \in Seq(Anything)
<1>1. IsMap(ElementsOf, AnyPiece, AnyElement) /\ IsMap(ValuesOf(i), AnyPiece, Anything)
  BY PieceMaps
<1>2. s \o t \in Seq(AnyPiece)
  BY ConcatProperties
<1>3. Mapped(ElementsOf, s \o t) = Mapped(ElementsOf, s) \o Mapped(ElementsOf, t)
  BY <1>1, MappedOfConcat
<1>4. Mapped(ValuesOf(i), s \o t) = Mapped(ValuesOf(i), s) \o Mapped(ValuesOf(i), t)
  BY <1>1, MappedOfConcat
<1>5. Mapped(ElementsOf, s) \in Seq(AnyElement) /\ Mapped(ValuesOf(i), s) \in Seq(Anything)
  BY <1>1, MapIs
<1> QED
  BY <1>2, <1>3, <1>4, <1>5 DEF Elements, ValuesIn

UnknownPieces(m) == [j \in DOMAIN m.unknown |-> Piece(0, <<m.unknown[j]>>, <<m.unknown[j]>>)]

\* The pieces of what is not in a field.
LEMMA UnknownPiecesAre ==
  ASSUME NEW m, IsWhole(m)
  PROVE  /\ UnknownPieces(m) \in Seq(Pieces(m.type))
         /\ Elements(UnknownPieces(m)) = m.unknown
         /\ \A k : ValuesIn(UnknownPieces(m), k) = IF k = 0 THEN m.unknown ELSE <<>>
<1> PICK values, pieces : values = m.unknown /\ pieces = UnknownPieces(m)
  OBVIOUS
<1>1. values \in Seq({e \in AnyElement : IsForeign(e, m.type)})
  BY DEF IsWhole
<1>2. Len(values) \in Nat /\ DOMAIN values = 1 .. Len(values)
  BY <1>1, LenProperties
<1>3. \A j \in 1 .. Len(values) :
         values[j] \in AnyElement /\ IsForeign(values[j], m.type) /\ values[j] \in Anything
  BY <1>1, ElementOfSeq DEF Anything
<1>a. values \in Seq(AnyElement) /\ values \in Seq(Anything)
  <2>1. AnyElement \subseteq Anything
    BY DEF Anything
  <2>2. values \in Seq(AnyElement)
    BY UnknownIs
  <2> QED
    BY <2>1, <2>2, SeqMonotonic
<1> DEFINE P(j) == Piece(0, <<values[j]>>, <<values[j]>>)
<1>4. ASSUME NEW j \in 1 .. Len(values)
      PROVE  P(j) \in Pieces(m.type) /\ P(j) \in AnyPiece
  <2>1. <<values[j]>> \in Seq(Anything) /\ <<values[j]>> \in Seq(AnyElement)
    BY <1>3
  <2>2. P(j) \in AnyPiece
    BY <2>1 DEF AnyPiece, Piece
  <2>3. IsUnknownPiece(P(j), m.type)
    BY <1>3 DEF IsUnknownPiece
  <2> QED
    BY <2>2, <2>3 DEF Pieces
<1>5. pieces = [j \in 1 .. Len(values) |-> P(j)]
  BY <1>2 DEF UnknownPieces
<1>6. pieces \in Seq(Pieces(m.type))
  <2> HIDE DEF P
  <2> QED
    BY <1>2, <1>4, <1>5, IsASeq
<1>8. Elements(pieces) = values
  <2>1. MapOf(ElementsOf, pieces) = [j \in DOMAIN values |-> <<values[j]>>]
    <3>1. ASSUME NEW j \in 1 .. Len(values)
          PROVE  ElementsOf[P(j)] = <<values[j]>>
      <4>1. ElementsOf[P(j)] = P(j).elements
        BY <1>4, <3>1 DEF ElementsOf
      <4> QED
        BY <4>1 DEF Piece
    <3> HIDE DEF P
    <3> QED
      BY <1>2, <1>5, <3>1 DEF MapOf
  <2>2. FlattenSeq([j \in DOMAIN values |-> <<values[j]>>]) = values
    BY <1>a, FlatOfElements
  <2> QED
    BY <2>1, <2>2 DEF Elements, Mapped
<1>9. ASSUME NEW k
      PROVE  ValuesIn(pieces, k) = IF k = 0 THEN values ELSE <<>>
  <2>1. ASSUME NEW j \in 1 .. Len(values)
        PROVE  ValuesOf(k)[P(j)] = IF k = 0 THEN <<values[j]>> ELSE <<>>
    <3>1. ValuesOf(k)[P(j)] = IF P(j).field = k THEN P(j).values ELSE <<>>
      BY <1>4, <2>1 DEF ValuesOf
    <3> QED
      BY <3>1 DEF Piece
  <2>2. MapOf(ValuesOf(k), pieces) = [j \in 1 .. Len(values) |-> IF k = 0 THEN <<values[j]>> ELSE <<>>]
    <3> HIDE DEF P
    <3> QED
      BY <1>5, <2>1 DEF MapOf
  <2>3. CASE k = 0
    <3>1. MapOf(ValuesOf(k), pieces) = [j \in DOMAIN values |-> <<values[j]>>]
      BY <1>2, <2>2, <2>3
    <3>2. FlattenSeq([j \in DOMAIN values |-> <<values[j]>>]) = values
      BY <1>a, FlatOfElements
    <3> QED
      BY <2>3, <3>1, <3>2 DEF ValuesIn, Mapped
  <2>4. CASE k # 0
    <3>1. MapOf(ValuesOf(k), pieces) = [j \in 1 .. Len(values) |-> <<>>]
      BY <2>2, <2>4
    <3> QED
      BY <1>2, <2>4, <3>1, FlatOfNothings DEF ValuesIn, Mapped
  <2> QED
    BY <2>3, <2>4
<1> QED
  BY <1>6, <1>8, <1>9

\* Every message is written piece by piece.
TodoOf(m) == FlattenSeq([i \in DOMAIN m.fields |-> FieldPieces(m, i)]) \o UnknownPieces(m)

\* What is written of a message is the elements of its pieces.
LEMMA TodoIs ==
  ASSUME NEW m, IsWhole(m)
  PROVE  IsTodo(TodoOf(m), m) /\ Elements(TodoOf(m)) = Written(m)
<1> DEFINE parts == [i \in DOMAIN m.fields |-> FieldPieces(m, i)]
<1> PICK n, first, last : n = Len(Schemas[m.type]) /\ first = FlattenSeq(parts) /\ last = UnknownPieces(m)
  OBVIOUS
<1>1. n \in Nat /\ DOMAIN m.fields = 1 .. n
  <2>1. m.type \in DOMAIN Schemas /\ IsMessage(m, m.type, NewerMessages)
    BY DEF IsWhole
  <2>2. DOMAIN m.fields = DOMAIN Schemas[m.type]
    BY <2>1, MessageIs
  <2> QED
    BY <2>1, <2>2, SchemaIs
<1>2. parts \in Seq(Seq(Pieces(m.type))) /\ parts \in Seq(Seq(AnyPiece))
  <2>1. \A i \in 1 .. n : FieldPieces(m, i) \in Seq(Pieces(m.type)) /\ FieldPieces(m, i) \in Seq(AnyPiece)
    BY <1>1, FieldPiecesAre, PiecesAre
  <2> QED
    BY <1>1, <2>1, IsASeq
<1>3. first \in Seq(Pieces(m.type)) /\ first \in Seq(AnyPiece)
  BY <1>2, FlatIsSeq, PiecesAre
<1>4. last \in Seq(Pieces(m.type)) /\ last \in Seq(AnyPiece)
  BY UnknownPiecesAre, PiecesAre
<1>5. TodoOf(m) = first \o last /\ TodoOf(m) \in Seq(Pieces(m.type))
  BY <1>3, <1>4, ConcatProperties DEF TodoOf
<1>6. Elements(first) = FlattenSeq(WrittenFields(m, NestedWritten))
  <2>1. Elements(first) = FlattenSeq([i \in DOMAIN parts |-> Mapped(ElementsOf, parts[i])])
    <3>1. IsMap(ElementsOf, AnyPiece, AnyElement)
      BY PieceMaps
    <3> HIDE DEF parts
    <3> QED
      BY <1>2, <3>1, MappedOfFlat DEF Elements
  <2>2. ASSUME NEW i \in DOMAIN m.fields
        PROVE  Mapped(ElementsOf, FieldPieces(m, i))
                 = WrittenField(Schemas[m.type][i], m.fields[i], NestedWritten)
    BY <2>2, FieldPiecesAre DEF Elements
  <2>3. [i \in DOMAIN parts |-> Mapped(ElementsOf, parts[i])] = WrittenFields(m, NestedWritten)
    BY <2>2 DEF WrittenFields
  <2> QED
    BY <2>1, <2>3
<1>7. Elements(TodoOf(m)) = Written(m)
  <2>1. Elements(first \o last) = Elements(first) \o Elements(last)
    BY <1>3, <1>4, ValuesOfConcat
  <2>2. Elements(last) = m.unknown
    BY UnknownPiecesAre
  <2>3. Written(m) = FlattenSeq(WrittenFields(m, NestedWritten)) \o m.unknown
    BY DEF Written, WrittenWith, WrittenFields
  <2> QED
    BY <1>5, <1>6, <2>1, <2>2, <2>3
<1>8. ASSUME NEW k
      PROVE  /\ k \in DOMAIN m.fields => ValuesIn(first, k) = m.fields[k]
             /\ k \notin DOMAIN m.fields => ValuesIn(first, k) = <<>>
  <2> DEFINE values == [i \in DOMAIN parts |-> Mapped(ValuesOf(k), parts[i])]
  <2>1. ValuesIn(first, k) = FlattenSeq(values)
    <3>1. IsMap(ValuesOf(k), AnyPiece, Anything)
      BY PieceMaps
    <3> HIDE DEF parts
    <3> QED
      BY <1>2, <3>1, MappedOfFlat DEF ValuesIn
  <2>2. ASSUME NEW i \in DOMAIN m.fields
        PROVE  Mapped(ValuesOf(k), FieldPieces(m, i)) = IF k = i THEN m.fields[i] ELSE <<>>
    BY <2>2, FieldPiecesAre DEF ValuesIn
  <2>3. values = [i \in 1 .. n |-> IF k = i THEN m.fields[i] ELSE <<>>]
    BY <1>1, <2>2
  <2>4. ASSUME k \in DOMAIN m.fields
        PROVE  FlattenSeq(values) = m.fields[k]
    <3>1. \A i \in 1 .. n : (IF k = i THEN m.fields[i] ELSE <<>>) \in Seq(Anything)
      <4>1. m.fields[k] \in Seq(Anything)
        <5>1. /\ m.fields[k] \in Seq(Possible(Schemas[m.type][k].kind, NewerMessages))
              /\ IsField(Schemas[m.type][k])
          BY <2>4, FieldIs
        <5>2. Possible(Schemas[m.type][k].kind, NewerMessages) \subseteq Anything
          BY <5>1, PossibleIsAnything
        <5> QED
          BY <5>1, <5>2, SeqMonotonic
      <4>2. <<>> \in Seq(Anything)
        BY EmptySeq
      <4> QED
        BY <4>1, <4>2
    <3>2. values \in Seq(Seq(Anything))
      <4> HIDE DEF values
      <4> QED
        BY <1>1, <2>3, <3>1, IsASeq
    <3>3. k \in DOMAIN values /\ values[k] = m.fields[k] /\ \A i \in DOMAIN values : i # k => values[i] = <<>>
      BY <1>1, <2>3, <2>4
    <3> HIDE DEF values
    <3> QED
      BY <3>2, <3>3, FlatOfOnly
  <2>5. ASSUME k \notin DOMAIN m.fields
        PROVE  FlattenSeq(values) = <<>>
    <3>1. values = [i \in 1 .. n |-> <<>>]
      BY <1>1, <2>3, <2>5
    <3> HIDE DEF values
    <3> QED
      BY <1>1, <3>1, FlatOfNothings
  <2> QED
    BY <2>1, <2>4, <2>5
<1>9. ASSUME NEW k
      PROVE  ValuesIn(TodoOf(m), k) = ValuesIn(first, k) \o IF k = 0 THEN m.unknown ELSE <<>>
  <2>1. ValuesIn(first \o last, k) = ValuesIn(first, k) \o ValuesIn(last, k)
    <3>1. \A s, t \in Seq(AnyPiece) : ValuesIn(s \o t, k) = ValuesIn(s, k) \o ValuesIn(t, k)
      BY ValuesOfConcat
    <3> QED
      BY <1>3, <1>4, <3>1, Zenon
  <2> QED
    BY <1>5, <2>1, UnknownPiecesAre
<1>10. ValuesIn(TodoOf(m), 0) = m.unknown
  <2>1. 0 \notin DOMAIN m.fields /\ m.unknown \in Seq(AnyElement)
    BY <1>1, UnknownIs
  <2>2. ValuesIn(first, 0) = <<>>
    BY <1>8, <2>1
  <2> QED
    BY <1>9, <2>1, <2>2, ConcatEmptySeq
<1>11. ASSUME NEW k \in DOMAIN m.fields
       PROVE  ValuesIn(TodoOf(m), k) = m.fields[k]
  <2>1. k # 0 /\ ValuesIn(first, k) = m.fields[k]
    BY <1>1, <1>8, <1>11
  <2>2. ValuesIn(first, k) \in Seq(Anything)
    BY <1>3, ValuesOfConcat
  <2> QED
    BY <1>9, <2>1, <2>2, ConcatEmptySeq
<1> QED
  BY <1>5, <1>7, <1>10, <1>11 DEF IsTodo

-----------------------------------------------------------------------------
(* The pieces of a message whose repeated numbers are packed.              *)

\* Packed numbers are one element, with all of them in it.
LEMMA PackedIs ==
  ASSUME NEW field, IsField(field), IsPackable(field),
         NEW values \in Seq(Possible(field.kind, NewerMessages))
  PROVE  /\ Packed(field, values) \in AnyElement
         /\ Packed(field, values).number = field.number
         /\ Packed(field, values).wire = "length"
         /\ Packed(field, values).value = [j \in DOMAIN values |-> Raw(field.kind, values[j])]
<1> DEFINE raws == [j \in DOMAIN values |-> Raw(field.kind, values[j])]
           sizes == [j \in DOMAIN raws |-> VarintBytes(raws[j])]
<1>1. field.kind.type \notin {"message", "string", "bytes"}
  <2>1. field.kind.wire = "varint"
    BY DEF IsPackable
  <2> QED
    BY <2>1 DEF IsField
<1>2. Len(values) \in Nat /\ DOMAIN values = 1 .. Len(values)
  BY LenProperties
<1>3. ASSUME NEW j \in 1 .. Len(values)
      PROVE  Raw(field.kind, values[j]) \in Int
  <2>1. values[j] \in Possible(field.kind, NewerMessages)
    BY ElementOfSeq
  <2> QED
    BY <1>1, <2>1, RawIsRead
<1>4. raws \in Seq(Int) /\ DOMAIN raws = 1 .. Len(values)
  BY <1>2, <1>3, IsASeq
<1>5. \A j \in 1 .. Len(values) : VarintBytes(raws[j]) \in Nat
  BY <1>2, <1>3, VarintBytesAre
<1>6. sizes \in Seq(Nat)
  <2> HIDE DEF raws
  <2> QED
    BY <1>2, <1>4, <1>5, IsASeq
<1>7. Total(sizes) \in Nat
  BY <1>6, TotalIsNat
<1> HIDE DEF raws, sizes
<1>8. VarintBytes(Total(sizes)) + Total(sizes) \in Nat
  BY <1>7, VarintBytesAre
<1>9. field.number \in Nat \ {0} /\ raws \in AnyValue
  BY <1>4 DEF IsField, AnyValue
<1>10. Packed(field, values)
         = Element(field.number, "length", raws, VarintBytes(Total(sizes)) + Total(sizes))
  BY DEF Packed, raws, sizes
<1>11. Element(field.number, "length", raws, VarintBytes(Total(sizes)) + Total(sizes)) \in AnyElement
  BY <1>8, <1>9, ElementsAre
<1> QED
  BY <1>10, <1>11 DEF Element, raws

IsTightIn(m, i) == IsPackable(Schemas[m.type][i]) /\ m.fields[i] # <<>>

Loose(m) ==
  [m EXCEPT !.fields = [i \in DOMAIN m.fields |-> IF IsTightIn(m, i) THEN <<>> ELSE m.fields[i]]]

TightElements(m) ==
  [i \in DOMAIN m.fields |->
     IF IsTightIn(m, i) THEN <<Packed(Schemas[m.type][i], m.fields[i])>> ELSE <<>>]

TightPieces(m) ==
  [i \in DOMAIN m.fields |->
     IF IsTightIn(m, i)
     THEN <<Piece(i, m.fields[i], <<Packed(Schemas[m.type][i], m.fields[i])>>)>> ELSE <<>>]

\* WrittenPacked in terms of Loose and TightElements.
LEMMA WrittenPackedIs ==
  ASSUME NEW m
  PROVE  WrittenPacked(m) = Written(Loose(m)) \o FlattenSeq(TightElements(m))
BY DEF WrittenPacked, Loose, TightElements, IsTightIn

\* A message without its repeated numbers is a message.
LEMMA LooseIs ==
  ASSUME NEW m, IsWhole(m)
  PROVE  /\ IsWhole(Loose(m)) /\ Loose(m).type = m.type /\ Loose(m).unknown = m.unknown
         /\ DOMAIN Loose(m).fields = DOMAIN m.fields
         /\ \A i \in DOMAIN m.fields :
              Loose(m).fields[i] = IF IsTightIn(m, i) THEN <<>> ELSE m.fields[i]
<1>0. PICK type, fields : type = m.type /\ fields = Schemas[m.type]
  OBVIOUS
<1> DEFINE loose == [i \in DOMAIN m.fields |-> IF IsTightIn(m, i) THEN <<>> ELSE m.fields[i]]
<1>1. type \in DOMAIN Schemas /\ IsMessage(m, type, NewerMessages)
  BY <1>0 DEF IsWhole
<1>2. /\ m = [type |-> type, fields |-> m.fields, unknown |-> m.unknown]
      /\ DOMAIN m.fields = DOMAIN fields
      /\ \A i \in DOMAIN m.fields :
           /\ m.fields[i] \in Seq(Possible(fields[i].kind, NewerMessages))
           /\ fields[i].label # "repeated" => Len(m.fields[i]) <= 1
  <2>1. /\ m = [type |-> type, fields |-> m.fields, unknown |-> m.unknown]
        /\ DOMAIN m.fields = DOMAIN Schemas[type]
        /\ \A i \in DOMAIN m.fields :
             /\ m.fields[i] \in Seq(Possible(Schemas[type][i].kind, NewerMessages))
             /\ Schemas[type][i].label # "repeated" => Len(m.fields[i]) <= 1
    BY <1>1, MessageIs
  <2>2. fields = Schemas[type]
    BY <1>0
  <2> QED
    BY <2>1, <2>2
<1>3. Loose(m) = [type |-> type, fields |-> loose, unknown |-> m.unknown]
  <2>1. \A x, u, f : [[type |-> type, fields |-> f, unknown |-> u] EXCEPT !.fields = x]
                       = [type |-> type, fields |-> x, unknown |-> u]
    OBVIOUS
  <2>2. Loose(m) = [m EXCEPT !.fields = loose]
    BY DEF Loose
  <2> HIDE DEF loose
  <2> QED
    BY <1>2, <2>1, <2>2
<1>a. /\ DOMAIN loose = DOMAIN fields /\ loose = [i \in DOMAIN fields |-> loose[i]]
      /\ \A i \in DOMAIN fields : loose[i] = IF IsTightIn(m, i) THEN <<>> ELSE m.fields[i]
  BY <1>2
<1> HIDE DEF loose
<1>4. ASSUME NEW i \in DOMAIN fields
      PROVE  /\ loose[i] \in Seq(Possible(fields[i].kind, NewerMessages))
             /\ fields[i].label # "repeated" => Len(loose[i]) <= 1
  <2>1. CASE IsTightIn(m, i)
    <3>1. loose[i] = <<>>
      BY <1>a, <2>1
    <3>2. Len(<<>>) <= 1 /\ <<>> \in Seq(Possible(fields[i].kind, NewerMessages))
      BY EmptySeq
    <3> QED
      BY <3>1, <3>2
  <2>2. CASE ~ IsTightIn(m, i)
    BY <1>2, <1>a, <2>2
  <2> QED
    BY <2>1, <2>2
<1>b. Loose(m).fields = loose /\ Loose(m).unknown = m.unknown /\ Loose(m).type = type
  BY <1>3
<1>5. IsMessage(Loose(m), type, NewerMessages)
  BY <1>0, <1>3, <1>4, <1>a, <1>b DEF IsMessage
<1>6. IsWhole(Loose(m))
  <2>1. m.unknown \in Seq({e \in AnyElement : IsForeign(e, m.type)})
    BY DEF IsWhole
  <2> QED
    BY <1>0, <1>1, <1>5, <1>b, <2>1 DEF IsWhole
<1> QED
  BY <1>0, <1>2, <1>6, <1>a, <1>b

\* The pieces of packed numbers have those numbers.
LEMMA TightPiecesAre ==
  ASSUME NEW m, IsWhole(m)
  PROVE  /\ FlattenSeq(TightPieces(m)) \in Seq(Pieces(m.type))
         /\ Elements(FlattenSeq(TightPieces(m))) = FlattenSeq(TightElements(m))
         /\ \A k : ValuesIn(FlattenSeq(TightPieces(m)), k)
                     = IF k \in DOMAIN m.fields /\ IsTightIn(m, k) THEN m.fields[k] ELSE <<>>
<1> DEFINE parts == TightPieces(m)
           P(i) == Piece(i, m.fields[i], <<Packed(Schemas[m.type][i], m.fields[i])>>)
<1> PICK n : n = Len(Schemas[m.type])
  OBVIOUS
<1>1. n \in Nat /\ DOMAIN m.fields = 1 .. n
  <2>1. m.type \in DOMAIN Schemas /\ IsMessage(m, m.type, NewerMessages)
    BY DEF IsWhole
  <2>2. DOMAIN m.fields = DOMAIN Schemas[m.type]
    BY <2>1, MessageIs
  <2> QED
    BY <2>1, <2>2, SchemaIs
<1>2. ASSUME NEW i \in 1 .. n, IsTightIn(m, i)
      PROVE  P(i) \in Pieces(m.type) /\ P(i) \in AnyPiece
  <2> PICK field, values : field = Schemas[m.type][i] /\ values = m.fields[i]
    OBVIOUS
  <2>1. /\ IsField(field) /\ i \in DOMAIN Schemas[m.type]
        /\ values \in Seq(Possible(field.kind, NewerMessages))
    BY <1>1, FieldIs
  <2>2. IsPackable(field) /\ values # <<>>
    BY <1>2 DEF IsTightIn
  <2>3. values \in Seq(Anything)
    BY <2>1, PossibleIsAnything, SeqMonotonic
  <2>4. Packed(field, values) \in AnyElement
    BY <2>1, <2>2, PackedIs
  <2>5. <<Packed(field, values)>> \in Seq(AnyElement)
    BY <2>4
  <2>6. P(i) \in AnyPiece
    BY <2>3, <2>5 DEF AnyPiece, Piece
  <2>7. IsPackedPiece(P(i), m.type)
    BY <2>1, <2>2, <2>3 DEF IsPackedPiece
  <2> QED
    BY <2>6, <2>7 DEF Pieces
<1>3. parts = [i \in 1 .. n |-> IF IsTightIn(m, i) THEN <<P(i)>> ELSE <<>>]
  BY <1>1 DEF TightPieces
<1>4. parts \in Seq(Seq(Pieces(m.type))) /\ parts \in Seq(Seq(AnyPiece))
  <2>1. ASSUME NEW i \in 1 .. n
        PROVE  /\ (IF IsTightIn(m, i) THEN <<P(i)>> ELSE <<>>) \in Seq(Pieces(m.type))
               /\ (IF IsTightIn(m, i) THEN <<P(i)>> ELSE <<>>) \in Seq(AnyPiece)
    <3>1. CASE IsTightIn(m, i)
      <4>1. P(i) \in Pieces(m.type) /\ P(i) \in AnyPiece
        BY <1>2, <3>1
      <4> HIDE DEF P
      <4> QED
        BY <3>1, <4>1
    <3>2. CASE ~ IsTightIn(m, i)
      BY <3>2, EmptySeq
    <3> QED
      BY <3>1, <3>2
  <2> DEFINE Part(i) == IF IsTightIn(m, i) THEN <<P(i)>> ELSE <<>>
  <2>2. parts = [i \in 1 .. n |-> Part(i)]
    BY <1>3
  <2>3. \A i \in 1 .. n : Part(i) \in Seq(Pieces(m.type)) /\ Part(i) \in Seq(AnyPiece)
    BY <2>1
  <2> HIDE DEF parts, Part
  <2>4. [i \in 1 .. n |-> Part(i)] \in Seq(Seq(Pieces(m.type)))
    BY <1>1, <2>3, IsASeq
  <2>5. [i \in 1 .. n |-> Part(i)] \in Seq(Seq(AnyPiece))
    BY <1>1, <2>3, IsASeq
  <2> QED
    BY <2>2, <2>4, <2>5
<1>5. FlattenSeq(parts) \in Seq(Pieces(m.type))
  BY <1>4, FlatIsSeq
<1>6. Elements(FlattenSeq(parts)) = FlattenSeq(TightElements(m))
  <2>1. Elements(FlattenSeq(parts)) = FlattenSeq([i \in DOMAIN parts |-> Mapped(ElementsOf, parts[i])])
    <3>1. IsMap(ElementsOf, AnyPiece, AnyElement)
      BY PieceMaps
    <3> HIDE DEF parts
    <3> QED
      BY <1>4, <3>1, MappedOfFlat DEF Elements
  <2>2. ASSUME NEW i \in 1 .. n
        PROVE  Mapped(ElementsOf, parts[i])
                 = IF IsTightIn(m, i) THEN <<Packed(Schemas[m.type][i], m.fields[i])>> ELSE <<>>
    <3>1. CASE IsTightIn(m, i)
      <4>1. IsMap(ElementsOf, AnyPiece, AnyElement) /\ P(i) \in AnyPiece /\ parts[i] = <<P(i)>>
        BY <1>2, <1>3, <3>1, PieceMaps
      <4>2. ElementsOf[P(i)] = <<Packed(Schemas[m.type][i], m.fields[i])>>
        BY <4>1 DEF ElementsOf, Piece
      <4> HIDE DEF P, parts
      <4>3. Mapped(ElementsOf, <<P(i)>>) = ElementsOf[P(i)]
        BY <4>1, MappedOfOne
      <4> QED
        BY <3>1, <4>1, <4>2, <4>3
    <3>2. CASE ~ IsTightIn(m, i)
      <4>1. parts[i] = <<>>
        BY <1>3, <3>2
      <4> QED
        BY <3>2, <4>1, MappedOfNothing
    <3> QED
      BY <3>1, <3>2
  <2>3. [i \in DOMAIN parts |-> Mapped(ElementsOf, parts[i])] = TightElements(m)
    <3>1. DOMAIN parts = 1 .. n
      BY <1>3
    <3> HIDE DEF parts, P
    <3> QED
      BY <1>1, <2>2, <3>1 DEF TightElements
  <2> QED
    BY <2>1, <2>3
<1>7. ASSUME NEW k
      PROVE  ValuesIn(FlattenSeq(parts), k)
               = IF k \in DOMAIN m.fields /\ IsTightIn(m, k) THEN m.fields[k] ELSE <<>>
  <2> DEFINE values == [i \in DOMAIN parts |-> Mapped(ValuesOf(k), parts[i])]
             Here == k \in DOMAIN m.fields /\ IsTightIn(m, k)
  <2>1. ValuesIn(FlattenSeq(parts), k) = FlattenSeq(values)
    <3>1. IsMap(ValuesOf(k), AnyPiece, Anything)
      BY PieceMaps
    <3> HIDE DEF parts
    <3> QED
      BY <1>4, <3>1, MappedOfFlat DEF ValuesIn
  <2>2. ASSUME NEW i \in 1 .. n
        PROVE  Mapped(ValuesOf(k), parts[i]) = IF k = i /\ IsTightIn(m, i) THEN m.fields[i] ELSE <<>>
    <3>1. CASE IsTightIn(m, i)
      <4>1. IsMap(ValuesOf(k), AnyPiece, Anything) /\ P(i) \in AnyPiece /\ parts[i] = <<P(i)>>
        BY <1>2, <1>3, <3>1, PieceMaps
      <4>2. ValuesOf(k)[P(i)] = IF k = i THEN m.fields[i] ELSE <<>>
        BY <4>1 DEF ValuesOf, Piece
      <4> HIDE DEF P, parts
      <4>3. Mapped(ValuesOf(k), <<P(i)>>) = ValuesOf(k)[P(i)]
        BY <4>1, MappedOfOne
      <4> QED
        BY <3>1, <4>1, <4>2, <4>3
    <3>2. CASE ~ IsTightIn(m, i)
      <4>1. parts[i] = <<>>
        BY <1>3, <3>2
      <4> QED
        BY <3>2, <4>1, MappedOfNothing
    <3> QED
      BY <3>1, <3>2
  <2>3. values = [i \in 1 .. n |-> IF k = i /\ IsTightIn(m, i) THEN m.fields[i] ELSE <<>>]
    <3>1. DOMAIN parts = 1 .. n
      BY <1>3
    <3> HIDE DEF parts, P
    <3> QED
      BY <2>2, <3>1
  <2>4. ASSUME Here
        PROVE  FlattenSeq(values) = m.fields[k]
    <3>1. m.fields[k] \in Seq(Anything) /\ <<>> \in Seq(Anything)
      <4>1. P(k) \in AnyPiece
        BY <1>1, <1>2, <2>4
      <4> QED
        BY <4>1, EmptySeq DEF AnyPiece, Piece
    <3>2. \A i \in 1 .. n : (IF k = i /\ IsTightIn(m, i) THEN m.fields[i] ELSE <<>>) \in Seq(Anything)
      BY <3>1
    <3>3. values \in Seq(Seq(Anything))
      <4> HIDE DEF values
      <4> QED
        BY <1>1, <2>3, <3>2, IsASeq
    <3>4. /\ k \in DOMAIN values /\ values[k] = m.fields[k]
          /\ \A i \in DOMAIN values : i # k => values[i] = <<>>
      <4> HIDE DEF values, parts, P
      <4> QED
        BY <1>1, <2>3, <2>4
    <3> HIDE DEF values
    <3> QED
      BY <3>3, <3>4, FlatOfOnly
  <2>5. ASSUME ~ Here
        PROVE  FlattenSeq(values) = <<>>
    <3>1. values = [i \in 1 .. n |-> <<>>]
      <4> HIDE DEF values, parts, P
      <4> QED
        BY <1>1, <2>3, <2>5
    <3> HIDE DEF values
    <3> QED
      BY <1>1, <3>1, FlatOfNothings
  <2> QED
    BY <2>1, <2>4, <2>5
<1> QED
  BY <1>5, <1>6, <1>7

\* What is written with packed numbers is the elements of such pieces, too.
LEMMA PackedTodoExists ==
  ASSUME NEW m, IsWhole(m)
  PROVE  \E todo : IsTodo(todo, m) /\ Elements(todo) = WrittenPacked(m)
<1> PICK first, last, loose : first = TodoOf(Loose(m)) /\ last = FlattenSeq(TightPieces(m)) /\ loose = Loose(m)
  OBVIOUS
<1>1. /\ IsWhole(loose) /\ loose.type = m.type /\ loose.unknown = m.unknown
      /\ DOMAIN loose.fields = DOMAIN m.fields
      /\ \A i \in DOMAIN m.fields :
           loose.fields[i] = IF IsTightIn(m, i) THEN <<>> ELSE m.fields[i]
  BY LooseIs
<1>2. IsTodo(first, loose) /\ Elements(first) = Written(loose)
  BY <1>1, TodoIs
<1>3. first \in Seq(Pieces(m.type)) /\ first \in Seq(AnyPiece)
  BY <1>1, <1>2, PiecesAre DEF IsTodo
<1>4. /\ last \in Seq(Pieces(m.type)) /\ last \in Seq(AnyPiece)
      /\ Elements(last) = FlattenSeq(TightElements(m))
      /\ \A k : ValuesIn(last, k) = IF k \in DOMAIN m.fields /\ IsTightIn(m, k) THEN m.fields[k] ELSE <<>>
  BY TightPiecesAre, PiecesAre
<1>5. first \o last \in Seq(Pieces(m.type))
  BY <1>3, <1>4, ConcatProperties
<1>6. Elements(first \o last) = WrittenPacked(m)
  <2>1. Elements(first \o last) = Elements(first) \o Elements(last)
    BY <1>3, <1>4, ValuesOfConcat
  <2> QED
    BY <1>2, <1>4, <2>1, WrittenPackedIs
<1>7. ASSUME NEW k
      PROVE  /\ ValuesIn(first \o last, k) = ValuesIn(first, k) \o ValuesIn(last, k)
             /\ ValuesIn(first, k) \in Seq(Anything) /\ ValuesIn(last, k) \in Seq(Anything)
  <2>1. \A s, t \in Seq(AnyPiece) : /\ ValuesIn(s \o t, k) = ValuesIn(s, k) \o ValuesIn(t, k)
                                    /\ ValuesIn(s, k) \in Seq(Anything)
    BY ValuesOfConcat
  <2> QED
    BY <1>3, <1>4, <2>1, Zenon
<1>8. ValuesIn(first \o last, 0) = m.unknown
  <2>1. 0 \notin DOMAIN m.fields
    <3>1. m.type \in DOMAIN Schemas /\ IsMessage(m, m.type, NewerMessages)
      BY DEF IsWhole
    <3>2. DOMAIN m.fields = DOMAIN Schemas[m.type]
      BY <3>1, MessageIs
    <3>3. DOMAIN m.fields = 1 .. Len(Schemas[m.type])
      BY <3>1, <3>2, SchemaIs
    <3> QED
      BY <3>3
  <2>2. ValuesIn(first, 0) = m.unknown /\ ValuesIn(last, 0) = <<>>
    BY <1>1, <1>2, <1>4, <2>1 DEF IsTodo
  <2> QED
    BY <1>7, <2>2, ConcatEmptySeq
<1>9. ASSUME NEW i \in DOMAIN m.fields
      PROVE  ValuesIn(first \o last, i) = m.fields[i]
  <2>1. ValuesIn(first, i) = IF IsTightIn(m, i) THEN <<>> ELSE m.fields[i]
    BY <1>1, <1>2 DEF IsTodo
  <2>2. ValuesIn(last, i) = IF IsTightIn(m, i) THEN m.fields[i] ELSE <<>>
    BY <1>4
  <2> QED
    BY <1>7, <2>1, <2>2, ConcatEmptySeq
<1> QED
  BY <1>5, <1>6, <1>8, <1>9 DEF IsTodo

-----------------------------------------------------------------------------
(* What is left to read of a message, and whether it can be.               *)

\* A field of a message, or, as field 0, its other elements.
Part(m, i) == IF i = 0 THEN m.unknown ELSE m.fields[i]

PartsOf(type) == {0} \cup DOMAIN Schemas[type]

BadAt(type, i, value) ==
  IF i = 0 THEN FieldOf(type, value.number) # 0
  ELSE LET kind == Schemas[type][i].kind IN
       \/ kind.type = "enum" /\ value \notin Range(kind.values)
       \/ kind.type = "message" /\ NestedGarbled[kind.message][value]

IsBadPiece(type, p) == \E value \in Range(p.values) : BadAt(type, p.field, value)

IsBadTodo(type, todo) ==
  \E i \in PartsOf(type) : \E value \in Range(ValuesIn(todo, i)) : BadAt(type, i, value)

\* The elements of a concatenation.
LEMMA RangeOfConcat ==
  ASSUME NEW S, NEW s \in Seq(S), NEW t \in Seq(S)
  PROVE  Range(s \o t) = Range(s) \cup Range(t)
<1>1. /\ Len(s) \in Nat /\ Len(t) \in Nat /\ DOMAIN s = 1 .. Len(s) /\ DOMAIN t = 1 .. Len(t)
      /\ s \o t \in Seq(S) /\ Len(s \o t) = Len(s) + Len(t)
  BY LenProperties, ConcatProperties
<1>2. DOMAIN (s \o t) = 1 .. Len(s) + Len(t)
  BY <1>1, LenProperties
<1>3. \A k \in 1 .. Len(s) + Len(t) : (s \o t)[k] = IF k <= Len(s) THEN s[k] ELSE t[k - Len(s)]
  BY ConcatProperties
<1>4. ASSUME NEW x \in Range(s \o t)
      PROVE  x \in Range(s) \cup Range(t)
  <2>1. PICK k \in 1 .. Len(s) + Len(t) : x = (s \o t)[k]
    BY <1>2 DEF Range
  <2>2. CASE k <= Len(s)
    <3>1. k \in DOMAIN s /\ x = s[k]
      BY <1>1, <1>3, <2>1, <2>2
    <3> QED
      BY <3>1 DEF Range
  <2>3. CASE ~ (k <= Len(s))
    <3>1. k - Len(s) \in DOMAIN t /\ x = t[k - Len(s)]
      BY <1>1, <1>3, <2>1, <2>3
    <3> QED
      BY <3>1 DEF Range
  <2> QED
    BY <2>2, <2>3
<1>5. ASSUME NEW k \in DOMAIN s
      PROVE  s[k] \in Range(s \o t)
  <2>1. k \in 1 .. Len(s) + Len(t) /\ (s \o t)[k] = s[k]
    BY <1>1, <1>3
  <2> QED
    BY <1>2, <2>1 DEF Range
<1>6. ASSUME NEW k \in DOMAIN t
      PROVE  t[k] \in Range(s \o t)
  <2>1. Len(s) + k \in 1 .. Len(s) + Len(t) /\ ~ (Len(s) + k <= Len(s)) /\ (Len(s) + k) - Len(s) = k
    BY <1>1
  <2>2. (s \o t)[Len(s) + k] = t[k]
    BY <1>3, <2>1
  <2> QED
    BY <1>2, <2>1, <2>2 DEF Range
<1> QED
  BY <1>4, <1>5, <1>6 DEF Range

\* The empty sequence has none.
LEMMA RangeOfNothing == Range(<<>>) = {}
BY DEF Range

\* A sequence of one has one.
LEMMA RangeOfOne ==
  ASSUME NEW x
  PROVE  Range(<<x>>) = {x}
<1>1. DOMAIN <<x>> = {1} /\ <<x>>[1] = x
  OBVIOUS
<1> QED
  BY <1>1 DEF Range

\* The first piece's elements and values come first.
LEMMA ValuesOfFirst ==
  ASSUME NEW todo \in Seq(AnyPiece), todo # <<>>
  PROVE  /\ Head(todo) \in AnyPiece /\ Tail(todo) \in Seq(AnyPiece)
         /\ Elements(todo) = Head(todo).elements \o Elements(Tail(todo))
         /\ \A i : ValuesIn(todo, i)
                     = (IF Head(todo).field = i THEN Head(todo).values ELSE <<>>)
                         \o ValuesIn(Tail(todo), i)
<1>1. IsMap(ElementsOf, AnyPiece, AnyElement)
  BY PieceMaps
<1>2. /\ Head(todo) \in AnyPiece /\ Tail(todo) \in Seq(AnyPiece)
      /\ Mapped(ElementsOf, todo) = ElementsOf[Head(todo)] \o Mapped(ElementsOf, Tail(todo))
  BY <1>1, MappedOfFirst
<1>3. ASSUME NEW i
      PROVE  ValuesIn(todo, i)
               = (IF Head(todo).field = i THEN Head(todo).values ELSE <<>>) \o ValuesIn(Tail(todo), i)
  <2>1. IsMap(ValuesOf(i), AnyPiece, Anything)
    BY PieceMaps
  <2>2. Mapped(ValuesOf(i), todo) = ValuesOf(i)[Head(todo)] \o Mapped(ValuesOf(i), Tail(todo))
    BY <2>1, MappedOfFirst
  <2>3. ValuesOf(i)[Head(todo)] = IF Head(todo).field = i THEN Head(todo).values ELSE <<>>
    BY <1>2 DEF ValuesOf
  <2> QED
    BY <2>2, <2>3 DEF ValuesIn
<1>4. ElementsOf[Head(todo)] = Head(todo).elements
  BY <1>2 DEF ElementsOf
<1> QED
  BY <1>2, <1>3, <1>4 DEF Elements

\* No pieces have nothing.
LEMMA ValuesOfNothing ==
  ASSUME NEW i
  PROVE  ValuesIn(<<>>, i) = <<>> /\ Elements(<<>>) = <<>>
BY MappedOfNothing DEF ValuesIn, Elements

\* A piece is of a field of its type, or of none.
LEMMA PieceFields ==
  ASSUME NEW type \in DOMAIN Schemas, NEW p \in Pieces(type)
  PROVE  p.field \in PartsOf(type) /\ p \in AnyPiece
BY DEF Pieces, IsUnknownPiece, IsValuePiece, IsPackedPiece, Piece, PartsOf

\* What is left cannot be read because of the first piece, or of the others.
LEMMA BadOfFirst ==
  ASSUME NEW type \in DOMAIN Schemas, NEW todo \in Seq(Pieces(type)), todo # <<>>
  PROVE  IsBadTodo(type, todo) <=> IsBadPiece(type, Head(todo)) \/ IsBadTodo(type, Tail(todo))
<1> PICK p, rest : p = Head(todo) /\ rest = Tail(todo)
  OBVIOUS
<1>1. todo \in Seq(AnyPiece)
  BY PiecesAre
<1>2. p \in Pieces(type) /\ p \in AnyPiece /\ rest \in Seq(AnyPiece)
  <2>1. Head(todo) \in Pieces(type) /\ Tail(todo) \in Seq(Pieces(type))
    BY HeadTailProperties
  <2> QED
    BY <2>1, PiecesAre, PieceFields
<1>3. ASSUME NEW i
      PROVE  Range(ValuesIn(todo, i))
               = (IF p.field = i THEN Range(p.values) ELSE {}) \cup Range(ValuesIn(rest, i))
  <2> PICK s, t : s = (IF p.field = i THEN p.values ELSE <<>>) /\ t = ValuesIn(rest, i)
    OBVIOUS
  <2>1. ValuesIn(todo, i) = s \o t
    BY <1>1, ValuesOfFirst
  <2>2. p.values \in Seq(Anything)
    BY <1>2 DEF AnyPiece
  <2>3. s \in Seq(Anything) /\ t \in Seq(Anything)
    BY <1>2, <2>2, EmptySeq, ValuesOfConcat
  <2>4. Range(s \o t) = Range(s) \cup Range(t)
    <3>1. \A q, r \in Seq(Anything) : Range(q \o r) = Range(q) \cup Range(r)
      BY RangeOfConcat
    <3> QED
      BY <2>3, <3>1, Zenon
  <2> QED
    BY <2>1, <2>4, RangeOfNothing
<1>4. p.field \in PartsOf(type)
  BY <1>2, PieceFields
<1> QED
  BY <1>3, <1>4 DEF IsBadTodo, IsBadPiece

\* With nothing left, nothing is bad.
LEMMA NothingIsNotBad ==
  ASSUME NEW type
  PROVE  ~ IsBadTodo(type, <<>>)
BY ValuesOfNothing, RangeOfNothing DEF IsBadTodo

\* A message is garbled if something in it is.
LEMMA GarbledIs ==
  ASSUME NEW m, IsWhole(m)
  PROVE  GarbledWith(m, NestedGarbled)
           <=> \E i \in PartsOf(m.type) : \E value \in Range(Part(m, i)) : BadAt(m.type, i, value)
<1>1. /\ DOMAIN m.fields = DOMAIN Schemas[m.type] /\ 0 \notin DOMAIN m.fields
  <2>1. m.type \in DOMAIN Schemas /\ IsMessage(m, m.type, NewerMessages)
    BY DEF IsWhole
  <2>2. DOMAIN m.fields = DOMAIN Schemas[m.type]
    BY <2>1, MessageIs
  <2>3. DOMAIN m.fields = 1 .. Len(Schemas[m.type])
    BY <2>1, <2>2, SchemaIs
  <2> QED
    BY <2>2, <2>3
<1>2. (\E value \in Range(Part(m, 0)) : BadAt(m.type, 0, value))
        <=> \E j \in DOMAIN m.unknown : FieldOf(m.type, m.unknown[j].number) # 0
  BY DEF Part, BadAt, Range
<1>3. ASSUME NEW i \in DOMAIN m.fields
      PROVE  (\E value \in Range(Part(m, i)) : BadAt(m.type, i, value))
               <=> LET kind == Schemas[m.type][i].kind IN
                   \/ kind.type = "enum" /\ ~(Range(m.fields[i]) \subseteq Range(kind.values))
                   \/ /\ kind.type = "message"
                      /\ \E j \in DOMAIN m.fields[i] : NestedGarbled[kind.message][m.fields[i][j]]
  <2> PICK kind, values : kind = Schemas[m.type][i].kind /\ values = m.fields[i]
    OBVIOUS
  <2>1. Part(m, i) = values /\ i # 0
    BY <1>1, <1>3 DEF Part
  <2>2. \A value : BadAt(m.type, i, value) <=>
                     \/ kind.type = "enum" /\ value \notin Range(kind.values)
                     \/ kind.type = "message" /\ NestedGarbled[kind.message][value]
    BY <2>1 DEF BadAt
  <2>3. (\E value \in Range(values) : value \notin Range(kind.values))
          <=> ~(Range(values) \subseteq Range(kind.values))
    OBVIOUS
  <2>4. (\E value \in Range(values) : NestedGarbled[kind.message][value])
          <=> \E j \in DOMAIN values : NestedGarbled[kind.message][values[j]]
    BY Zenon DEF Range
  <2> QED
    BY <2>1, <2>2, <2>3, <2>4, Zenon
<1> DEFINE Bad(i) == \E value \in Range(Part(m, i)) : BadAt(m.type, i, value)
<1>4. (\E i \in PartsOf(m.type) : Bad(i)) <=> Bad(0) \/ \E i \in DOMAIN m.fields : Bad(i)
  BY <1>1, Zenon DEF PartsOf
<1> QED
  BY <1>2, <1>3, <1>4, Zenon DEF GarbledWith

\* To begin with, all the parts of the message are left.
LEMMA TodoParts ==
  ASSUME NEW m, IsWhole(m), NEW todo, IsTodo(todo, m)
  PROVE  /\ \A i \in PartsOf(m.type) : ValuesIn(todo, i) = Part(m, i)
         /\ GarbledWith(m, NestedGarbled) <=> IsBadTodo(m.type, todo)
<1>1. /\ DOMAIN m.fields = DOMAIN Schemas[m.type] /\ 0 \notin DOMAIN m.fields
  <2>1. m.type \in DOMAIN Schemas /\ IsMessage(m, m.type, NewerMessages)
    BY DEF IsWhole
  <2>2. DOMAIN m.fields = DOMAIN Schemas[m.type]
    BY <2>1, MessageIs
  <2>3. DOMAIN m.fields = 1 .. Len(Schemas[m.type])
    BY <2>1, <2>2, SchemaIs
  <2> QED
    BY <2>2, <2>3
<1>2. \A i \in PartsOf(m.type) : ValuesIn(todo, i) = Part(m, i)
  BY <1>1 DEF PartsOf, Part, IsTodo
<1>3. IsBadTodo(m.type, todo)
        <=> \E i \in PartsOf(m.type) : \E value \in Range(Part(m, i)) : BadAt(m.type, i, value)
  BY <1>2, Zenon DEF IsBadTodo
<1> QED
  BY <1>2, <1>3, GarbledIs

-----------------------------------------------------------------------------
(* How a piece is read.                                                    *)

\* A sequence with an element put before it.
LEMMA FirstIs ==
  ASSUME NEW S, NEW x \in S, NEW s \in Seq(S)
  PROVE  /\ <<x>> \in Seq(S) /\ <<x>> \o s \in Seq(S) /\ <<x>> \o s # <<>>
         /\ Len(<<x>> \o s) = 1 + Len(s) /\ Head(<<x>> \o s) = x /\ Tail(<<x>> \o s) = s
<1> PICK t : t = <<x>> \o s
  OBVIOUS
<1>1. <<x>> \in Seq(S) /\ Len(<<x>>) = 1 /\ <<x>>[1] = x
  OBVIOUS
<1>2. /\ t \in Seq(S) /\ Len(t) = 1 + Len(s) /\ Len(s) \in Nat
      /\ \A i \in 1 .. 1 + Len(s) : t[i] = IF i <= 1 THEN x ELSE s[i - 1]
  BY <1>1, ConcatProperties, LenProperties
<1>3. t # <<>>
  BY <1>2, EmptySeq
<1>4. Head(t) = x
  BY <1>2, <1>3
<1>5. Tail(t) = s
  <2>1. Tail(t) \in Seq(S) /\ Len(Tail(t)) = Len(s)
    BY <1>2, <1>3, HeadTailProperties
  <2>2. \A i \in 1 .. Len(s) : Tail(t)[i] = s[i]
    BY <1>2, <1>3
  <2> QED
    BY <2>1, <2>2, SeqEqual
<1> QED
  BY <1>1, <1>2, <1>3, <1>4, <1>5

\* A field is found by its number.
LEMMA FieldOfNumber ==
  ASSUME NEW type \in DOMAIN Schemas, NEW i \in DOMAIN Schemas[type]
  PROVE  FieldOf(type, Schemas[type][i].number) = i
<1> DEFINE is == {k \in DOMAIN Schemas[type] : Schemas[type][k].number = Schemas[type][i].number}
<1>1. is = {i}
  BY SchemaIs
<1>2. FieldOf(type, Schemas[type][i].number) = IF is = {} THEN 0 ELSE CHOOSE k \in is : TRUE
  BY DEF FieldOf
<1> HIDE DEF is
<1> QED
  BY <1>1, <1>2

\* What is found is a field.
LEMMA FieldOfIs ==
  ASSUME NEW type \in DOMAIN Schemas, NEW number, FieldOf(type, number) # 0
  PROVE  FieldOf(type, number) \in DOMAIN Schemas[type]
BY DEF FieldOf

\* Fields are counted from 1.
LEMMA NotZero ==
  ASSUME NEW type \in DOMAIN Schemas
  PROVE  \A i \in DOMAIN Schemas[type] : i \in Nat \ {0}
<1>1. Len(Schemas[type]) \in Nat /\ DOMAIN Schemas[type] = 1 .. Len(Schemas[type])
  BY SchemaIs
<1> QED
  BY <1>1

\* An element that is not a field's: unknown, and kept, or of another type than
\* the field with its number.
ReadsAsUnknown(type, p, e) ==
  /\ e \in AnyElement /\ p.elements = <<e>> /\ p.values = <<e>>
  /\ IsBadPiece(type, p) <=> FieldOf(type, e.number) # 0
  /\ FieldOf(type, e.number) # 0 =>
       /\ e.wire # Schemas[type][FieldOf(type, e.number)].kind.wire
       /\ ~ IsPackable(Schemas[type][FieldOf(type, e.number)])

\* A piece of no field reads as unknown.
LEMMA UnknownPieceReads ==
  ASSUME NEW type \in DOMAIN Schemas, NEW p \in Pieces(type), p.field = 0
  PROVE  \E e : ReadsAsUnknown(type, p, e)
<1>1. ~ IsValuePiece(p, type) /\ ~ IsPackedPiece(p, type)
  BY NotZero DEF IsValuePiece, IsPackedPiece, Piece
<1>2. IsUnknownPiece(p, type)
  BY <1>1 DEF Pieces
<1>3. PICK e \in AnyElement : IsForeign(e, type) /\ p = Piece(0, <<e>>, <<e>>)
  BY <1>2 DEF IsUnknownPiece
<1>4. p.elements = <<e>> /\ p.values = <<e>>
  BY <1>3 DEF Piece
<1>5. IsBadPiece(type, p) <=> FieldOf(type, e.number) # 0
  BY <1>4, RangeOfOne DEF IsBadPiece, BadAt
<1>6. FieldOf(type, e.number) # 0 =>
         /\ e.wire # Schemas[type][FieldOf(type, e.number)].kind.wire
         /\ ~ IsPackable(Schemas[type][FieldOf(type, e.number)])
  BY <1>3, Zenon DEF IsForeign
<1> QED
  BY <1>3, <1>4, <1>5, <1>6 DEF ReadsAsUnknown

\* An element that holds a value of a field, or all that are packed.
ReadsAsValues(type, p, e) ==
  LET field == Schemas[type][p.field] IN
  /\ e \in AnyElement /\ p.elements = <<e>> /\ p.values # <<>>
  /\ FieldOf(type, e.number) = p.field
  /\ e.wire = field.kind.wire \/ IsPackable(field)
  /\ [j \in DOMAIN Numbers(field, e) |-> FromRaw(field.kind, Numbers(field, e)[j])] = p.values
  /\ IsBadPiece(type, p) <=>
       /\ field.kind.type = "enum"
       /\ ~ (Range(Numbers(field, e)) \subseteq Range(field.kind.values))

\* A nested message: the element that announces it, and its own elements.
ReadsAsMessage(type, p, e, m) ==
  LET kind == Schemas[type][p.field].kind IN
  /\ e \in AnyElement /\ kind.message \in DOMAIN Schemas /\ m \in NewerMessages[kind.message]
  /\ p.elements = <<e>> \o NestedWritten[kind.message][m] /\ p.values = <<m>>
  /\ FieldOf(type, e.number) = p.field
  /\ e.wire = kind.wire /\ e.value = SizeOf(NestedWritten[kind.message][m])
  /\ IsBadPiece(type, p) <=> NestedGarbled[kind.message][m]

\* A piece of packed numbers reads as those numbers.
LEMMA PackedPieceReads ==
  ASSUME NEW type \in DOMAIN Schemas, NEW p, IsPackedPiece(p, type)
  PROVE  Schemas[type][p.field].kind.type # "message" /\ \E e : ReadsAsValues(type, p, e)
<1>1. PICK i \in DOMAIN Schemas[type], values \in Seq(Anything) :
        /\ IsPackable(Schemas[type][i]) /\ values # <<>>
        /\ values \in Seq(Possible(Schemas[type][i].kind, NewerMessages))
        /\ p = Piece(i, values, <<Packed(Schemas[type][i], values)>>)
  BY DEF IsPackedPiece
<1> PICK field, e : field = Schemas[type][i] /\ e = Packed(field, values)
  OBVIOUS
<1> PICK raws : raws = [j \in DOMAIN values |-> Raw(field.kind, values[j])]
  OBVIOUS
<1>2. p.field = i /\ p.values = values /\ p.elements = <<e>>
  BY <1>1 DEF Piece
<1>3. IsField(field) /\ i # 0
  BY SchemaIs, NotZero
<1>4. e \in AnyElement /\ e.number = field.number /\ e.wire = "length" /\ e.value = raws
  BY <1>1, <1>3, PackedIs
<1>5. FieldOf(type, e.number) = i
  BY <1>4, FieldOfNumber
<1>6. Numbers(field, e) = raws
  BY <1>1, <1>4 DEF Numbers
<1>7. field.kind.type \notin {"message", "string", "bytes"}
  <2>1. field.kind.wire = "varint"
    BY <1>1 DEF IsPackable
  <2> QED
    BY <1>3, <2>1 DEF IsField
<1>8. ASSUME NEW j \in DOMAIN values
      PROVE  FromRaw(field.kind, raws[j]) = values[j]
  <2>1. values[j] \in Possible(field.kind, NewerMessages)
    BY <1>1, <1>8, ElementOfSeq, LenProperties
  <2> QED
    BY <1>7, <1>8, <2>1, RawIsRead
<1>9. [j \in DOMAIN raws |-> FromRaw(field.kind, raws[j])] = values
  <2>1. values = [j \in DOMAIN values |-> values[j]]
    BY <1>1, LenProperties
  <2> QED
    BY <1>8, <2>1
<1>10. IsBadPiece(type, p) <=>
         /\ field.kind.type = "enum"
         /\ ~ (Range(raws) \subseteq Range(field.kind.values))
  <2>1. IsBadPiece(type, p) <=>
          \E value \in Range(values) : field.kind.type = "enum" /\ value \notin Range(field.kind.values)
    BY <1>2, <1>3, <1>7 DEF IsBadPiece, BadAt
  <2>2. ASSUME field.kind.type = "enum"
        PROVE  raws = values
    <3>1. \A j \in DOMAIN values : raws[j] = values[j]
      BY <2>2 DEF Raw
    <3>2. values = [j \in DOMAIN values |-> values[j]]
      BY <1>1, LenProperties
    <3> QED
      BY <3>1, <3>2
  <2> QED
    BY <2>1, <2>2
<1>11. [j \in DOMAIN Numbers(field, e) |-> FromRaw(field.kind, Numbers(field, e)[j])] = p.values
  BY <1>2, <1>6, <1>9
<1>12. IsBadPiece(type, p) <=>
         /\ field.kind.type = "enum"
         /\ ~ (Range(Numbers(field, e)) \subseteq Range(field.kind.values))
  BY <1>6, <1>10
<1>13. /\ e \in AnyElement /\ p.elements = <<e>> /\ p.values # <<>>
       /\ FieldOf(type, e.number) = p.field /\ IsPackable(field)
       /\ Schemas[type][p.field] = field
  BY <1>1, <1>2, <1>4, <1>5
<1>14. ReadsAsValues(type, p, e)
  BY <1>11, <1>12, <1>13, Zenon DEF ReadsAsValues
<1> QED
  BY <1>7, <1>13, <1>14

\* A piece of one value reads as it, or as a message.
LEMMA ValuePieceReads ==
  ASSUME NEW type \in DOMAIN Schemas, NEW p, IsValuePiece(p, type)
  PROVE  /\ Schemas[type][p.field].kind.type # "message" => \E e : ReadsAsValues(type, p, e)
         /\ Schemas[type][p.field].kind.type = "message" => \E e, m : ReadsAsMessage(type, p, e, m)
<1>1. PICK i \in DOMAIN Schemas[type], value \in Anything :
        /\ ValueIs(Schemas[type][i].kind, value, NestedWritten, Seq(AnyElement))
        /\ p = Piece(i, <<value>>, WrittenValue(Schemas[type][i], value, NestedWritten))
  BY DEF IsValuePiece
<1> PICK field, kind : field = Schemas[type][i] /\ kind = field.kind
  OBVIOUS
<1>2. p.field = i /\ p.values = <<value>> /\ p.elements = WrittenValue(field, value, NestedWritten)
  BY <1>1 DEF Piece
<1>3. IsField(field) /\ i # 0
  BY SchemaIs, NotZero
<1>4. IsBadPiece(type, p) <=> BadAt(type, i, value)
  BY <1>2, RangeOfOne DEF IsBadPiece
<1>5. BadAt(type, i, value) <=>
        \/ kind.type = "enum" /\ value \notin Range(kind.values)
        \/ kind.type = "message" /\ NestedGarbled[kind.message][value]
  BY <1>3 DEF BadAt
<1>6. ASSUME kind.type = "message"
      PROVE  \E e, m : ReadsAsMessage(type, p, e, m)
  <2> PICK size : size = NestedSize[kind.message][value]
    OBVIOUS
  <2>1. kind.wire = "length" /\ kind.message \in DOMAIN Schemas /\ value \in NewerMessages[kind.message]
    BY <1>1, <1>3, <1>6, KindIs
  <2>2. value \in AllMessages /\ value.type = kind.message /\ size \in Nat
    BY <2>1, NestedSizeOfValue
  <2>3. size = SizeOf(NestedWritten[kind.message][value])
    BY <2>2, NestedSizeIsExact
  <2> PICK e : e = Announced(field, size)
    OBVIOUS
  <2>4. e \in AnyElement /\ e.number = field.number /\ e.wire = "length" /\ e.value = size
    <3>1. Announced(field, size) \in AnyElement
      BY <1>3, <2>2, ElementsOfField
    <3> QED
      BY <3>1 DEF Announced, Element
  <2>5. p.elements = <<e>> \o NestedWritten[kind.message][value]
    BY <1>2, <1>6 DEF WrittenValue, Announced
  <2>6. FieldOf(type, e.number) = i
    BY <2>4, FieldOfNumber
  <2>7. IsBadPiece(type, p) <=> NestedGarbled[kind.message][value]
    BY <1>4, <1>5, <1>6
  <2>8. ReadsAsMessage(type, p, e, value)
    BY <1>2, <2>1, <2>3, <2>4, <2>5, <2>6, <2>7 DEF ReadsAsMessage
  <2> QED
    BY <2>8
<1>7. ASSUME NEW e, NEW raw, e \in AnyElement, p.elements = <<e>>, e.number = field.number,
             e.wire = kind.wire, e.value = raw, FromRaw(kind, raw) = value,
             kind.type = "enum" => raw = value, kind.type # "message",
             ~ (IsPackable(field) /\ e.wire = "length")
      PROVE  ReadsAsValues(type, p, e)
  <2>1. Numbers(field, e) = <<raw>>
    BY <1>7 DEF Numbers
  <2>2. [j \in DOMAIN <<raw>> |-> FromRaw(kind, <<raw>>[j])] = <<value>>
    <3>1. \A j \in DOMAIN <<raw>> : <<raw>>[j] = raw
      OBVIOUS
    <3>2. [j \in DOMAIN <<raw>> |-> FromRaw(kind, <<raw>>[j])] = [j \in DOMAIN <<raw>> |-> value]
      BY <1>7, <3>1
    <3>3. DOMAIN <<raw>> = 1 .. 1 /\ <<value>> = [j \in 1 .. 1 |-> value]
      OBVIOUS
    <3> QED
      BY <3>2, <3>3
  <2>3. FieldOf(type, e.number) = i
    BY <1>7, FieldOfNumber
  <2>4. IsBadPiece(type, p) <=> kind.type = "enum" /\ ~ (Range(<<raw>>) \subseteq Range(kind.values))
    BY <1>4, <1>5, <1>7, RangeOfOne
  <2> QED
    BY <1>2, <1>7, <2>1, <2>2, <2>3, <2>4 DEF ReadsAsValues
<1>8. ASSUME kind.type \in {"string", "bytes"}
      PROVE  \E e : ReadsAsValues(type, p, e)
  <2> PICK e : e = Text(field.number, value)
    OBVIOUS
  <2>1. kind.wire = "length" /\ value \in Seq(STRING)
    BY <1>1, <1>3, <1>8, KindIs
  <2>2. e \in AnyElement
    BY <1>3, <2>1, ElementsOfField
  <2>3. e.number = field.number /\ e.wire = "length" /\ e.value = value
    BY DEF Text, Element
  <2>4. p.elements = <<e>> /\ FromRaw(kind, value) = value
    BY <1>2, <1>8 DEF WrittenValue, FromRaw
  <2>5. ~ IsPackable(field)
    BY <2>1 DEF IsPackable
  <2> QED
    BY <1>7, <1>8, <2>1, <2>2, <2>3, <2>4, <2>5
<1>9. ASSUME kind.type \notin {"message", "string", "bytes"}
      PROVE  \E e : ReadsAsValues(type, p, e)
  <2> PICK raw, e : raw = Raw(kind, value) /\ e = Number(field.number, raw)
    OBVIOUS
  <2>1. kind.wire = "varint" /\ raw \in Int /\ FromRaw(kind, raw) = value
    BY <1>1, <1>3, <1>9, KindIs
  <2>2. e \in AnyElement
    BY <1>3, <2>1, ElementsOfField
  <2>3. e.number = field.number /\ e.wire = "varint" /\ e.value = raw
    BY DEF Number, Element
  <2>4. p.elements = <<e>>
    BY <1>2, <1>9 DEF WrittenValue
  <2>5. kind.type = "enum" => raw = value
    BY DEF Raw
  <2> QED
    BY <1>7, <1>9, <2>1, <2>2, <2>3, <2>4, <2>5
<1> QED
  BY <1>2, <1>6, <1>8, <1>9

\* So a piece of a field reads as its values, or as a message.
LEMMA FieldPieceReads ==
  ASSUME NEW type \in DOMAIN Schemas, NEW p \in Pieces(type), p.field # 0
  PROVE  /\ p.field \in DOMAIN Schemas[type]
         /\ Schemas[type][p.field].kind.type # "message" => \E e : ReadsAsValues(type, p, e)
         /\ Schemas[type][p.field].kind.type = "message" => \E e, m : ReadsAsMessage(type, p, e, m)
<1>1. p.field \in DOMAIN Schemas[type]
  BY PieceFields DEF PartsOf
<1>2. ~ IsUnknownPiece(p, type)
  BY DEF IsUnknownPiece, Piece
<1>3. IsValuePiece(p, type) \/ IsPackedPiece(p, type)
  BY <1>2 DEF Pieces
<1> QED
  BY <1>1, <1>3, ValuePieceReads, PackedPieceReads

\* A piece is at least one element.
LEMMA PieceIsSomething ==
  ASSUME NEW type \in DOMAIN Schemas, NEW p \in Pieces(type)
  PROVE  p.elements \in Seq(AnyElement) /\ p.elements # <<>>
<1>1. p.elements \in Seq(AnyElement)
  BY DEF Pieces, AnyPiece
<1>a. ASSUME NEW e
      PROVE  <<e>> # <<>>
  OBVIOUS
<1>2. CASE p.field = 0
  <2>1. PICK e : ReadsAsUnknown(type, p, e)
    BY <1>2, UnknownPieceReads
  <2> QED
    BY <1>1, <1>a, <2>1 DEF ReadsAsUnknown
<1>3. CASE p.field # 0 /\ Schemas[type][p.field].kind.type # "message"
  <2>1. PICK e : ReadsAsValues(type, p, e)
    BY <1>3, FieldPieceReads
  <2>2. p.elements = <<e>>
    BY <2>1, Zenon DEF ReadsAsValues
  <2> QED
    BY <1>1, <1>a, <2>2
<1>4. CASE p.field # 0 /\ Schemas[type][p.field].kind.type = "message"
  <2> PICK kind : kind = Schemas[type][p.field].kind
    OBVIOUS
  <2>1. PICK e, m : ReadsAsMessage(type, p, e, m)
    BY <1>4, FieldPieceReads
  <2> PICK nested : nested = NestedWritten[kind.message][m]
    OBVIOUS
  <2>2. /\ kind.message \in DOMAIN Schemas /\ m \in NewerMessages[kind.message]
        /\ e \in AnyElement /\ p.elements = <<e>> \o nested
    BY <2>1, Zenon DEF ReadsAsMessage
  <2>3. m \in AllMessages /\ m.type = kind.message
    BY <2>2, NestedSizeOfValue
  <2>4. NestedWritten[m.type][m] \in Seq(AnyElement)
    BY <2>3, NestedWrittenIs
  <2>5. nested \in Seq(AnyElement)
    BY <2>3, <2>4
  <2>6. <<e>> \o nested # <<>>
    BY <2>2, <2>5, FirstIs
  <2> QED
    BY <1>1, <2>2, <2>6
<1> QED
  BY <1>2, <1>3, <1>4

-----------------------------------------------------------------------------
(* The plan that the reader follows: for each of the messages on its stack *)
(* the message that it will be, the pieces that are left of it, and the    *)
(* elements that come after it.                                            *)

AnyMessage == [type : DOMAIN Schemas, fields : Seq(Seq(Anything)), unknown : Seq(AnyElement)]

AnyFrame == [message : AnyMessage, field : Nat, end : Nat]

AnyStep == [target : AnyMessage, todo : Seq(AnyPiece), after : Seq(AnyElement)]

IsShaped(m) == m \in AnyMessage /\ DOMAIN m.fields = DOMAIN Schemas[m.type]

\* What has been read, and then what is left, is the message.
Fits(m, step) ==
  \A i \in PartsOf(step.target.type) :
    Part(step.target, i) = Part(m, i) \o ValuesIn(step.todo, i)

IsFrame(frame, step, elements) ==
  /\ IsShaped(frame.message) /\ frame.message.type = step.target.type
  /\ IsWhole(step.target) /\ step.todo \in Seq(Pieces(step.target.type))
  /\ frame.end + SizeOf(step.after) = SizeOf(elements)

\* The message nested last in field i is the value.
Filled(m, i, value) == [m EXCEPT !.fields[i] = Append(Front(@), value)]

\* A message in which another one is being read.
IsOpen(frame, step, inner, innerStep) ==
  LET i == inner.field IN
  /\ i \in DOMAIN Schemas[step.target.type]
  /\ Schemas[step.target.type][i].kind.type = "message"
  /\ Schemas[step.target.type][i].kind.message = innerStep.target.type
  /\ innerStep.target \in AllMessages
  /\ frame.message.fields[i] # <<>>
  /\ innerStep.after = Elements(step.todo) \o step.after
  /\ Fits(Filled(frame.message, i, innerStep.target), step)

Rest(step) == Elements(step.todo) \o step.after

HasRead(elements, n, bytes, rest) ==
  \E read \in Seq(AnyElement) :
    elements = read \o rest /\ n = Len(read) + 1 /\ bytes = SizeOf(read)

IsBadStep(step) == IsBadTodo(step.target.type, step.todo)

IsTrack(frames, plan, elements, message) ==
  /\ frames \in Seq(AnyFrame) /\ frames # <<>>
  /\ plan \in Seq(AnyStep) /\ Len(plan) = Len(frames) /\ elements \in Seq(AnyElement)
  /\ plan[1].target = message /\ plan[1].after = <<>>
  /\ \A k \in 1 .. Len(frames) : IsFrame(frames[k], plan[k], elements)
  /\ \A k \in 1 .. Len(frames) - 1 : IsOpen(frames[k], plan[k], frames[k + 1], plan[k + 1])

Follows(frames, plan, elements, n, bytes, message) ==
  /\ IsTrack(frames, plan, elements, message)
  /\ Fits(frames[Len(frames)].message, plan[Len(frames)])
  /\ HasRead(elements, n, bytes, Rest(plan[Len(frames)]))
  /\ GarbledWith(message, NestedGarbled) <=> \E k \in 1 .. Len(frames) : IsBadStep(plan[k])

\* A whole message has the shape of one.
LEMMA WholeIsShaped ==
  ASSUME NEW m, IsWhole(m)
  PROVE  IsShaped(m)
<1> PICK type, n : type = m.type /\ n = Len(Schemas[type])
  OBVIOUS
<1>1. type \in DOMAIN Schemas /\ IsMessage(m, type, NewerMessages)
  BY DEF IsWhole
<1>2. /\ m = [type |-> type, fields |-> m.fields, unknown |-> m.unknown]
      /\ DOMAIN m.fields = DOMAIN Schemas[type]
      /\ m.fields = [i \in DOMAIN Schemas[type] |-> m.fields[i]]
      /\ \A i \in DOMAIN m.fields : m.fields[i] \in Seq(Possible(Schemas[type][i].kind, NewerMessages))
  BY <1>1, MessageIs
<1>3. n \in Nat /\ DOMAIN Schemas[type] = 1 .. n /\ \A i \in 1 .. n : IsField(Schemas[type][i])
  BY <1>1, SchemaIs
<1>4. ASSUME NEW i \in 1 .. n
      PROVE  m.fields[i] \in Seq(Anything)
  <2>1. Possible(Schemas[type][i].kind, NewerMessages) \subseteq Anything
    BY <1>3, PossibleIsAnything
  <2>2. m.fields[i] \in Seq(Possible(Schemas[type][i].kind, NewerMessages))
    BY <1>2, <1>3
  <2> QED
    BY <2>1, <2>2, SeqMonotonic
<1>5. [i \in 1 .. n |-> m.fields[i]] \in Seq(Seq(Anything))
  BY <1>3, <1>4, IsASeq
<1>6. m.fields \in Seq(Seq(Anything)) /\ m.unknown \in Seq(AnyElement)
  BY <1>2, <1>3, <1>5, UnknownIs
<1>7. m \in AnyMessage
  BY <1>1, <1>2, <1>6 DEF AnyMessage
<1> QED
  BY <1>2, <1>7 DEF IsShaped

\* So has an empty one, which has no values.
LEMMA EmptyIs ==
  ASSUME NEW type \in DOMAIN Schemas
  PROVE  /\ IsShaped(Empty(type)) /\ Empty(type).type = type /\ Empty(type) \in Anything
         /\ \A i \in PartsOf(type) : Part(Empty(type), i) = <<>>
<1> DEFINE fields == [i \in DOMAIN Schemas[type] |-> <<>>]
<1>1. Empty(type) = [type |-> type, fields |-> fields, unknown |-> <<>>]
  BY DEF Empty
<1>2. Len(Schemas[type]) \in Nat /\ DOMAIN Schemas[type] = 1 .. Len(Schemas[type])
  BY SchemaIs
<1>3. fields \in Seq(Seq(Anything))
  <2>1. <<>> \in Seq(Anything)
    BY EmptySeq
  <2>2. [i \in 1 .. Len(Schemas[type]) |-> <<>>] \in Seq(Seq(Anything))
    BY <1>2, <2>1, IsASeq
  <2> QED
    BY <1>2, <2>2
<1>4. DOMAIN fields = DOMAIN Schemas[type] /\ \A i \in DOMAIN Schemas[type] : fields[i] = <<>>
  OBVIOUS
<1> HIDE DEF fields
<1>5. Empty(type) \in AnyMessage
  BY <1>1, <1>3, EmptySeq DEF AnyMessage
<1>6. \A i \in PartsOf(type) : Part(Empty(type), i) = <<>>
  BY <1>1, <1>4 DEF Part, PartsOf
<1> QED
  BY <1>1, <1>4, <1>5, <1>6 DEF IsShaped, Anything

\* The parts of a message are sequences.
LEMMA PartIsSeq ==
  ASSUME NEW m, IsShaped(m), NEW i \in PartsOf(m.type)
  PROVE  Part(m, i) \in Seq(Anything)
<1>1. m.unknown \in Seq(Anything)
  <2>1. AnyElement \subseteq Anything
    BY DEF Anything
  <2>2. m.unknown \in Seq(AnyElement)
    BY DEF IsShaped, AnyMessage
  <2> QED
    BY <2>1, <2>2, SeqMonotonic
<1>2. CASE i = 0
  BY <1>1, <1>2 DEF Part
<1>3. CASE i # 0
  <2>1. i \in DOMAIN m.fields /\ m.fields \in Seq(Seq(Anything))
    BY <1>3 DEF IsShaped, AnyMessage, PartsOf
  <2>2. m.fields[i] \in Seq(Anything)
    BY <2>1, ElementOfSeq, LenProperties
  <2> QED
    BY <1>3, <2>2 DEF Part
<1> QED
  BY <1>2, <1>3

\* The element that is read next.
LEMMA ReadOne ==
  ASSUME NEW elements \in Seq(AnyElement), NEW n, NEW bytes, NEW e \in AnyElement,
         NEW rest \in Seq(AnyElement), HasRead(elements, n, bytes, <<e>> \o rest)
  PROVE  /\ elements[n] = e /\ n \in Nat /\ bytes \in Nat
         /\ HasRead(elements, n + 1, bytes + e.size, rest)
<1>1. PICK read \in Seq(AnyElement) :
        elements = read \o (<<e>> \o rest) /\ n = Len(read) + 1 /\ bytes = SizeOf(read)
  BY DEF HasRead
<1>2. Len(read) \in Nat /\ bytes \in Nat /\ <<e>> \in Seq(AnyElement)
  BY <1>1, LenProperties, SizesAre, FirstIs
<1>3. Append(read, e) \in Seq(AnyElement) /\ Len(Append(read, e)) = Len(read) + 1
      /\ SizeOf(Append(read, e)) = SizeOf(read) + e.size
  BY AppendProperties, SizeOfAppend
<1>4. elements = Append(read, e) \o rest
  <2>1. read \o (<<e>> \o rest) = (read \o <<e>>) \o rest
    BY <1>2, ConcatAssociative
  <2>2. Append(read, e) = read \o <<e>>
    BY AppendIsConcat
  <2> QED
    BY <1>1, <2>1, <2>2
<1>5. elements[n] = e
  <2>1. /\ Append(read, e)[Len(read) + 1] = e /\ Len(read) + 1 \in 1 .. Len(Append(read, e))
    BY <1>2, <1>3, AppendProperties
  <2>2. \A s, t \in Seq(AnyElement) : \A k \in 1 .. Len(s) : (s \o t)[k] = s[k]
    BY ConcatProperties, LenProperties
  <2>3. (Append(read, e) \o rest)[Len(read) + 1] = Append(read, e)[Len(read) + 1]
    BY <1>3, <2>1, <2>2
  <2> QED
    BY <1>1, <1>4, <2>1, <2>3
<1>6. HasRead(elements, n + 1, bytes + e.size, rest)
  <2>1. n + 1 = Len(Append(read, e)) + 1 /\ bytes + e.size = SizeOf(Append(read, e))
    BY <1>1, <1>3
  <2> QED
    BY <1>3, <1>4, <2>1 DEF HasRead
<1>7. n \in Nat
  BY <1>1, <1>2
<1> QED
  BY <1>2, <1>5, <1>6, <1>7

\* What replaces the last element of a sequence.
IsReplaced(t, s, x) ==
  Len(t) = Len(s) /\ t[Len(s)] = x /\ \A k \in 1 .. Len(s) - 1 : t[k] = s[k]

Replaced(s, x) == [s EXCEPT ![Len(s)] = x]

\* What it is to replace the last element.
LEMMA LastIsReplaced ==
  ASSUME NEW S, NEW s \in Seq(S), s # <<>>, NEW x \in S
  PROVE  /\ Replaced(s, x) \in Seq(S) /\ IsReplaced(Replaced(s, x), s, x)
         /\ Len(s) \in Nat \ {0} /\ s[Len(s)] \in S
<1>1. Len(s) \in Nat \ {0} /\ DOMAIN s = 1 .. Len(s)
  BY LenProperties, EmptySeq
<1>2. s[Len(s)] \in S
  BY <1>1, ElementOfSeq
<1> PICK t : t = [s EXCEPT ![Len(s)] = x]
  OBVIOUS
<1>5. DOMAIN t = 1 .. Len(s) /\ \A k \in 1 .. Len(s) : t[k] = IF k = Len(s) THEN x ELSE s[k]
  BY <1>1
<1>6. \A k \in 1 .. Len(s) : t[k] \in S
  BY <1>1, <1>5, ElementOfSeq
<1>7. t = [k \in 1 .. Len(s) |-> t[k]]
  BY <1>5
<1>3. t \in Seq(S) /\ Len(t) = Len(s)
  <2> PICK n : n = Len(s)
    OBVIOUS
  <2>0. n \in Nat /\ \A k \in 1 .. n : t[k] \in S
    BY <1>1, <1>6
  <2>1. [k \in 1 .. n |-> t[k]] \in Seq(S)
    BY <2>0, IsASeq
  <2>2. t \in Seq(S)
    BY <1>7, <2>1
  <2> QED
    BY <1>1, <1>5, <2>2, LenProperties
<1>4. t[Len(s)] = x /\ \A k \in 1 .. Len(s) - 1 : t[k] = s[k]
  <2>1. \A n \in Nat \ {0} : n \in 1 .. n /\ \A k \in 1 .. n - 1 : k \in 1 .. n /\ k # n
    OBVIOUS
  <2>2. Len(s) \in 1 .. Len(s) /\ \A k \in 1 .. Len(s) - 1 : k \in 1 .. Len(s) /\ k # Len(s)
    BY <1>1, <2>1, Zenon
  <2> QED
    BY <1>5, <2>2, Zenon
<1> QED
  BY <1>1, <1>2, <1>3, <1>4 DEF IsReplaced, Replaced

\* What is known of the last frame and step of a track.
LEMMA TrackIs ==
  ASSUME NEW frames, NEW plan, NEW elements, NEW message,
         IsTrack(frames, plan, elements, message),
         NEW top, top = Len(frames)
  PROVE  /\ top \in Nat \ {0} /\ top = Len(plan) /\ plan # <<>> /\ frames # <<>>
         /\ frames \in Seq(AnyFrame) /\ plan \in Seq(AnyStep)
         /\ frames[top] \in AnyFrame /\ plan[top] \in AnyStep
         /\ IsFrame(frames[top], plan[top], elements)
         /\ plan[top].target.type \in DOMAIN Schemas
         /\ plan[top].todo \in Seq(Pieces(plan[top].target.type)) /\ plan[top].todo \in Seq(AnyPiece)
         /\ plan[top].after \in Seq(AnyElement) /\ elements \in Seq(AnyElement)
         /\ Elements(plan[top].todo) \in Seq(AnyElement)
<1>1. /\ frames \in Seq(AnyFrame) /\ frames # <<>>
      /\ plan \in Seq(AnyStep) /\ Len(plan) = Len(frames) /\ elements \in Seq(AnyElement)
      /\ \A k \in 1 .. Len(frames) : IsFrame(frames[k], plan[k], elements)
  BY DEF IsTrack
<1>2. top \in Nat \ {0} /\ top = Len(plan) /\ plan # <<>>
  <2>1. Len(frames) \in Nat \ {0}
    BY <1>1, LenProperties, EmptySeq
  <2> QED
    BY <1>1, <2>1
<1>3. frames[top] \in AnyFrame /\ plan[top] \in AnyStep
  <2>1. top \in 1 .. Len(frames) /\ top \in 1 .. Len(plan)
    BY <1>2
  <2> QED
    BY <1>1, <2>1, ElementOfSeq
<1>4. IsFrame(frames[top], plan[top], elements)
  BY <1>1, <1>2
<1>5. plan[top].target.type \in DOMAIN Schemas /\ plan[top].after \in Seq(AnyElement)
  BY <1>3 DEF AnyStep, AnyMessage
<1>6. plan[top].todo \in Seq(Pieces(plan[top].target.type))
  BY <1>4 DEF IsFrame
<1>7. plan[top].todo \in Seq(AnyPiece)
  BY <1>6, PiecesAre
<1>8. Elements(plan[top].todo) \in Seq(AnyElement)
  BY <1>7, ValuesOfConcat
<1> QED
  BY <1>1, <1>2, <1>3, <1>4, <1>5, <1>6, <1>7, <1>8

\* The reader is at the end of a message if nothing is left of it.
LEMMA EndIs ==
  ASSUME NEW frames, NEW plan, NEW elements, NEW n, NEW bytes, NEW message,
         Follows(frames, plan, elements, n, bytes, message),
         NEW top, top = Len(frames)
  PROVE  /\ bytes \in Nat /\ frames[top].end = bytes + SizeOf(Elements(plan[top].todo))
         /\ SizeOf(Elements(plan[top].todo)) \in Nat
         /\ bytes >= frames[top].end <=> plan[top].todo = <<>>
<1>0. PICK todo, after, type, end :
      /\ todo = plan[top].todo /\ after = plan[top].after
      /\ type = plan[top].target.type /\ end = frames[top].end
  OBVIOUS
<1>1. /\ top = Len(plan) /\ frames[top] \in AnyFrame
      /\ IsFrame(frames[top], plan[top], elements) /\ type \in DOMAIN Schemas
      /\ todo \in Seq(Pieces(type)) /\ todo \in Seq(AnyPiece)
      /\ after \in Seq(AnyElement) /\ elements \in Seq(AnyElement)
      /\ Elements(todo) \in Seq(AnyElement)
  BY <1>0, TrackIs DEF Follows
<1>2. HasRead(elements, n, bytes, Elements(todo) \o after)
  BY <1>0, <1>1 DEF Follows, Rest
<1>3. PICK read \in Seq(AnyElement) :
        elements = read \o (Elements(todo) \o after) /\ bytes = SizeOf(read)
  BY <1>2 DEF HasRead
<1>4. /\ SizeOf(elements) = SizeOf(read) + (SizeOf(Elements(todo)) + SizeOf(after))
  <2>1. Elements(todo) \o after \in Seq(AnyElement)
    BY <1>1, ConcatProperties
  <2>2. SizeOf(Elements(todo) \o after) = SizeOf(Elements(todo)) + SizeOf(after)
    BY <1>1, SizeOfConcat
  <2>3. SizeOf(read \o (Elements(todo) \o after)) = SizeOf(read) + SizeOf(Elements(todo) \o after)
    <3>1. \A p, q \in Seq(AnyElement) : SizeOf(p \o q) = SizeOf(p) + SizeOf(q)
      BY SizeOfConcat
    <3> QED
      BY <2>1, <3>1, Zenon
  <2> QED
    BY <1>3, <2>2, <2>3
<1>5. SizeOf(read) \in Nat /\ SizeOf(Elements(todo)) \in Nat /\ SizeOf(after) \in Nat
  BY <1>1, <1>3, SizesAre
<1>6. end + SizeOf(after) = SizeOf(elements) /\ end \in Nat
  BY <1>0, <1>1 DEF IsFrame, AnyFrame
<1>7. end = bytes + SizeOf(Elements(todo)) /\ bytes \in Nat
  <2>1. \A a, b, c, d \in Nat : d + c = a + (b + c) => d = a + b
    OBVIOUS
  <2>2. end + SizeOf(after) = SizeOf(read) + (SizeOf(Elements(todo)) + SizeOf(after))
    BY <1>4, <1>6
  <2>3. end = SizeOf(read) + SizeOf(Elements(todo))
    BY <1>5, <1>6, <2>1, <2>2
  <2> QED
    BY <1>3, <1>5, <2>3
<1>8. ASSUME todo = <<>>
      PROVE  bytes >= end
  <2>1. SizeOf(Elements(todo)) = 0
    BY <1>8, ValuesOfNothing, SizeOfNothing
  <2> QED
    BY <1>5, <1>7, <1>8, <2>1
<1>9. ASSUME todo # <<>>
      PROVE  ~ (bytes >= end)
  <2>1. Head(todo) \in Pieces(type)
    BY <1>1, <1>9, HeadTailProperties
  <2>2. Head(todo).elements \in Seq(AnyElement) /\ Head(todo).elements # <<>>
    BY <1>1, <2>1, PieceIsSomething
  <2>3. Elements(todo) = Head(todo).elements \o Elements(Tail(todo))
    BY <1>1, <1>9, ValuesOfFirst
  <2>4. Tail(todo) \in Seq(AnyPiece)
    BY <1>1, <1>9, ValuesOfFirst
  <2>5. Elements(Tail(todo)) \in Seq(AnyElement)
    BY <2>4, ValuesOfConcat
  <2>6. SizeOf(Elements(todo)) = SizeOf(Head(todo).elements) + SizeOf(Elements(Tail(todo)))
    <3>1. \A p, q \in Seq(AnyElement) : SizeOf(p \o q) = SizeOf(p) + SizeOf(q)
      BY SizeOfConcat
    <3> QED
      BY <2>2, <2>3, <2>5, <3>1, Zenon
  <2>7. SizeOf(Head(todo).elements) \in Nat \ {0} /\ SizeOf(Elements(Tail(todo))) \in Nat
    BY <2>2, <2>5, SizesAre, SizeIsPositive
  <2>8. SizeOf(Elements(todo)) > 0
    BY <2>6, <2>7
  <2>9. ~ (bytes >= end)
    BY <1>5, <1>7, <2>8
  <2> QED
    BY <1>5, <1>7, <1>9, <2>9
<1> QED
  BY <1>0, <1>5, <1>7, <1>8, <1>9

\* A message with values added to one of its parts.
Extends(m2, m, i, values) ==
  /\ IsShaped(m2) /\ m2.type = m.type
  /\ \A k \in PartsOf(m.type) : Part(m2, k) = Part(m, k) \o (IF k = i THEN values ELSE <<>>)

\* The plan's last step without its first piece.
StepOn(step) == [target |-> step.target, todo |-> Tail(step.todo), after |-> step.after]

\* The last step, when its first piece is done.
LEMMA StepOnIs ==
  ASSUME NEW step \in AnyStep, step.todo # <<>>,
         step.todo \in Seq(Pieces(step.target.type))
  PROVE  /\ StepOn(step) \in AnyStep /\ StepOn(step).target = step.target
         /\ StepOn(step).after = step.after /\ StepOn(step).todo = Tail(step.todo)
         /\ Tail(step.todo) \in Seq(Pieces(step.target.type))
<1>1. step = [target |-> step.target, todo |-> step.todo, after |-> step.after]
  BY DEF AnyStep
<1>2. StepOn(step) = [target |-> step.target, todo |-> Tail(step.todo), after |-> step.after]
  BY DEF StepOn
<1>3. Tail(step.todo) \in Seq(Pieces(step.target.type))
  BY HeadTailProperties
<1>4. Tail(step.todo) \in Seq(AnyPiece)
  BY <1>3, PiecesAre
<1> QED
  BY <1>2, <1>3, <1>4 DEF AnyStep

\* What fits goes on to fit when a piece is read.
LEMMA FitsOn ==
  ASSUME NEW step \in AnyStep, step.todo # <<>>, step.todo \in Seq(Pieces(step.target.type)),
         NEW m, IsShaped(m), m.type = step.target.type, Fits(m, step),
         NEW m2, Extends(m2, m, Head(step.todo).field, Head(step.todo).values)
  PROVE  Fits(m2, StepOn(step))
<1> PICK type, todo, p : type = step.target.type /\ todo = step.todo /\ p = Head(todo)
  OBVIOUS
<1>1. StepOn(step).target = step.target /\ StepOn(step).todo = Tail(todo)
  BY StepOnIs
<1>2. todo \in Seq(AnyPiece)
  BY PiecesAre
<1>3. p \in AnyPiece /\ Tail(todo) \in Seq(AnyPiece)
  BY <1>2, ValuesOfFirst
<1>4. p.values \in Seq(Anything)
  BY <1>3 DEF AnyPiece
<1>5. ASSUME NEW i \in PartsOf(type)
      PROVE  Part(step.target, i) = Part(m2, i) \o ValuesIn(Tail(todo), i)
  <2>0. PICK a, b, c : /\ a = Part(m, i) /\ b = (IF p.field = i THEN p.values ELSE <<>>)
                       /\ c = ValuesIn(Tail(todo), i)
    OBVIOUS
  <2>1. Part(step.target, i) = a \o ValuesIn(todo, i)
    BY <1>5, <2>0 DEF Fits
  <2>2. ValuesIn(todo, i) = b \o c
    BY <1>2, <2>0, ValuesOfFirst
  <2>3. Part(m2, i) = a \o b
    BY <1>5, <2>0 DEF Extends
  <2>4. a \in Seq(Anything) /\ b \in Seq(Anything) /\ c \in Seq(Anything)
    <3>1. a \in Seq(Anything)
      BY <1>5, <2>0, PartIsSeq
    <3>2. b \in Seq(Anything)
      BY <1>4, <2>0, EmptySeq
    <3>3. c \in Seq(Anything)
      BY <1>3, <2>0, ValuesOfConcat
    <3> QED
      BY <3>1, <3>2, <3>3
  <2>5. a \o (b \o c) = (a \o b) \o c
    <3>1. \A x, y, z \in Seq(Anything) : (x \o y) \o z = x \o (y \o z)
      BY AssociatesHere
    <3> QED
      BY <2>4, <3>1
  <2> QED
    BY <2>0, <2>1, <2>2, <2>3, <2>5
<1> QED
  BY <1>1, <1>5 DEF Fits

\* The message on top of the stack with something else in it.
With(frame, m) == [frame EXCEPT !.message = m]

\* A frame with another message in it.
LEMMA WithIs ==
  ASSUME NEW frame \in AnyFrame, NEW m \in AnyMessage
  PROVE  /\ With(frame, m) \in AnyFrame /\ With(frame, m).message = m
         /\ With(frame, m).field = frame.field /\ With(frame, m).end = frame.end
<1>1. frame = [message |-> frame.message, field |-> frame.field, end |-> frame.end]
  BY DEF AnyFrame
<1>2. With(frame, m) = [message |-> m, field |-> frame.field, end |-> frame.end]
  BY <1>1 DEF With
<1> QED
  BY <1>2 DEF AnyFrame

\* The last message changes, or what is left of it.
LEMMA TrackGoesOn ==
  ASSUME NEW frames, NEW plan, NEW elements, NEW message,
         IsTrack(frames, plan, elements, message),
         NEW top, top = Len(frames),
         NEW m, IsShaped(m), m.type = frames[top].message.type,
         NEW step \in AnyStep, step.target = plan[top].target, step.after = plan[top].after,
         step.todo \in Seq(Pieces(step.target.type)),
         NEW frames2 \in Seq(AnyFrame), IsReplaced(frames2, frames, With(frames[top], m)),
         NEW plan2 \in Seq(AnyStep), IsReplaced(plan2, plan, step)
  PROVE  IsTrack(frames2, plan2, elements, message)
<1>0. PICK frame : frame = frames[top]
  OBVIOUS
<1>1. /\ top \in Nat \ {0} /\ top = Len(plan) /\ plan # <<>> /\ frames # <<>>
      /\ frames \in Seq(AnyFrame) /\ plan \in Seq(AnyStep) /\ elements \in Seq(AnyElement)
      /\ frame \in AnyFrame /\ IsFrame(frame, plan[top], elements)
  BY <1>0, TrackIs
<1>2. m \in AnyMessage /\ m.type = frame.message.type
  BY <1>0 DEF IsShaped
<1>3. /\ With(frame, m) \in AnyFrame /\ With(frame, m).message = m
      /\ With(frame, m).field = frame.field /\ With(frame, m).end = frame.end
  BY <1>1, <1>2, WithIs
<1>8. /\ frames2[top] = With(frame, m) /\ \A k \in 1 .. top - 1 : frames2[k] = frames[k]
      /\ plan2[top] = step /\ \A k \in 1 .. top - 1 : plan2[k] = plan[k]
  BY <1>0, <1>1 DEF IsReplaced
<1>9. /\ plan[1].target = message /\ plan[1].after = <<>>
      /\ \A k \in 1 .. top : IsFrame(frames[k], plan[k], elements)
      /\ \A k \in 1 .. top - 1 : IsOpen(frames[k], plan[k], frames[k + 1], plan[k + 1])
  BY DEF IsTrack
<1>10. plan2[1].target = message /\ plan2[1].after = <<>>
  <2>1. CASE top = 1
    BY <1>0, <1>8, <1>9, <2>1
  <2>2. CASE top # 1
    <3>1. 1 \in 1 .. top - 1
      BY <1>1, <2>2
    <3> QED
      BY <1>8, <1>9, <3>1
  <2> QED
    BY <2>1, <2>2
<1>11. IsFrame(frames2[top], plan2[top], elements)
  BY <1>1, <1>2, <1>3, <1>8 DEF IsFrame
<1>12. ASSUME NEW k \in 1 .. top
       PROVE  IsFrame(frames2[k], plan2[k], elements)
  <2>1. k = top \/ k \in 1 .. top - 1
    BY <1>1
  <2> QED
    BY <1>8, <1>9, <1>11, <2>1
<1>13. ASSUME NEW k \in 1 .. top - 1
       PROVE  IsOpen(frames2[k], plan2[k], frames2[k + 1], plan2[k + 1])
  <2>1. k + 1 = top \/ k + 1 \in 1 .. top - 1
    BY <1>1
  <2>2. frames2[k] = frames[k] /\ plan2[k] = plan[k]
    BY <1>8
  <2>3. IsOpen(frames[k], plan[k], frames[k + 1], plan[k + 1])
    BY <1>9
  <2>4. /\ frames2[k + 1].field = frames[k + 1].field
        /\ plan2[k + 1].target = plan[k + 1].target /\ plan2[k + 1].after = plan[k + 1].after
    BY <1>0, <1>3, <1>8, <2>1
  <2> QED
    BY <2>2, <2>3, <2>4, Zenon DEF IsOpen
<1>14. Len(frames2) = top /\ Len(plan2) = top /\ frames2 # <<>>
  BY <1>1 DEF IsReplaced
<1> QED
  BY <1>0, <1>1, <1>10, <1>12, <1>13, <1>14, Zenon DEF IsTrack

\* What Append does, at each index.
LEMMA AppendIs ==
  ASSUME NEW S, NEW s \in Seq(S), NEW x \in S
  PROVE  /\ Append(s, x) \in Seq(S) /\ Len(Append(s, x)) = Len(s) + 1
         /\ Append(s, x)[Len(s) + 1] = x /\ \A k \in 1 .. Len(s) : Append(s, x)[k] = s[k]
BY AppendProperties

\* A message is opened in the last one.
LEMMA TrackIsPushed ==
  ASSUME NEW frames, NEW plan, NEW elements, NEW message,
         IsTrack(frames, plan, elements, message),
         NEW frame \in AnyFrame, NEW step \in AnyStep, IsFrame(frame, step, elements),
         IsOpen(frames[Len(frames)], plan[Len(frames)], frame, step)
  PROVE  IsTrack(Append(frames, frame), Append(plan, step), elements, message)
<1>a. PICK top : top = Len(frames)
  OBVIOUS
<1>1. /\ top \in Nat \ {0} /\ top = Len(plan)
      /\ frames \in Seq(AnyFrame) /\ plan \in Seq(AnyStep) /\ elements \in Seq(AnyElement)
  BY <1>a, TrackIs
<1>0. PICK frames2, plan2 : frames2 = Append(frames, frame) /\ plan2 = Append(plan, step)
  OBVIOUS
<1>2. /\ frames2 \in Seq(AnyFrame) /\ plan2 \in Seq(AnyStep) /\ frames2 # <<>>
      /\ Len(frames2) = top + 1 /\ Len(plan2) = top + 1
      /\ frames2[top + 1] = frame /\ plan2[top + 1] = step
      /\ \A k \in 1 .. top : frames2[k] = frames[k] /\ plan2[k] = plan[k]
  <2>1. /\ frames2 \in Seq(AnyFrame) /\ Len(frames2) = Len(frames) + 1
        /\ frames2[Len(frames) + 1] = frame
        /\ \A k \in 1 .. Len(frames) : frames2[k] = frames[k]
    BY <1>0, <1>1, AppendIs
  <2>2. /\ plan2 \in Seq(AnyStep) /\ Len(plan2) = Len(plan) + 1
        /\ plan2[Len(plan) + 1] = step
        /\ \A k \in 1 .. Len(plan) : plan2[k] = plan[k]
    BY <1>0, <1>1, AppendIs
  <2>3. frames2 # <<>>
    BY <1>1, <1>a, <2>1, EmptySeq
  <2> QED
    BY <1>1, <1>a, <2>1, <2>2, <2>3
<1>3. /\ plan[1].target = message /\ plan[1].after = <<>>
      /\ \A k \in 1 .. top : IsFrame(frames[k], plan[k], elements)
      /\ \A k \in 1 .. top - 1 : IsOpen(frames[k], plan[k], frames[k + 1], plan[k + 1])
  BY <1>a DEF IsTrack
<1>4. plan2[1] = plan[1]
  BY <1>1, <1>2
<1>5. ASSUME NEW k \in 1 .. top + 1
      PROVE  IsFrame(frames2[k], plan2[k], elements)
  <2>1. k = top + 1 \/ k \in 1 .. top
    BY <1>1
  <2> QED
    BY <1>2, <1>3, <2>1
<1>6. ASSUME NEW k \in 1 .. top + 1 - 1
      PROVE  IsOpen(frames2[k], plan2[k], frames2[k + 1], plan2[k + 1])
  <2>1. CASE k = top
    <3>1. frames2[k] = frames[Len(frames)] /\ plan2[k] = plan[Len(frames)]
      BY <1>1, <1>2, <1>a, <2>1
    <3> QED
      BY <1>2, <2>1, <3>1
  <2>2. CASE k # top
    <3>1. k \in 1 .. top - 1 /\ k \in 1 .. top /\ k + 1 \in 1 .. top
      BY <1>1, <2>2
    <3>2. IsOpen(frames[k], plan[k], frames[k + 1], plan[k + 1])
      BY <1>3, <3>1
    <3> QED
      BY <1>2, <3>1, <3>2
  <2> QED
    BY <2>1, <2>2
<1>8. Len(frames2) = top + 1 /\ Len(plan2) = Len(frames2)
  BY <1>2
<1>9. plan2[1].target = message /\ plan2[1].after = <<>>
  BY <1>3, <1>4
<1>10. /\ \A k \in 1 .. Len(frames2) : IsFrame(frames2[k], plan2[k], elements)
       /\ \A k \in 1 .. Len(frames2) - 1 : IsOpen(frames2[k], plan2[k], frames2[k + 1], plan2[k + 1])
  <2>1. /\ \A k \in 1 .. top + 1 : IsFrame(frames2[k], plan2[k], elements)
        /\ \A k \in 1 .. top + 1 - 1 : IsOpen(frames2[k], plan2[k], frames2[k + 1], plan2[k + 1])
    BY <1>5, <1>6
  <2> QED
    BY <1>1, <1>8, <2>1
<1>7. IsTrack(frames2, plan2, elements, message)
  BY <1>1, <1>2, <1>8, <1>9, <1>10, Zenon DEF IsTrack
<1> QED
  BY <1>0, <1>7

\* What Front leaves.
LEMMA FrontIs ==
  ASSUME NEW S, NEW s \in Seq(S), s # <<>>
  PROVE  /\ Front(s) \in Seq(S) /\ Len(Front(s)) = Len(s) - 1 /\ Len(s) \in Nat \ {0}
         /\ \A k \in 1 .. Len(s) - 1 : Front(s)[k] = s[k]
         /\ s[Len(s)] \in S /\ s = Front(s) \o <<s[Len(s)]>>
<1>1. Len(s) \in Nat \ {0} /\ \A k \in 1 .. Len(s) : s[k] \in S
  BY LenProperties, EmptySeq, ElementOfSeq
<1> PICK n, f : n = Len(s) - 1 /\ f = Front(s)
  OBVIOUS
<1>2. n \in Nat /\ Len(s) = n + 1 /\ \A k \in 1 .. n : s[k] \in S
  BY <1>1
<1>3. f = SubSeq(s, 1, n)
  BY DEF Front
<1>4. SubSeq(s, 1, n) \in Seq(S)
  BY <1>2, SubSeqProperties
<1>5. Len(SubSeq(s, 1, n)) = n
  <2>1. Len(SubSeq(s, 1, n)) = IF 1 <= n THEN n - 1 + 1 ELSE 0
    BY <1>2, SubSeqProperties
  <2> QED
    BY <1>2, <2>1
<1>6. \A k \in 1 .. n : SubSeq(s, 1, n)[k] = s[k]
  <2>1. \A k \in 1 .. n - 1 + 1 : SubSeq(s, 1, n)[k] = s[1 + k - 1]
    BY <1>2, SubSeqProperties
  <2>2. n - 1 + 1 = n /\ \A k \in 1 .. n : 1 + k - 1 = k
    BY <1>2
  <2> QED
    BY <2>1, <2>2
<1>7. f \in Seq(S) /\ Len(f) = n /\ \A k \in 1 .. n : f[k] = s[k]
  BY <1>3, <1>4, <1>5, <1>6
<1>8. s[Len(s)] \in S
  BY <1>1
<1>9. s = Append(f, s[Len(s)])
  <2>1. /\ Append(f, s[Len(s)]) \in Seq(S) /\ Len(Append(f, s[Len(s)])) = n + 1
        /\ Append(f, s[Len(s)])[n + 1] = s[Len(s)]
        /\ \A k \in 1 .. n : Append(f, s[Len(s)])[k] = s[k]
    BY <1>7, <1>8, AppendProperties
  <2>2. \A k \in 1 .. Len(s) : Append(f, s[Len(s)])[k] = s[k]
    BY <1>2, <2>1
  <2> QED
    BY <1>2, <2>1, <2>2, SeqEqual
<1>10. Append(f, s[Len(s)]) = f \o <<s[Len(s)]>>
  BY <1>7, <1>8, AppendIsConcat
<1>11. n = Len(s) - 1 /\ f = Front(s)
  OBVIOUS
<1> QED
  BY <1>1, <1>7, <1>8, <1>9, <1>10, <1>11

\* The last message is closed.
LEMMA TrackIsPopped ==
  ASSUME NEW frames, NEW plan, NEW elements, NEW message,
         IsTrack(frames, plan, elements, message),
         NEW top, top = Len(frames), top > 1
  PROVE  /\ IsTrack(Front(frames), Front(plan), elements, message)
         /\ Len(Front(frames)) = top - 1
         /\ \A k \in 1 .. top - 1 : Front(frames)[k] = frames[k] /\ Front(plan)[k] = plan[k]
<1>1. /\ top \in Nat \ {0} /\ top = Len(plan)
      /\ frames \in Seq(AnyFrame) /\ plan \in Seq(AnyStep) /\ elements \in Seq(AnyElement)
  BY TrackIs
<1>0. PICK frames2, plan2 : frames2 = Front(frames) /\ plan2 = Front(plan)
  OBVIOUS
<1>2. /\ frames2 \in Seq(AnyFrame) /\ plan2 \in Seq(AnyStep)
      /\ Len(frames2) = top - 1 /\ Len(plan2) = top - 1
      /\ \A k \in 1 .. top - 1 : frames2[k] = frames[k] /\ plan2[k] = plan[k]
  <2>1. /\ frames2 \in Seq(AnyFrame) /\ Len(frames2) = top - 1
        /\ \A k \in 1 .. top - 1 : frames2[k] = frames[k]
    BY <1>0, <1>1, FrontIs, EmptySeq
  <2>2. /\ plan2 \in Seq(AnyStep) /\ Len(plan2) = top - 1
        /\ \A k \in 1 .. top - 1 : plan2[k] = plan[k]
    BY <1>0, <1>1, FrontIs, EmptySeq
  <2> QED
    BY <2>1, <2>2
<1>3. /\ plan[1].target = message /\ plan[1].after = <<>>
      /\ \A k \in 1 .. top : IsFrame(frames[k], plan[k], elements)
      /\ \A k \in 1 .. top - 1 : IsOpen(frames[k], plan[k], frames[k + 1], plan[k + 1])
  BY DEF IsTrack
<1>4. plan2[1] = plan[1] /\ frames2 # <<>>
  <2>1. 1 \in 1 .. top - 1 /\ top - 1 # 0
    BY <1>1
  <2> QED
    BY <1>2, <2>1, EmptySeq
<1>5. ASSUME NEW k \in 1 .. top - 1
      PROVE  IsFrame(frames2[k], plan2[k], elements)
  BY <1>1, <1>2, <1>3
<1>6. ASSUME NEW k \in 1 .. top - 1 - 1
      PROVE  IsOpen(frames2[k], plan2[k], frames2[k + 1], plan2[k + 1])
  <2>1. k \in 1 .. top - 1 /\ k + 1 \in 1 .. top - 1
    BY <1>1
  <2>2. IsOpen(frames[k], plan[k], frames[k + 1], plan[k + 1])
    BY <1>3, <2>1
  <2> QED
    BY <1>2, <2>1, <2>2
<1>7. IsTrack(frames2, plan2, elements, message)
  BY <1>1, <1>2, <1>3, <1>4, <1>5, <1>6, Zenon DEF IsTrack
<1> QED
  BY <1>0, <1>2, <1>7

\* A sequence is its first element and the others.
LEMMA FirstOfPlan ==
  ASSUME NEW frames, NEW plan, NEW elements, NEW n, NEW bytes, NEW message,
         Follows(frames, plan, elements, n, bytes, message),
         NEW top, top = Len(frames), plan[top].todo # <<>>
  PROVE  /\ Head(plan[top].todo) \in Pieces(plan[top].target.type)
         /\ Head(plan[top].todo).elements \in Seq(AnyElement)
         /\ Head(plan[top].todo).values \in Seq(Anything)
         /\ Elements(Tail(plan[top].todo)) \in Seq(AnyElement)
         /\ Elements(plan[top].todo)
              = Head(plan[top].todo).elements \o Elements(Tail(plan[top].todo))
         /\ HasRead(elements, n, bytes,
              (Head(plan[top].todo).elements \o Elements(Tail(plan[top].todo))) \o plan[top].after)
<1>0. PICK step, todo, type : step = plan[top] /\ todo = step.todo /\ type = step.target.type
  OBVIOUS
<1>1. /\ todo \in Seq(Pieces(type)) /\ todo \in Seq(AnyPiece) /\ type \in DOMAIN Schemas
      /\ top = Len(plan) /\ todo # <<>> /\ step \in AnyStep
  BY <1>0, TrackIs DEF Follows
<1>2. Head(todo) \in Pieces(type)
  BY <1>1, HeadTailProperties
<1>3. /\ Tail(todo) \in Seq(AnyPiece)
      /\ Elements(todo) = Head(todo).elements \o Elements(Tail(todo))
  BY <1>1, ValuesOfFirst
<1>4. Head(todo).elements \in Seq(AnyElement) /\ Head(todo).values \in Seq(Anything)
  BY <1>2 DEF Pieces, AnyPiece
<1>5. Elements(Tail(todo)) \in Seq(AnyElement)
  BY <1>3, ValuesOfConcat
<1>6. HasRead(elements, n, bytes, Elements(todo) \o step.after)
  BY <1>0 DEF Follows, Rest
<1> QED
  BY <1>0, <1>2, <1>3, <1>4, <1>5, <1>6

\* A step is bad for its first piece, or for the others.
LEMMA BadOfStep ==
  ASSUME NEW step \in AnyStep, step.todo \in Seq(Pieces(step.target.type)), step.todo # <<>>
  PROVE  IsBadStep(step)
           <=> IsBadPiece(step.target.type, Head(step.todo)) \/ IsBadStep(StepOn(step))
<1>1. step.target.type \in DOMAIN Schemas
  BY DEF AnyStep, AnyMessage
<1>2. IsBadTodo(step.target.type, step.todo)
        <=> IsBadPiece(step.target.type, Head(step.todo)) \/ IsBadTodo(step.target.type, Tail(step.todo))
  BY <1>1, BadOfFirst
<1>3. StepOn(step).target = step.target /\ StepOn(step).todo = Tail(step.todo)
  BY StepOnIs
<1> QED
  BY <1>2, <1>3 DEF IsBadStep

\* The same, with what comes after in two parts.
LEMMA ReadFirst ==
  ASSUME NEW elements \in Seq(AnyElement), NEW n, NEW bytes, NEW e \in AnyElement,
         NEW s \in Seq(AnyElement), NEW t \in Seq(AnyElement),
         HasRead(elements, n, bytes, (<<e>> \o s) \o t)
  PROVE  /\ elements[n] = e /\ n \in Nat /\ bytes \in Nat
         /\ HasRead(elements, n + 1, bytes + e.size, s \o t)
<1>1. <<e>> \in Seq(AnyElement)
  OBVIOUS
<1>2. (<<e>> \o s) \o t = <<e>> \o (s \o t)
  BY <1>1, ConcatAssociative
<1>3. s \o t \in Seq(AnyElement)
  BY ConcatProperties
<1>4. HasRead(elements, n, bytes, <<e>> \o (s \o t))
  BY <1>2
<1> QED
  BY <1>3, <1>4, ReadOne

\* The reader takes a piece that is one element, and that can be read.
LEMMA TakesPiece ==
  ASSUME NEW frames, NEW plan, NEW elements, NEW n, NEW bytes, NEW message,
         Follows(frames, plan, elements, n, bytes, message),
         NEW top, top = Len(frames), plan[top].todo # <<>>,
         NEW e \in AnyElement, Head(plan[top].todo).elements = <<e>>,
         ~ IsBadPiece(plan[top].target.type, Head(plan[top].todo)),
         NEW m, Extends(m, frames[top].message, Head(plan[top].todo).field,
                        Head(plan[top].todo).values),
         NEW frames2, frames2 = Replaced(frames, With(frames[top], m)),
         NEW plan2, plan2 = Replaced(plan, StepOn(plan[top]))
  PROVE  Follows(frames2, plan2, elements, n + 1, bytes + e.size, message)
<1>0. PICK step : step = plan[top]
  OBVIOUS
<1>1. /\ top \in Nat \ {0} /\ top = Len(plan) /\ frames \in Seq(AnyFrame) /\ elements \in Seq(AnyElement)
      /\ frames # <<>> /\ plan # <<>> /\ plan \in Seq(AnyStep)
      /\ step \in AnyStep /\ step.todo \in Seq(Pieces(step.target.type)) /\ frames[top] \in AnyFrame
      /\ step.after \in Seq(AnyElement) /\ IsFrame(frames[top], step, elements)
  BY <1>0, TrackIs DEF Follows
<1>a. Fits(frames[top].message, step) /\ IsTrack(frames, plan, elements, message)
  BY <1>0 DEF Follows
<1>b. /\ IsShaped(frames[top].message) /\ frames[top].message.type = step.target.type
      /\ IsShaped(m) /\ m.type = frames[top].message.type
  BY <1>1 DEF IsFrame, Extends
<1>c. /\ StepOn(step) \in AnyStep /\ StepOn(step).target = step.target
      /\ StepOn(step).after = step.after
      /\ StepOn(step).todo \in Seq(Pieces(StepOn(step).target.type))
  BY <1>0, <1>1, StepOnIs
<1>e. frames2 \in Seq(AnyFrame) /\ IsReplaced(frames2, frames, With(frames[top], m))
  <2>1. With(frames[top], m) \in AnyFrame
    BY <1>1, <1>b, WithIs DEF IsShaped
  <2> QED
    BY <1>1, <2>1, LastIsReplaced
<1>f. plan2 \in Seq(AnyStep) /\ IsReplaced(plan2, plan, StepOn(step))
  BY <1>0, <1>1, <1>c, LastIsReplaced
<1>2. IsTrack(frames2, plan2, elements, message)
  BY <1>0, <1>a, <1>b, <1>c, <1>e, <1>f, TrackGoesOn
<1>3. /\ Len(frames2) = top /\ Len(plan2) = top
      /\ frames2[top] = With(frames[top], m) /\ plan2[top] = StepOn(step)
      /\ \A k \in 1 .. top - 1 : plan2[k] = plan[k]
  BY <1>1, <1>e, <1>f DEF IsReplaced
<1>d. Fits(m, plan2[top])
  <2>1. Fits(m, StepOn(step))
    BY <1>0, <1>1, <1>a, <1>b, FitsOn
  <2> QED
    BY <1>3, <2>1
<1>4. frames2[top].message = m
  BY <1>1, <1>3, WithIs DEF Extends, IsShaped
<1>5. Rest(plan2[top]) = Elements(Tail(step.todo)) \o step.after
  BY <1>0, <1>1, <1>3, StepOnIs DEF Rest
<1>6. HasRead(elements, n + 1, bytes + e.size, Rest(plan2[top]))
  <2>1. /\ Elements(Tail(step.todo)) \in Seq(AnyElement)
        /\ HasRead(elements, n, bytes, (<<e>> \o Elements(Tail(step.todo))) \o step.after)
    BY <1>0, FirstOfPlan
  <2>2. HasRead(elements, n + 1, bytes + e.size, Elements(Tail(step.todo)) \o step.after)
    <3>1. \A s, t \in Seq(AnyElement) :
             HasRead(elements, n, bytes, (<<e>> \o s) \o t) => HasRead(elements, n + 1, bytes + e.size, s \o t)
      BY <1>1, ReadFirst
    <3> QED
      BY <1>1, <2>1, <3>1, Zenon
  <2> QED
    BY <1>5, <2>2
<1>7. GarbledWith(message, NestedGarbled) <=> \E k \in 1 .. top : IsBadStep(plan2[k])
  <2>1. GarbledWith(message, NestedGarbled) <=> \E k \in 1 .. top : IsBadStep(plan[k])
    BY DEF Follows
  <2>2. IsBadStep(step)
          <=> IsBadPiece(step.target.type, Head(step.todo)) \/ IsBadStep(StepOn(step))
    BY <1>0, <1>1, BadOfStep
  <2>3. IsBadStep(plan[top]) <=> IsBadStep(plan2[top])
    BY <1>0, <1>3, <2>2
  <2>4. \A k : k \in 1 .. top <=> k \in 1 .. top - 1 \/ k = top
    BY <1>1
  <2> QED
    BY <1>3, <2>1, <2>3, <2>4, Zenon
<1>8. Follows(frames2, plan2, elements, n + 1, bytes + e.size, message)
  BY <1>2, <1>3, <1>4, <1>6, <1>7, <1>d, Zenon DEF Follows
<1> QED
  BY <1>8

\* The message nested last is filled in with what it turns out to be.
FilledIs(m, m2, i, value) ==
  /\ IsShaped(m2) /\ m2.type = m.type
  /\ \A k \in PartsOf(m.type) :
       Part(m2, k) = IF k = i THEN Append(Front(Part(m, k)), value) ELSE Part(m, k)

\* Records with one part replaced.
LEMMA PartsReplaced ==
  ASSUME NEW m \in AnyMessage, NEW parts
  PROVE  /\ [m EXCEPT !.fields = parts] = [type |-> m.type, fields |-> parts, unknown |-> m.unknown]
         /\ [m EXCEPT !.unknown = parts] = [type |-> m.type, fields |-> m.fields, unknown |-> parts]
<1>1. m = [type |-> m.type, fields |-> m.fields, unknown |-> m.unknown]
  BY DEF AnyMessage
<1>2. DOMAIN m = {"type", "fields", "unknown"}
  BY <1>1
<1> QED
  BY <1>2

\* A nested message that is filled in is the last value of its field.
LEMMA FilledParts ==
  ASSUME NEW m, IsShaped(m), NEW i \in DOMAIN Schemas[m.type], m.fields[i] # <<>>,
         NEW value \in Anything
  PROVE  FilledIs(m, Filled(m, i, value), i, value)
<1>1. /\ m = [type |-> m.type, fields |-> m.fields, unknown |-> m.unknown]
      /\ m.fields \in Seq(Seq(Anything)) /\ DOMAIN m.fields = DOMAIN Schemas[m.type]
      /\ m \in AnyMessage /\ m.type \in DOMAIN Schemas
  BY DEF IsShaped, AnyMessage
<1> PICK new, fields :
      new = Append(Front(m.fields[i]), value) /\ fields = [m.fields EXCEPT ![i] = new]
  OBVIOUS
<1>2. Len(Schemas[m.type]) \in Nat /\ DOMAIN Schemas[m.type] = 1 .. Len(Schemas[m.type])
  BY <1>1, SchemaIs
<1>3. \A k \in DOMAIN m.fields : m.fields[k] \in Seq(Anything)
  BY <1>1, ElementOfSeq, LenProperties
<1>4. new \in Seq(Anything)
  <2>1. m.fields[i] \in Seq(Anything)
    BY <1>1, <1>3
  <2>2. Front(m.fields[i]) \in Seq(Anything)
    BY <2>1, FrontIs
  <2> QED
    BY <2>2, AppendProperties
<1>5. /\ DOMAIN fields = DOMAIN m.fields
      /\ \A k \in DOMAIN m.fields : fields[k] = IF k = i THEN new ELSE m.fields[k]
  OBVIOUS
<1>6. fields \in Seq(Seq(Anything))
  <2>0. PICK n : n = Len(Schemas[m.type])
    OBVIOUS
  <2>1. n \in Nat /\ DOMAIN fields = 1 .. n /\ \A k \in 1 .. n : fields[k] \in Seq(Anything)
    BY <1>1, <1>2, <1>3, <1>4, <1>5, <2>0
  <2>2. [k \in 1 .. n |-> fields[k]] \in Seq(Seq(Anything))
    BY <2>1, IsASeq
  <2>3. fields = [k \in DOMAIN fields |-> fields[k]]
    OBVIOUS
  <2> QED
    BY <2>1, <2>2, <2>3
<1>7. Filled(m, i, value) = [type |-> m.type, fields |-> fields, unknown |-> m.unknown]
  <2>1. Filled(m, i, value) = [m EXCEPT !.fields = fields]
    BY DEF Filled
  <2>2. [m EXCEPT !.fields = fields] = [type |-> m.type, fields |-> fields, unknown |-> m.unknown]
    BY <1>1, PartsReplaced
  <2> QED
    BY <2>1, <2>2
<1>8. IsShaped(Filled(m, i, value)) /\ Filled(m, i, value).type = m.type
  BY <1>1, <1>5, <1>6, <1>7 DEF IsShaped, AnyMessage
<1>9. ASSUME NEW k \in PartsOf(m.type)
      PROVE  Part(Filled(m, i, value), k)
               = IF k = i THEN Append(Front(Part(m, k)), value) ELSE Part(m, k)
  <2>1. CASE k = 0
    <3>1. k # i
      BY <1>1, <2>1, NotZero
    <3> QED
      BY <1>7, <2>1, <3>1 DEF Part
  <2>2. CASE k # 0
    <3>1. k \in DOMAIN m.fields
      BY <1>1, <2>2 DEF PartsOf
    <3> QED
      BY <1>5, <1>7, <2>2, <3>1 DEF Part
  <2> QED
    BY <2>1, <2>2
<1> QED
  BY <1>8, <1>9 DEF FilledIs

\* The last element is the one appended.
LEMMA LastOfAppend ==
  ASSUME NEW S, NEW s \in Seq(S), NEW x \in S, NEW y \in S
  PROVE  s \o <<x>> = Append(s, x) /\ Front(Append(s, x)) = s
<1>1. Append(s, x) \in Seq(S) /\ Len(Append(s, x)) = Len(s) + 1 /\ Len(s) \in Nat
      /\ \A k \in 1 .. Len(s) : Append(s, x)[k] = s[k]
  BY AppendIs, LenProperties
<1>2. Append(s, x) # <<>>
  BY <1>1, EmptySeq
<1>3. /\ Front(Append(s, x)) \in Seq(S) /\ Len(Front(Append(s, x))) = Len(Append(s, x)) - 1
      /\ \A k \in 1 .. Len(Append(s, x)) - 1 : Front(Append(s, x))[k] = Append(s, x)[k]
  BY <1>1, <1>2, FrontIs
<1>4. Len(Front(Append(s, x))) = Len(s) /\ \A k \in 1 .. Len(s) : Front(Append(s, x))[k] = s[k]
  BY <1>1, <1>3
<1>5. Front(Append(s, x)) = s
  BY <1>3, <1>4, SeqEqual
<1> QED
  BY <1>5, AppendIsConcat

\* A message in which an empty one has been put, to be filled in, fits.
LEMMA FitsWhenFilled ==
  ASSUME NEW step \in AnyStep, step.todo # <<>>, step.todo \in Seq(Pieces(step.target.type)),
         NEW m, IsShaped(m), m.type = step.target.type, Fits(m, step),
         NEW i, i = Head(step.todo).field, i \in DOMAIN Schemas[m.type],
         NEW value \in Anything, Head(step.todo).values = <<value>>,
         NEW empty \in Anything, NEW m2, Extends(m2, m, i, <<empty>>)
  PROVE  m2.fields[i] # <<>> /\ Fits(Filled(m2, i, value), StepOn(step))
<1>1. /\ IsShaped(m2) /\ m2.type = m.type
      /\ \A k \in PartsOf(m.type) : Part(m2, k) = Part(m, k) \o (IF k = i THEN <<empty>> ELSE <<>>)
  BY DEF Extends
<1>2. i \in PartsOf(m.type) /\ i # 0 /\ m.type \in DOMAIN Schemas
  BY NotZero DEF PartsOf, IsShaped, AnyMessage
<1>3. \A k \in PartsOf(m.type) : Part(m, k) \in Seq(Anything)
  BY PartIsSeq
<1>4. /\ \A s \in Seq(Anything) : \A x \in Anything : s \o <<x>> = Append(s, x)
      /\ \A s \in Seq(Anything) : \A x \in Anything : Front(Append(s, x)) = s
  BY LastOfAppend
<1>5. Part(m2, i) = Append(Part(m, i), empty) /\ m2.fields[i] = Part(m2, i)
  BY <1>1, <1>2, <1>3, <1>4 DEF Part
<1>6. m2.fields[i] # <<>>
  <2>1. Len(Append(Part(m, i), empty)) = Len(Part(m, i)) + 1 /\ Len(Part(m, i)) \in Nat
    BY <1>2, <1>3, AppendIs, LenProperties
  <2> QED
    BY <1>5, <2>1, EmptySeq
<1>7. FilledIs(m2, Filled(m2, i, value), i, value)
  BY <1>1, <1>6, FilledParts
<1>8. Extends(Filled(m2, i, value), m, i, <<value>>)
  <2>1. ASSUME NEW k \in PartsOf(m.type)
        PROVE  Part(Filled(m2, i, value), k) = Part(m, k) \o (IF k = i THEN <<value>> ELSE <<>>)
    <3>1. Part(Filled(m2, i, value), k) = IF k = i THEN Append(Front(Part(m2, k)), value) ELSE Part(m2, k)
      BY <1>1, <1>7 DEF FilledIs
    <3>2. CASE k = i
      <4>1. Front(Part(m2, i)) = Part(m, i)
        BY <1>2, <1>3, <1>4, <1>5
      <4> QED
        BY <1>2, <1>3, <1>4, <3>1, <3>2, <4>1
    <3>3. CASE k # i
      BY <1>1, <3>1, <3>3
    <3> QED
      BY <3>2, <3>3
  <2> QED
    BY <1>1, <1>7, <2>1 DEF Extends, FilledIs
<1>9. Fits(Filled(m2, i, value), StepOn(step))
  BY <1>8, FitsOn
<1> QED
  BY <1>6, <1>9

\* The frame and the step of a nested message that has been announced.
Inner(type, i, end) == [message |-> Empty(type), field |-> i, end |-> end]

InnerStep(kid, step) ==
  [target |-> kid, todo |-> TodoOf(kid), after |-> Elements(Tail(step.todo)) \o step.after]

\* The step of a nested message is one.
LEMMA InnerStepIs ==
  ASSUME NEW kid \in AllMessages, NEW step \in AnyStep, step.todo \in Seq(AnyPiece), step.todo # <<>>
  PROVE  /\ InnerStep(kid, step) \in AnyStep
         /\ Elements(TodoOf(kid)) = NestedWritten[kid.type][kid]
         /\ IsTodo(TodoOf(kid), kid) /\ IsWhole(kid)
         /\ Elements(Tail(step.todo)) \in Seq(AnyElement)
<1>1. IsWhole(kid)
  BY AllAreWhole
<1>2. kid \in AnyMessage
  BY <1>1, WholeIsShaped DEF IsShaped
<1>3. IsTodo(TodoOf(kid), kid) /\ Elements(TodoOf(kid)) = Written(kid)
  BY <1>1, TodoIs
<1>4. TodoOf(kid) \in Seq(AnyPiece)
  BY <1>3, PiecesAre DEF IsTodo
<1>5. kid.type \in DOMAIN Schemas /\ kid \in NewerMessages[kid.type]
  BY AllMessagesAre
<1>6. NestedWritten[kid.type][kid] = Written(kid)
  BY <1>5, NestedWrittenIs DEF Written
<1>7. Elements(Tail(step.todo)) \in Seq(AnyElement)
  BY ValuesOfFirst, ValuesOfConcat
<1>8. Elements(Tail(step.todo)) \o step.after \in Seq(AnyElement)
  BY <1>7, ConcatProperties DEF AnyStep
<1>9. InnerStep(kid, step) \in AnyStep
  BY <1>2, <1>4, <1>8 DEF InnerStep, AnyStep
<1> QED
  BY <1>1, <1>3, <1>6, <1>7, <1>9

\* What the reader has of a nested message when it begins with it.
IsInner(inner, innerStep, kid, i, elements, n, bytes) ==
  /\ inner \in AnyFrame /\ innerStep \in AnyStep /\ IsFrame(inner, innerStep, elements)
  /\ inner.field = i /\ innerStep.target = kid
  /\ Fits(inner.message, innerStep)
  /\ HasRead(elements, n, bytes, Rest(innerStep))
  /\ IsBadStep(innerStep) <=> NestedGarbled[kid.type][kid]

\* Its frame and step are as they should be at its first byte.
LEMMA InnerIs ==
  ASSUME NEW kid \in AllMessages, NEW step \in AnyStep, step.todo \in Seq(AnyPiece),
         step.todo # <<>>, NEW elements \in Seq(AnyElement), NEW n, NEW bytes \in Nat, NEW i \in Nat,
         HasRead(elements, n, bytes,
           (NestedWritten[kid.type][kid] \o Elements(Tail(step.todo))) \o step.after)
  PROVE  IsInner(Inner(kid.type, i, bytes + SizeOf(NestedWritten[kid.type][kid])),
                 InnerStep(kid, step), kid, i, elements, n, bytes)
<1>0. PICK type, nested, tail, after, innerStep, inner :
        /\ type = kid.type /\ nested = NestedWritten[type][kid] /\ tail = Elements(Tail(step.todo))
        /\ innerStep = InnerStep(kid, step) /\ inner = Inner(type, i, bytes + SizeOf(nested))
        /\ after = innerStep.after
  OBVIOUS
<1>1. /\ innerStep \in AnyStep /\ Elements(TodoOf(kid)) = nested /\ IsTodo(TodoOf(kid), kid)
      /\ IsWhole(kid) /\ tail \in Seq(AnyElement)
  BY <1>0, InnerStepIs
<1>2. /\ innerStep.target = kid /\ innerStep.todo = TodoOf(kid) /\ after = tail \o step.after
  BY <1>0 DEF InnerStep
<1>3. inner.message = Empty(type) /\ inner.field = i /\ inner.end = bytes + SizeOf(nested)
      /\ inner = [message |-> Empty(type), field |-> i, end |-> bytes + SizeOf(nested)]
  BY <1>0 DEF Inner
<1>4. type \in DOMAIN Schemas
  BY <1>0, AllMessagesAre
<1>5. /\ IsShaped(Empty(type)) /\ Empty(type).type = type /\ Empty(type) \in AnyMessage
      /\ \A k \in PartsOf(type) : Part(Empty(type), k) = <<>>
  BY <1>4, EmptyIs DEF IsShaped
<1>6. nested \in Seq(AnyElement) /\ step.after \in Seq(AnyElement) /\ after \in Seq(AnyElement)
  <2>1. nested \in Seq(AnyElement)
    BY <1>0, NestedWrittenIs
  <2>2. step.after \in Seq(AnyElement) /\ after \in Seq(AnyElement)
    BY <1>0, <1>1 DEF AnyStep
  <2> QED
    BY <2>1, <2>2
<1>7. HasRead(elements, n, bytes, nested \o after)
  <2>1. (nested \o tail) \o step.after = nested \o (tail \o step.after)
    <3>1. \A x, y, z \in Seq(AnyElement) : (x \o y) \o z = x \o (y \o z)
      BY AssociatesHere
    <3> QED
      BY <1>1, <1>6, <3>1, Zenon
  <2>2. HasRead(elements, n, bytes, (nested \o tail) \o step.after)
    BY <1>0
  <2> QED
    BY <1>2, <2>1, <2>2
<1>8. SizeOf(nested) \in Nat /\ SizeOf(after) \in Nat
  BY <1>6, SizesAre
<1>9. inner \in AnyFrame
  <2>1. bytes + SizeOf(nested) \in Nat
    BY <1>8
  <2> QED
    BY <1>3, <1>5, <2>1 DEF AnyFrame
<1>10. inner.end + SizeOf(after) = SizeOf(elements)
  <2>1. PICK read \in Seq(AnyElement) : elements = read \o (nested \o after) /\ bytes = SizeOf(read)
    BY <1>7 DEF HasRead
  <2>2. nested \o after \in Seq(AnyElement) /\ SizeOf(nested \o after) = SizeOf(nested) + SizeOf(after)
    BY <1>6, SizeOfConcat, ConcatProperties
  <2>3. SizeOf(read \o (nested \o after)) = SizeOf(read) + SizeOf(nested \o after)
    BY <2>1, <2>2, SizeOfConcat
  <2>4. SizeOf(elements) = bytes + (SizeOf(nested) + SizeOf(after))
    BY <2>1, <2>2, <2>3
  <2>5. \A a, b, c \in Nat : (a + b) + c = a + (b + c)
    OBVIOUS
  <2> QED
    BY <1>3, <1>8, <2>4, <2>5
<1>11. IsFrame(inner, innerStep, elements)
  <2>1. TodoOf(kid) \in Seq(Pieces(type))
    BY <1>0, <1>1 DEF IsTodo
  <2> QED
    BY <1>0, <1>1, <1>2, <1>3, <1>5, <1>10, <2>1 DEF IsFrame
<1>12. Fits(inner.message, innerStep)
  <2>1. ASSUME NEW k \in PartsOf(type)
        PROVE  Part(kid, k) = Part(Empty(type), k) \o ValuesIn(TodoOf(kid), k)
    <3>1. ValuesIn(TodoOf(kid), k) = Part(kid, k)
      BY <1>0, <1>1, TodoParts
    <3>2. Part(kid, k) \in Seq(Anything)
      BY <1>0, <1>1, WholeIsShaped, PartIsSeq
    <3> QED
      BY <1>5, <3>1, <3>2, ConcatEmptySeq
  <2> QED
    BY <1>0, <1>2, <1>3, <2>1 DEF Fits
<1>13. HasRead(elements, n, bytes, Rest(innerStep))
  BY <1>0, <1>1, <1>2, <1>7 DEF Rest
<1>14. IsBadStep(innerStep) <=> NestedGarbled[type][kid]
  <2>1. NestedGarbled[type][kid] = GarbledWith(kid, NestedGarbled)
    BY <1>0, NestedGarbledIs
  <2>2. GarbledWith(kid, NestedGarbled) <=> IsBadTodo(type, TodoOf(kid))
    BY <1>0, <1>1, TodoParts
  <2> QED
    BY <1>0, <1>2, <2>1, <2>2 DEF IsBadStep
<1>15. IsInner(inner, innerStep, kid, i, elements, n, bytes)
  BY <1>0, <1>1, <1>2, <1>3, <1>9, <1>11, <1>12, <1>13, <1>14 DEF IsInner
<1> QED
  BY <1>0, <1>15

\* The last message has changed to m, and the first piece of what was left of it
\* is done.
MovesOn(frames2, plan2, frames, plan, elements, message, m) ==
  LET top == Len(frames) IN
  /\ IsTrack(frames2, plan2, elements, message)
  /\ frames2[top].message = m /\ Len(frames2) = top
  /\ plan2[top] = StepOn(plan[top]) /\ \A k \in 1 .. top - 1 : plan2[k] = plan[k]

\* When a message changes the track moves on.
LEMMA MovesOnIs ==
  ASSUME NEW frames, NEW plan, NEW elements, NEW message,
         IsTrack(frames, plan, elements, message), plan[Len(frames)].todo # <<>>,
         NEW m, IsShaped(m), m.type = frames[Len(frames)].message.type
  PROVE  MovesOn(Replaced(frames, With(frames[Len(frames)], m)),
                 Replaced(plan, StepOn(plan[Len(frames)])), frames, plan, elements, message, m)
<1>0. PICK top, frame, step, frames2, plan2 :
        /\ top = Len(frames) /\ frame = frames[top] /\ step = plan[top]
        /\ frames2 = Replaced(frames, With(frame, m)) /\ plan2 = Replaced(plan, StepOn(step))
  OBVIOUS
<1>1. /\ top \in Nat \ {0} /\ top = Len(plan) /\ frames \in Seq(AnyFrame)
      /\ frames # <<>> /\ plan # <<>> /\ plan \in Seq(AnyStep)
      /\ step \in AnyStep /\ step.todo \in Seq(Pieces(step.target.type)) /\ frame \in AnyFrame
      /\ IsFrame(frame, step, elements)
  BY <1>0, TrackIs
<1>2. m \in AnyMessage /\ m.type = frame.message.type
  BY <1>0 DEF IsShaped
<1>3. /\ StepOn(step) \in AnyStep /\ StepOn(step).target = step.target
      /\ StepOn(step).after = step.after
      /\ StepOn(step).todo \in Seq(Pieces(StepOn(step).target.type))
  BY <1>0, <1>1, StepOnIs
<1>4. With(frame, m) \in AnyFrame /\ With(frame, m).message = m
  BY <1>1, <1>2, WithIs
<1>5. frames2 \in Seq(AnyFrame) /\ IsReplaced(frames2, frames, With(frame, m))
  BY <1>0, <1>1, <1>4, LastIsReplaced
<1>6. plan2 \in Seq(AnyStep) /\ IsReplaced(plan2, plan, StepOn(step))
  BY <1>0, <1>1, <1>3, LastIsReplaced
<1>7. IsTrack(frames2, plan2, elements, message)
  BY <1>0, <1>2, <1>3, <1>5, <1>6, TrackGoesOn
<1>8. /\ Len(frames2) = top /\ frames2[top] = With(frame, m) /\ plan2[top] = StepOn(step)
      /\ \A k \in 1 .. top - 1 : plan2[k] = plan[k]
  BY <1>0, <1>1, <1>5, <1>6 DEF IsReplaced
<1>9. MovesOn(frames2, plan2, frames, plan, elements, message, m)
  BY <1>0, <1>4, <1>7, <1>8 DEF MovesOn
<1> QED
  BY <1>0, <1>9

\* The element that announces a message is read before its elements.
LEMMA ReadAnnounced ==
  ASSUME NEW elements \in Seq(AnyElement), NEW n, NEW bytes, NEW e \in AnyElement,
         NEW s \in Seq(AnyElement), NEW t \in Seq(AnyElement), NEW u \in Seq(AnyElement),
         HasRead(elements, n, bytes, ((<<e>> \o s) \o t) \o u)
  PROVE  HasRead(elements, n + 1, bytes + e.size, (s \o t) \o u) /\ bytes + e.size \in Nat
<1>1. <<e>> \in Seq(AnyElement) /\ s \o t \in Seq(AnyElement)
  BY ConcatProperties
<1>2. (<<e>> \o s) \o t = <<e>> \o (s \o t)
  BY <1>1, ConcatAssociative
<1>3. HasRead(elements, n, bytes, (<<e>> \o (s \o t)) \o u)
  BY <1>2
<1>4. HasRead(elements, n + 1, bytes + e.size, (s \o t) \o u) /\ bytes \in Nat
  BY <1>1, <1>3, ReadFirst
<1>5. e.size \in Nat
  BY DEF AnyElement
<1> QED
  BY <1>4, <1>5

\* Next comes the element of a nested message; m has an empty message in its field.
AtMessage(frames, plan, m, i, e, kid) ==
  LET frame == frames[Len(frames)]
      step == plan[Len(frames)]
      type == step.target.type
  IN /\ step.todo # <<>> /\ i = Head(step.todo).field
     /\ i \in DOMAIN Schemas[type] /\ Schemas[type][i].kind.type = "message"
     /\ ReadsAsMessage(type, Head(step.todo), e, kid)
     /\ Extends(m, frame.message, i, <<Empty(Schemas[type][i].kind.message)>>)

\* The reader takes the element that announces a nested message.
LEMMA TakesMessage ==
  ASSUME NEW frames, NEW plan, NEW elements, NEW n, NEW bytes, NEW message,
         Follows(frames, plan, elements, n, bytes, message),
         NEW m, NEW i, NEW e, NEW kid, AtMessage(frames, plan, m, i, e, kid)
  PROVE  Follows(Append(Replaced(frames, With(frames[Len(frames)], m)),
                        Inner(kid.type, i, bytes + e.size + e.value)),
                 Append(Replaced(plan, StepOn(plan[Len(frames)])),
                        InnerStep(kid, plan[Len(frames)])),
                 elements, n + 1, bytes + e.size, message)
<1>0. PICK top, step, p, type, kind, nested, tail, bytes2, frames2, plan2, inner, innerStep :
        /\ top = Len(frames) /\ step = plan[top] /\ p = Head(step.todo) /\ type = step.target.type
        /\ kind = Schemas[type][i].kind /\ bytes2 = bytes + e.size
        /\ nested = NestedWritten[kind.message][kid] /\ tail = Elements(Tail(step.todo))
        /\ frames2 = Replaced(frames, With(frames[top], m)) /\ plan2 = Replaced(plan, StepOn(step))
        /\ inner = Inner(kid.type, i, bytes2 + e.value) /\ innerStep = InnerStep(kid, step)
  OBVIOUS
<1>a. /\ step.todo # <<>> /\ i = p.field /\ i \in DOMAIN Schemas[type] /\ kind.type = "message"
      /\ ReadsAsMessage(type, p, e, kid)
      /\ Extends(m, frames[top].message, i, <<Empty(kind.message)>>)
  BY <1>0 DEF AtMessage
<1>1. /\ top \in Nat \ {0} /\ top = Len(plan) /\ elements \in Seq(AnyElement) /\ step \in AnyStep
      /\ step.todo \in Seq(Pieces(type)) /\ step.todo \in Seq(AnyPiece) /\ step.todo # <<>>
      /\ IsFrame(frames[top], step, elements) /\ type \in DOMAIN Schemas /\ step.target.type = type
  BY <1>0, <1>a, TrackIs DEF Follows
<1>2. /\ IsTrack(frames, plan, elements, message) /\ Fits(frames[top].message, step)
      /\ GarbledWith(message, NestedGarbled) <=> \E k \in 1 .. top : IsBadStep(plan[k])
  BY <1>0 DEF Follows
<1>3. /\ IsShaped(frames[top].message) /\ frames[top].message.type = type
      /\ IsShaped(m) /\ m.type = type
  BY <1>0, <1>1, <1>a DEF IsFrame, Extends
<1>4. MovesOn(frames2, plan2, frames, plan, elements, message, m)
  BY <1>0, <1>1, <1>2, <1>3, MovesOnIs
<1>5. /\ IsTrack(frames2, plan2, elements, message)
      /\ frames2[top].message = m /\ Len(frames2) = top
      /\ plan2[top] = StepOn(step) /\ \A k \in 1 .. top - 1 : plan2[k] = plan[k]
  BY <1>0, <1>4 DEF MovesOn
<1>6. /\ e \in AnyElement /\ kind.message \in DOMAIN Schemas /\ kid \in NewerMessages[kind.message]
      /\ p.elements = <<e>> \o nested /\ p.values = <<kid>> /\ e.value = SizeOf(nested)
      /\ IsBadPiece(type, p) <=> NestedGarbled[kind.message][kid]
      /\ p.field = i /\ kind.type = "message"
  BY <1>0, <1>a DEF ReadsAsMessage
<1>7. kid \in AllMessages /\ kid.type = kind.message /\ kid \in Anything
  <2>1. kid \in AllMessages
    BY <1>6 DEF AllMessages
  <2> QED
    BY <1>6, <2>1, AllMessagesAre DEF Anything
<1>8. nested \in Seq(AnyElement) /\ tail \in Seq(AnyElement) /\ step.after \in Seq(AnyElement)
      /\ HasRead(elements, n, bytes, ((<<e>> \o nested) \o tail) \o step.after)
  <2>1. /\ tail \in Seq(AnyElement) /\ HasRead(elements, n, bytes, (p.elements \o tail) \o step.after)
    BY <1>0, <1>1, FirstOfPlan
  <2>2. HasRead(elements, n, bytes, ((<<e>> \o nested) \o tail) \o step.after)
    BY <1>6, <2>1
  <2>3. nested \in Seq(AnyElement)
    BY <1>0, <1>7, NestedWrittenIs
  <2>4. step.after \in Seq(AnyElement)
    BY <1>1 DEF AnyStep
  <2> QED
    BY <2>1, <2>2, <2>3, <2>4
<1>9. HasRead(elements, n + 1, bytes2, (nested \o tail) \o step.after) /\ bytes2 \in Nat
  <2>1. \A s, t, u \in Seq(AnyElement) : HasRead(elements, n, bytes, ((<<e>> \o s) \o t) \o u)
          => HasRead(elements, n + 1, bytes + e.size, (s \o t) \o u) /\ bytes + e.size \in Nat
    BY <1>1, <1>6, ReadAnnounced
  <2>2. HasRead(elements, n + 1, bytes + e.size, (nested \o tail) \o step.after) /\ bytes + e.size \in Nat
    BY <1>8, <2>1, Zenon
  <2> QED
    BY <1>0, <2>2
<1>10. i \in Nat /\ i # 0
  BY <1>1, <1>a, NotZero
<1>11. IsInner(inner, innerStep, kid, i, elements, n + 1, bytes2)
  <2>1. HasRead(elements, n + 1, bytes2, (NestedWritten[kid.type][kid] \o tail) \o step.after)
    BY <1>0, <1>7, <1>9
  <2>2. IsInner(Inner(kid.type, i, bytes2 + SizeOf(NestedWritten[kid.type][kid])),
                InnerStep(kid, step), kid, i, elements, n + 1, bytes2)
    BY <1>0, <1>1, <1>7, <1>9, <1>10, <2>1, InnerIs
  <2> QED
    BY <1>0, <1>6, <1>7, <2>2
<1>12. /\ inner \in AnyFrame /\ innerStep \in AnyStep /\ IsFrame(inner, innerStep, elements)
       /\ inner.field = i /\ innerStep.target = kid /\ innerStep.after = tail \o step.after
       /\ Fits(inner.message, innerStep) /\ HasRead(elements, n + 1, bytes2, Rest(innerStep))
       /\ IsBadStep(innerStep) <=> IsBadPiece(type, p)
  BY <1>0, <1>6, <1>7, <1>11 DEF IsInner, InnerStep
<1>13. Empty(kind.message) \in Anything
  BY <1>6, EmptyIs
<1>14. m.fields[i] # <<>> /\ Fits(Filled(m, i, kid), StepOn(step))
  <2>1. Extends(m, frames[top].message, i, <<Empty(kind.message)>>)
    BY <1>a
  <2>2. i = Head(step.todo).field /\ Head(step.todo).values = <<kid>>
    BY <1>0, <1>6, <1>a
  <2>3. i \in DOMAIN Schemas[frames[top].message.type]
    BY <1>3, <1>a
  <2> QED
    BY <1>1, <1>2, <1>3, <1>7, <1>13, <2>1, <2>2, <2>3, FitsWhenFilled
<1>15. IsOpen(frames2[top], plan2[top], inner, innerStep)
  <2>1. /\ StepOn(step).target = step.target /\ StepOn(step).after = step.after
        /\ StepOn(step).todo = Tail(step.todo)
    BY DEF StepOn
  <2> QED
    <3>1. /\ plan2[top].target.type = type /\ plan2[top].after = step.after
          /\ plan2[top].todo = Tail(step.todo) /\ Fits(Filled(m, i, kid), plan2[top])
      BY <1>1, <1>5, <1>14, <2>1
    <3>2. innerStep.after = Elements(plan2[top].todo) \o plan2[top].after
      BY <1>0, <1>12, <3>1
    <3>3. Schemas[type][i].kind.type = "message" /\ Schemas[type][i].kind.message = kid.type
      BY <1>0, <1>6, <1>7
    <3>4. frames2[top].message.fields[i] # <<>> /\ i \in DOMAIN Schemas[type]
      BY <1>5, <1>14, <1>a
    <3> QED
      BY <1>5, <1>7, <1>12, <3>1, <3>2, <3>3, <3>4, Zenon DEF IsOpen
<1>16. PICK frames3, plan3 : frames3 = Append(frames2, inner) /\ plan3 = Append(plan2, innerStep)
  OBVIOUS
<1>17. IsTrack(frames3, plan3, elements, message)
  BY <1>5, <1>12, <1>15, <1>16, TrackIsPushed
<1>18. /\ Len(frames3) = top + 1 /\ frames3[top + 1] = inner
       /\ plan3[top + 1] = innerStep /\ \A k \in 1 .. top : plan3[k] = plan2[k]
  <2>1. frames2 \in Seq(AnyFrame) /\ plan2 \in Seq(AnyStep) /\ Len(plan2) = top
    BY <1>5 DEF IsTrack
  <2>2. /\ Len(frames3) = Len(frames2) + 1 /\ frames3[Len(frames2) + 1] = inner
    BY <1>12, <1>16, <2>1, AppendIs
  <2>3. /\ plan3[Len(plan2) + 1] = innerStep
        /\ \A k \in 1 .. Len(plan2) : plan3[k] = plan2[k]
    BY <1>12, <1>16, <2>1, AppendIs
  <2> QED
    BY <1>5, <2>1, <2>2, <2>3
<1>19. GarbledWith(message, NestedGarbled) <=> \E k \in 1 .. top + 1 : IsBadStep(plan3[k])
  <2>1. IsBadStep(step) <=> IsBadPiece(type, p) \/ IsBadStep(StepOn(step))
    BY <1>0, <1>1, BadOfStep
  <2>2. plan3[top] = StepOn(step) /\ plan3[top + 1] = innerStep
    BY <1>1, <1>5, <1>18
  <2>3. IsBadStep(plan[top]) <=> IsBadStep(plan3[top]) \/ IsBadStep(plan3[top + 1])
    BY <1>0, <1>12, <2>1, <2>2
  <2>4. \A k \in 1 .. top - 1 : plan3[k] = plan[k]
    BY <1>1, <1>5, <1>18
  <2>5. /\ \A k : k \in 1 .. top <=> k \in 1 .. top - 1 \/ k = top
        /\ \A k : k \in 1 .. top + 1 <=> k \in 1 .. top - 1 \/ k = top \/ k = top + 1
    BY <1>1
  <2> QED
    BY <1>2, <2>3, <2>4, <2>5, Zenon
<1>20. Follows(frames3, plan3, elements, n + 1, bytes2, message)
  BY <1>12, <1>17, <1>18, <1>19, Zenon DEF Follows
<1> QED
  BY <1>0, <1>16, <1>20

\* Messages are equal if their parts are.
LEMMA SameParts ==
  ASSUME NEW m, NEW o, IsShaped(m), IsShaped(o), m.type = o.type,
         \A i \in PartsOf(m.type) : Part(m, i) = Part(o, i)
  PROVE  m = o
<1>1. /\ m = [type |-> m.type, fields |-> m.fields, unknown |-> m.unknown]
      /\ o = [type |-> o.type, fields |-> o.fields, unknown |-> o.unknown]
      /\ DOMAIN m.fields = DOMAIN Schemas[m.type] /\ DOMAIN o.fields = DOMAIN Schemas[m.type]
      /\ m.fields \in Seq(Seq(Anything)) /\ o.fields \in Seq(Seq(Anything))
      /\ m.type \in DOMAIN Schemas
  BY DEF IsShaped, AnyMessage
<1>2. m.unknown = o.unknown
  BY DEF PartsOf, Part
<1>3. \A i \in DOMAIN Schemas[m.type] : m.fields[i] = o.fields[i]
  BY <1>1, NotZero DEF PartsOf, Part
<1>4. m.fields = o.fields
  <2>1. m.fields = [i \in DOMAIN m.fields |-> m.fields[i]] /\ o.fields = [i \in DOMAIN o.fields |-> o.fields[i]]
    BY <1>1, LenProperties
  <2> QED
    BY <1>1, <1>3, <2>1
<1> QED
  BY <1>1, <1>2, <1>4

\* When nothing is left of a message, it is what it was to be.
LEMMA DoneIs ==
  ASSUME NEW m, NEW step \in AnyStep, IsShaped(m), m.type = step.target.type, step.todo = <<>>,
         IsWhole(step.target), Fits(m, step)
  PROVE  m = step.target /\ ~ IsBadStep(step)
<1>1. IsShaped(step.target)
  BY WholeIsShaped
<1>2. ASSUME NEW i \in PartsOf(m.type)
      PROVE  Part(m, i) = Part(step.target, i)
  <2>1. Part(step.target, i) = Part(m, i) \o ValuesIn(<<>>, i)
    BY <1>2 DEF Fits
  <2>2. ValuesIn(<<>>, i) = <<>>
    BY ValuesOfNothing
  <2>3. Part(m, i) \in Seq(Anything)
    BY <1>2, PartIsSeq
  <2> QED
    BY <2>1, <2>2, <2>3, ConcatEmptySeq
<1>3. m = step.target
  BY <1>1, <1>2, SameParts
<1> QED
  BY <1>3, NothingIsNotBad DEF IsBadStep

\* The message that encloses the last one takes it in.
Enclosing(frames) ==
  LET top == Len(frames)
      inner == frames[top]
      outer == frames[top - 1]
  IN Replaced(Front(frames), With(outer, Filled(outer.message, inner.field, inner.message)))

\* The reader closes a nested message of which nothing is left.
LEMMA ClosesMessage ==
  ASSUME NEW frames, NEW plan, NEW elements, NEW n, NEW bytes, NEW message,
         Follows(frames, plan, elements, n, bytes, message),
         Len(frames) > 1, plan[Len(frames)].todo = <<>>
  PROVE  Follows(Enclosing(frames), Front(plan), elements, n, bytes, message)
<1>0. PICK top, last, inner, step, outer, outerStep, i, m, frames1, plan1, frames2 :
        /\ top = Len(frames) /\ last = top - 1 /\ inner = frames[top] /\ step = plan[top]
        /\ outer = frames[last] /\ outerStep = plan[last] /\ i = inner.field
        /\ m = Filled(outer.message, i, inner.message)
        /\ frames1 = Front(frames) /\ plan1 = Front(plan)
        /\ frames2 = Replaced(frames1, With(outer, m))
  OBVIOUS
<1>1. top > 1 /\ step.todo = <<>>
  BY <1>0
<1>2. /\ top \in Nat \ {0} /\ inner \in AnyFrame /\ step \in AnyStep /\ IsFrame(inner, step, elements)
      /\ elements \in Seq(AnyElement)
  BY <1>0, TrackIs DEF Follows
<1>3. /\ IsTrack(frames, plan, elements, message) /\ Fits(inner.message, step)
      /\ HasRead(elements, n, bytes, Rest(step))
      /\ GarbledWith(message, NestedGarbled) <=> \E k \in 1 .. top : IsBadStep(plan[k])
  BY <1>0 DEF Follows
<1>4. last \in 1 .. top - 1 /\ last + 1 = top /\ last \in Nat \ {0}
  BY <1>0, <1>1, <1>2
<1>5. IsOpen(outer, outerStep, inner, step)
  <2>1. \A k \in 1 .. top - 1 : IsOpen(frames[k], plan[k], frames[k + 1], plan[k + 1])
    BY <1>0, <1>3 DEF IsTrack
  <2> QED
    BY <1>0, <1>4, <2>1
<1>6. inner.message = step.target /\ ~ IsBadStep(step)
  <2>1. IsShaped(inner.message) /\ inner.message.type = step.target.type /\ IsWhole(step.target)
    BY <1>2 DEF IsFrame
  <2> QED
    BY <1>1, <1>2, <1>3, <2>1, DoneIs
<1>7. /\ i \in DOMAIN Schemas[outerStep.target.type] /\ step.target \in AllMessages
      /\ outer.message.fields[i] # <<>> /\ step.after = Rest(outerStep)
      /\ Fits(m, outerStep)
  BY <1>0, <1>5, <1>6 DEF IsOpen, Rest
<1>8. /\ IsTrack(frames1, plan1, elements, message) /\ Len(frames1) = last
      /\ \A k \in 1 .. last : frames1[k] = frames[k] /\ plan1[k] = plan[k]
  BY <1>0, <1>1, <1>3, TrackIsPopped
<1>9. frames1[last] = outer /\ plan1[last] = outerStep
  BY <1>0, <1>4, <1>8
<1>10. /\ last = Len(plan1) /\ frames1 # <<>> /\ plan1 # <<>>
       /\ frames1 \in Seq(AnyFrame) /\ plan1 \in Seq(AnyStep)
       /\ outer \in AnyFrame /\ outerStep \in AnyStep /\ IsFrame(outer, outerStep, elements)
  BY <1>8, <1>9, TrackIs
<1>11. IsShaped(outer.message) /\ outer.message.type = outerStep.target.type
       /\ outerStep.todo \in Seq(Pieces(outerStep.target.type))
  BY <1>10 DEF IsFrame
<1>12. IsShaped(m) /\ m.type = outer.message.type
  <2>1. inner.message \in Anything
    BY <1>6, <1>7 DEF Anything
  <2>2. FilledIs(outer.message, m, i, inner.message)
    BY <1>0, <1>7, <1>11, <2>1, FilledParts
  <2> QED
    BY <2>2 DEF FilledIs
<1>13. With(outer, m) \in AnyFrame /\ With(outer, m).message = m
  BY <1>10, <1>12, WithIs DEF IsShaped
<1>14. frames2 \in Seq(AnyFrame) /\ IsReplaced(frames2, frames1, With(outer, m))
  BY <1>0, <1>10, <1>13, LastIsReplaced
<1>15. IsReplaced(plan1, plan1, outerStep)
  BY <1>9, <1>10 DEF IsReplaced
<1>16. IsTrack(frames2, plan1, elements, message)
  BY <1>8, <1>9, <1>10, <1>11, <1>12, <1>14, <1>15, TrackGoesOn
<1>17. Len(frames2) = last /\ frames2[last] = With(outer, m)
  BY <1>8, <1>14 DEF IsReplaced
<1>18. HasRead(elements, n, bytes, Rest(outerStep))
  <2>1. Elements(<<>>) = <<>> /\ step.after \in Seq(AnyElement)
    BY <1>2, ValuesOfNothing DEF AnyStep
  <2>2. Rest(step) = step.after
    BY <1>1, <2>1, ConcatEmptySeq DEF Rest
  <2> QED
    BY <1>3, <1>7, <2>2
<1>19. GarbledWith(message, NestedGarbled) <=> \E k \in 1 .. last : IsBadStep(plan1[k])
  <2>1. \A k : k \in 1 .. top <=> k \in 1 .. last \/ k = top
    BY <1>0, <1>2, <1>4
  <2>2. ~ IsBadStep(plan[top])
    BY <1>0, <1>6
  <2> QED
    BY <1>3, <1>8, <2>1, <2>2, Zenon
<1>20. Follows(frames2, plan1, elements, n, bytes, message)
  BY <1>7, <1>9, <1>13, <1>16, <1>17, <1>18, <1>19, Zenon DEF Follows
<1>21. Enclosing(frames) = frames2
  BY <1>0 DEF Enclosing
<1> QED
  BY <1>0, <1>20, <1>21

\* Where the reader begins.
LEMMA ReaderFollows ==
  ASSUME NEW m, IsWhole(m), NEW todo, IsTodo(todo, m), NEW elements, elements = Elements(todo),
         NEW frame, frame = [message |-> Empty(m.type), field |-> 0, end |-> SizeOf(elements)],
         NEW step, step = [target |-> m, todo |-> todo, after |-> <<>>]
  PROVE  Follows(<<frame>>, <<step>>, elements, 1, 0, m)
<1>1. m.type \in DOMAIN Schemas /\ IsShaped(m) /\ m \in AnyMessage
  BY WholeIsShaped DEF IsWhole, IsShaped
<1>2. todo \in Seq(Pieces(m.type)) /\ todo \in Seq(AnyPiece) /\ elements \in Seq(AnyElement)
  BY PiecesAre, ValuesOfConcat DEF IsTodo
<1>3. /\ IsShaped(Empty(m.type)) /\ Empty(m.type).type = m.type
      /\ \A i \in PartsOf(m.type) : Part(Empty(m.type), i) = <<>>
  BY <1>1, EmptyIs
<1>4. SizeOf(elements) \in Nat /\ SizeOf(<<>>) = 0 /\ <<>> \in Seq(AnyElement)
  BY <1>2, SizesAre, SizeOfNothing, EmptySeq
<1>5. frame \in AnyFrame /\ step \in AnyStep
  BY <1>1, <1>2, <1>3, <1>4 DEF AnyFrame, AnyStep, IsShaped
<1>6. IsFrame(frame, step, elements)
  BY <1>1, <1>2, <1>3, <1>4 DEF IsFrame
<1>7. /\ <<frame>> \in Seq(AnyFrame) /\ <<step>> \in Seq(AnyStep)
      /\ Len(<<frame>>) = 1 /\ Len(<<step>>) = 1 /\ <<frame>>[1] = frame /\ <<step>>[1] = step
      /\ <<frame>> # <<>> /\ \A k : k \in 1 .. 1 <=> k = 1
  BY <1>5
<1>8. IsTrack(<<frame>>, <<step>>, elements, m)
  <2>1. \A k \in 1 .. Len(<<frame>>) - 1 : FALSE
    BY <1>7
  <2>2. step.target = m /\ step.after = <<>>
    OBVIOUS
  <2> QED
    BY <1>2, <1>6, <1>7, <2>1, <2>2, Zenon DEF IsTrack
<1>9. Fits(frame.message, step)
  <2>1. ASSUME NEW i \in PartsOf(m.type)
        PROVE  Part(m, i) = Part(Empty(m.type), i) \o ValuesIn(todo, i)
    <3>1. ValuesIn(todo, i) = Part(m, i)
      BY TodoParts
    <3>2. Part(m, i) \in Seq(Anything)
      BY <1>1, PartIsSeq
    <3> QED
      BY <1>3, <3>1, <3>2, ConcatEmptySeq
  <2> QED
    BY <2>1 DEF Fits
<1>10. HasRead(elements, 1, 0, Rest(step))
  <2>1. Rest(step) = elements
    BY <1>2, ConcatEmptySeq DEF Rest
  <2>2. elements = <<>> \o elements /\ Len(<<>>) = 0
    BY <1>2, ConcatEmptySeq
  <2>3. 1 = Len(<<>>) + 1 /\ 0 = SizeOf(<<>>)
    BY <1>4, <2>2
  <2> QED
    BY <1>4, <2>1, <2>2, <2>3 DEF HasRead
<1>11. GarbledWith(m, NestedGarbled) <=> IsBadStep(step)
  BY TodoParts DEF IsBadStep
<1> QED
  BY <1>7, <1>8, <1>9, <1>10, <1>11, Zenon DEF Follows

\* What the reader does to its stack.
LEMMA StackGoesOn ==
  ASSUME NEW s \in Seq(AnyFrame), s # <<>>, NEW i, NEW x
  PROVE  /\ [s EXCEPT ![Len(s)].message.unknown = Append(@, x)]
              = Replaced(s, With(s[Len(s)], [s[Len(s)].message EXCEPT !.unknown = Append(@, x)]))
         /\ [s EXCEPT ![Len(s)].message.fields[i] = x]
              = Replaced(s, With(s[Len(s)], [s[Len(s)].message EXCEPT !.fields[i] = x]))
BY Zenon DEF Replaced, With

\* Keeping an element adds it to those that are in no field.
LEMMA UnknownExtends ==
  ASSUME NEW m, IsShaped(m), NEW e \in AnyElement
  PROVE  Extends([m EXCEPT !.unknown = Append(@, e)], m, 0, <<e>>)
<1>0. PICK unknown, m2 : unknown = Append(m.unknown, e) /\ m2 = [m EXCEPT !.unknown = unknown]
  OBVIOUS
<1>1. m \in AnyMessage /\ m.unknown \in Seq(AnyElement) /\ DOMAIN m.fields = DOMAIN Schemas[m.type]
  BY DEF IsShaped, AnyMessage
<1>2. unknown \in Seq(AnyElement)
  BY <1>0, <1>1, AppendProperties
<1>3. m2 = [type |-> m.type, fields |-> m.fields, unknown |-> unknown]
  BY <1>0, <1>1, PartsReplaced
<1>4. IsShaped(m2) /\ m2.type = m.type
  BY <1>1, <1>2, <1>3 DEF IsShaped, AnyMessage
<1>5. ASSUME NEW k \in PartsOf(m.type)
      PROVE  Part(m2, k) = Part(m, k) \o (IF k = 0 THEN <<e>> ELSE <<>>)
  <2>1. CASE k = 0
    <3>1. Append(m.unknown, e) = m.unknown \o <<e>>
      BY <1>1, AppendIsConcat
    <3> QED
      BY <1>0, <1>3, <2>1, <3>1 DEF Part
  <2>2. CASE k # 0
    <3>1. Part(m, k) \in Seq(Anything)
      BY PartIsSeq
    <3>2. Part(m2, k) = Part(m, k)
      BY <1>3, <2>2 DEF Part
    <3> QED
      BY <2>2, <3>1, <3>2, ConcatEmptySeq
  <2> QED
    BY <2>1, <2>2
<1>6. Extends(m2, m, 0, <<e>>)
  BY <1>4, <1>5 DEF Extends
<1> QED
  BY <1>0, <1>6

\* Reading values of a field adds them to it.
LEMMA ValuesExtend ==
  ASSUME NEW m, IsShaped(m), NEW i \in DOMAIN Schemas[m.type], NEW values \in Seq(Anything)
  PROVE  Extends([m EXCEPT !.fields[i] = m.fields[i] \o values], m, i, values)
<1>0. PICK new, fields, m2 :
        /\ new = m.fields[i] \o values /\ fields = [m.fields EXCEPT ![i] = new]
        /\ m2 = [m EXCEPT !.fields = fields]
  OBVIOUS
<1>1. /\ m \in AnyMessage /\ m.fields \in Seq(Seq(Anything)) /\ m.type \in DOMAIN Schemas
      /\ DOMAIN m.fields = DOMAIN Schemas[m.type]
  BY DEF IsShaped, AnyMessage
<1>2. Len(Schemas[m.type]) \in Nat /\ DOMAIN Schemas[m.type] = 1 .. Len(Schemas[m.type])
  BY <1>1, SchemaIs
<1>3. \A k \in DOMAIN m.fields : m.fields[k] \in Seq(Anything)
  BY <1>1, ElementOfSeq, LenProperties
<1>4. new \in Seq(Anything)
  <2>1. m.fields[i] \in Seq(Anything)
    BY <1>1, <1>3
  <2> QED
    BY <1>0, <2>1, ConcatProperties
<1>5. /\ DOMAIN fields = DOMAIN m.fields
      /\ \A k \in DOMAIN m.fields : fields[k] = IF k = i THEN new ELSE m.fields[k]
  BY <1>0
<1>6. fields \in Seq(Seq(Anything))
  <2>0. PICK n : n = Len(Schemas[m.type])
    OBVIOUS
  <2>1. n \in Nat /\ DOMAIN fields = 1 .. n /\ \A k \in 1 .. n : fields[k] \in Seq(Anything)
    BY <1>1, <1>2, <1>3, <1>4, <1>5, <2>0
  <2>2. [k \in 1 .. n |-> fields[k]] \in Seq(Seq(Anything))
    BY <2>1, IsASeq
  <2>3. fields = [k \in DOMAIN fields |-> fields[k]]
    BY <1>0
  <2> QED
    BY <2>1, <2>2, <2>3
<1>7. m2 = [type |-> m.type, fields |-> fields, unknown |-> m.unknown]
  BY <1>0, <1>1, PartsReplaced
<1>8. IsShaped(m2) /\ m2.type = m.type
  BY <1>1, <1>5, <1>6, <1>7 DEF IsShaped, AnyMessage
<1>9. ASSUME NEW k \in PartsOf(m.type)
      PROVE  Part(m2, k) = Part(m, k) \o (IF k = i THEN values ELSE <<>>)
  <2>0. Part(m, k) \in Seq(Anything)
    BY PartIsSeq
  <2>1. CASE k = i
    <3>1. k # 0 /\ k \in DOMAIN m.fields
      BY <1>1, <2>1, NotZero
    <3> QED
      BY <1>0, <1>5, <1>7, <2>1, <3>1 DEF Part
  <2>2. CASE k # i
    <3>1. Part(m2, k) = Part(m, k)
      BY <1>1, <1>5, <1>7, <2>2 DEF Part, PartsOf
    <3> QED
      BY <2>0, <2>2, <3>1, ConcatEmptySeq
  <2> QED
    BY <2>1, <2>2
<1>10. Extends(m2, m, i, values)
  BY <1>8, <1>9 DEF Extends
<1>11. [m EXCEPT !.fields[i] = m.fields[i] \o values] = m2
  BY <1>0
<1> QED
  BY <1>10, <1>11

\* A field that is not repeated has nothing before its value is read.
LEMMA NothingBefore ==
  ASSUME NEW m, IsShaped(m), NEW step \in AnyStep, IsWhole(step.target), m.type = step.target.type,
         step.todo # <<>>, step.todo \in Seq(AnyPiece), Fits(m, step),
         NEW i, i = Head(step.todo).field, i \in DOMAIN Schemas[m.type],
         Head(step.todo).values # <<>>, Schemas[m.type][i].label # "repeated"
  PROVE  m.fields[i] = <<>>
<1>0. PICK values, tail, old :
        /\ values = Head(step.todo).values /\ tail = ValuesIn(Tail(step.todo), i) /\ old = m.fields[i]
  OBVIOUS
<1>1. m.type \in DOMAIN Schemas /\ i \in PartsOf(m.type) /\ i # 0
  BY NotZero DEF IsShaped, AnyMessage, PartsOf
<1>2. Part(step.target, i) = old \o (values \o tail)
  <2>1. ValuesIn(step.todo, i) = values \o tail
    BY <1>0, ValuesOfFirst
  <2>2. Part(m, i) = old
    BY <1>0, <1>1 DEF Part
  <2> QED
    BY <1>1, <2>1, <2>2 DEF Fits
<1>3. Len(step.target.fields[i]) <= 1 /\ Part(step.target, i) = step.target.fields[i]
  <2>1. i \in DOMAIN step.target.fields
    BY WholeIsShaped DEF IsShaped
  <2>2. Schemas[step.target.type][i].label # "repeated"
    OBVIOUS
  <2> QED
    BY <1>1, <2>1, <2>2, FieldIs DEF Part
<1>4. old \in Seq(Anything) /\ values \in Seq(Anything) /\ tail \in Seq(Anything)
  <2>1. old \in Seq(Anything)
    BY <1>0, <1>1, PartIsSeq DEF Part
  <2>2. Head(step.todo) \in AnyPiece /\ Tail(step.todo) \in Seq(AnyPiece)
    BY ValuesOfFirst
  <2>3. values \in Seq(Anything)
    BY <1>0, <2>2 DEF AnyPiece
  <2>4. tail \in Seq(Anything)
    BY <1>0, <2>2, ValuesOfConcat
  <2> QED
    BY <2>1, <2>3, <2>4
<1>5. Len(old \o (values \o tail)) = Len(old) + (Len(values) + Len(tail))
  <2>1. values \o tail \in Seq(Anything) /\ Len(values \o tail) = Len(values) + Len(tail)
    BY <1>4, ConcatProperties
  <2> QED
    BY <1>4, <2>1, ConcatProperties
<1>6. Len(old) \in Nat /\ Len(tail) \in Nat /\ Len(values) \in Nat \ {0}
  <2>1. values # <<>>
    BY <1>0
  <2> QED
    BY <1>4, <2>1, LenProperties, EmptySeq
<1>7. Len(old) + (Len(values) + Len(tail)) <= 1
  BY <1>2, <1>3, <1>5
<1>8. Len(old) = 0
  <2>1. \A a, c \in Nat : \A b \in Nat \ {0} : a + (b + c) <= 1 => a = 0
    OBVIOUS
  <2> QED
    BY <1>6, <1>7, <2>1
<1> QED
  BY <1>0, <1>4, <1>8, EmptySeq

-----------------------------------------------------------------------------
(* What the reader does with the next piece.                               *)

Tracks(plan) == Follows(stack, plan, stream, next, pos, sent)

\* The message being read, and what is left of it.
IsReading(plan, top, step, type) ==
  /\ Tracks(plan) /\ top = Len(stack) /\ step = plan[top] /\ type = step.target.type

\* What is known of the message that is being read.
LEMMA ReadingIs ==
  ASSUME NEW plan, NEW top, NEW step, NEW type, IsReading(plan, top, step, type)
  PROVE  /\ top \in Nat \ {0} /\ stack \in Seq(AnyFrame) /\ stack # <<>> /\ stack[top] \in AnyFrame
         /\ step \in AnyStep /\ step.todo \in Seq(AnyPiece) /\ step.todo \in Seq(Pieces(type))
         /\ type \in DOMAIN Schemas /\ Top = stack[top] /\ Top.message.type = type
         /\ IsShaped(Top.message) /\ IsWhole(step.target) /\ Fits(Top.message, step)
         /\ stream \in Seq(AnyElement) /\ step.after \in Seq(AnyElement)
         /\ pos \in Nat /\ Top.end \in Nat /\ (AtEnd <=> step.todo = <<>>)
<1>1. Tracks(plan) /\ top = Len(stack) /\ step = plan[top] /\ type = step.target.type
  BY DEF IsReading
<1>2. IsTrack(stack, plan, stream, sent) /\ Fits(stack[top].message, step)
  BY <1>1 DEF Tracks, Follows
<1>3. /\ top \in Nat \ {0} /\ stack \in Seq(AnyFrame) /\ stack # <<>> /\ stack[top] \in AnyFrame
      /\ step \in AnyStep /\ step.todo \in Seq(AnyPiece) /\ step.todo \in Seq(Pieces(type))
      /\ type \in DOMAIN Schemas /\ stream \in Seq(AnyElement) /\ step.after \in Seq(AnyElement)
      /\ IsFrame(stack[top], step, stream)
  BY <1>1, <1>2, TrackIs
<1>4. IsShaped(stack[top].message) /\ stack[top].message.type = type /\ IsWhole(step.target)
  BY <1>1, <1>3 DEF IsFrame
<1>5. pos \in Nat /\ (pos >= stack[top].end <=> step.todo = <<>>)
  BY <1>1, EndIs DEF Tracks
<1>6. Top = stack[top] /\ Top.end \in Nat
  BY <1>1, <1>3 DEF Top, AnyFrame
<1>7. AtEnd <=> step.todo = <<>>
  BY <1>5, <1>6 DEF AtEnd
<1> QED
  BY <1>2, <1>3, <1>4, <1>5, <1>6, <1>7

\* The element that is next is the first of the piece, which ends in time.
LEMMA NextIs ==
  ASSUME NEW plan, NEW top, NEW step, NEW type, IsReading(plan, top, step, type),
         step.todo # <<>>, NEW e \in AnyElement, NEW s \in Seq(AnyElement),
         Head(step.todo).elements = <<e>> \o s
  PROVE  stream[next] = e /\ (pos + e.size) + SizeOf(s) <= Top.end
<1>0. PICK tail, end : tail = Elements(Tail(step.todo)) /\ end = Top.end
  OBVIOUS
<1>1. Tracks(plan) /\ top = Len(stack) /\ step = plan[top] /\ type = step.target.type
  BY DEF IsReading
<1>2. /\ stream \in Seq(AnyElement) /\ step.after \in Seq(AnyElement) /\ Top = stack[top]
      /\ pos \in Nat /\ end \in Nat
  BY <1>0, ReadingIs
<1>3. /\ tail \in Seq(AnyElement) /\ Elements(step.todo) = (<<e>> \o s) \o tail
      /\ HasRead(stream, next, pos, ((<<e>> \o s) \o tail) \o step.after)
  BY <1>0, <1>1, FirstOfPlan DEF Tracks
<1>4. s \o tail \in Seq(AnyElement) /\ (<<e>> \o s) \o tail = <<e>> \o (s \o tail)
  <2>1. <<e>> \in Seq(AnyElement)
    OBVIOUS
  <2>a. \A x, y, z \in Seq(AnyElement) : (x \o y) \o z = x \o (y \o z)
    BY AssociatesHere
  <2>b. \A y, z \in Seq(AnyElement) : y \o z \in Seq(AnyElement)
    BY ConcatProperties
  <2>2. \A x, y, z \in Seq(AnyElement) : (x \o y) \o z = x \o (y \o z) /\ y \o z \in Seq(AnyElement)
    BY <2>a, <2>b, Zenon
  <2> QED
    BY <1>3, <2>1, <2>2, Zenon
<1>5. stream[next] = e
  <2>1. HasRead(stream, next, pos, (<<e>> \o (s \o tail)) \o step.after)
    BY <1>3, <1>4
  <2>2. \A x, y \in Seq(AnyElement) :
          HasRead(stream, next, pos, (<<e>> \o x) \o y) => stream[next] = e
    BY <1>2, ReadFirst
  <2> QED
    BY <1>2, <1>4, <2>1, <2>2, Zenon
<1>6. SizeOf(Elements(step.todo)) = e.size + (SizeOf(s) + SizeOf(tail))
  <2>1. <<e>> \in Seq(AnyElement) /\ SizeOf(<<e>>) = e.size
    BY SizeOfOne
  <2>2. \A x, y \in Seq(AnyElement) : SizeOf(x \o y) = SizeOf(x) + SizeOf(y)
    BY SizeOfConcat
  <2>3. SizeOf(<<e>> \o (s \o tail)) = SizeOf(<<e>>) + SizeOf(s \o tail)
    BY <1>4, <2>1, <2>2, Zenon
  <2>4. SizeOf(s \o tail) = SizeOf(s) + SizeOf(tail)
    BY <1>3, <2>2
  <2> QED
    BY <1>3, <1>4, <2>1, <2>3, <2>4
<1>7. end = pos + SizeOf(Elements(step.todo))
  BY <1>0, <1>1, <1>2, EndIs DEF Tracks
<1>8. SizeOf(s) \in Nat /\ SizeOf(tail) \in Nat /\ e.size \in Nat
  BY <1>3, SizesAre DEF AnyElement
<1>9. \A a, b, c, d \in Nat : (a + b) + c <= a + (b + (c + d))
  OBVIOUS
<1>10. (pos + e.size) + SizeOf(s) <= end
  BY <1>2, <1>6, <1>7, <1>8, <1>9
<1> QED
  BY <1>0, <1>5, <1>10

\* A step in the plan that cannot be read is a reason to fail.
LEMMA BadIsReason ==
  ASSUME NEW plan, NEW top, NEW step, NEW type, IsReading(plan, top, step, type),
         step.todo # <<>>, IsBadPiece(type, Head(step.todo))
  PROVE  GarbledWith(sent, NestedGarbled)
<1>1. Tracks(plan) /\ top = Len(stack) /\ step = plan[top] /\ type = step.target.type
  BY DEF IsReading
<1>2. top \in 1 .. Len(stack) /\ step \in AnyStep /\ step.todo \in Seq(Pieces(type))
  <2>1. top \in Nat \ {0} /\ step \in AnyStep /\ step.todo \in Seq(Pieces(type))
    BY ReadingIs
  <2> QED
    BY <1>1, <2>1
<1>3. IsBadStep(plan[top])
  BY <1>1, <1>2, BadOfStep
<1>4. GarbledWith(sent, NestedGarbled) <=> \E k \in 1 .. Len(stack) : IsBadStep(plan[k])
  BY <1>1 DEF Tracks, Follows
<1> QED
  BY <1>2, <1>3, <1>4

\* The turn of the reader at an element, the field with its number being i.
GoesOn(newStack, e) == \E plan : Follows(newStack, plan, stream, next + 1, pos + e.size, sent)

IsRightTurn(e, i, field) ==
  /\ i = 0 => GoesOn(KeepUnknown(e), e)
  /\ i # 0 /\ IsReadable(field, e) => GoesOn(Merge(i, field, e), e)
  /\ i # 0 /\ ~ IsReadable(field, e) => GarbledWith(sent, NestedGarbled)

\* The turn at an element of no field, or of one that has another type.
LEMMA TurnAtUnknown ==
  ASSUME NEW plan, NEW top, NEW step, NEW type, IsReading(plan, top, step, type),
         step.todo # <<>>, Head(step.todo).field = 0
  PROVE  IsRightTurn(stream[next], FieldOf(type, stream[next].number),
                     Schemas[type][FieldOf(type, stream[next].number)])
<1>0. PICK p, m : p = Head(step.todo) /\ m = stack[top].message
  OBVIOUS
<1>1. Tracks(plan) /\ top = Len(stack) /\ step = plan[top] /\ type = step.target.type
  BY DEF IsReading
<1>2. /\ type \in DOMAIN Schemas /\ step.todo \in Seq(Pieces(type)) /\ stack \in Seq(AnyFrame)
      /\ stack # <<>> /\ IsShaped(m) /\ m.type = type
  BY <1>0, ReadingIs
<1>3. p \in Pieces(type)
  BY <1>0, <1>2, HeadTailProperties
<1>4. PICK e : ReadsAsUnknown(type, p, e)
  BY <1>0, <1>2, <1>3, UnknownPieceReads
<1>5. PICK i, field : i = FieldOf(type, e.number) /\ field = Schemas[type][i]
  OBVIOUS
<1>6. /\ e \in AnyElement /\ p.elements = <<e>> /\ p.values = <<e>>
      /\ IsBadPiece(type, p) <=> i # 0
      /\ i # 0 => e.wire # field.kind.wire /\ ~ IsPackable(field)
  BY <1>4, <1>5 DEF ReadsAsUnknown
<1>7. stream[next] = e
  <2>1. <<>> \in Seq(AnyElement) /\ <<e>> = <<e>> \o <<>>
    BY <1>6, EmptySeq, ConcatEmptySeq
  <2>2. \A s \in Seq(AnyElement) : p.elements = <<e>> \o s => stream[next] = e
    BY <1>0, <1>6, NextIs
  <2> QED
    BY <1>6, <2>1, <2>2, Zenon
<1>8. ASSUME i = 0
      PROVE  GoesOn(KeepUnknown(e), e)
  <2>0. PICK m2, stack2, plan2 :
          /\ m2 = [m EXCEPT !.unknown = Append(@, e)]
          /\ stack2 = Replaced(stack, With(stack[top], m2))
          /\ plan2 = Replaced(plan, StepOn(step))
    OBVIOUS
  <2>1. Extends(m2, m, 0, <<e>>)
    BY <1>2, <1>6, <2>0, UnknownExtends
  <2>2. Follows(stack2, plan2, stream, next + 1, pos + e.size, sent)
    <3>1. Follows(stack, plan, stream, next, pos, sent)
      BY <1>1 DEF Tracks
    <3>2. Extends(m2, stack[top].message, Head(plan[top].todo).field, Head(plan[top].todo).values)
      BY <1>0, <1>1, <1>6, <2>1
    <3>3. plan[top].todo # <<>> /\ Head(plan[top].todo).elements = <<e>>
          /\ ~ IsBadPiece(plan[top].target.type, Head(plan[top].todo))
      BY <1>0, <1>1, <1>6, <1>8
    <3> QED
      BY <1>1, <1>6, <2>0, <3>1, <3>2, <3>3, TakesPiece
  <2>3. KeepUnknown(e) = stack2
    BY <1>0, <1>1, <1>2, <2>0, StackGoesOn DEF KeepUnknown
  <2> QED
    BY <2>2, <2>3 DEF GoesOn
<1>9. ASSUME i # 0
      PROVE  ~ IsReadable(field, e) /\ GarbledWith(sent, NestedGarbled)
  <2>1. ~ IsReadable(field, e)
    BY <1>6, <1>9 DEF IsReadable
  <2>2. GarbledWith(sent, NestedGarbled)
    BY <1>0, <1>6, <1>9, BadIsReason
  <2> QED
    BY <2>1, <2>2
<1>10. IsRightTurn(e, i, field)
  BY <1>8, <1>9 DEF IsRightTurn
<1> QED
  BY <1>5, <1>7, <1>10

\* What a field had before is still there, unless there was nothing.
LEMMA OldIsKept ==
  ASSUME NEW plan, NEW top, NEW step, NEW type, IsReading(plan, top, step, type),
         step.todo # <<>>, NEW i, i = Head(step.todo).field, i \in DOMAIN Schemas[type],
         Head(step.todo).values # <<>>
  PROVE  (IF Schemas[type][i].label = "repeated" THEN Top.message.fields[i] ELSE <<>>)
           = Top.message.fields[i]
<1>1. /\ IsShaped(Top.message) /\ Top.message.type = type /\ step \in AnyStep
      /\ IsWhole(step.target) /\ step.todo \in Seq(AnyPiece) /\ Fits(Top.message, step)
  BY ReadingIs
<1>2. type = step.target.type
  BY DEF IsReading
<1>3. Schemas[type][i].label # "repeated" => Top.message.fields[i] = <<>>
  BY <1>1, <1>2, NothingBefore
<1> QED
  BY <1>3

\* The turn at a field's value, or at packed ones.
LEMMA TurnAtValues ==
  ASSUME NEW plan, NEW top, NEW step, NEW type, IsReading(plan, top, step, type),
         step.todo # <<>>, Head(step.todo).field # 0,
         Schemas[type][Head(step.todo).field].kind.type # "message"
  PROVE  IsRightTurn(stream[next], FieldOf(type, stream[next].number),
                     Schemas[type][FieldOf(type, stream[next].number)])
<1>0. PICK p, m, i, field :
        p = Head(step.todo) /\ m = stack[top].message /\ i = p.field /\ field = Schemas[type][i]
  OBVIOUS
<1>1. Tracks(plan) /\ top = Len(stack) /\ step = plan[top] /\ type = step.target.type
  BY DEF IsReading
<1>2. /\ type \in DOMAIN Schemas /\ step.todo \in Seq(Pieces(type)) /\ stack \in Seq(AnyFrame)
      /\ stack # <<>> /\ IsShaped(m) /\ m.type = type /\ Top = stack[top]
      /\ pos \in Nat /\ Top.end \in Nat
  BY <1>0, ReadingIs
<1>3. p \in Pieces(type) /\ i \in DOMAIN Schemas[type] /\ p.values \in Seq(Anything)
  <2>1. p \in Pieces(type)
    BY <1>0, <1>2, HeadTailProperties
  <2>2. i \in DOMAIN Schemas[type]
    BY <1>0, <1>2, <2>1, FieldPieceReads
  <2> QED
    BY <2>1, <2>2 DEF Pieces, AnyPiece
<1>4. PICK e : ReadsAsValues(type, p, e)
  BY <1>0, <1>2, <1>3, FieldPieceReads
<1>5. /\ e \in AnyElement /\ p.elements = <<e>> /\ p.values # <<>>
      /\ FieldOf(type, e.number) = i
      /\ e.wire = field.kind.wire \/ IsPackable(field)
      /\ [j \in DOMAIN Numbers(field, e) |-> FromRaw(field.kind, Numbers(field, e)[j])] = p.values
      /\ IsBadPiece(type, p) <=>
           /\ field.kind.type = "enum"
           /\ ~ (Range(Numbers(field, e)) \subseteq Range(field.kind.values))
  BY <1>0, <1>4, Zenon DEF ReadsAsValues
<1>6. stream[next] = e /\ pos + e.size <= Top.end
  <2>1. <<>> \in Seq(AnyElement) /\ <<e>> = <<e>> \o <<>>
    BY <1>5, EmptySeq, ConcatEmptySeq
  <2>a. e \in AnyElement /\ p.elements = <<e>>
    BY <1>5
  <2>b. \A s \in Seq(AnyElement) : Head(step.todo).elements = <<e>> \o s =>
          stream[next] = e /\ (pos + e.size) + SizeOf(s) <= Top.end
    BY <2>a, NextIs
  <2>2. \A s \in Seq(AnyElement) :
          p.elements = <<e>> \o s => stream[next] = e /\ (pos + e.size) + SizeOf(s) <= Top.end
    BY <1>0, <2>b, Zenon
  <2>3. stream[next] = e /\ (pos + e.size) + SizeOf(<<>>) <= Top.end
    BY <1>5, <2>1, <2>2, Zenon
  <2>4. e.size \in Nat /\ SizeOf(<<>>) = 0
    BY <1>5, SizeOfNothing DEF AnyElement
  <2> QED
    BY <1>2, <2>3, <2>4
<1>7. IsReadable(field, e) <=> ~ IsBadPiece(type, p)
  <2>1. field.kind.type # "message"
    BY <1>0
  <2>2. pos + e.size + (IF field.kind.type = "message" THEN e.value ELSE 0) <= Top.end
    <3>1. e.size \in Nat
      BY <1>5 DEF AnyElement
    <3>2. pos + e.size + 0 = pos + e.size
      BY <1>2, <3>1
    <3> QED
      BY <1>6, <2>1, <3>2
  <2> QED
    BY <1>5, <2>2, Zenon DEF IsReadable
<1>8. ASSUME ~ IsBadPiece(type, p)
      PROVE  GoesOn(Merge(i, field, e), e)
  <2>0. PICK m2, stack2, plan2 :
          /\ m2 = [m EXCEPT !.fields[i] = m.fields[i] \o p.values]
          /\ stack2 = Replaced(stack, With(stack[top], m2))
          /\ plan2 = Replaced(plan, StepOn(step))
    OBVIOUS
  <2>1. Extends(m2, m, i, p.values)
    BY <1>2, <1>3, <2>0, ValuesExtend
  <2>2. Follows(stack2, plan2, stream, next + 1, pos + e.size, sent)
    <3>1. Follows(stack, plan, stream, next, pos, sent)
      BY <1>1 DEF Tracks
    <3>2. Extends(m2, stack[top].message, Head(plan[top].todo).field, Head(plan[top].todo).values)
      BY <1>0, <1>1, <1>5, <2>1
    <3>3. plan[top].todo # <<>> /\ Head(plan[top].todo).elements = <<e>>
          /\ ~ IsBadPiece(plan[top].target.type, Head(plan[top].todo))
      BY <1>0, <1>1, <1>5, <1>8
    <3> QED
      BY <1>1, <1>5, <2>0, <3>1, <3>2, <3>3, TakesPiece
  <2>3. Merge(i, field, e) = stack2
    <3>1. (IF field.label = "repeated" THEN Top.message.fields[i] ELSE <<>>) = m.fields[i]
      BY <1>0, <1>2, <1>3, <1>5, OldIsKept
    <3>2. Merge(i, field, e) = [stack EXCEPT ![Len(stack)].message.fields[i] = m.fields[i] \o p.values]
      <4>1. field.kind.type # "message"
        BY <1>0
      <4> QED
        BY <1>5, <3>1, <4>1, Zenon DEF Merge
    <3>3. \A x : [stack EXCEPT ![Len(stack)].message.fields[i] = x]
                   = Replaced(stack, With(stack[Len(stack)],
                       [stack[Len(stack)].message EXCEPT !.fields[i] = x]))
      BY Zenon DEF Replaced, With
    <3>4. [stack EXCEPT ![Len(stack)].message.fields[i] = m.fields[i] \o p.values]
            = Replaced(stack, With(stack[Len(stack)],
                [stack[Len(stack)].message EXCEPT !.fields[i] = m.fields[i] \o p.values]))
      BY <3>3
    <3>5. stack2 = Replaced(stack, With(stack[Len(stack)],
                [stack[Len(stack)].message EXCEPT !.fields[i] = m.fields[i] \o p.values]))
      BY <1>0, <1>1, <2>0, Zenon
    <3> QED
      BY <3>2, <3>4, <3>5, Zenon
  <2> QED
    BY <2>2, <2>3 DEF GoesOn
<1>9. ASSUME IsBadPiece(type, p)
      PROVE  GarbledWith(sent, NestedGarbled)
  BY <1>0, <1>9, BadIsReason
<1>10. i # 0
  BY <1>0
<1>11. IsRightTurn(e, i, field)
  BY <1>7, <1>8, <1>9, <1>10, Zenon DEF IsRightTurn
<1>12. IsRightTurn(e, FieldOf(type, e.number), Schemas[type][FieldOf(type, e.number)])
  BY <1>0, <1>5, <1>11, Zenon
<1> QED
  BY <1>6, <1>12

\* The turn at the element that announces a nested message.
LEMMA TurnAtMessage ==
  ASSUME NEW plan, NEW top, NEW step, NEW type, IsReading(plan, top, step, type),
         step.todo # <<>>, Head(step.todo).field # 0,
         Schemas[type][Head(step.todo).field].kind.type = "message"
  PROVE  IsRightTurn(stream[next], FieldOf(type, stream[next].number),
                     Schemas[type][FieldOf(type, stream[next].number)])
<1>0. PICK p, m, i, field, kind :
        /\ p = Head(step.todo) /\ m = stack[top].message /\ i = p.field /\ field = Schemas[type][i]
        /\ kind = field.kind
  OBVIOUS
<1>1. Tracks(plan) /\ top = Len(stack) /\ step = plan[top] /\ type = step.target.type
  BY DEF IsReading
<1>2. /\ type \in DOMAIN Schemas /\ step.todo \in Seq(Pieces(type)) /\ stack \in Seq(AnyFrame)
      /\ stack # <<>> /\ IsShaped(m) /\ m.type = type /\ Top = stack[top]
      /\ pos \in Nat /\ Top.end \in Nat
  BY <1>0, ReadingIs
<1>3. p \in Pieces(type) /\ i \in DOMAIN Schemas[type]
  <2>1. p \in Pieces(type)
    BY <1>0, <1>2, HeadTailProperties
  <2> QED
    BY <1>0, <1>2, <2>1, FieldPieceReads
<1>4. PICK e, kid : ReadsAsMessage(type, p, e, kid)
  BY <1>0, <1>2, <1>3, FieldPieceReads
<1>5. /\ e \in AnyElement /\ kind.message \in DOMAIN Schemas /\ kid \in NewerMessages[kind.message]
      /\ p.elements = <<e>> \o NestedWritten[kind.message][kid] /\ p.values = <<kid>>
      /\ FieldOf(type, e.number) = i
      /\ e.wire = kind.wire /\ e.value = SizeOf(NestedWritten[kind.message][kid])
  BY <1>0, <1>4, Zenon DEF ReadsAsMessage
<1>6. kid \in AllMessages /\ kid.type = kind.message /\ NestedWritten[kind.message][kid] \in Seq(AnyElement)
  <2>1. kid \in AllMessages /\ kid.type = kind.message
    BY <1>5, NestedSizeOfValue
  <2>2. NestedWritten[kid.type][kid] \in Seq(AnyElement)
    BY <2>1, NestedWrittenIs
  <2> QED
    BY <2>1, <2>2
<1>7. stream[next] = e /\ (pos + e.size) + e.value <= Top.end
  <2>a. e \in AnyElement
    BY <1>5
  <2>b. \A s \in Seq(AnyElement) : Head(step.todo).elements = <<e>> \o s =>
          stream[next] = e /\ (pos + e.size) + SizeOf(s) <= Top.end
    BY <2>a, NextIs
  <2>1. \A s \in Seq(AnyElement) :
          p.elements = <<e>> \o s => stream[next] = e /\ (pos + e.size) + SizeOf(s) <= Top.end
    BY <1>0, <2>b, Zenon
  <2> QED
    BY <1>5, <1>6, <2>1, Zenon
<1>8. IsReadable(field, e)
  <2>1. kind.type = "message" /\ kind.type # "enum"
    BY <1>0
  <2>2. e.wire = field.kind.wire /\ field.kind.type # "enum"
    BY <1>0, <1>5, <2>1
  <2>3. pos + e.size + (IF field.kind.type = "message" THEN e.value ELSE 0) <= Top.end
    BY <1>0, <1>7, <2>1
  <2> QED
    BY <2>2, <2>3, Zenon DEF IsReadable
<1>9. GoesOn(Merge(i, field, e), e)
  <2>0. PICK x, m2, stack2, plan2, inner :
          /\ x = m.fields[i] \o <<Empty(kind.message)>>
          /\ m2 = [m EXCEPT !.fields[i] = x]
          /\ inner = Inner(kid.type, i, pos + e.size + e.value)
          /\ stack2 = Append(Replaced(stack, With(stack[top], m2)), inner)
          /\ plan2 = Append(Replaced(plan, StepOn(plan[top])), InnerStep(kid, plan[top]))
    OBVIOUS
  <2>1. Extends(m2, m, i, <<Empty(kind.message)>>)
    <3>1. Empty(kind.message) \in Anything
      BY <1>5, EmptyIs
    <3>2. <<Empty(kind.message)>> \in Seq(Anything)
      BY <3>1
    <3> QED
      BY <1>2, <1>3, <2>0, <3>2, ValuesExtend
  <2>2. AtMessage(stack, plan, m2, i, e, kid)
    <3>1. /\ plan[Len(stack)] = step /\ stack[Len(stack)].message = m /\ step.target.type = type
          /\ Schemas[type][i].kind = kind /\ kind.type = "message" /\ i = Head(step.todo).field
          /\ ReadsAsMessage(type, Head(step.todo), e, kid)
      BY <1>0, <1>1, <1>4
    <3> QED
      BY <1>3, <2>1, <3>1, Zenon DEF AtMessage
  <2>3. Follows(stack2, plan2, stream, next + 1, pos + e.size, sent)
    <3>1. Follows(stack, plan, stream, next, pos, sent)
      BY <1>1 DEF Tracks
    <3>2. Follows(Append(Replaced(stack, With(stack[Len(stack)], m2)),
                         Inner(kid.type, i, pos + e.size + e.value)),
                  Append(Replaced(plan, StepOn(plan[Len(stack)])),
                         InnerStep(kid, plan[Len(stack)])),
                  stream, next + 1, pos + e.size, sent)
      BY <2>2, <3>1, TakesMessage
    <3> QED
      BY <1>1, <2>0, <3>2, Zenon
  <2>4. Merge(i, field, e) = stack2
    <3>1. (IF field.label = "repeated" THEN Top.message.fields[i] ELSE <<>>) = m.fields[i]
      <4>1. p.values # <<>>
        BY <1>5
      <4> QED
        BY <1>0, <1>2, <1>3, <4>1, OldIsKept
    <3>2. Merge(i, field, e)
            = Append([stack EXCEPT ![Len(stack)].message.fields[i] = x],
                     [message |-> Empty(kind.message), field |-> i, end |-> pos + e.size + e.value])
      <4>1. field.kind.type = "message" /\ field.kind = kind
        BY <1>0
      <4>2. \A y : <<y>>[1] = y
        OBVIOUS
      <4> QED
        BY <2>0, <3>1, <4>1, <4>2, Zenon DEF Merge
    <3>3. \A y : [stack EXCEPT ![Len(stack)].message.fields[i] = y]
                   = Replaced(stack, With(stack[Len(stack)],
                       [stack[Len(stack)].message EXCEPT !.fields[i] = y]))
      BY Zenon DEF Replaced, With
    <3>4. [stack EXCEPT ![Len(stack)].message.fields[i] = x] = Replaced(stack, With(stack[top], m2))
      BY <1>0, <1>1, <2>0, <3>3, Zenon
    <3>5. inner = [message |-> Empty(kind.message), field |-> i, end |-> pos + e.size + e.value]
      BY <1>6, <2>0 DEF Inner
    <3> QED
      BY <2>0, <3>2, <3>4, <3>5, Zenon
  <2> QED
    BY <2>3, <2>4 DEF GoesOn
<1>10. i # 0
  BY <1>0
<1>11. IsRightTurn(e, i, field)
  BY <1>8, <1>9, <1>10, Zenon DEF IsRightTurn
<1>12. IsRightTurn(e, FieldOf(type, e.number), Schemas[type][FieldOf(type, e.number)])
  BY <1>0, <1>5, <1>11, Zenon
<1> QED
  BY <1>7, <1>12

\* Whatever the next element is, the reader does with it what it should.
LEMMA TurnIsRight ==
  ASSUME NEW plan, Tracks(plan), ~ AtEnd
  PROVE  IsRightTurn(stream[next], FieldOf(Top.message.type, stream[next].number),
           Schemas[Top.message.type][FieldOf(Top.message.type, stream[next].number)])
<1>0. PICK top, step, type, p :
        /\ top = Len(stack) /\ step = plan[top] /\ type = step.target.type /\ p = Head(step.todo)
  OBVIOUS
<1>1. IsReading(plan, top, step, type)
  BY <1>0 DEF IsReading
<1>2. step.todo # <<>> /\ Top.message.type = type /\ type \in DOMAIN Schemas
  BY <1>1, ReadingIs
<1>3. CASE p.field = 0
  BY <1>0, <1>1, <1>2, <1>3, TurnAtUnknown
<1>4. CASE p.field # 0 /\ Schemas[type][p.field].kind.type # "message"
  BY <1>0, <1>1, <1>2, <1>4, TurnAtValues
<1>5. CASE p.field # 0 /\ Schemas[type][p.field].kind.type = "message"
  BY <1>0, <1>1, <1>2, <1>5, TurnAtMessage
<1> QED
  BY <1>3, <1>4, <1>5

\* At the end of a nested message the reader goes on with the one around it.
LEMMA EndIsRight ==
  ASSUME NEW plan, Tracks(plan), AtEnd, Len(stack) > 1,
         NEW newStack, newStack = [Front(stack) EXCEPT ![Len(stack) - 1].message.fields[Top.field] =
                                     Append(Front(@), Top.message)]
  PROVE  \E plan2 : Follows(newStack, plan2, stream, next, pos, sent)
<1>0. PICK top, step, type, front, outer :
        /\ top = Len(stack) /\ step = plan[top] /\ type = step.target.type
        /\ front = Front(stack) /\ outer = stack[top - 1]
  OBVIOUS
<1>1. IsReading(plan, top, step, type)
  BY <1>0 DEF IsReading
<1>2. step.todo = <<>> /\ stack \in Seq(AnyFrame) /\ stack # <<>> /\ Top = stack[top] /\ top \in Nat
  BY <1>1, ReadingIs
<1>3. Len(front) = top - 1 /\ front[top - 1] = outer
  <2>1. Len(front) = top - 1 /\ \A k \in 1 .. top - 1 : front[k] = stack[k]
    BY <1>0, <1>2, FrontIs
  <2>2. top - 1 \in 1 .. top - 1
    BY <1>0, <1>2
  <2> QED
    BY <1>0, <2>1, <2>2
<1>4. newStack = [front EXCEPT ![top - 1].message.fields[Top.field] = Append(Front(@), Top.message)]
  BY <1>0, Zenon
<1>5. Enclosing(stack) = [front EXCEPT ![top - 1] =
         [outer EXCEPT !.message = [outer.message EXCEPT !.fields[Top.field] = Append(Front(@), Top.message)]]]
  <2>1. Enclosing(stack) = Replaced(front, With(outer, Filled(outer.message, Top.field, Top.message)))
    BY <1>0, <1>2 DEF Enclosing
  <2>2. With(outer, Filled(outer.message, Top.field, Top.message))
          = [outer EXCEPT !.message = [outer.message EXCEPT !.fields[Top.field] = Append(Front(@), Top.message)]]
    BY Zenon DEF With, Filled
  <2>3. \A x : Replaced(front, x) = [front EXCEPT ![top - 1] = x]
    BY <1>3 DEF Replaced
  <2> QED
    BY <2>1, <2>2, <2>3, Zenon
<1>6. newStack = Enclosing(stack)
  BY <1>3, <1>4, <1>5, Zenon
<1>7. Follows(Enclosing(stack), Front(plan), stream, next, pos, sent)
  BY <1>0, <1>2, ClosesMessage DEF Tracks
<1> QED
  BY <1>6, <1>7

\* At the end of the outermost message it has been read as it was written.
LEMMA AllIsRead ==
  ASSUME NEW plan, Tracks(plan), AtEnd, Len(stack) = 1
  PROVE  Top.message = sent /\ ~ GarbledWith(sent, NestedGarbled)
<1>0. PICK step, type : step = plan[1] /\ type = step.target.type
  OBVIOUS
<1>1. IsReading(plan, 1, step, type)
  BY <1>0 DEF IsReading
<1>2. /\ step.todo = <<>> /\ Top.message.type = type /\ step \in AnyStep /\ IsShaped(Top.message)
      /\ IsWhole(step.target) /\ Fits(Top.message, step)
  BY <1>1, ReadingIs
<1>3. Top.message = step.target /\ ~ IsBadStep(step)
  BY <1>0, <1>2, DoneIs
<1>4. step.target = sent /\ (GarbledWith(sent, NestedGarbled) <=> \E k \in 1 .. 1 : IsBadStep(plan[k]))
  BY <1>0 DEF Tracks, Follows, IsTrack
<1>5. \A k \in 1 .. 1 : k = 1
  OBVIOUS
<1> QED
  BY <1>0, <1>3, <1>4, <1>5, Zenon

-----------------------------------------------------------------------------
(* What the writer does to its message.                                    *)

\* A field may have those values.
AreValues(values, type, i, messages) ==
  /\ i \in DOMAIN Schemas[type] /\ values \in Seq(Possible(Schemas[type][i].kind, messages))
  /\ Schemas[type][i].label # "repeated" => Len(values) <= 1

\* The values of field i are others.
IsGiven(m2, m, i, values) == m2 = [m EXCEPT !.fields[i] = values]

IsChanged(m2, m, i, values, type, messages) ==
  /\ IsMessage(m2, type, messages) /\ m2.type = type /\ m2.unknown = m.unknown
  /\ DOMAIN m2.fields = DOMAIN m.fields
  /\ \A k \in DOMAIN m.fields : m2.fields[k] = IF k = i THEN values ELSE m.fields[k]

\* A message with other values in a field is one.
LEMMA FieldReplaced ==
  ASSUME NEW messages, NEW type \in DOMAIN Schemas, NEW m, IsMessage(m, type, messages),
         NEW i, NEW values, AreValues(values, type, i, messages),
         NEW m2, IsGiven(m2, m, i, values)
  PROVE  IsChanged(m2, m, i, values, type, messages)
<1>0. PICK fields : fields = [m.fields EXCEPT ![i] = values]
  OBVIOUS
<1>1. /\ m.type = type /\ m = [type |-> type, fields |-> m.fields, unknown |-> m.unknown]
      /\ DOMAIN m.fields = DOMAIN Schemas[type]
      /\ \A k \in DOMAIN m.fields :
              /\ m.fields[k] \in Seq(Possible(Schemas[type][k].kind, messages))
              /\ Schemas[type][k].label # "repeated" => Len(m.fields[k]) <= 1
      /\ m.fields = [k \in DOMAIN Schemas[type] |-> m.fields[k]]
  BY MessageIs
<1>2. m2 = [type |-> type, fields |-> fields, unknown |-> m.unknown]
  BY <1>0, <1>1 DEF IsGiven
<1>3. /\ DOMAIN fields = DOMAIN Schemas[type]
      /\ \A k \in DOMAIN Schemas[type] : fields[k] = IF k = i THEN values ELSE m.fields[k]
      /\ fields = [k \in DOMAIN Schemas[type] |-> fields[k]]
  BY <1>0, <1>1 DEF AreValues
<1>4. m2.fields = fields /\ m2.unknown = m.unknown /\ m2.type = type
  BY <1>2
<1>5. ASSUME NEW k \in DOMAIN Schemas[type]
      PROVE  /\ fields[k] \in Seq(Possible(Schemas[type][k].kind, messages))
             /\ Schemas[type][k].label # "repeated" => Len(fields[k]) <= 1
  BY <1>1, <1>3 DEF AreValues
<1>6. IsMessage(m2, type, messages)
  BY <1>2, <1>3, <1>4, <1>5, Zenon DEF IsMessage
<1> QED
  BY <1>1, <1>3, <1>4, <1>6 DEF IsChanged

\* A whole one stays whole.
LEMMA WholeReplaced ==
  ASSUME NEW m, IsWhole(m), NEW i, NEW values, AreValues(values, m.type, i, NewerMessages),
         NEW m2, IsGiven(m2, m, i, values)
  PROVE  IsWhole(m2) /\ m2.type = m.type
<1>1. m.type \in DOMAIN Schemas /\ IsMessage(m, m.type, NewerMessages)
  BY DEF IsWhole
<1>2. IsChanged(m2, m, i, values, m.type, NewerMessages)
  BY <1>1, FieldReplaced
<1>3. m.unknown \in Seq({e \in AnyElement : IsForeign(e, m.type)})
  BY DEF IsWhole
<1> QED
  BY <1>1, <1>2, <1>3 DEF IsWhole, IsChanged

\* One of ours stays ours.
LEMMA OursReplaced ==
  ASSUME NEW m, IsOurs(m), NEW i, NEW values, AreValues(values, m.type, i, Messages),
         Schemas[m.type][i].kind.type = "enum" =>
           Range(values) \subseteq Range(Schemas[m.type][i].kind.values),
         NEW m2, IsGiven(m2, m, i, values)
  PROVE  IsOurs(m2)
<1>1. m.type \in DOMAIN Schemas /\ IsMessage(m, m.type, Messages)
  BY DEF IsOurs
<1>3. m.unknown = <<>>
      /\ \A k \in DOMAIN m.fields :
           Schemas[m.type][k].kind.type = "enum" =>
             Range(m.fields[k]) \subseteq Range(Schemas[m.type][k].kind.values)
  BY DEF IsOurs
<1>2. IsChanged(m2, m, i, values, m.type, Messages)
  BY <1>1, FieldReplaced
<1> QED
  BY <1>1, <1>2, <1>3 DEF IsOurs, IsChanged

\* What the writer may put into a field.
LEMMA ValuesForAre ==
  ASSUME NEW field, IsField(field), NEW value \in ValuesFor(field.kind)
  PROVE  /\ value \in Possible(field.kind, NewerMessages)
         /\ ~ peer => /\ value \in Possible(field.kind, Messages)
                      /\ field.kind.type = "enum" => value \in Range(field.kind.values)
<1>0. PICK kind : kind = field.kind
  OBVIOUS
<1>1. CASE kind.type = "message"
  <2>1. kind.message \in DOMAIN Schemas
    BY <1>0, <1>1 DEF IsField
  <2>2. value \in Known(kind.message)
    BY <1>0, <1>1 DEF ValuesFor
  <2>3. Messages[kind.message] \subseteq NewerMessages[kind.message]
    BY <2>1, MessagesAssumption
  <2>4. \A messages : Possible(kind, messages) = messages[kind.message]
    BY <1>1 DEF Possible
  <2> QED
    BY <1>0, <1>1, <2>2, <2>3, <2>4 DEF Known
<1>2. CASE kind.type = "enum"
  <2>1. kind.values \in Seq(Int) \ {<<>>}
    BY <1>0, <1>2, Zenon DEF IsField
  <2>2. value \in {kind.values[1], kind.values[Len(kind.values)]} \cup IF peer THEN {1000} ELSE {}
    BY <1>0, <1>2 DEF ValuesFor
  <2>3. \A messages : Possible(kind, messages) = Int
    BY <1>2 DEF Possible
  <2>4. Len(kind.values) \in Nat \ {0} /\ DOMAIN kind.values = 1 .. Len(kind.values)
    BY <2>1, LenProperties, EmptySeq
  <2>5. 1 \in DOMAIN kind.values /\ Len(kind.values) \in DOMAIN kind.values
    BY <2>4
  <2>6. kind.values[1] \in Int /\ kind.values[Len(kind.values)] \in Int
    BY <2>1, <2>4, <2>5, ElementOfSeq
  <2>7. kind.values[1] \in Range(kind.values) /\ kind.values[Len(kind.values)] \in Range(kind.values)
    BY <2>5 DEF Range
  <2> QED
    BY <1>0, <2>2, <2>3, <2>6, <2>7
<1>3. CASE kind.type \notin {"message", "enum"}
  <2>1. kind.type \in {"bool", "int32", "int64", "uint32", "uint64", "sint32", "string", "bytes"}
    BY <1>0, <1>3, Zenon DEF IsField
  <2>2. value \in Samples[kind.type]
    BY <1>0, <1>3 DEF ValuesFor
  <2>3. CASE kind.type = "bool"
    BY <1>0, <2>2, <2>3, MessagesAssumption DEF Possible
  <2>4. CASE kind.type \in {"string", "bytes"}
    BY <1>0, <2>2, <2>4, MessagesAssumption DEF Possible
  <2>5. CASE kind.type \in {"int32", "int64", "uint32", "uint64", "sint32"}
    <3>1. Samples[kind.type] \subseteq Int
      BY <2>5, MessagesAssumption, Zenon
    <3>2. \A messages : Possible(kind, messages) = Int
      BY <2>5 DEF Possible
    <3> QED
      BY <1>0, <1>3, <2>2, <3>1, <3>2
  <2> QED
    BY <2>1, <2>3, <2>4, <2>5
<1> QED
  BY <1>1, <1>2, <1>3

\* An element of a newer schema.
LEMMA NewerIsForeign ==
  ASSUME NEW type \in DOMAIN Schemas, NEW number \in NewNumbers,
         NEW wire \in {"varint", "length"}, FieldOf(type, number) = 0
  PROVE  IsForeign(Newer(number, wire), type)
<1>1. number \in Nat \ {0}
  BY MessagesAssumption
<1>2. NewText \in Seq(STRING) /\ Len(NewText) \in Nat /\ 300 \in Int
  BY MessagesAssumption, LenProperties
<1>3. /\ VarintBytes(8 * number) \in Nat \ {0} /\ VarintBytes(Len(NewText)) \in Nat \ {0}
      /\ VarintBytes(300) \in Nat \ {0}
  BY <1>1, <1>2, VarintBytesAre
<1>4. PICK e : e = Newer(number, wire)
  OBVIOUS
<1>5. /\ e = [number |-> e.number, wire |-> e.wire, value |-> e.value, size |-> e.size]
      /\ e.number = number /\ e.size \in Nat \ {0}
      /\ \/ e.wire = "varint" /\ e.value \in Int
         \/ e.wire = "length" /\ e.value \in Seq(STRING)
  <2>1. CASE wire = "varint"
    BY <1>2, <1>3, <1>4, <2>1 DEF Newer, Number, Element
  <2>2. CASE wire # "varint"
    BY <1>2, <1>3, <1>4, <2>2 DEF Newer, Text, Element
  <2> QED
    BY <2>1, <2>2
<1> QED
  BY <1>1, <1>4, <1>5, Zenon DEF IsForeign

\* A field whose type has changed.
LEMMA ChangedIsForeign ==
  ASSUME NEW type \in DOMAIN Schemas, NEW i \in DOMAIN Schemas[type], ~ IsPackable(Schemas[type][i])
  PROVE  IsForeign(Changed(Schemas[type][i]), type)
<1>0. PICK field, e : field = Schemas[type][i] /\ e = Changed(field)
  OBVIOUS
<1>1. IsField(field)
  BY <1>0, SchemaIs
<1>2. field.number \in Nat \ {0} /\ field.kind.wire \in {"varint", "length"}
  BY <1>1, Zenon DEF IsField
<1>3. NewText \in Seq(STRING) /\ Len(NewText) \in Nat /\ 1 \in Int
  BY MessagesAssumption, LenProperties
<1>4. /\ VarintBytes(8 * field.number) \in Nat \ {0} /\ VarintBytes(1) \in Nat \ {0}
      /\ VarintBytes(Len(NewText)) \in Nat \ {0}
  <2>1. 8 * field.number \in Int /\ Len(NewText) \in Int
    BY <1>2, <1>3
  <2> QED
    BY <1>3, <2>1, VarintBytesAre
<1>5. /\ e = [number |-> e.number, wire |-> e.wire, value |-> e.value, size |-> e.size]
      /\ e.number = field.number /\ e.size \in Nat \ {0} /\ e.wire # field.kind.wire
      /\ \/ e.wire = "varint" /\ e.value \in Int
         \/ e.wire = "length" /\ e.value \in Seq(STRING)
  <2>1. CASE field.kind.wire = "length"
    BY <1>0, <1>3, <1>4, <2>1 DEF Changed, Number, Element
  <2>2. CASE field.kind.wire # "length"
    BY <1>0, <1>3, <1>4, <2>2 DEF Changed, Text, Element
  <2> QED
    BY <2>1, <2>2
<1>6. FieldOf(type, e.number) = i
  BY <1>0, <1>5, FieldOfNumber
<1>7. e.wire # Schemas[type][FieldOf(type, e.number)].kind.wire
      /\ ~ IsPackable(Schemas[type][FieldOf(type, e.number)])
  BY <1>0, <1>5, <1>6
<1>8. IsForeign(e, type)
  BY <1>2, <1>5, <1>7, Zenon DEF IsForeign
<1> QED
  BY <1>0, <1>8

\* With an element of a newer schema it is still whole.
LEMMA WholeWithUnknown ==
  ASSUME NEW m, IsWhole(m), NEW e, IsForeign(e, m.type),
         NEW m2, m2 = [m EXCEPT !.unknown = Append(@, e)]
  PROVE  IsWhole(m2) /\ m2.type = m.type
<1>0. PICK Foreign, unknown :
        Foreign = {x \in AnyElement : IsForeign(x, m.type)} /\ unknown = Append(m.unknown, e)
  OBVIOUS
<1>1. m.type \in DOMAIN Schemas /\ IsMessage(m, m.type, NewerMessages)
  BY DEF IsWhole
<1>2. m.unknown \in Seq(Foreign)
  BY <1>0 DEF IsWhole
<1>3. e \in Foreign
  BY <1>0, ForeignIsElement
<1>4. unknown \in Seq(Foreign)
  BY <1>0, <1>2, <1>3, AppendProperties
<1>5. /\ m = [type |-> m.type, fields |-> m.fields, unknown |-> m.unknown]
      /\ m.fields = [k \in DOMAIN Schemas[m.type] |-> m.fields[k]]
      /\ \A k \in DOMAIN Schemas[m.type] :
              /\ m.fields[k] \in Seq(Possible(Schemas[m.type][k].kind, NewerMessages))
              /\ Schemas[m.type][k].label # "repeated" => Len(m.fields[k]) <= 1
  BY <1>1, Zenon DEF IsMessage
<1>6. m2 = [type |-> m.type, fields |-> m.fields, unknown |-> unknown]
  BY <1>0, <1>5
<1>7. m2.type = m.type /\ m2.fields = m.fields /\ m2.unknown = unknown
  BY <1>6
<1>8. IsMessage(m2, m.type, NewerMessages)
  BY <1>5, <1>6, <1>7, Zenon DEF IsMessage
<1>9. m2.unknown \in Seq({x \in AnyElement : IsForeign(x, m2.type)})
  BY <1>0, <1>4, <1>7
<1> QED
  BY <1>1, <1>7, <1>8, <1>9 DEF IsWhole

\* What the message may be changed to.
MayBe(message) ==
  IsWhole(message) /\ message.type = sent.type /\ (~ peer => IsOurs(message))

MessageInv == IsWhole(sent) /\ (~ peer => IsOurs(sent))

\* So the message may be given values that its field may have.
LEMMA GivenMayBe ==
  ASSUME MessageInv, NEW i, NEW values, AreValues(values, sent.type, i, NewerMessages),
         ~ peer => /\ AreValues(values, sent.type, i, Messages)
                   /\ Fields[i].kind.type = "enum" => Range(values) \subseteq Range(Fields[i].kind.values),
         NEW m2, IsGiven(m2, sent, i, values)
  PROVE  MayBe(m2)
<1>1. IsWhole(m2) /\ m2.type = sent.type
  BY WholeReplaced DEF MessageInv
<1>2. ASSUME ~ peer
      PROVE  IsOurs(m2)
  <2>1. IsOurs(sent) /\ AreValues(values, sent.type, i, Messages)
    BY <1>2 DEF MessageInv
  <2>2. Schemas[sent.type][i].kind.type = "enum" =>
          Range(values) \subseteq Range(Schemas[sent.type][i].kind.values)
    BY <1>2 DEF Fields
  <2> QED
    BY <2>1, <2>2, OursReplaced
<1> QED
  BY <1>1, <1>2 DEF MayBe

\* What is known of the message that is written.
LEMMA SentIs ==
  ASSUME MessageInv
  PROVE  /\ sent.type \in DOMAIN Schemas /\ sent \in AnyMessage /\ DOMAIN sent.fields = DOMAIN Fields
         /\ \A i \in DOMAIN Fields :
              /\ IsField(Fields[i]) /\ AreValues(sent.fields[i], sent.type, i, NewerMessages)
              /\ ~ peer => /\ AreValues(sent.fields[i], sent.type, i, Messages)
                           /\ Fields[i].kind.type = "enum" =>
                                Range(sent.fields[i]) \subseteq Range(Fields[i].kind.values)
<1>1. sent.type \in DOMAIN Schemas /\ IsMessage(sent, sent.type, NewerMessages)
  BY DEF MessageInv, IsWhole
<1>2. sent \in AnyMessage /\ DOMAIN sent.fields = DOMAIN Fields
  BY WholeIsShaped DEF MessageInv, IsShaped, Fields
<1>3. \A i \in DOMAIN Fields : IsField(Fields[i])
  BY <1>1, SchemaIs DEF Fields
<1>4. ASSUME NEW i \in DOMAIN Fields, NEW messages, IsMessage(sent, sent.type, messages)
      PROVE  AreValues(sent.fields[i], sent.type, i, messages)
  <2>1. \A k \in DOMAIN sent.fields :
              /\ sent.fields[k] \in Seq(Possible(Schemas[sent.type][k].kind, messages))
              /\ Schemas[sent.type][k].label # "repeated" => Len(sent.fields[k]) <= 1
    BY <1>1, <1>4, MessageIs
  <2> QED
    BY <1>2, <2>1 DEF AreValues, Fields
<1>5. ASSUME NEW i \in DOMAIN Fields, ~ peer
      PROVE  /\ AreValues(sent.fields[i], sent.type, i, Messages)
             /\ Fields[i].kind.type = "enum" => Range(sent.fields[i]) \subseteq Range(Fields[i].kind.values)
  <2>1. IsMessage(sent, sent.type, Messages)
    BY <1>5 DEF MessageInv, IsOurs
  <2>2. Fields[i].kind.type = "enum" => Range(sent.fields[i]) \subseteq Range(Fields[i].kind.values)
    BY <1>2, <1>5 DEF MessageInv, IsOurs, Fields
  <2> QED
    BY <1>4, <2>1, <2>2
<1> QED
  BY <1>1, <1>2, <1>3, <1>4, <1>5

\* One value more, or instead of what there was.
LEMMA ValueMayBe ==
  ASSUME MessageInv, NEW i \in DOMAIN Fields, NEW value \in ValuesFor(Fields[i].kind)
  PROVE  /\ Fields[i].label # "repeated" => MayBe([sent EXCEPT !.fields[i] = <<value>>])
         /\ Fields[i].label = "repeated" => MayBe([sent EXCEPT !.fields[i] = Append(@, value)])
         /\ MayBe([sent EXCEPT !.fields[i] = <<>>])
<1>0. PICK kind, old : kind = Fields[i].kind /\ old = sent.fields[i]
  OBVIOUS
<1>1. /\ DOMAIN sent.fields = DOMAIN Fields /\ sent \in AnyMessage /\ IsField(Fields[i])
      /\ AreValues(old, sent.type, i, NewerMessages)
      /\ ~ peer => /\ AreValues(old, sent.type, i, Messages)
                   /\ kind.type = "enum" => Range(old) \subseteq Range(kind.values)
  BY <1>0, SentIs
<1>2. /\ value \in Possible(kind, NewerMessages)
      /\ ~ peer => /\ value \in Possible(kind, Messages)
                   /\ kind.type = "enum" => value \in Range(kind.values)
  BY <1>0, <1>1, ValuesForAre
<1>3. ASSUME NEW S, value \in S, old \in Seq(S)
      PROVE  /\ <<value>> \in Seq(S) /\ Len(<<value>>) <= 1 /\ Range(<<value>>) = {value}
             /\ Append(old, value) \in Seq(S) /\ Range(Append(old, value)) = Range(old) \cup {value}
             /\ <<>> \in Seq(S) /\ Len(<<>>) <= 1 /\ Range(<<>>) = {}
  <2>1. <<value>> \in Seq(S) /\ Len(<<value>>) = 1
    BY <1>3
  <2>2. Append(old, value) \in Seq(S) /\ Append(old, value) = old \o <<value>>
    BY <1>3, AppendProperties, AppendIsConcat
  <2>3. Range(old \o <<value>>) = Range(old) \cup Range(<<value>>)
    BY <1>3, <2>1, RangeOfConcat
  <2> QED
    BY <2>1, <2>2, <2>3, RangeOfOne, RangeOfNothing, EmptySeq
<1>4. ASSUME NEW values, NEW S, S \in {NewerMessages, Messages}, values \in Seq(Possible(kind, S)),
             Fields[i].label # "repeated" => Len(values) <= 1
      PROVE  AreValues(values, sent.type, i, S)
  BY <1>0, <1>4 DEF AreValues, Fields
<1>5. ASSUME NEW S, AreValues(old, sent.type, i, S)
      PROVE  old \in Seq(Possible(kind, S))
  BY <1>0, <1>5 DEF AreValues, Fields
<1>6. Len(<<value>>) <= 1 /\ Len(<<>>) <= 1
  OBVIOUS
<1>7. ASSUME NEW values, values \in Seq(Possible(kind, NewerMessages)),
             Fields[i].label # "repeated" => Len(values) <= 1,
             ~ peer => /\ values \in Seq(Possible(kind, Messages))
                       /\ kind.type = "enum" => Range(values) \subseteq Range(kind.values)
      PROVE  MayBe([sent EXCEPT !.fields[i] = values])
  <2>1. AreValues(values, sent.type, i, NewerMessages)
    BY <1>4, <1>7
  <2>2. ~ peer => /\ AreValues(values, sent.type, i, Messages)
                  /\ Fields[i].kind.type = "enum" => Range(values) \subseteq Range(Fields[i].kind.values)
    BY <1>0, <1>4, <1>7
  <2>3. PICK m2 : m2 = [sent EXCEPT !.fields[i] = values]
    OBVIOUS
  <2>4. IsGiven(m2, sent, i, values)
    BY <2>3 DEF IsGiven
  <2>5. MayBe(m2)
    BY <2>1, <2>2, <2>4, GivenMayBe
  <2> QED
    BY <2>3, <2>5
<1>8. ASSUME Fields[i].label # "repeated"
      PROVE  MayBe([sent EXCEPT !.fields[i] = <<value>>])
  <2>1. <<value>> \in Seq(Possible(kind, NewerMessages))
    BY <1>2
  <2>2. ~ peer => /\ <<value>> \in Seq(Possible(kind, Messages))
                  /\ kind.type = "enum" => Range(<<value>>) \subseteq Range(kind.values)
    BY <1>2, RangeOfOne
  <2> QED
    BY <1>6, <1>7, <2>1, <2>2
<1>9. ASSUME Fields[i].label = "repeated"
      PROVE  MayBe([sent EXCEPT !.fields[i] = Append(@, value)])
  <2>1. Append(old, value) \in Seq(Possible(kind, NewerMessages))
    BY <1>1, <1>2, <1>3, <1>5
  <2>2. ~ peer => /\ Append(old, value) \in Seq(Possible(kind, Messages))
                  /\ kind.type = "enum" => Range(Append(old, value)) \subseteq Range(kind.values)
    <3>1. Range(Append(old, value)) = Range(old) \cup {value}
      BY <1>1, <1>2, <1>3, <1>5
    <3>2. ~ peer => Append(old, value) \in Seq(Possible(kind, Messages))
      BY <1>1, <1>2, <1>3, <1>5
    <3> QED
      BY <1>1, <1>2, <3>1, <3>2
  <2>3. MayBe([sent EXCEPT !.fields[i] = Append(old, value)])
    BY <1>7, <1>9, <2>1, <2>2
  <2>4. [sent EXCEPT !.fields[i] = Append(@, value)] = [sent EXCEPT !.fields[i] = Append(old, value)]
    BY <1>0, Zenon
  <2> QED
    BY <2>3, <2>4
<1>10. MayBe([sent EXCEPT !.fields[i] = <<>>])
  <2>1. \A S : <<>> \in Seq(S)
    OBVIOUS
  <2>2. ~ peer => /\ <<>> \in Seq(Possible(kind, Messages))
                  /\ kind.type = "enum" => Range(<<>>) \subseteq Range(kind.values)
    BY <2>1, RangeOfNothing
  <2> QED
    BY <1>6, <1>7, <2>1, <2>2
<1> QED
  BY <1>8, <1>9, <1>10

\* An element of a newer schema, beside the fields or instead of one of them.
LEMMA NewerMayBe ==
  ASSUME MessageInv, peer, NEW number \in NewNumbers, NEW wire \in {"varint", "length"},
         FieldOf(sent.type, number) = 0
  PROVE  MayBe([sent EXCEPT !.unknown = Append(@, Newer(number, wire))])
<1>0. PICK e, m2 : e = Newer(number, wire) /\ m2 = [sent EXCEPT !.unknown = Append(@, e)]
  OBVIOUS
<1>1. sent.type \in DOMAIN Schemas /\ IsWhole(sent)
  BY SentIs DEF MessageInv
<1>2. IsForeign(e, sent.type)
  BY <1>0, <1>1, NewerIsForeign
<1>3. IsWhole(m2) /\ m2.type = sent.type
  BY <1>0, <1>1, <1>2, WholeWithUnknown
<1>4. MayBe(m2)
  BY <1>3 DEF MayBe
<1> QED
  BY <1>0, <1>4

\* A field may be replaced by an element of another type.
LEMMA ChangedMayBe ==
  ASSUME MessageInv, peer, NEW i \in DOMAIN Fields, ~ IsPackable(Fields[i])
  PROVE  MayBe([sent EXCEPT !.fields[i] = <<>>, !.unknown = Append(@, Changed(Fields[i]))])
<1>0. PICK e, m1, m2 :
        /\ e = Changed(Fields[i]) /\ m1 = [sent EXCEPT !.fields[i] = <<>>]
        /\ m2 = [m1 EXCEPT !.unknown = Append(@, e)]
  OBVIOUS
<1>1. sent.type \in DOMAIN Schemas /\ sent \in AnyMessage
  BY SentIs
<1>2. IsWhole(m1) /\ m1.type = sent.type
  <2>1. <<>> \in Seq(Possible(Schemas[sent.type][i].kind, NewerMessages)) /\ Len(<<>>) <= 1
    OBVIOUS
  <2>2. AreValues(<<>>, sent.type, i, NewerMessages)
    BY <2>1 DEF AreValues, Fields
  <2>3. IsGiven(m1, sent, i, <<>>) /\ IsWhole(sent)
    BY <1>0 DEF IsGiven, MessageInv
  <2> QED
    BY <2>2, <2>3, WholeReplaced
<1>3. IsForeign(e, m1.type)
  BY <1>0, <1>1, <1>2, ChangedIsForeign DEF Fields
<1>4. IsWhole(m2) /\ m2.type = m1.type
  BY <1>0, <1>2, <1>3, WholeWithUnknown
<1>5. MayBe(m2)
  BY <1>2, <1>4 DEF MayBe
<1>6. m2 = [sent EXCEPT !.fields[i] = <<>>, !.unknown = Append(@, Changed(Fields[i]))]
  BY <1>0, <1>1 DEF AnyMessage
<1> QED
  BY <1>5, <1>6

\* Whatever the writer does to its message, it may.
LEMMA ChangesMayBe ==
  ASSUME MessageInv, Set \/ Push \/ Clear \/ ChangeSchema
  PROVE  \E message : MayBe(message) /\ Change(message)
<1>1. CASE Set
  <2>1. PICK i \in DOMAIN Fields : Fields[i].label # "repeated"
          /\ \E value \in ValuesFor(Fields[i].kind) : Change([sent EXCEPT !.fields[i] = <<value>>])
    BY <1>1 DEF Set
  <2>2. PICK value \in ValuesFor(Fields[i].kind) : Change([sent EXCEPT !.fields[i] = <<value>>])
    BY <2>1
  <2>3. MayBe([sent EXCEPT !.fields[i] = <<value>>])
    BY <2>1, ValueMayBe
  <2> QED
    BY <2>2, <2>3
<1>2. CASE Push
  <2>1. PICK i \in DOMAIN Fields : Fields[i].label = "repeated"
          /\ \E value \in ValuesFor(Fields[i].kind) :
               Change([sent EXCEPT !.fields[i] = Append(@, value)])
    BY <1>2 DEF Push
  <2>2. PICK value \in ValuesFor(Fields[i].kind) : Change([sent EXCEPT !.fields[i] = Append(@, value)])
    BY <2>1
  <2>3. MayBe([sent EXCEPT !.fields[i] = Append(@, value)])
    BY <2>1, ValueMayBe
  <2> QED
    BY <2>2, <2>3
<1>3. CASE Clear
  <2>1. PICK i \in DOMAIN Fields : Change([sent EXCEPT !.fields[i] = <<>>])
    BY <1>3 DEF Clear
  <2>2. MayBe([sent EXCEPT !.fields[i] = <<>>])
    <3>1. /\ sent.type \in DOMAIN Schemas
          /\ AreValues(<<>>, sent.type, i, NewerMessages) /\ AreValues(<<>>, sent.type, i, Messages)
      <4>1. \A S : <<>> \in Seq(S) /\ Len(<<>>) <= 1
        OBVIOUS
      <4> QED
        BY <4>1, SentIs DEF AreValues, Fields
    <3>2. Range(<<>>) \subseteq Range(Fields[i].kind.values)
      BY RangeOfNothing
    <3>3. PICK m2 : m2 = [sent EXCEPT !.fields[i] = <<>>]
      OBVIOUS
    <3>4. IsGiven(m2, sent, i, <<>>)
      BY <3>3 DEF IsGiven
    <3>5. MayBe(m2)
      BY <3>1, <3>2, <3>4, GivenMayBe
    <3> QED
      BY <3>3, <3>5
  <2> QED
    BY <2>1, <2>2
<1>4. CASE ChangeSchema
  <2>1. ASSUME NEW number \in NewNumbers, NEW wire \in {"varint", "length"},
               peer, FieldOf(sent.type, number) = 0,
               Change([sent EXCEPT !.unknown = Append(@, Newer(number, wire))])
        PROVE  \E message : MayBe(message) /\ Change(message)
    BY <2>1, NewerMayBe
  <2>2. ASSUME NEW i \in DOMAIN Fields, peer, ~ IsPackable(Fields[i]),
               Change([sent EXCEPT !.fields[i] = <<>>, !.unknown = Append(@, Changed(Fields[i]))])
        PROVE  \E message : MayBe(message) /\ Change(message)
    BY <2>2, ChangedMayBe
  <2> QED
    BY <1>4, <2>1, <2>2, Zenon DEF ChangeSchema
<1> QED
  BY <1>1, <1>2, <1>3, <1>4

-----------------------------------------------------------------------------
(* The inductive invariant.                                                *)

WriterInv ==
  /\ status \in {"filling", "unwritten", "reading", "read", "failed"}
  /\ status \in {"filling", "unwritten"} =>
       stack = <<Reader(sent.type)>> /\ stream = <<>> /\ next = 1 /\ pos = 0
  /\ status = "unwritten" => ~ Initialized(sent)
  /\ (status \in {"reading", "read", "failed"} /\ ~ peer) =>
       stream = Written(sent) /\ Initialized(sent)

ReaderInv ==
  /\ status = "reading" => \E plan : Tracks(plan)
  /\ status = "read" => Top.message = sent /\ ~ HasReason(sent)
  /\ status = "failed" => peer /\ HasReason(sent)

Inv == MessageInv /\ WriterInv /\ ReaderInv

\* The invariant holds at first.
LEMMA InvAtFirst ==
  ASSUME Init
  PROVE  Inv
<1>1. PICK type \in DOMAIN Schemas : sent \in Known(type)
  BY DEF Init
<1>2. sent \in NewerMessages[type]
  BY <1>1, MessagesAssumption DEF Known
<1>3. sent \in AllMessages
  BY <1>2 DEF AllMessages
<1>4. ~ peer => IsOurs(sent)
  BY <1>1, MessagesAreOurs DEF Known
<1>5. MessageInv
  BY <1>3, <1>4, AllAreWhole DEF MessageInv
<1>6. WriterInv /\ ReaderInv
  BY DEF Init, WriterInv, ReaderInv
<1> QED
  BY <1>5, <1>6 DEF Inv

\* It holds after the message has been changed.
LEMMA InvWhenChanged ==
  ASSUME Inv, NEW message, MayBe(message), Change(message)
  PROVE  Inv'
<1>1. /\ status = "filling" /\ sent' = message /\ status' = status /\ peer' = peer
      /\ stream' = stream /\ next' = next /\ pos' = pos /\ stack' = stack
  BY DEF Change
<1>2. MessageInv'
  BY <1>1 DEF MayBe, MessageInv
<1>3. WriterInv'
  BY <1>1 DEF MayBe, WriterInv, Inv
<1>4. ReaderInv'
  BY <1>1 DEF ReaderInv
<1> QED
  BY <1>2, <1>3, <1>4 DEF Inv

\* What is written is what is left to read.
LEMMA InvWhenSent ==
  ASSUME Inv, NEW elements, Send(elements), NEW todo, IsTodo(todo, sent), elements = Elements(todo),
         ~ peer => elements = Written(sent) /\ Initialized(sent)
  PROVE  Inv'
<1>1. /\ status = "filling" /\ status' = "reading" /\ stream' = elements
      /\ stack' = [stack EXCEPT ![1].end = SizeOf(elements)]
      /\ peer' = peer /\ sent' = sent /\ next' = next /\ pos' = pos
  BY DEF Send
<1>2. stack = <<Reader(sent.type)>> /\ next = 1 /\ pos = 0 /\ IsWhole(sent)
  BY <1>1 DEF Inv, WriterInv, MessageInv
<1>3. PICK frame, step :
        /\ frame = [message |-> Empty(sent.type), field |-> 0, end |-> SizeOf(elements)]
        /\ step = [target |-> sent, todo |-> todo, after |-> <<>>]
  OBVIOUS
<1>4. stack' = <<frame>>
  <2>1. \A r, x : [<<r>> EXCEPT ![1].end = x] = <<[r EXCEPT !.end = x]>>
    OBVIOUS
  <2>2. stack' = <<[Reader(sent.type) EXCEPT !.end = SizeOf(elements)]>>
    BY <1>1, <1>2, <2>1
  <2>3. [Reader(sent.type) EXCEPT !.end = SizeOf(elements)] = frame
    BY <1>3 DEF Reader
  <2> QED
    BY <2>2, <2>3
<1>5. Follows(<<frame>>, <<step>>, elements, 1, 0, sent)
  BY <1>2, <1>3, ReaderFollows
<1>6. Follows(stack', <<step>>, stream', next', pos', sent')
  BY <1>1, <1>2, <1>4, <1>5
<1>7. MessageInv' /\ WriterInv'
  BY <1>1 DEF Inv, MessageInv, WriterInv
<1>8. ReaderInv'
  BY <1>1, <1>6 DEF ReaderInv, Tracks
<1> QED
  BY <1>7, <1>8 DEF Inv

\* The reader's turn, at an element.
LEMMA InvWhenMerged ==
  ASSUME Inv, MergeField
  PROVE  Inv'
<1>0. PICK e, i, field :
        /\ e = stream[next] /\ i = FieldOf(Top.message.type, e.number)
        /\ field = Schemas[Top.message.type][i]
  OBVIOUS
<1>1. status = "reading" /\ ~ AtEnd
  BY DEF MergeField
<1>2. \/ i = 0 /\ Advance(KeepUnknown(e))
      \/ i # 0 /\ IsReadable(field, e) /\ Advance(Merge(i, field, e))
      \/ /\ i # 0 /\ ~ IsReadable(field, e) /\ status' = "failed"
         /\ UNCHANGED <<peer, sent, changes, stream, next, pos, stack>>
  BY <1>0, Zenon DEF MergeField
<1>3. IsRightTurn(e, i, field)
  <2>1. PICK plan : Tracks(plan)
    BY <1>1 DEF Inv, ReaderInv
  <2> QED
    BY <1>0, <1>1, <2>1, TurnIsRight, Zenon
<1>4. ASSUME NEW newStack, Advance(newStack), GoesOn(newStack, e)
      PROVE  Inv'
  <2>1. /\ pos' = pos + e.size /\ next' = next + 1 /\ stack' = newStack
        /\ peer' = peer /\ sent' = sent /\ status' = status /\ stream' = stream
    BY <1>0, <1>4 DEF Advance
  <2>2. PICK plan : Follows(newStack, plan, stream, next + 1, pos + e.size, sent)
    BY <1>4 DEF GoesOn
  <2>3. Follows(stack', plan, stream', next', pos', sent')
    BY <2>1, <2>2
  <2>4. ReaderInv'
    BY <1>1, <2>1, <2>3 DEF ReaderInv, Tracks
  <2>5. MessageInv' /\ WriterInv'
    BY <1>1, <2>1 DEF Inv, MessageInv, WriterInv
  <2> QED
    BY <2>4, <2>5 DEF Inv
<1>5. CASE i = 0 /\ Advance(KeepUnknown(e))
  BY <1>3, <1>4, <1>5 DEF IsRightTurn
<1>6. CASE i # 0 /\ IsReadable(field, e) /\ Advance(Merge(i, field, e))
  BY <1>3, <1>4, <1>6 DEF IsRightTurn
<1>7. CASE /\ i # 0 /\ ~ IsReadable(field, e) /\ status' = "failed"
           /\ UNCHANGED <<peer, sent, changes, stream, next, pos, stack>>
  <2>1. GarbledWith(sent, NestedGarbled)
    BY <1>3, <1>7 DEF IsRightTurn
  <2>2. peer
    BY <2>1, OursAreNotGarbled DEF Inv, MessageInv
  <2>3. HasReason(sent)
    BY <2>1 DEF HasReason
  <2>4. /\ peer' = peer /\ sent' = sent /\ status' = "failed" /\ stream' = stream
    BY <1>7
  <2> QED
    BY <1>1, <2>2, <2>3, <2>4 DEF Inv, MessageInv, WriterInv, ReaderInv
<1> QED
  BY <1>2, <1>5, <1>6, <1>7

\* After a nested message has ended.
LEMMA InvWhenEnded ==
  ASSUME Inv, EndMessage
  PROVE  Inv'
<1>1. /\ status = "reading" /\ AtEnd /\ Len(stack) > 1
      /\ peer' = peer /\ sent' = sent /\ status' = status /\ stream' = stream
      /\ next' = next /\ pos' = pos
  BY DEF EndMessage
<1>2. stack' = [Front(stack) EXCEPT ![Len(stack) - 1].message.fields[Top.field] =
                  Append(Front(@), Top.message)]
  BY Zenon DEF EndMessage
<1>3. PICK plan : Tracks(plan)
  BY <1>1 DEF Inv, ReaderInv
<1>4. PICK plan2 : Follows(stack', plan2, stream, next, pos, sent)
  BY <1>1, <1>2, <1>3, EndIsRight
<1>5. Follows(stack', plan2, stream', next', pos', sent')
  BY <1>1, <1>4
<1>6. ReaderInv'
  BY <1>1, <1>5 DEF ReaderInv, Tracks
<1>7. MessageInv' /\ WriterInv'
  BY <1>1 DEF Inv, MessageInv, WriterInv
<1> QED
  BY <1>6, <1>7 DEF Inv

\* After the outermost message has ended.
LEMMA InvWhenFinished ==
  ASSUME Inv, Finish
  PROVE  Inv'
<1>1. /\ status = "reading" /\ AtEnd /\ Len(stack) = 1
      /\ status' = (IF Initialized(Top.message) THEN "read" ELSE "failed")
      /\ peer' = peer /\ sent' = sent /\ stream' = stream /\ stack' = stack
  BY DEF Finish
<1>2. PICK plan : Tracks(plan)
  BY <1>1 DEF Inv, ReaderInv
<1>3. Top.message = sent /\ ~ GarbledWith(sent, NestedGarbled)
  BY <1>1, <1>2, AllIsRead
<1>4. Initialized(sent) => ~ HasReason(sent)
  BY <1>3 DEF HasReason
<1>5. ~ Initialized(sent) => peer /\ HasReason(sent)
  BY <1>1 DEF HasReason, Inv, WriterInv
<1>6. Top' = Top
  BY <1>1 DEF Top
<1>7. status' = IF Initialized(sent) THEN "read" ELSE "failed"
  BY <1>1, <1>3
<1>8. ReaderInv'
  BY <1>1, <1>3, <1>4, <1>5, <1>6, <1>7 DEF ReaderInv
<1>9. MessageInv' /\ WriterInv'
  BY <1>1, <1>7 DEF Inv, MessageInv, WriterInv
<1> QED
  BY <1>8, <1>9 DEF Inv

\* Inv is inductive.
LEMMA InvIsKept ==
  ASSUME Inv, [Next]_vars
  PROVE  Inv'
<1>1. CASE Set \/ Push \/ Clear \/ ChangeSchema
  <2>1. PICK message : MayBe(message) /\ Change(message)
    BY <1>1, ChangesMayBe DEF Inv
  <2> QED
    BY <2>1, InvWhenChanged
<1>2. IsWhole(sent)
  BY DEF Inv, MessageInv
<1>3. IsTodo(TodoOf(sent), sent) /\ Elements(TodoOf(sent)) = Written(sent)
  BY <1>2, TodoIs
<1>4. CASE Write
  <2>1. Initialized(sent) /\ Send(Written(sent))
    BY <1>4 DEF Write
  <2> QED
    BY <1>3, <2>1, InvWhenSent
<1>5. CASE Refuse
  <2>1. /\ status = "filling" /\ ~ Initialized(sent) /\ status' = "unwritten"
        /\ peer' = peer /\ sent' = sent /\ stream' = stream /\ next' = next /\ pos' = pos
        /\ stack' = stack
    BY <1>5 DEF Refuse
  <2> QED
    BY <2>1 DEF Inv, MessageInv, WriterInv, ReaderInv
<1>6. CASE WriteNewer
  <2>1. CASE Send(Written(sent))
    <3>1. peer
      BY <1>6 DEF WriteNewer
    <3> QED
      BY <1>3, <2>1, <3>1, InvWhenSent
  <2>2. CASE Send(WrittenPacked(sent))
    <3>1. peer
      BY <1>6 DEF WriteNewer
    <3>2. PICK todo : IsTodo(todo, sent) /\ Elements(todo) = WrittenPacked(sent)
      BY <1>2, PackedTodoExists
    <3> QED
      BY <2>2, <3>1, <3>2, InvWhenSent
  <2> QED
    BY <1>6, <2>1, <2>2 DEF WriteNewer
<1>7. CASE MergeField
  BY <1>7, InvWhenMerged
<1>8. CASE EndMessage
  BY <1>8, InvWhenEnded
<1>9. CASE Finish
  BY <1>9, InvWhenFinished
<1>10. CASE UNCHANGED vars
  <2>1. /\ peer' = peer /\ sent' = sent /\ status' = status /\ stream' = stream
        /\ next' = next /\ pos' = pos /\ stack' = stack
    BY <1>10 DEF vars
  <2>2. MessageInv' /\ WriterInv'
    BY <2>1 DEF Inv, MessageInv, WriterInv
  <2>3. ReaderInv'
    <3>1. (\E plan : Tracks(plan)) => \E plan : Follows(stack', plan, stream', next', pos', sent')
      BY <2>1 DEF Tracks
    <3>2. Top' = Top
      BY <2>1 DEF Top
    <3> QED
      BY <2>1, <3>1, <3>2 DEF Inv, ReaderInv, Tracks
  <2> QED
    BY <2>2, <2>3 DEF Inv
<1> QED
  BY <1>1, <1>4, <1>5, <1>6, <1>7, <1>8, <1>9, <1>10, Zenon DEF Next, Done

\* All along, the reader is somewhere in a plan at whose end it has the message
\* that was written, and the rest of the stream is the rest of that plan; what
\* the plan cannot be followed with is a reason to fail.
THEOREM ReaderHasAPlan == Spec => []Inv
<1>1. Init => Inv
  BY InvAtFirst
<1>2. Inv /\ [Next]_vars => Inv'
  BY InvIsKept
<1> QED
  BY <1>1, <1>2, PTL DEF Spec

\* What compute_size says is what is written, whatever the message.
THEOREM SizesAreExact == Spec => []SizeIsExact
<1>1. Inv => SizeIsExact
  <2>1. ASSUME Inv, ~ peer, status # "filling", status # "unwritten"
        PROVE  SizeOf(stream) = ComputeSize(sent)
    <3>1. stream = Written(sent) /\ IsWhole(sent)
      BY <2>1 DEF Inv, MessageInv, WriterInv
    <3> QED
      BY <3>1, WrittenIs
  <2>2. ASSUME Inv, status = "unwritten"
        PROVE  SizeOf(stream) = 0
    BY <2>2, SizeOfNothing DEF Inv, WriterInv
  <2> QED
    BY <2>1, <2>2 DEF SizeIsExact
<1> QED
  BY <1>1, ReaderHasAPlan, PTL

\* What is read is what was written, whoever wrote it.
THEOREM ReadingGivesWhatWasWritten == Spec => []ReadsWhatWasWritten
<1>1. Inv => ReadsWhatWasWritten
  BY DEF Inv, ReaderInv, ReadsWhatWasWritten, HasReason
<1> QED
  BY <1>1, ReaderHasAPlan, PTL

\* Reading fails when the message is garbled for us or lacks what we require,
\* and only then; so never for what this program wrote.
THEOREM ReadingFailsForAReason == Spec => []FailsForAReason
<1>1. Inv => FailsForAReason
  BY DEF Inv, WriterInv, ReaderInv, FailsForAReason
<1> QED
  BY <1>1, ReaderHasAPlan, PTL
=============================================================================
