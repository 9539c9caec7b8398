----------------------------- MODULE MercuryProofs -----------------------------
(***************************************************************************)
(* Proofs about module Mercury, for any number of requests and events, of  *)
(* any size: however the access point cuts and interleaves its messages,   *)
(* each is put together again in the entry it belongs to.                  *)
(*                                                                         *)
(* A cursor (w, k) is a place in a message: w whole parts, and k chunks of *)
(* the next one, have gone by.                                             *)
(***************************************************************************)
EXTENDS Mercury, SequenceTheorems, FiniteSetTheorems, TLAPS

\* A message with something in each of its parts.
IsMessage(m) == m \in Payloads /\ m # <<>> /\ \A i \in 1 .. Len(m) : m[i] # <<>>

IsCursor(m, w, k) ==
  /\ w \in 0 .. Len(m) /\ k \in Nat
  /\ k > 0 => w < Len(m) /\ k < Len(m[w + 1])

Before(w, k, v, l) == w < v \/ (w = v /\ k < l)

\* What an entry holds of the part that is cut.
Partial(m, w, k) == IF k = 0 THEN <<>> ELSE SubSeq(m[w + 1], 1, k)

\* Of the i-th part from a cursor on, what is gone already.
Gone(k, i) == IF i = 1 THEN k ELSE 0

\* What is left of m after (w, k).
Rest(m, w, k) ==
  [i \in 1 .. Len(m) - w |-> SubSeq(m[w + i], Gone(k, i) + 1, Len(m[w + i]))]

\* The parts of a packet that goes from (w, k) to (v, l).
Count(w, v, l) == (v - w) + (IF l > 0 THEN 1 ELSE 0)
End(m, v, l, j) == IF j = v + 1 THEN l ELSE Len(m[j])
Stretch(m, w, k, v, l) ==
  [i \in 1 .. Count(w, v, l) |-> SubSeq(m[w + i], Gone(k, i) + 1, End(m, v, l, w + i))]

Flags(m, v, l) == IF v = Len(m) THEN 1 ELSE IF l > 0 THEN 2 ELSE 0

-----------------------------------------------------------------------------
\* Lemmas about sequences of chunks, and of parts.

LEMMA PayloadTypes ==
  ASSUME NEW m \in Payloads
  PROVE  /\ Len(m) \in Nat /\ DOMAIN m = 1 .. Len(m) /\ m \in [1 .. Len(m) -> Parts]
         /\ \A i \in 1 .. Len(m) : m[i] \in Parts /\ Len(m[i]) \in Nat
         /\ m # <<>> <=> Len(m) # 0
BY EmptySeq, LenProperties, ElementOfSeq DEF Payloads, Parts

LEMMA MessageTypes ==
  ASSUME NEW m, IsMessage(m)
  PROVE  /\ m \in Payloads /\ Len(m) \in Nat \ {0}
         /\ \A i \in 1 .. Len(m) : m[i] \in Parts /\ Len(m[i]) \in Nat \ {0}
<1>1. m \in Payloads /\ Len(m) \in Nat \ {0}
  BY PayloadTypes DEF IsMessage
<1>2. ASSUME NEW i \in 1 .. Len(m)
      PROVE  m[i] \in Parts /\ Len(m[i]) \in Nat \ {0}
  BY <1>1, PayloadTypes, EmptySeq DEF IsMessage, Parts
<1> QED
  BY <1>1, <1>2

LEMMA Slice ==
  ASSUME NEW s \in Parts, NEW a \in Nat \ {0}, NEW b \in Nat, b <= Len(s)
  PROVE  /\ SubSeq(s, a, b) \in Parts
         /\ Len(SubSeq(s, a, b)) = IF a <= b THEN b - a + 1 ELSE 0
<1>1. Len(s) \in Nat /\ \A i \in a .. b : s[i] \in Chunks
  BY LenProperties, ElementOfSeq DEF Parts
<1> QED
  BY <1>1, SubSeqProperties DEF Parts

LEMMA SliceOfSlice ==
  ASSUME NEW s \in Parts, NEW d \in Nat, NEW a \in Nat \ {0}, NEW b \in Nat, d + b <= Len(s)
  PROVE  SubSeq(SubSeq(s, d + 1, Len(s)), a, b) = SubSeq(s, d + a, d + b)
<1>1. Len(s) \in Nat
  BY LenProperties DEF Parts
<1>2. CASE b < a
  <2>1. d + b < d + a
    BY <1>2
  <2> QED
    BY <1>2, <2>1, SubSeqEmpty
<1>3. CASE a <= b
  <2>1. /\ d + 1 \in 1 .. Len(s) /\ Len(s) \in 1 .. Len(s)
        /\ a \in 1 .. Len(s) - (d + 1) + 1 /\ b \in 1 .. Len(s) - (d + 1) + 1
    BY <1>1, <1>3
  <2>2. SubSeq(SubSeq(s, d + 1, Len(s)), a, b) = SubSeq(s, (d + 1) + a - 1, (d + 1) + b - 1)
    BY <2>1, SubSeqOfSubSeq DEF Parts
  <2>3. (d + 1) + a - 1 = d + a /\ (d + 1) + b - 1 = d + b
    OBVIOUS
  <2> QED
    BY <2>2, <2>3
<1> QED
  BY <1>2, <1>3

LEMMA SlicesJoin ==
  ASSUME NEW s \in Parts, NEW d \in Nat, NEW b \in Nat, d <= b, b <= Len(s)
  PROVE  SubSeq(s, 1, d) \o SubSeq(s, d + 1, b) = SubSeq(s, 1, b)
<1>1. Len(s) \in Nat
  BY LenProperties DEF Parts
<1>2. 1 \in 1 .. Len(s) + 1 /\ d \in 1 - 1 .. Len(s) /\ b \in d .. Len(s)
  BY <1>1
<1> QED
  BY <1>2, ConcatAdjacentSubSeq DEF Parts

\* Two payloads with the same parts are the same.
LEMMA SamePayload ==
  ASSUME NEW p \in Payloads, NEW q \in Payloads, Len(p) = Len(q),
         \A i \in 1 .. Len(p) : p[i] = q[i]
  PROVE  p = q
BY SeqEqual DEF Payloads

LEMMA PartFunction ==
  ASSUME NEW n \in Nat, NEW f \in [1 .. n -> Chunks]
  PROVE  f \in Parts /\ Len(f) = n
<1>1. f \in Seq(Chunks)
  BY SeqDef
<1>2. DOMAIN f = 1 .. n /\ DOMAIN f = 1 .. Len(f) /\ Len(f) \in Nat
  BY <1>1, LenProperties
<1> QED
  BY <1>1, <1>2 DEF Parts

LEMMA PayloadFunction ==
  ASSUME NEW n \in Nat, NEW f \in [1 .. n -> Parts]
  PROVE  f \in Payloads /\ Len(f) = n
<1>1. f \in Seq(Parts)
  BY SeqDef
<1>2. DOMAIN f = 1 .. n /\ DOMAIN f = 1 .. Len(f) /\ Len(f) \in Nat
  BY <1>1, LenProperties
<1> QED
  BY <1>1, <1>2 DEF Payloads

\* s is the a-th to the b-th part of p.
IsSlice(s, p, a, b) ==
  /\ s \in Payloads
  /\ Len(s) = IF a <= b THEN b - a + 1 ELSE 0
  /\ \A i \in 1 .. b - a + 1 : s[i] = p[a + i - 1]

LEMMA PayloadSlice ==
  ASSUME NEW p \in Payloads, NEW a \in Nat \ {0}, NEW b \in Nat, b <= Len(p)
  PROVE  IsSlice(SubSeq(p, a, b), p, a, b)
<1>1. Len(p) \in Nat /\ \A i \in a .. b : p[i] \in Parts
  BY PayloadTypes
<1> QED
  BY <1>1, SubSeqProperties DEF Payloads, IsSlice

LEMMA OnePart ==
  ASSUME NEW p \in Parts
  PROVE  <<p>> \in Payloads /\ Len(<<p>>) = 1 /\ <<p>>[1] = p
BY DEF Payloads

LEMMA PayloadConcat ==
  ASSUME NEW p \in Payloads, NEW q \in Payloads
  PROVE  /\ p \o q \in Payloads /\ Len(p \o q) = Len(p) + Len(q)
         /\ \A i \in 1 .. Len(p) + Len(q) : (p \o q)[i] = IF i <= Len(p) THEN p[i] ELSE q[i - Len(p)]
BY ConcatProperties DEF Payloads

-----------------------------------------------------------------------------
\* Lemmas about cursors.

\* The parts from a cursor on.
LEMMA PartAfter ==
  ASSUME NEW m, IsMessage(m), NEW w, NEW k, IsCursor(m, w, k), NEW i \in 1 .. Len(m) - w
  PROVE  /\ w \in Nat /\ k \in Nat /\ w + i \in 1 .. Len(m)
         /\ m[w + i] \in Parts /\ Len(m[w + i]) \in Nat \ {0}
         /\ Gone(k, i) \in Nat /\ Gone(k, i) < Len(m[w + i])
<1>1. Len(m) \in Nat /\ w \in Nat /\ k \in Nat /\ w + i \in 1 .. Len(m)
  BY MessageTypes DEF IsCursor
<1>2. m[w + i] \in Parts /\ Len(m[w + i]) \in Nat \ {0}
  BY <1>1, MessageTypes
<1>3. CASE i = 1
  BY <1>1, <1>2, <1>3 DEF IsCursor, Gone
<1>4. CASE i # 1
  BY <1>1, <1>2, <1>4 DEF Gone
<1> QED
  BY <1>1, <1>2, <1>3, <1>4

\* What is left is a sequence of parts, and it is empty at the end only.
LEMMA RestIsLeft ==
  ASSUME NEW m, IsMessage(m), NEW w, NEW k, IsCursor(m, w, k)
  PROVE  /\ Rest(m, w, k) \in Payloads /\ Len(Rest(m, w, k)) = Len(m) - w
         /\ \A i \in 1 .. Len(m) - w :
              /\ Rest(m, w, k)[i] = SubSeq(m[w + i], Gone(k, i) + 1, Len(m[w + i]))
              /\ Len(Rest(m, w, k)[i]) = Len(m[w + i]) - Gone(k, i)
         /\ Rest(m, w, k) = <<>> <=> w = Len(m)
<1>1. w \in Nat /\ Len(m) - w \in Nat /\ Len(m) \in Nat
  BY MessageTypes DEF IsCursor
<1>2. ASSUME NEW i \in 1 .. Len(m) - w
      PROVE  LET p == SubSeq(m[w + i], Gone(k, i) + 1, Len(m[w + i]))
             IN p \in Parts /\ Len(p) = Len(m[w + i]) - Gone(k, i)
  <2> DEFINE g == Gone(k, i)
             q == m[w + i]
  <2>1. q \in Parts /\ Len(q) \in Nat /\ g \in Nat /\ g < Len(q)
    BY PartAfter
  <2> HIDE DEF g, q
  <2>2. SubSeq(q, g + 1, Len(q)) \in Parts
        /\ Len(SubSeq(q, g + 1, Len(q))) = IF g + 1 <= Len(q) THEN Len(q) - (g + 1) + 1 ELSE 0
    BY <2>1, Slice
  <2>3. Len(SubSeq(q, g + 1, Len(q))) = Len(q) - g
    BY <2>1, <2>2
  <2> QED
    BY <2>2, <2>3 DEF g, q
<1>3. Rest(m, w, k) \in [1 .. Len(m) - w -> Parts]
  BY <1>2 DEF Rest
<1>4. Rest(m, w, k) \in Payloads /\ Len(Rest(m, w, k)) = Len(m) - w
  BY <1>1, <1>3, PayloadFunction
<1>5. Rest(m, w, k) = <<>> <=> w = Len(m)
  BY <1>1, <1>4, PayloadTypes
<1> QED
  BY <1>2, <1>4, <1>5 DEF Rest

LEMMA StartCursor ==
  ASSUME NEW m, IsMessage(m)
  PROVE  /\ IsCursor(m, 0, 0) /\ Rest(m, 0, 0) = m /\ SubSeq(m, 1, 0) = <<>>
         /\ Partial(m, 0, 0) = <<>> /\ 0 # Len(m)
<1>1. IsCursor(m, 0, 0) /\ Len(m) \in Nat \ {0} /\ m \in Payloads
  BY MessageTypes DEF IsCursor
<1>2. Rest(m, 0, 0) \in Payloads /\ Len(Rest(m, 0, 0)) = Len(m)
  BY <1>1, RestIsLeft
<1>3. ASSUME NEW i \in 1 .. Len(m)
      PROVE  Rest(m, 0, 0)[i] = m[i]
  <2>1. m[i] \in Parts /\ 0 + i = i /\ i \in 1 .. Len(m) - 0 /\ Gone(0, i) = 0
    BY <1>1, MessageTypes DEF Gone
  <2>2. SubSeq(m[i], 1, Len(m[i])) = m[i]
    BY <2>1, SubSeqFull DEF Parts
  <2> QED
    BY <2>1, <2>2 DEF Rest
<1>4. Rest(m, 0, 0) = m
  BY <1>1, <1>2, <1>3, SamePayload
<1> QED
  BY <1>1, <1>4, SubSeqEmpty DEF Partial

\* A packet between two cursors.
LEMMA StretchIsSent ==
  ASSUME NEW m, IsMessage(m), NEW w, NEW k, IsCursor(m, w, k), NEW v, NEW l, IsCursor(m, v, l),
         Before(w, k, v, l)
  PROVE  /\ Stretch(m, w, k, v, l) \in Payloads
         /\ Count(w, v, l) \in Nat \ {0} /\ Count(w, v, l) <= Len(m) - w
         /\ Len(Stretch(m, w, k, v, l)) = Count(w, v, l)
         /\ \A i \in 1 .. Count(w, v, l) :
              /\ Gone(k, i) < End(m, v, l, w + i) /\ End(m, v, l, w + i) \in Nat
              /\ End(m, v, l, w + i) <= Len(m[w + i])
<1>1. /\ w \in Nat /\ v \in Nat /\ k \in Nat /\ l \in Nat /\ Len(m) \in Nat /\ w <= v /\ v <= Len(m)
      /\ l > 0 => v < Len(m) /\ l < Len(m[v + 1])
      /\ w = v => k < l
  BY MessageTypes DEF IsCursor, Before
<1>2. Count(w, v, l) \in Nat \ {0} /\ Count(w, v, l) <= Len(m) - w
  BY <1>1 DEF Count
<1>3. ASSUME NEW i \in 1 .. Count(w, v, l)
      PROVE  /\ Gone(k, i) < End(m, v, l, w + i) /\ End(m, v, l, w + i) \in Nat
             /\ End(m, v, l, w + i) <= Len(m[w + i])
  <2>1. i \in 1 .. Len(m) - w /\ i \in Nat \ {0}
    BY <1>1, <1>2
  <2>2. Gone(k, i) \in Nat /\ Gone(k, i) < Len(m[w + i]) /\ Len(m[w + i]) \in Nat
    BY <2>1, PartAfter
  <2>3. CASE w + i = v + 1
    <3>1. l > 0
      BY <1>1, <2>1, <2>3 DEF Count
    <3>2. End(m, v, l, w + i) = l /\ l < Len(m[w + i])
      BY <1>1, <2>3, <3>1 DEF End
    <3>3. Gone(k, i) < l
      BY <1>1, <2>1, <2>3, <3>1 DEF Gone
    <3> QED
      BY <1>1, <2>2, <3>2, <3>3
  <2>4. CASE w + i # v + 1
    BY <2>2, <2>4 DEF End
  <2> QED
    BY <2>3, <2>4
<1>4. ASSUME NEW i \in 1 .. Count(w, v, l)
      PROVE  SubSeq(m[w + i], Gone(k, i) + 1, End(m, v, l, w + i)) \in Parts
  <2>1. i \in 1 .. Len(m) - w
    BY <1>1, <1>2
  <2>2. m[w + i] \in Parts /\ Gone(k, i) + 1 \in Nat \ {0}
    BY <2>1, PartAfter
  <2> QED
    BY <1>3, <2>2, Slice
<1>5. Stretch(m, w, k, v, l) \in [1 .. Count(w, v, l) -> Parts]
  BY <1>4 DEF Stretch
<1>6. Stretch(m, w, k, v, l) \in Payloads /\ Len(Stretch(m, w, k, v, l)) = Count(w, v, l)
  BY <1>2, <1>5, PayloadFunction
<1> QED
  BY <1>2, <1>3, <1>6

\* Part by part, what is left and what a packet holds.
IsRest(rest, m, w, k) ==
  /\ rest \in Payloads /\ Len(rest) = Len(m) - w
  /\ w \in Nat /\ k \in Nat /\ Len(m) \in Nat /\ Len(rest) \in Nat /\ w <= Len(m)
  /\ \A i \in 1 .. Len(rest) :
       /\ rest[i] = SubSeq(m[w + i], Gone(k, i) + 1, Len(m[w + i]))
       /\ Len(rest[i]) = Len(m[w + i]) - Gone(k, i)
       /\ rest[i] \in Parts
       /\ m[w + i] \in Parts /\ Len(m[w + i]) \in Nat \ {0}
       /\ Gone(k, i) \in Nat /\ Gone(k, i) < Len(m[w + i])

IsStretch(s, m, w, k, v, l) ==
  /\ s \in Payloads /\ Len(s) = Count(w, v, l)
  /\ \A i \in 1 .. Len(s) : s[i] = SubSeq(m[w + i], Gone(k, i) + 1, End(m, v, l, w + i))

LEMMA RestParts ==
  ASSUME NEW m, IsMessage(m), NEW w, NEW k, IsCursor(m, w, k)
  PROVE  IsRest(Rest(m, w, k), m, w, k)
<1> DEFINE rest == Rest(m, w, k)
<1>1. Len(m) \in Nat /\ w \in Nat /\ k \in Nat /\ w <= Len(m)
  BY MessageTypes DEF IsCursor
<1>2. /\ rest \in Payloads /\ Len(rest) = Len(m) - w
      /\ \A i \in 1 .. Len(m) - w :
           /\ rest[i] = SubSeq(m[w + i], Gone(k, i) + 1, Len(m[w + i]))
           /\ Len(rest[i]) = Len(m[w + i]) - Gone(k, i)
  BY RestIsLeft
<1>3. \A i \in 1 .. Len(m) - w :
        /\ m[w + i] \in Parts /\ Len(m[w + i]) \in Nat \ {0}
        /\ Gone(k, i) \in Nat /\ Gone(k, i) < Len(m[w + i])
  BY PartAfter
<1>4. \A i \in 1 .. Len(rest) : rest[i] \in Parts
  BY <1>2, PayloadTypes
<1> HIDE DEF rest
<1>5. Len(rest) \in Nat
  BY <1>1, <1>2
<1>6. IsRest(rest, m, w, k)
  BY <1>1, <1>2, <1>3, <1>4, <1>5 DEF IsRest
<1> QED
  BY <1>6 DEF rest

LEMMA StretchParts ==
  ASSUME NEW m, IsMessage(m), NEW w, NEW k, IsCursor(m, w, k), NEW v, NEW l, IsCursor(m, v, l),
         Before(w, k, v, l)
  PROVE  IsStretch(Stretch(m, w, k, v, l), m, w, k, v, l)
<1> DEFINE s == Stretch(m, w, k, v, l)
<1>1. s \in Payloads /\ Len(s) = Count(w, v, l)
  BY StretchIsSent
<1>2. ASSUME NEW i \in 1 .. Count(w, v, l)
      PROVE  s[i] = SubSeq(m[w + i], Gone(k, i) + 1, End(m, v, l, w + i))
  BY DEF Stretch
<1> HIDE DEF s
<1>3. IsStretch(s, m, w, k, v, l)
  BY <1>1, <1>2 DEF IsStretch
<1> QED
  BY <1>3 DEF s

\* Sending `whole' parts of what is left leads from one cursor to another.
LEMMA SendWhole ==
  ASSUME NEW m, IsMessage(m), NEW w, NEW k, IsCursor(m, w, k), NEW rest, rest = Rest(m, w, k),
         NEW whole \in 1 .. Len(rest), NEW v, v = w + whole
  PROVE  /\ IsCursor(m, v, 0) /\ Before(w, k, v, 0)
         /\ Stretch(m, w, k, v, 0) = SubSeq(rest, 1, whole)
         /\ Rest(m, v, 0) = SubSeq(rest, whole + 1, Len(rest))
<1>0. IsRest(rest, m, w, k)
  BY RestParts
<1>1. /\ rest \in Payloads /\ Len(rest) = Len(m) - w
      /\ w \in Nat /\ k \in Nat /\ Len(m) \in Nat /\ Len(rest) \in Nat /\ w <= Len(m)
  BY <1>0 DEF IsRest
<1>2. \A i \in 1 .. Len(rest) : rest[i] = SubSeq(m[w + i], Gone(k, i) + 1, Len(m[w + i]))
  BY <1>0 DEF IsRest
<1>3. v \in Nat /\ v <= Len(m) /\ w < v
  BY <1>1
<1>4. IsCursor(m, v, 0) /\ Before(w, k, v, 0)
  BY <1>1, <1>3 DEF IsCursor, Before
<1>5. Stretch(m, w, k, v, 0) = SubSeq(rest, 1, whole)
  <2>1. Count(w, v, 0) = whole
    BY <1>1 DEF Count
  <2> DEFINE s == Stretch(m, w, k, v, 0)
             t == SubSeq(rest, 1, whole)
  <2>2. IsStretch(s, m, w, k, v, 0)
    BY <1>4, StretchParts
  <2>3. IsSlice(t, rest, 1, whole)
    BY <1>1, PayloadSlice
  <2> HIDE DEF s, t
  <2>4. ASSUME NEW i \in 1 .. whole
        PROVE  s[i] = t[i]
    <3>1. i \in 1 .. Len(rest) /\ w + i # v + 1 /\ 1 + i - 1 = i /\ i \in 1 .. whole - 1 + 1
      BY <1>1
    <3>2. s[i] = SubSeq(m[w + i], Gone(k, i) + 1, Len(m[w + i]))
      BY <2>1, <2>2, <3>1 DEF End, IsStretch
    <3>3. t[i] = rest[i]
      BY <2>3, <3>1 DEF IsSlice
    <3> QED
      BY <1>2, <3>1, <3>2, <3>3
  <2>5. s \in Payloads /\ t \in Payloads /\ Len(s) = whole /\ Len(t) = whole
    BY <2>1, <2>2, <2>3 DEF IsStretch, IsSlice
  <2> QED
    BY <2>4, <2>5, SamePayload DEF s, t
<1>6. Rest(m, v, 0) = SubSeq(rest, whole + 1, Len(rest))
  <2> DEFINE s == Rest(m, v, 0)
             t == SubSeq(rest, whole + 1, Len(rest))
  <2>1. IsRest(s, m, v, 0)
    BY <1>4, RestParts
  <2>2. whole + 1 \in Nat \ {0} /\ Len(rest) - (whole + 1) + 1 = Len(m) - v
    BY <1>1
  <2>3. IsSlice(t, rest, whole + 1, Len(rest))
    BY <1>1, <2>2, PayloadSlice
  <2> HIDE DEF s, t
  <2>4. s \in Payloads /\ Len(s) = Len(m) - v
    BY <2>1 DEF IsRest
  <2>5. t \in Payloads /\ Len(t) = Len(m) - v
    <3>1. t \in Payloads /\ Len(t) = IF whole + 1 <= Len(rest) THEN Len(rest) - (whole + 1) + 1 ELSE 0
      BY <2>3 DEF IsSlice
    <3>2. ~ whole + 1 <= Len(rest) => Len(m) - v = 0
      BY <1>1
    <3> QED
      BY <2>2, <3>1, <3>2
  <2>6. ASSUME NEW i \in 1 .. Len(s)
        PROVE  s[i] = t[i]
    <3>1. /\ whole + i \in 1 .. Len(rest) /\ w + (whole + i) = v + i /\ whole + i # 1
          /\ i \in 1 .. Len(rest) - (whole + 1) + 1 /\ whole + 1 + i - 1 = whole + i
      BY <1>1, <2>2, <2>4
    <3>2. Gone(k, whole + i) = 0 /\ Gone(0, i) = 0
      BY <3>1 DEF Gone
    <3>3. t[i] = rest[whole + i]
      BY <2>3, <3>1 DEF IsSlice
    <3>4. rest[whole + i] = SubSeq(m[v + i], 0 + 1, Len(m[v + i]))
      BY <1>2, <3>1, <3>2
    <3>5. s[i] = SubSeq(m[v + i], 0 + 1, Len(m[v + i]))
      BY <2>1, <3>2 DEF IsRest
    <3> QED
      BY <3>3, <3>4, <3>5
  <2> QED
    BY <2>4, <2>5, <2>6, SamePayload DEF s, t
<1> QED
  BY <1>4, <1>5, <1>6

\* p, which lacks the first g chunks of q, is cut in two.
IsCut(p, q, g, cut) ==
  /\ g + cut \in Nat /\ g + cut > g /\ g + cut < Len(q)
  /\ SubSeq(p, 1, cut) = SubSeq(q, g + 1, g + cut) /\ SubSeq(p, 1, cut) \in Parts
  /\ SubSeq(p, cut + 1, Len(p)) = SubSeq(q, (g + cut) + 1, Len(q))
  /\ SubSeq(p, cut + 1, Len(p)) \in Parts

LEMMA CutAgain ==
  ASSUME NEW q \in Parts, NEW g \in Nat, NEW p, p = SubSeq(q, g + 1, Len(q)), p \in Parts,
         Len(p) = Len(q) - g, NEW cut \in Nat, cut > 0, cut < Len(p)
  PROVE  IsCut(p, q, g, cut)
<1>1. Len(q) \in Nat /\ Len(p) \in Nat
  BY LenProperties DEF Parts
<1>2. g + cut \in Nat /\ g + cut > g /\ g + cut < Len(q) /\ g + cut <= Len(q)
  BY <1>1
<1>3. g + Len(p) = Len(q) /\ cut + 1 \in Nat \ {0} /\ g + (cut + 1) = (g + cut) + 1
  BY <1>1
<1>4. SubSeq(p, 1, cut) = SubSeq(q, g + 1, g + cut)
  BY <1>1, <1>2, SliceOfSlice
<1>5. SubSeq(p, cut + 1, Len(p)) = SubSeq(q, g + (cut + 1), g + Len(p))
  BY <1>1, <1>3, SliceOfSlice
<1>6. SubSeq(p, 1, cut) \in Parts /\ SubSeq(p, cut + 1, Len(p)) \in Parts
  <2>1. 1 \in Nat \ {0} /\ cut <= Len(p) /\ Len(p) <= Len(p)
    BY <1>1
  <2>2. SubSeq(p, 1, cut) \in Parts
    BY <2>1, Slice
  <2>3. SubSeq(p, cut + 1, Len(p)) \in Parts
    BY <1>1, <1>3, <2>1, Slice
  <2> QED
    BY <2>2, <2>3
<1> QED
  BY <1>2, <1>3, <1>4, <1>5, <1>6 DEF IsCut

\* parts and left are what a packet from (w, k) to (v, l) takes and leaves.
LeadsTo(m, w, k, v, l, parts, left) ==
  /\ IsCursor(m, v, l) /\ Before(w, k, v, l)
  /\ Stretch(m, w, k, v, l) = parts /\ Rest(m, v, l) = left

\* So does sending `cut' chunks of the next one as well.
LEMMA SendCut ==
  ASSUME NEW m, IsMessage(m), NEW w, NEW k, IsCursor(m, w, k), NEW rest, rest = Rest(m, w, k),
         NEW whole \in 0 .. Len(rest) - 1, NEW cut \in Nat \ {0}, cut < Len(rest[whole + 1]),
         NEW v, v = w + whole, NEW g, g = Gone(k, whole + 1), NEW l, l = g + cut
  PROVE  /\ l > 0
         /\ LeadsTo(m, w, k, v, l,
                    SubSeq(rest, 1, whole) \o <<SubSeq(rest[whole + 1], 1, cut)>>,
                    <<SubSeq(rest[whole + 1], cut + 1, Len(rest[whole + 1]))>>
                      \o SubSeq(rest, whole + 2, Len(rest)))
<1>0. IsRest(rest, m, w, k)
  BY RestParts
<1>1. /\ rest \in Payloads /\ Len(rest) = Len(m) - w
      /\ w \in Nat /\ k \in Nat /\ Len(m) \in Nat /\ Len(rest) \in Nat /\ w <= Len(m)
  BY <1>0 DEF IsRest
<1>2. \A i \in 1 .. Len(rest) : rest[i] = SubSeq(m[w + i], Gone(k, i) + 1, Len(m[w + i]))
  BY <1>0 DEF IsRest
<1>3. v \in Nat /\ v < Len(m) /\ w <= v /\ w + (whole + 1) = v + 1 /\ whole + 1 \in 1 .. Len(rest)
  BY <1>1
\* The part that is cut.
<1> DEFINE q == m[v + 1]
           p == rest[whole + 1]
<1>4. q \in Parts /\ Len(q) \in Nat /\ g \in Nat /\ p = SubSeq(q, g + 1, Len(q)) /\ p \in Parts
      /\ Len(p) = Len(q) - g
  BY <1>0, <1>3 DEF IsRest
<1> HIDE DEF p, q
<1> DEFINE bit == SubSeq(p, 1, cut)
           over == SubSeq(p, cut + 1, Len(p))
<1>5. /\ l \in Nat /\ l > g /\ l < Len(q)
      /\ bit = SubSeq(q, g + 1, l) /\ bit \in Parts
      /\ over = SubSeq(q, l + 1, Len(q)) /\ over \in Parts
  <2>1. cut < Len(p) /\ cut \in Nat /\ cut > 0
    BY DEF p
  <2>2. q \in Parts /\ g \in Nat /\ p = SubSeq(q, g + 1, Len(q)) /\ p \in Parts
        /\ Len(p) = Len(q) - g
    BY <1>4
  <2>3. IsCut(p, q, g, cut)
    BY <2>1, <2>2, CutAgain
  <2>4. l = g + cut
    OBVIOUS
  <2> HIDE DEF p, q
  <2> QED
    BY <2>3, <2>4 DEF IsCut
<1> HIDE DEF bit, over
<1>6. IsCursor(m, v, l) /\ Before(w, k, v, l) /\ l > 0
  <2>1. w = v => k < l
    BY <1>1, <1>5 DEF Gone
  <2>2. l \in Nat /\ l > 0 /\ l < Len(m[v + 1])
    BY <1>4, <1>5 DEF q
  <2>3. IsCursor(m, v, l)
    BY <1>1, <1>3, <2>2 DEF IsCursor
  <2>4. Before(w, k, v, l)
    BY <1>1, <1>3, <2>1 DEF Before
  <2> QED
    BY <2>2, <2>3, <2>4
<1>7. bit = SubSeq(q, g + 1, l) /\ bit \in Parts
  BY <1>5
<1>8. over = SubSeq(q, l + 1, Len(q)) /\ over \in Parts
  BY <1>5
<1>9. <<bit>> \in Payloads /\ Len(<<bit>>) = 1 /\ <<bit>>[1] = bit
  BY <1>7, OnePart
<1>10. <<over>> \in Payloads /\ Len(<<over>>) = 1 /\ <<over>>[1] = over
  BY <1>8, OnePart
<1>11. Stretch(m, w, k, v, l) = SubSeq(rest, 1, whole) \o <<bit>>
  <2>1. Count(w, v, l) = whole + 1
    <3>1. v - w = whole /\ l > 0
      BY <1>1, <1>6
    <3> QED
      BY <3>1 DEF Count
  <2> DEFINE s == Stretch(m, w, k, v, l)
             t == SubSeq(rest, 1, whole)
             u == t \o <<bit>>
  <2>2. IsStretch(s, m, w, k, v, l)
    BY <1>6, StretchParts
  <2>3. IsSlice(t, rest, 1, whole)
    BY <1>1, PayloadSlice
  <2> HIDE DEF s, t
  <2>4. t \in Payloads /\ Len(t) = whole /\ \A i \in 1 .. whole : t[i] = rest[i]
    BY <2>3 DEF IsSlice
  <2>5. u \in Payloads /\ Len(u) = Len(t) + Len(<<bit>>)
        /\ \A i \in 1 .. Len(t) + Len(<<bit>>) :
             u[i] = IF i <= Len(t) THEN t[i] ELSE <<bit>>[i - Len(t)]
    BY <1>9, <2>4, PayloadConcat
  <2> HIDE DEF u
  <2>6. s \in Payloads /\ Len(s) = whole + 1
    BY <2>1, <2>2 DEF IsStretch
  <2>7. u \in Payloads /\ Len(u) = whole + 1
    BY <1>9, <2>4, <2>5
  <2>8. ASSUME NEW i \in 1 .. Len(s)
        PROVE  s[i] = u[i]
    <3>1. s[i] = SubSeq(m[w + i], Gone(k, i) + 1, End(m, v, l, w + i))
      BY <2>2 DEF IsStretch
    <3>2. CASE i <= whole
      <4>1. i \in 1 .. Len(rest) /\ w + i # v + 1 /\ i \in 1 .. whole
        BY <1>1, <2>6, <3>2
      <4>2. s[i] = rest[i]
        BY <1>2, <3>1, <4>1 DEF End
      <4>3. u[i] = t[i]
        BY <1>9, <2>4, <2>5, <2>6, <3>2
      <4> QED
        BY <2>4, <4>1, <4>2, <4>3
    <3>3. CASE i = whole + 1
      <4>1. s[i] = SubSeq(q, g + 1, l)
        BY <1>3, <3>1, <3>3 DEF End, q
      <4>2. u[i] = bit
        BY <1>9, <2>4, <2>5, <3>3
      <4> QED
        BY <1>7, <4>1, <4>2
    <3> QED
      BY <2>6, <3>2, <3>3
  <2> QED
    BY <2>6, <2>7, <2>8, SamePayload DEF s, t, u
<1>12. Rest(m, v, l) = <<over>> \o SubSeq(rest, whole + 2, Len(rest))
  <2> DEFINE s == Rest(m, v, l)
             t == SubSeq(rest, whole + 2, Len(rest))
             u == <<over>> \o t
  <2>1. IsRest(s, m, v, l)
    BY <1>6, RestParts
  <2>2. IsSlice(t, rest, whole + 2, Len(rest))
    <3>1. whole + 2 \in Nat \ {0}
      BY <1>1
    <3> QED
      BY <1>1, <3>1, PayloadSlice
  <2> HIDE DEF s, t
  <2>3. s \in Payloads /\ Len(s) = Len(m) - v
    BY <2>1 DEF IsRest
  <2>4. t \in Payloads /\ Len(t) = Len(m) - v - 1
        /\ \A i \in 2 .. Len(m) - v : t[i - 1] = rest[whole + i]
    <3>1. t \in Payloads /\ Len(t) = IF whole + 2 <= Len(rest) THEN Len(rest) - (whole + 2) + 1 ELSE 0
      BY <2>2 DEF IsSlice
    <3>2. \A i \in 1 .. Len(rest) - (whole + 2) + 1 : t[i] = rest[whole + 2 + i - 1]
      BY <2>2 DEF IsSlice
    <3>3. Len(rest) - (whole + 2) + 1 = Len(m) - v - 1
      BY <1>1
    <3>4. ~ whole + 2 <= Len(rest) => Len(m) - v - 1 = 0
      BY <1>1
    <3>5. ASSUME NEW i \in 2 .. Len(m) - v
          PROVE  t[i - 1] = rest[whole + i]
      <4>1. i - 1 \in 1 .. Len(rest) - (whole + 2) + 1 /\ whole + 2 + (i - 1) - 1 = whole + i
        BY <1>1, <1>3, <3>3
      <4> QED
        BY <3>2, <4>1
    <3> QED
      BY <3>1, <3>3, <3>4, <3>5
  <2>5. u \in Payloads /\ Len(u) = Len(<<over>>) + Len(t)
        /\ \A i \in 1 .. Len(<<over>>) + Len(t) :
             u[i] = IF i <= Len(<<over>>) THEN <<over>>[i] ELSE t[i - Len(<<over>>)]
    BY <1>10, <2>4, PayloadConcat
  <2> HIDE DEF u
  <2>6. u \in Payloads /\ Len(u) = Len(m) - v /\ Len(m) - v \in Nat
    BY <1>1, <1>3, <1>10, <2>4, <2>5
  <2>7. ASSUME NEW i \in 1 .. Len(s)
        PROVE  s[i] = u[i]
    <3>1. s[i] = SubSeq(m[v + i], Gone(l, i) + 1, Len(m[v + i]))
      BY <2>1 DEF IsRest
    <3>2. CASE i = 1
      <4>1. s[i] = SubSeq(q, l + 1, Len(q))
        BY <3>1, <3>2 DEF Gone, q
      <4>2. u[i] = over
        <5>1. i \in 1 .. Len(<<over>>) + Len(t) /\ i <= Len(<<over>>)
          BY <1>10, <2>3, <2>5, <2>6, <3>2
        <5> QED
          BY <1>10, <2>5, <3>2, <5>1
      <4> QED
        BY <1>8, <4>1, <4>2
    <3>3. CASE i # 1
      <4>1. /\ whole + i \in 1 .. Len(rest) /\ w + (whole + i) = v + i /\ whole + i # 1
            /\ i \in 2 .. Len(m) - v
        BY <1>1, <1>3, <2>3, <3>3
      <4>2. Gone(k, whole + i) = 0 /\ Gone(l, i) = 0
        BY <3>3, <4>1 DEF Gone
      <4>3. s[i] = rest[whole + i]
        BY <1>2, <3>1, <4>1, <4>2
      <4>4. u[i] = t[i - 1]
        <5>1. i \in 1 .. Len(<<over>>) + Len(t) /\ ~ i <= Len(<<over>>) /\ i - Len(<<over>>) = i - 1
          BY <1>10, <2>3, <2>5, <2>6, <3>3
        <5> QED
          BY <2>5, <5>1
      <4> QED
        BY <2>4, <4>1, <4>3, <4>4
    <3> QED
      BY <3>2, <3>3
  <2> QED
    BY <2>3, <2>6, <2>7, SamePayload DEF s, t, u
<1> QED
  BY <1>6, <1>11, <1>12 DEF bit, over, p, LeadsTo

-----------------------------------------------------------------------------
\* What an entry holds at a cursor.
IsHeld(entry, m, w, k) == entry.parts = SubSeq(m, 1, w) /\ entry.partial = Partial(m, w, k)

LEMMA PartsAdded ==
  ASSUME NEW m \in Payloads, NEW w \in Nat, NEW v \in Nat, w <= v, v <= Len(m),
         NEW t \in Payloads, Len(t) = v - w, \A i \in 1 .. v - w : t[i] = m[w + i]
  PROVE  SubSeq(m, 1, w) \o t = SubSeq(m, 1, v)
<1> DEFINE p == SubSeq(m, 1, w)
           q == SubSeq(m, 1, v)
           u == p \o t
<1>0. Len(m) \in Nat /\ w <= Len(m)
  BY PayloadTypes
<1>1. IsSlice(p, m, 1, w)
  BY <1>0, PayloadSlice
<1>2. IsSlice(q, m, 1, v)
  BY PayloadSlice
<1> HIDE DEF p, q
<1>3. p \in Payloads /\ Len(p) = w /\ \A i \in 1 .. w : p[i] = m[i]
  BY <1>1 DEF IsSlice
<1>4. q \in Payloads /\ Len(q) = v /\ \A i \in 1 .. v : q[i] = m[i]
  BY <1>2 DEF IsSlice
<1>5. u \in Payloads /\ Len(u) = Len(p) + Len(t)
      /\ \A i \in 1 .. Len(p) + Len(t) : u[i] = IF i <= Len(p) THEN p[i] ELSE t[i - Len(p)]
  BY <1>3, PayloadConcat
<1> HIDE DEF u
<1>6. Len(p) + Len(t) = v
  BY <1>3
<1>7. ASSUME NEW i \in 1 .. v
      PROVE  u[i] = q[i]
  <2>1. CASE i <= w
    <3>1. i \in 1 .. w
      BY <2>1
    <3>2. u[i] = p[i]
      BY <1>3, <1>5, <1>6, <2>1
    <3>3. p[i] = m[i] /\ q[i] = m[i]
      BY <1>3, <1>4, <3>1
    <3> QED
      BY <3>2, <3>3
  <2>2. CASE ~ i <= w
    <3>1. i - w \in 1 .. v - w /\ w + (i - w) = i
      BY <2>2
    <3>2. u[i] = t[i - w]
      BY <1>3, <1>5, <1>6, <2>2
    <3>3. t[i - w] = m[w + (i - w)]
      BY <3>1
    <3> QED
      BY <1>4, <3>1, <3>2, <3>3
  <2> QED
    BY <2>1, <2>2
<1> QED
  BY <1>4, <1>5, <1>6, <1>7, SamePayload DEF p, q, u

\* The parts of a packet, the first of them put together with what was partial.
IsJoined(joined, m, w, v, l) ==
  /\ Count(w, v, l) \in Nat \ {0}
  /\ joined \in Payloads /\ Len(joined) = Count(w, v, l)
  /\ \A i \in 1 .. Count(w, v, l) : joined[i] = SubSeq(m[w + i], 1, End(m, v, l, w + i))

LEMMA PartsJoined ==
  ASSUME NEW m, IsMessage(m), NEW w, NEW k, IsCursor(m, w, k), NEW v, NEW l, IsCursor(m, v, l),
         Before(w, k, v, l), NEW s, s = Stretch(m, w, k, v, l),
         NEW joined, joined = [s EXCEPT ![1] = Partial(m, w, k) \o @]
  PROVE  IsJoined(joined, m, w, v, l)
<1> DEFINE n == Count(w, v, l)
<1>1. IsStretch(s, m, w, k, v, l)
  BY StretchParts
<1>2. n \in Nat \ {0} /\ n <= Len(m) - w
  BY StretchIsSent
<1>3. s \in Payloads /\ Len(s) = n
      /\ \A i \in 1 .. n : s[i] = SubSeq(m[w + i], Gone(k, i) + 1, End(m, v, l, w + i))
  BY <1>1 DEF IsStretch
<1>4. Len(m) \in Nat /\ w \in Nat /\ k \in Nat /\ 1 \in 1 .. n /\ 1 \in 1 .. Len(m) - w
  BY <1>2, MessageTypes DEF IsCursor
<1> DEFINE e == End(m, v, l, w + 1)
           q == m[w + 1]
<1>5. q \in Parts /\ Len(q) \in Nat /\ Gone(k, 1) = k /\ k < e /\ e \in Nat /\ e <= Len(q)
  <2>1. q \in Parts /\ Len(q) \in Nat
    BY <1>4, PartAfter
  <2>2. Gone(k, 1) < e /\ e \in Nat /\ e <= Len(q)
    BY <1>4, StretchIsSent
  <2> QED
    BY <2>1, <2>2 DEF Gone
<1>6. Partial(m, w, k) = SubSeq(q, 1, k)
  <2>1. CASE k = 0
    BY <2>1, SubSeqEmpty DEF Partial
  <2>2. CASE k # 0
    BY <2>2 DEF Partial
  <2> QED
    BY <2>1, <2>2
<1>7. s[1] = SubSeq(q, k + 1, e)
  BY <1>3, <1>4, <1>5
<1> HIDE DEF e, q
<1>8. Partial(m, w, k) \o s[1] = SubSeq(q, 1, e) /\ SubSeq(q, 1, e) \in Parts
  <2>1. SubSeq(q, 1, k) \o SubSeq(q, k + 1, e) = SubSeq(q, 1, e)
    BY <1>4, <1>5, SlicesJoin
  <2>2. SubSeq(q, 1, e) \in Parts
    BY <1>5, Slice
  <2> QED
    BY <1>6, <1>7, <2>1, <2>2
<1>9. joined = [s EXCEPT ![1] = SubSeq(q, 1, e)]
  BY <1>8
<1>10. s \in [1 .. n -> Parts]
  BY <1>3, PayloadTypes
<1>11. joined \in [1 .. n -> Parts]
  BY <1>8, <1>9, <1>10
<1>12. joined \in Payloads /\ Len(joined) = n
  BY <1>2, <1>11, PayloadFunction
<1>13. ASSUME NEW i \in 1 .. n
       PROVE  joined[i] = SubSeq(m[w + i], 1, End(m, v, l, w + i))
  <2>1. CASE i = 1
    BY <1>9, <1>10, <2>1 DEF e, q
  <2>2. CASE i # 1
    <3>1. joined[i] = s[i] /\ Gone(k, i) + 1 = 1
      BY <1>9, <1>10, <2>2 DEF Gone
    <3> QED
      BY <1>3, <3>1
  <2> QED
    BY <2>1, <2>2
<1> QED
  BY <1>2, <1>12, <1>13 DEF IsJoined

\* AddParts moves an entry from one cursor to the next.
LEMMA EntryGrows ==
  ASSUME NEW m, IsMessage(m), NEW w, NEW k, IsCursor(m, w, k), NEW v, NEW l, IsCursor(m, v, l),
         Before(w, k, v, l), NEW entry \in Entries, IsHeld(entry, m, w, k),
         NEW packet, packet.parts = Stretch(m, w, k, v, l), packet.flags = Flags(m, v, l)
  PROVE  /\ AddParts(entry, packet) \in Entries
         /\ IsHeld(AddParts(entry, packet), m, v, l)
         /\ AddParts(entry, packet).callback = entry.callback
<1> DEFINE s == packet.parts
           joined == [s EXCEPT ![1] = entry.partial \o @]
           n == Len(s)
           grown == AddParts(entry, packet)
<1>1. joined = [s EXCEPT ![1] = Partial(m, w, k) \o @]
  BY DEF IsHeld
<1>2. /\ s \in Payloads /\ Len(s) = Count(w, v, l) /\ n \in Nat \ {0}
      /\ joined \in Payloads /\ Len(joined) = n
      /\ \A i \in 1 .. n : joined[i] = SubSeq(m[w + i], 1, End(m, v, l, w + i))
  <2>1. s \in Payloads /\ n = Count(w, v, l)
    BY StretchIsSent
  <2>2. IsJoined([s EXCEPT ![1] = Partial(m, w, k) \o @], m, w, v, l)
    BY PartsJoined
  <2>3. IsJoined(joined, m, w, v, l)
    BY <1>1, <2>2
  <2> HIDE DEF joined, n
  <2> QED
    BY <2>1, <2>3 DEF IsJoined, n
<1>3. /\ m \in Payloads /\ Len(m) \in Nat /\ w \in Nat /\ v \in Nat /\ l \in Nat /\ w <= v /\ v <= Len(m)
      /\ l > 0 => v < Len(m)
  BY MessageTypes DEF IsCursor, Before
<1>4. grown = IF packet.flags = 2
              THEN [entry EXCEPT !.parts = @ \o SubSeq(joined, 1, n - 1), !.partial = joined[n]]
              ELSE [entry EXCEPT !.parts = @ \o joined, !.partial = <<>>]
  BY <1>2 DEF AddParts
<1>5. entry.parts = SubSeq(m, 1, w)
  BY DEF IsHeld
<1>6. IsSlice(SubSeq(m, 1, v), m, 1, v)
  BY <1>3, PayloadSlice
<1>7. SubSeq(m, 1, v) \in Payloads
  BY <1>6 DEF IsSlice
<1>8. ASSUME NEW i \in 1 .. v - w, i <= n
      PROVE  joined[i] = m[w + i]
  <2>1. w + i # v + 1 /\ w + i \in 1 .. Len(m) /\ i \in 1 .. n
    BY <1>2, <1>3, <1>8
  <2>2. m[w + i] \in Parts
    BY <1>3, <2>1, PayloadTypes
  <2>3. joined[i] = SubSeq(m[w + i], 1, Len(m[w + i]))
    BY <1>2, <2>1 DEF End
  <2> QED
    BY <2>2, <2>3, SubSeqFull DEF Parts
<1> HIDE DEF joined, n, grown
<1>9. CASE l = 0
  <2>1. packet.flags # 2 /\ n = v - w
    BY <1>2, <1>3, <1>9 DEF Flags, Count, n
  <2>2. entry.parts \o joined = SubSeq(m, 1, v)
    BY <1>2, <1>3, <1>5, <1>8, <2>1, PartsAdded
  <2>3. grown = [entry EXCEPT !.parts = SubSeq(m, 1, v), !.partial = <<>>]
    BY <1>4, <2>1, <2>2
  <2>4. <<>> \in Parts
    BY DEF Parts
  <2> QED
    BY <1>7, <1>9, <2>3, <2>4 DEF Entries, IsHeld, Partial, grown
<1>10. CASE l > 0
  <2>1. packet.flags = 2 /\ n = (v - w) + 1 /\ n - 1 \in Nat /\ n - 1 = v - w
    BY <1>2, <1>3, <1>10 DEF Flags, Count, n
  <2>2. IsSlice(SubSeq(joined, 1, n - 1), joined, 1, n - 1)
    BY <1>2, <2>1, PayloadSlice
  <2> DEFINE t == SubSeq(joined, 1, n - 1)
  <2> HIDE DEF t
  <2>3. t \in Payloads /\ Len(t) = v - w /\ \A i \in 1 .. v - w : t[i] = joined[i]
    <3>1. IsSlice(t, joined, 1, v - w)
      BY <2>1, <2>2 DEF t
    <3>2. (v - w) - 1 + 1 = v - w /\ (1 <= v - w \/ v - w = 0) /\ v - w \in Nat
      BY <1>3
    <3> QED
      BY <3>1, <3>2 DEF IsSlice
  <2>4. \A i \in 1 .. v - w : t[i] = m[w + i]
    BY <1>8, <2>1, <2>3
  <2>5. entry.parts \o t = SubSeq(m, 1, v)
    BY <1>3, <1>5, <2>3, <2>4, PartsAdded
  <2>6. joined[n] = Partial(m, v, l) /\ Partial(m, v, l) \in Parts
    <3>1. n \in 1 .. n /\ w + n = v + 1
      BY <1>3, <2>1
    <3>2. joined[n] = SubSeq(m[v + 1], 1, l)
      BY <1>2, <3>1 DEF End, n
    <3>3. Partial(m, v, l) = SubSeq(m[v + 1], 1, l)
      BY <1>3, <1>10 DEF Partial
    <3>4. joined[n] \in Parts
      BY <1>2, <3>1, PayloadTypes
    <3> QED
      BY <3>2, <3>3, <3>4
  <2>7. grown = [entry EXCEPT !.parts = SubSeq(m, 1, v), !.partial = Partial(m, v, l)]
    BY <1>4, <2>1, <2>5, <2>6 DEF t
  <2> QED
    BY <1>7, <2>6, <2>7 DEF Entries, IsHeld, grown
<1> QED
  BY <1>3, <1>9, <1>10

-----------------------------------------------------------------------------
\* The inductive invariant.

Packets ==
  [seq : Conversations, cmd : {"reply", "event"}, parts : Payloads, flags : {0, 1, 2}]

\* A packet moves the message m of conversation c from (w, k) to (v, l), if it is
\* one of its packets, and leaves it where it is if not.
Moves(packet, c, cmd, m, w, k, v, l) ==
  IF packet.seq = c
  THEN /\ Before(w, k, v, l)
       /\ packet.cmd = cmd
       /\ packet.parts = Stretch(m, w, k, v, l)
       /\ packet.flags = Flags(m, v, l)
  ELSE v = w /\ l = k

\* (ws[i], ks[i]) is where m is when i of the packets have been taken off the wire.
\* It is at its end when neither a packet nor anything unsent is left of it.
IsPath(packets, rest, c, cmd, m, ws, ks) ==
  /\ \A i \in 0 .. Len(packets) : IsCursor(m, ws[i], ks[i])
  /\ \A i \in 1 .. Len(packets) :
       Moves(packets[i], c, cmd, m, ws[i - 1], ks[i - 1], ws[i], ks[i])
  /\ rest = Rest(m, ws[Len(packets)], ks[Len(packets)])
  /\ \A i \in 0 .. Len(packets) :
       ws[i] = Len(m) <=> rest = <<>> /\ \A j \in i + 1 .. Len(packets) : packets[j].seq # c

\* What `pending' has for c when m is at (w, k): an entry that holds what has gone
\* by.  There is none after the end, nor before the first packet of an event.
IsStored(entry, c, m, w, k) ==
  /\ w = Len(m) => entry = None
  /\ w # Len(m) /\ entry = None => c \notin Requests /\ w = 0 /\ k = 0
  /\ entry # None =>
       entry \in Entries /\ IsHeld(entry, m, w, k) /\ entry.callback = (c \in Requests)

\* The entry, the packets and what is unsent are all of m, each piece once.
Carried(packets, rest, entry, c, cmd, m) ==
  \E ws, ks \in [0 .. Len(packets) -> Nat] :
    IsPath(packets, rest, c, cmd, m, ws, ks) /\ IsStored(entry, c, m, ws[0], ks[0])

\* A conversation the access point has said nothing in yet.
Silent(c) ==
  /\ unsent[c] = <<>>
  /\ \A i \in 1 .. Len(wire) : wire[i].seq # c
  /\ pending[c] = IF c \in Requests /\ c < sequence THEN NewPending(TRUE) ELSE None

MessageOK(c, message) ==
  /\ IsMessage(message.parts) /\ message.parts[1][1].of = c
  /\ c \in Requests => c < sequence /\ message.cmd = "reply"
  /\ c \notin Requests => message.cmd = "event" /\ message.status = "ok"

TypeOK ==
  /\ sequence \in 0 .. MaxRequests
  /\ pending \in [Conversations -> Entries \cup {None}]
  /\ panicked = FALSE
  /\ asks \in [Requests -> Asks \cup {None}]
  /\ future \in [Requests -> {"none", "waiting", "ok", "error", "taken", "dropped", "panicked"}]
  /\ answer \in [Requests -> Results \cup {None}]
  /\ messages \in [Conversations -> Messages \cup {None}]
  /\ unsent \in [Conversations -> Payloads]
  /\ wire \in Seq(Packets)

\* A request that was made has what was asked; it is answered only once.
CallersOK ==
  \A c \in Requests :
    /\ c < sequence => asks[c] \in Asks
    /\ c >= sequence => future[c] = "none"
    /\ future[c] \in {"none", "waiting"} => answer[c] = None

Conversing ==
  \A c \in Conversations :
    IF messages[c] = None THEN Silent(c)
    ELSE /\ MessageOK(c, messages[c])
         /\ Carried(wire, unsent[c], pending[c], c, messages[c].cmd, messages[c].parts)

MercuryInv == TypeOK /\ CallersOK /\ Conversing

-----------------------------------------------------------------------------
\* Lemmas about paths: a packet put on the wire, and one taken off it.

IsAppended(longer, packets, packet) ==
  /\ longer \in Seq(Packets) /\ Len(longer) = Len(packets) + 1
  /\ \A i \in 1 .. Len(packets) : longer[i] = packets[i]
  /\ longer[Len(packets) + 1] = packet

LEMMA PacketAppended ==
  ASSUME NEW packets \in Seq(Packets), NEW packet \in Packets
  PROVE  IsAppended(Append(packets, packet), packets, packet)
BY AppendProperties DEF IsAppended

IsTail(shorter, packets) ==
  /\ shorter \in Seq(Packets) /\ Len(shorter) = Len(packets) - 1
  /\ \A i \in 1 .. Len(packets) - 1 : shorter[i] = packets[i + 1]
  /\ Len(packets) \in Nat \ {0} /\ Head(packets) = packets[1] /\ packets[1] \in Packets

LEMMA PacketTaken ==
  ASSUME NEW packets \in Seq(Packets), packets # <<>>
  PROVE  IsTail(Tail(packets), packets)
<1>1. Len(packets) \in Nat \ {0}
  BY EmptySeq, LenProperties
<1>2. packets[1] \in Packets
  BY <1>1, ElementOfSeq
<1>3. Tail(packets) \in Seq(Packets) /\ Len(Tail(packets)) = Len(packets) - 1
      /\ \A i \in 1 .. Len(packets) - 1 : Tail(packets)[i] = packets[i + 1]
      /\ Head(packets) = packets[1]
  BY HeadTailProperties
<1> QED
  BY <1>1, <1>2, <1>3 DEF IsTail

\* xs and ys go on after ws and ks, which end at n, with v and l.
GoesOn(xs, ys, ws, ks, n, v, l) ==
  /\ \A i \in 0 .. n : xs[i] = ws[i] /\ ys[i] = ks[i]
  /\ xs[n + 1] = v /\ ys[n + 1] = l

LEMMA PathGoesOn ==
  ASSUME NEW packets \in Seq(Packets), NEW packet \in Packets,
         NEW longer, IsAppended(longer, packets, packet),
         NEW m, IsMessage(m), NEW c, NEW cmd, NEW rest, NEW left,
         NEW ws, NEW ks, IsPath(packets, rest, c, cmd, m, ws, ks),
         NEW v, NEW l, IsCursor(m, v, l), left = Rest(m, v, l),
         Moves(packet, c, cmd, m, ws[Len(packets)], ks[Len(packets)], v, l),
         packet.seq = c => rest # <<>>, packet.seq # c => left = rest,
         NEW xs, NEW ys, GoesOn(xs, ys, ws, ks, Len(packets), v, l)
  PROVE  IsPath(longer, left, c, cmd, m, xs, ys)
<1> DEFINE n == Len(packets)
<1>1. n \in Nat
  BY LenProperties
<1>2. /\ Len(longer) = n + 1 /\ longer[n + 1] = packet
      /\ \A i \in 1 .. n : longer[i] = packets[i]
  BY DEF IsAppended
<1>3. /\ \A i \in 0 .. n : xs[i] = ws[i] /\ ys[i] = ks[i]
      /\ xs[n + 1] = v /\ ys[n + 1] = l
  BY DEF GoesOn
<1>4. /\ \A i \in 0 .. n : IsCursor(m, ws[i], ks[i])
      /\ \A i \in 1 .. n : Moves(packets[i], c, cmd, m, ws[i - 1], ks[i - 1], ws[i], ks[i])
      /\ rest = Rest(m, ws[n], ks[n])
      /\ \A i \in 0 .. n :
           ws[i] = Len(m) <=> rest = <<>> /\ \A j \in i + 1 .. n : packets[j].seq # c
  BY DEF IsPath
<1>5. ASSUME NEW i \in 0 .. n + 1
      PROVE  IsCursor(m, xs[i], ys[i])
  <2>1. CASE i \in 0 .. n
    BY <1>3, <1>4, <2>1
  <2>2. CASE i = n + 1
    BY <1>3, <2>2
  <2> QED
    BY <1>1, <2>1, <2>2
<1>6. ASSUME NEW i \in 1 .. n + 1
      PROVE  Moves(longer[i], c, cmd, m, xs[i - 1], ys[i - 1], xs[i], ys[i])
  <2>1. CASE i \in 1 .. n
    <3>1. i - 1 \in 0 .. n /\ i \in 0 .. n
      BY <1>1, <2>1
    <3> QED
      BY <1>2, <1>3, <1>4, <2>1, <3>1
  <2>2. CASE i = n + 1
    <3>1. i - 1 = n /\ n \in 0 .. n
      BY <1>1, <2>2
    <3>2. xs[i - 1] = ws[n] /\ ys[i - 1] = ks[n] /\ xs[i] = v /\ ys[i] = l
      BY <1>3, <2>2, <3>1
    <3>3. longer[i] = packet
      BY <1>2, <2>2
    <3> QED
      BY <3>2, <3>3
  <2>3. i \in 1 .. n \/ i = n + 1
    BY <1>1
  <2> QED
    BY <2>1, <2>2, <2>3
<1>7. v = Len(m) <=> left = <<>>
  BY RestIsLeft
<1>8. ASSUME NEW i \in 0 .. n + 1
      PROVE  xs[i] = Len(m) <=> left = <<>> /\ \A j \in i + 1 .. n + 1 : longer[j].seq # c
  <2>1. CASE i = n + 1
    <3>1. i + 1 .. n + 1 = {}
      BY <1>1, <2>1
    <3> QED
      BY <1>3, <1>7, <2>1, <3>1
  <2>2. CASE i \in 0 .. n /\ packet.seq = c
    <3>1. xs[i] # Len(m)
      BY <1>3, <1>4, <2>2
    <3>2. n + 1 \in i + 1 .. n + 1
      BY <1>1, <2>2
    <3> QED
      BY <1>2, <2>2, <3>1, <3>2
  <2>3. CASE i \in 0 .. n /\ packet.seq # c
    <3>1. xs[i] = Len(m) <=> left = <<>> /\ \A j \in i + 1 .. n : packets[j].seq # c
      BY <1>3, <1>4, <2>3
    <3>2. i + 1 .. n + 1 = (i + 1 .. n) \cup {n + 1} /\ i + 1 .. n \subseteq 1 .. n
      BY <1>1, <2>3
    <3>3. (\A j \in i + 1 .. n : packets[j].seq # c) <=> \A j \in i + 1 .. n + 1 : longer[j].seq # c
      BY <1>2, <2>3, <3>2
    <3> QED
      BY <3>1, <3>3
  <2> QED
    BY <1>1, <2>1, <2>2, <2>3
<1> QED
  BY <1>2, <1>3, <1>5, <1>6, <1>8 DEF IsPath

\* xs and ys are ws and ks, which end at n, without their first elements.
Shifted(xs, ys, ws, ks, n) ==
  \A i \in 0 .. n - 1 : xs[i] = ws[i + 1] /\ ys[i] = ks[i + 1]

LEMMA PathLosesFirst ==
  ASSUME NEW packets \in Seq(Packets), NEW shorter, IsTail(shorter, packets),
         NEW m, NEW c, NEW cmd, NEW rest,
         NEW ws, NEW ks, IsPath(packets, rest, c, cmd, m, ws, ks),
         NEW xs, NEW ys, Shifted(xs, ys, ws, ks, Len(packets))
  PROVE  IsPath(shorter, rest, c, cmd, m, xs, ys)
<1> DEFINE n == Len(packets)
<1>1. /\ n \in Nat \ {0} /\ n - 1 \in Nat /\ Len(shorter) = n - 1
      /\ \A i \in 1 .. n - 1 : shorter[i] = packets[i + 1]
  BY DEF IsTail
<1>2. \A i \in 0 .. n - 1 : xs[i] = ws[i + 1] /\ ys[i] = ks[i + 1]
  BY DEF Shifted
<1>3. /\ \A i \in 0 .. n : IsCursor(m, ws[i], ks[i])
      /\ \A i \in 1 .. n : Moves(packets[i], c, cmd, m, ws[i - 1], ks[i - 1], ws[i], ks[i])
      /\ rest = Rest(m, ws[n], ks[n])
      /\ \A i \in 0 .. n :
           ws[i] = Len(m) <=> rest = <<>> /\ \A j \in i + 1 .. n : packets[j].seq # c
  BY DEF IsPath
<1>4. ASSUME NEW i \in 0 .. n - 1
      PROVE  /\ IsCursor(m, xs[i], ys[i])
             /\ xs[i] = Len(m) <=> rest = <<>> /\ \A j \in i + 1 .. n - 1 : shorter[j].seq # c
  <2>1. i + 1 \in 0 .. n
    BY <1>1
  <2>2. xs[i] = Len(m) <=> rest = <<>> /\ \A j \in (i + 1) + 1 .. n : packets[j].seq # c
    BY <1>2, <1>3, <2>1
  <2>3. (\A j \in (i + 1) + 1 .. n : packets[j].seq # c)
        <=> \A j \in i + 1 .. n - 1 : shorter[j].seq # c
    <3>1. ASSUME \A j \in (i + 1) + 1 .. n : packets[j].seq # c, NEW j \in i + 1 .. n - 1
          PROVE  shorter[j].seq # c
      <4>1. j + 1 \in (i + 1) + 1 .. n /\ j \in 1 .. n - 1
        BY <1>1
      <4> QED
        BY <1>1, <3>1, <4>1
    <3>2. ASSUME \A j \in i + 1 .. n - 1 : shorter[j].seq # c, NEW j \in (i + 1) + 1 .. n
          PROVE  packets[j].seq # c
      <4>1. j - 1 \in i + 1 .. n - 1 /\ j - 1 \in 1 .. n - 1 /\ (j - 1) + 1 = j
        BY <1>1
      <4> QED
        BY <1>1, <3>2, <4>1
    <3> QED
      BY <3>1, <3>2
  <2> QED
    BY <1>2, <1>3, <2>1, <2>2, <2>3
<1>5. ASSUME NEW i \in 1 .. n - 1
      PROVE  Moves(shorter[i], c, cmd, m, xs[i - 1], ys[i - 1], xs[i], ys[i])
  <2>1. /\ i - 1 \in 0 .. n - 1 /\ i \in 0 .. n - 1 /\ i + 1 \in 1 .. n
        /\ (i - 1) + 1 = i /\ (i + 1) - 1 = i
    BY <1>1
  <2>2. Moves(packets[i + 1], c, cmd, m, ws[i], ks[i], ws[i + 1], ks[i + 1])
    BY <1>3, <2>1
  <2> QED
    BY <1>1, <1>2, <2>1, <2>2
<1>6. xs[n - 1] = ws[n] /\ ys[n - 1] = ks[n]
  <2>1. n - 1 \in 0 .. n - 1 /\ (n - 1) + 1 = n
    BY <1>1
  <2> QED
    BY <1>2, <2>1
<1> QED
  BY <1>1, <1>3, <1>4, <1>5, <1>6 DEF IsPath

-----------------------------------------------------------------------------
\* What a step does to a conversation.

\* A message that has just begun.
LEMMA CarriedFromStart ==
  ASSUME NEW packets \in Seq(Packets), NEW c, NEW cmd, NEW m, IsMessage(m),
         \A i \in 1 .. Len(packets) : packets[i].seq # c,
         NEW entry, IsStored(entry, c, m, 0, 0)
  PROVE  Carried(packets, m, entry, c, cmd, m)
<1> DEFINE n == Len(packets)
           ws == [i \in 0 .. n |-> 0]
<1>1. n \in Nat
  BY LenProperties
<1>2. IsCursor(m, 0, 0) /\ Rest(m, 0, 0) = m /\ 0 # Len(m) /\ m # <<>>
  BY StartCursor DEF IsMessage
<1>3. ws \in [0 .. n -> Nat] /\ \A i \in 0 .. n : ws[i] = 0
  OBVIOUS
<1>4. 0 \in 0 .. n /\ n \in 0 .. n /\ \A i \in 1 .. n : i \in 0 .. n /\ i - 1 \in 0 .. n
  BY <1>1
<1> HIDE DEF ws
<1>5. \A i \in 1 .. n : Moves(packets[i], c, cmd, m, ws[i - 1], ws[i - 1], ws[i], ws[i])
  BY <1>3, <1>4 DEF Moves
<1>6. ws[n] = 0 /\ ws[0] = 0
  BY <1>3, <1>4
<1>7. IsPath(packets, m, c, cmd, m, ws, ws)
  BY <1>2, <1>3, <1>5, <1>6 DEF IsPath
<1> QED
  BY <1>3, <1>6, <1>7 DEF Carried

\* A packet of another conversation is put on the wire, or taken off it.
LEMMA CarriedBesideSend ==
  ASSUME NEW packets \in Seq(Packets), NEW packet \in Packets,
         NEW c, NEW cmd, NEW m, IsMessage(m), NEW rest, NEW entry,
         Carried(packets, rest, entry, c, cmd, m), packet.seq # c
  PROVE  Carried(Append(packets, packet), rest, entry, c, cmd, m)
<1> DEFINE n == Len(packets)
           longer == Append(packets, packet)
<1>1. PICK ws \in [0 .. n -> Nat], ks \in [0 .. n -> Nat] :
        IsPath(packets, rest, c, cmd, m, ws, ks) /\ IsStored(entry, c, m, ws[0], ks[0])
  BY DEF Carried
<1>2. n \in Nat /\ n \in 0 .. n /\ 0 \in 0 .. n /\ 0 \in 0 .. n + 1 /\ 0 <= n
  BY LenProperties
<1>3. ws[n] \in Nat /\ ks[n] \in Nat /\ IsCursor(m, ws[n], ks[n]) /\ rest = Rest(m, ws[n], ks[n])
  BY <1>1, <1>2 DEF IsPath
<1>4. Moves(packet, c, cmd, m, ws[n], ks[n], ws[n], ks[n])
  BY DEF Moves
<1>5. IsAppended(longer, packets, packet)
  BY PacketAppended
<1> DEFINE xs == [i \in 0 .. n + 1 |-> IF i <= n THEN ws[i] ELSE ws[n]]
           ys == [i \in 0 .. n + 1 |-> IF i <= n THEN ks[i] ELSE ks[n]]
<1>6. Len(longer) = n + 1
  BY <1>5 DEF IsAppended
<1>7. /\ xs \in [0 .. n + 1 -> Nat] /\ ys \in [0 .. n + 1 -> Nat]
      /\ xs[0] = ws[0] /\ ys[0] = ks[0] /\ GoesOn(xs, ys, ws, ks, n, ws[n], ks[n])
  BY <1>2, <1>3 DEF GoesOn
<1> HIDE DEF longer, xs, ys
<1>8. IsPath(longer, rest, c, cmd, m, xs, ys)
  BY <1>1, <1>3, <1>4, <1>5, <1>7, PathGoesOn
<1> HIDE DEF n
<1>9. Carried(longer, rest, entry, c, cmd, m)
  BY <1>1, <1>6, <1>7, <1>8 DEF Carried
<1> QED
  BY <1>9 DEF longer, n

LEMMA CarriedBesideTake ==
  ASSUME NEW packets \in Seq(Packets), packets # <<>>,
         NEW c, NEW cmd, NEW m, NEW rest, NEW entry,
         Carried(packets, rest, entry, c, cmd, m), Head(packets).seq # c
  PROVE  Carried(Tail(packets), rest, entry, c, cmd, m)
<1> DEFINE n == Len(packets)
           shorter == Tail(packets)
           packet == Head(packets)
<1>1. PICK ws \in [0 .. n -> Nat], ks \in [0 .. n -> Nat] :
        IsPath(packets, rest, c, cmd, m, ws, ks) /\ IsStored(entry, c, m, ws[0], ks[0])
  BY DEF Carried
<1>2. IsTail(shorter, packets)
  BY PacketTaken
<1>3. n \in Nat \ {0} /\ packet = packets[1] /\ Len(shorter) = n - 1
  BY <1>2 DEF IsTail
<1>4. 1 \in 1 .. n /\ 0 \in 0 .. n - 1 /\ 1 - 1 = 0 /\ 0 + 1 = 1 /\ n - 1 \in Nat
  BY <1>3
<1>5. ws[1] = ws[0] /\ ks[1] = ks[0]
  <2>1. Moves(packets[1], c, cmd, m, ws[1 - 1], ks[1 - 1], ws[1], ks[1])
    BY <1>1, <1>4 DEF IsPath
  <2> QED
    BY <1>3, <1>4, <2>1 DEF Moves
<1> DEFINE xs == [i \in 0 .. n - 1 |-> ws[i + 1]]
           ys == [i \in 0 .. n - 1 |-> ks[i + 1]]
<1>6. /\ xs \in [0 .. n - 1 -> Nat] /\ ys \in [0 .. n - 1 -> Nat]
      /\ Shifted(xs, ys, ws, ks, n) /\ xs[0] = ws[0] /\ ys[0] = ks[0]
  BY <1>3, <1>4, <1>5 DEF Shifted
<1> HIDE DEF shorter, xs, ys
<1>7. IsPath(shorter, rest, c, cmd, m, xs, ys)
  BY <1>1, <1>2, <1>6, PathLosesFirst
<1> HIDE DEF n
<1>8. Carried(shorter, rest, entry, c, cmd, m)
  BY <1>1, <1>3, <1>6, <1>7 DEF Carried
<1> QED
  BY <1>8 DEF shorter

\* A packet of the conversation itself: what SendPacket puts into it.
IsSent(m, packet, left, w, k, v, l) ==
  /\ v \in Nat /\ l \in Nat /\ IsCursor(m, v, l) /\ Before(w, k, v, l)
  /\ packet.parts = Stretch(m, w, k, v, l) /\ left = Rest(m, v, l)
  /\ packet.flags = Flags(m, v, l) /\ packet.flags \in {0, 1, 2}
  /\ packet.parts \in Payloads /\ left \in Payloads

IsCutOff(packet, left, rest, whole, cut) ==
  /\ packet.parts = SubSeq(rest, 1, whole)
                      \o (IF cut = 0 THEN <<>> ELSE <<SubSeq(rest[whole + 1], 1, cut)>>)
  /\ left = IF cut = 0 THEN SubSeq(rest, whole + 1, Len(rest))
            ELSE <<SubSeq(rest[whole + 1], cut + 1, Len(rest[whole + 1]))>>
                   \o SubSeq(rest, whole + 2, Len(rest))
  /\ packet.flags = IF left = <<>> THEN 1 ELSE IF cut > 0 THEN 2 ELSE 0

LEMMA PacketLeads ==
  ASSUME NEW m, IsMessage(m), NEW w, NEW k, IsCursor(m, w, k), NEW rest, rest = Rest(m, w, k),
         NEW whole \in 0 .. Len(rest),
         NEW cut \in 0 .. (IF whole < Len(rest) THEN Len(rest[whole + 1]) - 1 ELSE 0),
         whole + cut > 0, NEW packet, NEW left, IsCutOff(packet, left, rest, whole, cut)
  PROVE  \E v, l : IsSent(m, packet, left, w, k, v, l)
<1>1. /\ rest \in Payloads /\ w \in Nat /\ k \in Nat /\ Len(m) \in Nat /\ Len(rest) \in Nat
      /\ Len(rest) = Len(m) - w
  BY RestParts DEF IsRest
<1>2. \A i \in 1 .. Len(rest) : Len(rest[i]) \in Nat
  BY <1>1, PayloadTypes
<1>3. whole \in Nat
  BY <1>1
<1>4. CASE cut = 0
  <2> DEFINE v == w + whole
  <2>1. whole \in 1 .. Len(rest) /\ v \in Nat /\ 0 \in Nat
    BY <1>1, <1>4
  <2>2. /\ IsCursor(m, v, 0) /\ Before(w, k, v, 0)
        /\ Stretch(m, w, k, v, 0) = SubSeq(rest, 1, whole)
        /\ Rest(m, v, 0) = SubSeq(rest, whole + 1, Len(rest))
    BY <2>1, SendWhole
  <2>3. SubSeq(rest, 1, whole) \o <<>> = SubSeq(rest, 1, whole)
    <3>1. IsSlice(SubSeq(rest, 1, whole), rest, 1, whole)
      BY <1>1, <1>3, PayloadSlice
    <3>2. SubSeq(rest, 1, whole) \in Seq(Parts)
      BY <3>1 DEF IsSlice, Payloads
    <3> QED
      BY <3>2, ConcatEmptySeq
  <2>4. packet.parts = Stretch(m, w, k, v, 0) /\ left = Rest(m, v, 0)
    BY <1>4, <2>2, <2>3 DEF IsCutOff
  <2> HIDE DEF v
  <2>5. left = <<>> <=> v = Len(m)
    BY <2>2, <2>4, RestIsLeft
  <2>6. packet.flags = Flags(m, v, 0)
    BY <1>4, <2>5 DEF Flags, IsCutOff
  <2>7. packet.parts \in Payloads
    BY <2>2, <2>4, StretchIsSent
  <2>8. left \in Payloads
    BY <2>2, <2>4, RestIsLeft
  <2>9. IsSent(m, packet, left, w, k, v, 0)
    BY <1>4, <2>1, <2>2, <2>4, <2>6, <2>7, <2>8 DEF IsSent, Flags
  <2> QED
    BY <2>9
<1>5. CASE cut # 0
  <2>0. PICK v, g, l : v = w + whole /\ g = Gone(k, whole + 1) /\ l = g + cut
    OBVIOUS
  <2>1. whole < Len(rest)
    BY <1>3, <1>5
  <2>2. /\ whole \in 0 .. Len(rest) - 1 /\ cut \in Nat \ {0} /\ cut < Len(rest[whole + 1])
        /\ v \in Nat /\ whole + 1 \in 1 .. Len(rest)
    BY <1>1, <1>2, <1>3, <1>5, <2>0, <2>1
  <2>3. l \in Nat
    BY <1>1, <2>0, <2>2 DEF Gone
  <2>4. /\ IsCursor(m, v, l) /\ Before(w, k, v, l) /\ l > 0
        /\ Stretch(m, w, k, v, l) = SubSeq(rest, 1, whole) \o <<SubSeq(rest[whole + 1], 1, cut)>>
        /\ Rest(m, v, l) = <<SubSeq(rest[whole + 1], cut + 1, Len(rest[whole + 1]))>>
                             \o SubSeq(rest, whole + 2, Len(rest))
    <3>1. l > 0 /\ LeadsTo(m, w, k, v, l,
                     SubSeq(rest, 1, whole) \o <<SubSeq(rest[whole + 1], 1, cut)>>,
                     <<SubSeq(rest[whole + 1], cut + 1, Len(rest[whole + 1]))>>
                       \o SubSeq(rest, whole + 2, Len(rest)))
      BY <2>0, <2>2, SendCut
    <3> QED
      BY <3>1 DEF LeadsTo
  <2>5. packet.parts = Stretch(m, w, k, v, l) /\ left = Rest(m, v, l)
    BY <1>5, <2>4 DEF IsCutOff
  <2>6. left = <<>> <=> v = Len(m)
    BY <2>4, <2>5, RestIsLeft
  <2>7. packet.flags = Flags(m, v, l)
    BY <2>2, <2>4, <2>6 DEF Flags, IsCutOff
  <2>8. packet.parts \in Payloads
    <3>1. IsStretch(Stretch(m, w, k, v, l), m, w, k, v, l)
      BY <2>4, StretchParts
    <3> QED
      BY <2>5, <3>1 DEF IsStretch
  <2>9. left \in Payloads
    BY <2>4, <2>5, RestIsLeft
  <2>10. IsSent(m, packet, left, w, k, v, l)
    BY <2>2, <2>3, <2>4, <2>5, <2>7, <2>8, <2>9 DEF IsSent, Flags
  <2> QED
    BY <2>10
<1> QED
  BY <1>4, <1>5

\* Where a conversation is on the side of the access point.
LEMMA CarriedLeft ==
  ASSUME NEW packets \in Seq(Packets), NEW c, NEW cmd, NEW m, NEW rest, NEW entry,
         Carried(packets, rest, entry, c, cmd, m)
  PROVE  \E w, k : IsCursor(m, w, k) /\ rest = Rest(m, w, k)
<1>1. Len(packets) \in Nat /\ Len(packets) \in 0 .. Len(packets)
  BY LenProperties
<1> QED
  BY <1>1 DEF Carried, IsPath

LEMMA CarriedSent ==
  ASSUME NEW packets \in Seq(Packets), NEW packet \in Packets,
         NEW c, NEW cmd, NEW m, IsMessage(m), NEW rest, NEW entry, NEW left,
         Carried(packets, rest, entry, c, cmd, m), packet.seq = c, packet.cmd = cmd, rest # <<>>,
         \A w, k : IsCursor(m, w, k) /\ rest = Rest(m, w, k)
                     => \E v, l : IsSent(m, packet, left, w, k, v, l)
  PROVE  Carried(Append(packets, packet), left, entry, c, cmd, m)
<1> DEFINE n == Len(packets)
           longer == Append(packets, packet)
<1>1. PICK ws \in [0 .. n -> Nat], ks \in [0 .. n -> Nat] :
        IsPath(packets, rest, c, cmd, m, ws, ks) /\ IsStored(entry, c, m, ws[0], ks[0])
  BY DEF Carried
<1>2. n \in Nat /\ n \in 0 .. n /\ 0 \in 0 .. n /\ 0 \in 0 .. n + 1 /\ 0 <= n
  BY LenProperties
<1>3. IsCursor(m, ws[n], ks[n]) /\ rest = Rest(m, ws[n], ks[n])
  BY <1>1, <1>2 DEF IsPath
<1>4. PICK v, l : IsSent(m, packet, left, ws[n], ks[n], v, l)
  BY <1>3
<1>5. /\ v \in Nat /\ l \in Nat /\ IsCursor(m, v, l) /\ left = Rest(m, v, l)
      /\ Moves(packet, c, cmd, m, ws[n], ks[n], v, l)
  BY <1>4 DEF IsSent, Moves
<1>6. IsAppended(longer, packets, packet)
  BY PacketAppended
<1> DEFINE xs == [i \in 0 .. n + 1 |-> IF i <= n THEN ws[i] ELSE v]
           ys == [i \in 0 .. n + 1 |-> IF i <= n THEN ks[i] ELSE l]
<1>7. Len(longer) = n + 1
  BY <1>6 DEF IsAppended
<1>8. /\ xs \in [0 .. n + 1 -> Nat] /\ ys \in [0 .. n + 1 -> Nat]
      /\ xs[0] = ws[0] /\ ys[0] = ks[0] /\ GoesOn(xs, ys, ws, ks, n, v, l)
  BY <1>2, <1>5 DEF GoesOn
<1> HIDE DEF longer, xs, ys
<1>9. IsPath(longer, left, c, cmd, m, xs, ys)
  BY <1>1, <1>5, <1>6, <1>8, PathGoesOn
<1> HIDE DEF n
<1>10. Carried(longer, left, entry, c, cmd, m)
  BY <1>1, <1>7, <1>8, <1>9 DEF Carried
<1> QED
  BY <1>10 DEF longer, n

\* The next packet is one of c: AddParts moves its entry, and puts the message
\* together when it is the last one.
IsTaken(packets, rest, entry, c, cmd, m, packet, grown) ==
  /\ packet.cmd = cmd /\ (entry = None => c \notin Requests)
  /\ Carried(Tail(packets), rest, Remaining(packet, grown), c, cmd, m)
  /\ grown \in Entries /\ grown.callback = (c \in Requests)
  /\ IsFinal(packet) => grown.parts = m
  /\ IsFinal(packet) =>
       rest = <<>> /\ \A i \in 1 .. Len(Tail(packets)) : Tail(packets)[i].seq # c

LEMMA CarriedTaken ==
  ASSUME NEW packets \in Seq(Packets), packets # <<>>,
         NEW c, NEW cmd, NEW m, IsMessage(m), NEW rest, NEW entry,
         Carried(packets, rest, entry, c, cmd, m),
         NEW packet, packet = Head(packets), packet.seq = c,
         NEW grown, grown = AddParts(IF entry # None THEN entry ELSE NewPending(FALSE), packet)
  PROVE  IsTaken(packets, rest, entry, c, cmd, m, packet, grown)
<1> DEFINE n == Len(packets)
           shorter == Tail(packets)
           base == IF entry # None THEN entry ELSE NewPending(FALSE)
<1>1. PICK ws \in [0 .. n -> Nat], ks \in [0 .. n -> Nat] :
        IsPath(packets, rest, c, cmd, m, ws, ks) /\ IsStored(entry, c, m, ws[0], ks[0])
  BY DEF Carried
<1>2. IsTail(shorter, packets)
  BY PacketTaken
<1>3. n \in Nat \ {0} /\ packet = packets[1] /\ Len(shorter) = n - 1
  BY <1>2 DEF IsTail
<1>4. 1 \in 1 .. n /\ 1 \in 0 .. n /\ 0 \in 0 .. n /\ 0 \in 0 .. n - 1 /\ 1 - 1 = 0 /\ 0 + 1 = 1
      /\ n - 1 \in Nat
  BY <1>3
<1>5. PICK w \in Nat, k \in Nat, v \in Nat, l \in Nat : w = ws[0] /\ k = ks[0] /\ v = ws[1] /\ l = ks[1]
  BY <1>4
<1>6. /\ IsCursor(m, w, k) /\ IsCursor(m, v, l) /\ Before(w, k, v, l) /\ packet.cmd = cmd
      /\ packet.parts = Stretch(m, w, k, v, l) /\ packet.flags = Flags(m, v, l)
  <2>1. IsCursor(m, ws[0], ks[0]) /\ IsCursor(m, ws[1], ks[1])
    BY <1>1, <1>4 DEF IsPath
  <2>2. Moves(packets[1], c, cmd, m, ws[1 - 1], ks[1 - 1], ws[1], ks[1])
    BY <1>1, <1>4 DEF IsPath
  <2> QED
    BY <1>3, <1>4, <1>5, <2>1, <2>2 DEF Moves
<1>7. Len(m) \in Nat /\ m \in Payloads /\ w # Len(m)
  BY <1>6, MessageTypes DEF IsCursor, Before
<1>8. base \in Entries /\ IsHeld(base, m, w, k) /\ base.callback = (c \in Requests)
      /\ (entry = None => c \notin Requests)
  <2>1. CASE entry # None
    BY <1>1, <1>5, <2>1 DEF IsStored
  <2>2. CASE entry = None
    <3>1. c \notin Requests /\ w = 0 /\ k = 0
      BY <1>1, <1>5, <1>7, <2>2 DEF IsStored
    <3>2. base = [parts |-> <<>>, partial |-> <<>>, callback |-> FALSE]
      BY <2>2 DEF NewPending
    <3>3. SubSeq(m, 1, 0) = <<>> /\ Partial(m, 0, 0) = <<>>
      BY StartCursor
    <3>4. <<>> \in Payloads /\ <<>> \in Parts
      BY DEF Payloads, Parts
    <3>5. base \in Entries
      BY <3>2, <3>4 DEF Entries
    <3>6. IsHeld(base, m, 0, 0) /\ base.callback = FALSE
      BY <3>2, <3>3 DEF IsHeld
    <3> QED
      BY <1>1, <3>1, <3>5, <3>6
  <2> QED
    BY <2>1, <2>2
<1> HIDE DEF base
<1>9. grown \in Entries /\ IsHeld(grown, m, v, l) /\ grown.callback = (c \in Requests)
  <2>1. grown = AddParts(base, packet)
    BY DEF base
  <2>2. /\ AddParts(base, packet) \in Entries
        /\ IsHeld(AddParts(base, packet), m, v, l)
        /\ AddParts(base, packet).callback = base.callback
    BY <1>6, <1>8, EntryGrows
  <2> QED
    BY <1>8, <2>1, <2>2
<1>10. IsFinal(packet) <=> v = Len(m)
  BY <1>6 DEF IsFinal, Flags
<1>11. IsFinal(packet) => grown.parts = m
  <2>1. SubSeq(m, 1, Len(m)) = m
    BY <1>7, SubSeqFull DEF Payloads
  <2> QED
    BY <1>9, <1>10, <2>1 DEF IsHeld
<1>12. IsStored(Remaining(packet, grown), c, m, v, l)
  BY <1>9, <1>10, MercuryAssumption DEF IsStored, Remaining
<1> DEFINE xs == [i \in 0 .. n - 1 |-> ws[i + 1]]
           ys == [i \in 0 .. n - 1 |-> ks[i + 1]]
<1>13. /\ xs \in [0 .. n - 1 -> Nat] /\ ys \in [0 .. n - 1 -> Nat]
       /\ Shifted(xs, ys, ws, ks, n) /\ xs[0] = v /\ ys[0] = l
  BY <1>3, <1>4, <1>5 DEF Shifted
<1> HIDE DEF shorter, xs, ys
<1>14. IsPath(shorter, rest, c, cmd, m, xs, ys)
  BY <1>1, <1>2, <1>13, PathLosesFirst
<1>16. IsFinal(packet) => rest = <<>> /\ \A i \in 1 .. Len(shorter) : shorter[i].seq # c
  <2>1. 0 \in 0 .. Len(shorter) /\ 0 + 1 = 1
    BY <1>3, <1>4
  <2>2. xs[0] = Len(m) <=> rest = <<>> /\ \A j \in 0 + 1 .. Len(shorter) : shorter[j].seq # c
    BY <1>14, <2>1 DEF IsPath
  <2> QED
    BY <1>10, <1>13, <2>1, <2>2
<1> HIDE DEF n
<1>15. Carried(shorter, rest, Remaining(packet, grown), c, cmd, m)
  BY <1>3, <1>12, <1>13, <1>14 DEF Carried
<1> QED
  BY <1>6, <1>8, <1>9, <1>11, <1>15, <1>16 DEF shorter, IsTaken

\* There is an entry for as long as something of the message is under way.
LEMMA CarriedStored ==
  ASSUME NEW packets \in Seq(Packets), NEW c \in Requests, NEW cmd, NEW m, NEW rest, NEW entry,
         Carried(packets, rest, entry, c, cmd, m)
  PROVE  entry # None <=> rest # <<>> \/ \E i \in 1 .. Len(packets) : packets[i].seq = c
<1>1. Len(packets) \in Nat /\ 0 \in 0 .. Len(packets) /\ 0 + 1 = 1
  BY LenProperties
<1>2. PICK ws, ks :
        IsPath(packets, rest, c, cmd, m, ws, ks) /\ IsStored(entry, c, m, ws[0], ks[0])
  BY DEF Carried
<1>3. ws[0] = Len(m) <=> rest = <<>> /\ \A j \in 0 + 1 .. Len(packets) : packets[j].seq # c
  BY <1>1, <1>2 DEF IsPath
<1>4. ws[0] = Len(m) <=> entry = None
  BY <1>2 DEF IsStored
<1> QED
  BY <1>1, <1>3, <1>4

-----------------------------------------------------------------------------
\* The invariant is kept.

LEMMA ConversationsAreTwo ==
  /\ Requests \subseteq Nat /\ EventIds \subseteq Nat /\ Conversations = Requests \cup EventIds
  /\ \A c \in EventIds : c \notin Requests
  /\ \A c \in Conversations : c \in Requests \/ c \in EventIds
BY MercuryAssumption DEF Requests, EventIds, Conversations

\* A message as the access point makes it is whole, and knows whose it is.
IsNew(message, c, cmd, status) ==
  /\ message \in Messages /\ message.cmd = cmd /\ message.status = status
  /\ IsMessage(message.parts) /\ message.parts[1][1].of = c
  /\ \A i \in 1 .. Len(message.parts) : message.parts[i][1].of = c

LEMMA MessageIsNew ==
  ASSUME NEW c \in Conversations, NEW cmd \in {"reply", "event"}, NEW status \in {"ok", "error"},
         NEW uri \in Uris, NEW sizes \in Seq(Nat \ {0}) \ {<<>>}
  PROVE  IsNew(Message(c, cmd, status, uri, sizes), c, cmd, status)
<1> DEFINE n == Len(sizes)
           parts == [i \in DOMAIN sizes |-> Part(c, i, sizes[i])]
<1>1. n \in Nat \ {0} /\ DOMAIN sizes = 1 .. n /\ \A i \in 1 .. n : sizes[i] \in Nat \ {0}
  BY EmptySeq, LenProperties, ElementOfSeq
<1>2. ASSUME NEW i \in 1 .. n
      PROVE  Part(c, i, sizes[i]) \in Parts /\ Len(Part(c, i, sizes[i])) = sizes[i]
             /\ Part(c, i, sizes[i])[1].of = c
  <2>1. i \in Nat \ {0} /\ sizes[i] \in Nat \ {0} /\ 1 \in 1 .. sizes[i]
    BY <1>1
  <2> DEFINE part == [j \in 1 .. sizes[i] |-> [of |-> c, part |-> i, piece |-> j]]
  <2>2. part \in [1 .. sizes[i] -> Chunks]
    BY <2>1 DEF Chunks
  <2>3. part[1].of = c
    BY <2>1
  <2>4. Part(c, i, sizes[i]) = part
    BY DEF Part, Chunk
  <2> HIDE DEF part
  <2>5. part \in Parts /\ Len(part) = sizes[i]
    BY <2>1, <2>2, PartFunction
  <2> QED
    BY <2>3, <2>4, <2>5
<1> HIDE DEF n
<1>3. parts \in [1 .. n -> Parts]
  BY <1>1, <1>2
<1>4. parts \in Payloads /\ Len(parts) = n
  BY <1>1, <1>3, PayloadFunction
<1>5. \A i \in 1 .. n : parts[i] = Part(c, i, sizes[i])
  BY <1>1
<1>6. Message(c, cmd, status, uri, sizes)
        = [cmd |-> cmd, status |-> status, uri |-> uri, parts |-> parts]
  BY DEF Message
<1> HIDE DEF parts
<1>7. parts # <<>>
  BY <1>1, <1>4, PayloadTypes
<1>8. \A i \in 1 .. n : parts[i] # <<>>
  BY <1>1, <1>2, <1>5, EmptySeq
<1>9. parts[1][1].of = c /\ \A i \in 1 .. Len(parts) : parts[i][1].of = c
  BY <1>1, <1>2, <1>4, <1>5
<1>10. IsMessage(parts)
  BY <1>4, <1>7, <1>8 DEF IsMessage
<1> QED
  BY <1>4, <1>6, <1>9, <1>10 DEF Messages, IsNew

\* Which conversation a header belongs to is never in doubt.
LEMMA HeaderFound ==
  ASSUME Conversing, NEW c \in Conversations, messages[c] # None
  PROVE  HeaderOf(messages[c].parts[1]) = {c}
BY DEF Conversing, MessageOK, HeaderOf

LEMMA NewPendingIsEntry == NewPending(TRUE) \in Entries /\ NewPending(TRUE) # None
<1>1. <<>> \in Payloads /\ <<>> \in Parts
  BY DEF Payloads, Parts
<1>2. NewPending(TRUE) \in Entries
  BY <1>1 DEF NewPending, Entries
<1> QED
  BY <1>2, MercuryAssumption

LEMMA InvInit == Init => MercuryInv
<1> SUFFICES ASSUME Init PROVE MercuryInv
  OBVIOUS
<1>1. TypeOK
  <2>1. 0 \in 0 .. MaxRequests /\ <<>> \in Payloads /\ <<>> \in Seq(Packets)
    BY MercuryAssumption DEF Payloads
  <2> QED
    BY <2>1 DEF Init, TypeOK
<1>2. CallersOK
  <2> SUFFICES ASSUME NEW c \in Requests
               PROVE  ~ c < sequence /\ future[c] = "none" /\ answer[c] = None
    BY DEF CallersOK
  <2>1. c \in Nat /\ sequence = 0
    BY ConversationsAreTwo DEF Init
  <2> QED
    BY <2>1 DEF Init
<1>3. ASSUME NEW c \in Conversations
      PROVE  messages[c] = None /\ Silent(c)
  <2>1. Len(wire) = 0 /\ unsent[c] = <<>> /\ messages[c] = None /\ pending[c] = None /\ sequence = 0
    BY DEF Init
  <2>2. ~ (c \in Requests /\ c < sequence)
    BY <2>1, ConversationsAreTwo
  <2> QED
    <3>1. \A i \in 1 .. Len(wire) : wire[i].seq # c
      BY <2>1
    <3>2. pending[c] = IF c \in Requests /\ c < sequence THEN NewPending(TRUE) ELSE None
      BY <2>1, <2>2
    <3> QED
      BY <2>1, <3>1, <3>2 DEF Silent
<1> QED
  BY <1>1, <1>2, <1>3 DEF MercuryInv, Conversing

LEMMA InvRequest ==
  ASSUME MercuryInv, NEW a \in Asks, Request(a)
  PROVE  MercuryInv'
<1>1. /\ sequence \in Requests /\ sequence \in Nat /\ sequence' = sequence + 1
      /\ sequence' \in 0 .. MaxRequests /\ sequence \in Conversations
  BY MercuryAssumption, ConversationsAreTwo DEF MercuryInv, TypeOK, Request, Requests
<1>2. NewPending(TRUE) \in Entries
  BY NewPendingIsEntry
<1>3. TypeOK'
  BY <1>1, <1>2 DEF MercuryInv, TypeOK, Request, accesspoint
<1>4. CallersOK'
  <2> SUFFICES ASSUME NEW c \in Requests
               PROVE  /\ c < sequence' => asks'[c] \in Asks
                      /\ c >= sequence' => future'[c] = "none"
                      /\ future'[c] \in {"none", "waiting"} => answer'[c] = None
    BY DEF CallersOK
  <2>1. c \in Nat
    BY ConversationsAreTwo
  <2>2. CASE c = sequence
    <3>1. asks'[c] = a /\ future'[c] = "waiting" /\ answer'[c] = answer[c]
      BY <1>1, <2>2 DEF MercuryInv, TypeOK, Request
    <3>2. answer[c] = None
      BY <1>1, <2>2 DEF MercuryInv, CallersOK
    <3> QED
      BY <1>1, <2>1, <2>2, <3>1, <3>2
  <2>3. CASE c # sequence
    <3>1. asks'[c] = asks[c] /\ future'[c] = future[c] /\ answer'[c] = answer[c]
      BY <1>1, <2>3 DEF MercuryInv, TypeOK, Request
    <3>2. (c < sequence' <=> c < sequence) /\ (c >= sequence' <=> c >= sequence)
      BY <1>1, <2>1, <2>3
    <3> QED
      BY <3>1, <3>2 DEF MercuryInv, CallersOK
  <2> QED
    BY <2>2, <2>3
<1>5. ASSUME NEW c \in Conversations
      PROVE  IF messages'[c] = None THEN Silent(c)'
             ELSE /\ MessageOK(c, messages[c])'
                  /\ Carried(wire', unsent'[c], pending'[c], c, messages'[c].cmd, messages'[c].parts)
  <2>1. messages' = messages /\ unsent' = unsent /\ wire' = wire
    BY DEF Request, accesspoint
  <2>2. c \in Nat
    BY ConversationsAreTwo
  <2>3. IF messages[c] = None THEN Silent(c)
        ELSE /\ MessageOK(c, messages[c])
             /\ Carried(wire, unsent[c], pending[c], c, messages[c].cmd, messages[c].parts)
    BY DEF MercuryInv, Conversing
  <2>4. CASE c = sequence
    <3>1. messages[c] = None
      BY <1>1, <2>2, <2>3, <2>4 DEF MessageOK
    <3>2. pending'[c] = NewPending(TRUE)
      BY <1>1, <2>4 DEF MercuryInv, TypeOK, Request
    <3>3. Silent(c)'
      <4>1. unsent'[c] = <<>> /\ \A i \in 1 .. Len(wire') : wire'[i].seq # c
        BY <2>1, <2>3, <3>1 DEF Silent
      <4>2. c \in Requests /\ c < sequence'
        BY <1>1, <2>4
      <4> QED
        BY <3>2, <4>1, <4>2 DEF Silent
    <3> QED
      BY <2>1, <3>1, <3>3
  <2>5. CASE c # sequence
    <3>1. pending'[c] = pending[c]
      BY <1>1, <2>5 DEF MercuryInv, TypeOK, Request
    <3>2. c < sequence' <=> c < sequence
      BY <1>1, <2>2, <2>5
    <3>3. messages[c] = None => Silent(c)'
      BY <2>1, <2>3, <3>1, <3>2 DEF Silent
    <3>4. messages[c] # None => MessageOK(c, messages[c])'
      <4>1. messages[c] # None => MessageOK(c, messages[c])
        BY <2>3
      <4> QED
        BY <2>1, <3>2, <4>1 DEF MessageOK
    <3> QED
      BY <2>1, <2>3, <3>1, <3>3, <3>4
  <2> QED
    BY <2>4, <2>5
<1>6. Conversing'
  BY <1>5 DEF Conversing
<1> QED
  BY <1>3, <1>4, <1>6 DEF MercuryInv

\* A step that leaves the conversations alone.
LEMMA ConversingKept ==
  ASSUME Conversing, UNCHANGED <<sequence, pending, messages, unsent, wire>>
  PROVE  Conversing'
BY DEF Conversing, Silent, MessageOK

LEMMA InvTakeAnswer ==
  ASSUME MercuryInv, NEW c \in Requests, TakeAnswer(c)
  PROVE  MercuryInv'
<1>1. /\ UNCHANGED <<sequence, pending, panicked, asks, answer, messages, unsent, wire>>
      /\ \E f \in {"taken", "panicked"} : future' = [future EXCEPT ![c] = f]
      /\ future[c] \in {"ok", "error"}
  BY DEF TakeAnswer, accesspoint
<1>2. TypeOK'
  BY <1>1 DEF MercuryInv, TypeOK
<1>3. CallersOK'
  BY <1>1 DEF MercuryInv, TypeOK, CallersOK
<1>4. Conversing'
  BY <1>1, ConversingKept DEF MercuryInv
<1> QED
  BY <1>2, <1>3, <1>4 DEF MercuryInv

LEMMA InvDrop ==
  ASSUME MercuryInv, NEW c \in Requests, Drop(c)
  PROVE  MercuryInv'
<1>1. /\ UNCHANGED <<sequence, pending, panicked, asks, answer, messages, unsent, wire>>
      /\ future' = [future EXCEPT ![c] = "dropped"] /\ future[c] # "none"
  BY DEF Drop, accesspoint, manager
<1>2. TypeOK'
  BY <1>1 DEF MercuryInv, TypeOK
<1>3. CallersOK'
  BY <1>1 DEF MercuryInv, TypeOK, CallersOK
<1>4. Conversing'
  BY <1>1, ConversingKept DEF MercuryInv
<1> QED
  BY <1>2, <1>3, <1>4 DEF MercuryInv

\* What a step may tell the callers: nothing, or the outcome of a message whose
\* caller is waiting.
Answers(c) ==
  /\ c \in Requests /\ messages[c] # None /\ future[c] = "waiting"
  /\ future' = [future EXCEPT ![c] = messages[c].status]
  /\ answer' = [answer EXCEPT ![c] = Result(messages[c].status, Tail(messages[c].parts))]

AnswersAtMostOne == UNCHANGED <<future, answer>> \/ \E c \in Requests : Answers(c)

LEMMA CompleteAnswers ==
  ASSUME Conversing, NEW c \in Conversations, messages[c] # None, NEW cmd,
         NEW entry, entry.parts = messages[c].parts, entry.callback = (c \in Requests),
         Complete(c, cmd, entry)
  PROVE  /\ UNCHANGED panicked /\ AnswersAtMostOne
         /\ \/ UNCHANGED <<subscriptions, inbox>>
            \/ cmd = "event" /\ Deliver(messages[c].uri, Tail(entry.parts))
<1>1. Head(entry.parts) = messages[c].parts[1]
  BY DEF Conversing, MessageOK, IsMessage
<1>2. HeaderOf(Head(entry.parts)) = {c}
  BY <1>1, HeaderFound
<1>3. /\ UNCHANGED panicked
      /\ IF messages[c].status = "ok" /\ cmd = "event"
         THEN Deliver(messages[c].uri, Tail(entry.parts)) /\ UNCHANGED <<future, answer>>
         ELSE /\ UNCHANGED <<subscriptions, inbox>>
              /\ IF entry.callback /\ future[c] = "waiting"
                 THEN /\ future' = [future EXCEPT ![c] = messages[c].status]
                      /\ answer' = [answer EXCEPT ![c] =
                                      Result(messages[c].status, Tail(entry.parts))]
                 ELSE UNCHANGED <<future, answer>>
  BY <1>2 DEF Complete
<1> QED
  BY <1>3 DEF Answers, AnswersAtMostOne

\* What a step may bring the subscribers: nothing, or an event of which nothing
\* is left to come.
Delivers(c) ==
  /\ c \in EventIds /\ messages[c] # None /\ unsent[c] = <<>>
  /\ \A i \in 1 .. Len(wire') : wire'[i].seq # c
  /\ Deliver(messages[c].uri, Tail(messages[c].parts))

\* The next packet is of a message that was begun, and finds its entry.
Takes(packet, c, grown) ==
  /\ c \in Conversations /\ messages[c] # None /\ wire # <<>>
  /\ Carried(Tail(wire), unsent[c], Remaining(packet, grown), c, messages[c].cmd, messages[c].parts)
  /\ grown \in Entries
  /\ wire' = Tail(wire) /\ pending' = [pending EXCEPT ![c] = Remaining(packet, grown)]
  /\ UNCHANGED <<sequence, asks, messages, unsent, panicked>>
  /\ AnswersAtMostOne
  /\ UNCHANGED <<subscriptions, inbox>> \/ Delivers(c)

LEMMA DispatchTakes ==
  ASSUME MercuryInv, Dispatch,
         NEW packet, packet = Head(wire), NEW c, c = packet.seq,
         NEW grown, grown = AddParts(IF pending[c] # None THEN pending[c] ELSE NewPending(FALSE), packet)
  PROVE  Takes(packet, c, grown)
<1>1. wire \in Seq(Packets) /\ wire # <<>>
  BY DEF MercuryInv, TypeOK, Dispatch
<1>2. packet = wire[1] /\ packet \in Packets /\ 1 \in 1 .. Len(wire)
  BY <1>1, PacketTaken DEF IsTail
<1>3. c \in Conversations
  BY <1>2 DEF Packets
<1>4. messages[c] # None
  BY <1>2, <1>3 DEF MercuryInv, Conversing, Silent
<1>5. /\ MessageOK(c, messages[c])
      /\ Carried(wire, unsent[c], pending[c], c, messages[c].cmd, messages[c].parts)
  BY <1>3, <1>4 DEF MercuryInv, Conversing
<1>6. IsMessage(messages[c].parts) /\ (c \notin Requests => messages[c].cmd = "event")
  BY <1>5 DEF MessageOK
<1>7. /\ packet.cmd = messages[c].cmd /\ (pending[c] = None => c \notin Requests)
      /\ Carried(Tail(wire), unsent[c], Remaining(packet, grown), c, messages[c].cmd, messages[c].parts)
      /\ grown \in Entries /\ grown.callback = (c \in Requests)
      /\ IsFinal(packet) => grown.parts = messages[c].parts
      /\ IsFinal(packet) =>
           unsent[c] = <<>> /\ \A i \in 1 .. Len(Tail(wire)) : Tail(wire)[i].seq # c
  <2>1. IsTaken(wire, unsent[c], pending[c], c, messages[c].cmd, messages[c].parts, packet, grown)
    BY <1>1, <1>5, <1>6, CarriedTaken
  <2> QED
    BY <2>1 DEF IsTaken
<1>8. pending[c] # None \/ packet.cmd = "event"
  BY <1>6, <1>7
<1>9. /\ wire' = Tail(wire) /\ pending' = [pending EXCEPT ![c] = Remaining(packet, grown)]
      /\ UNCHANGED <<sequence, asks, messages, unsent>>
      /\ IF IsFinal(packet) THEN Complete(c, packet.cmd, grown)
         ELSE UNCHANGED <<subscriptions, panicked, future, answer, inbox>>
  BY <1>8 DEF Dispatch, accesspoint
<1>10. UNCHANGED panicked /\ AnswersAtMostOne
  <2>1. CASE IsFinal(packet)
    BY <1>3, <1>4, <1>7, <1>9, <2>1, CompleteAnswers DEF MercuryInv
  <2>2. CASE ~ IsFinal(packet)
    BY <1>9, <2>2 DEF AnswersAtMostOne
  <2> QED
    BY <2>1, <2>2
<1>11. UNCHANGED <<subscriptions, inbox>> \/ Delivers(c)
  <2>1. CASE IsFinal(packet)
    <3>1. \/ UNCHANGED <<subscriptions, inbox>>
          \/ packet.cmd = "event" /\ Deliver(messages[c].uri, Tail(messages[c].parts))
      BY <1>3, <1>4, <1>7, <1>9, <2>1, CompleteAnswers DEF MercuryInv
    <3>2. packet.cmd = "event" => c \in EventIds
      BY <1>3, <1>5, <1>7, ConversationsAreTwo DEF MessageOK
    <3> QED
      BY <1>4, <1>7, <1>9, <2>1, <3>1, <3>2 DEF Delivers
  <2> QED
    BY <1>9, <2>1
<1> QED
  BY <1>1, <1>3, <1>4, <1>7, <1>9, <1>10, <1>11 DEF Takes

LEMMA ResultTypes ==
  ASSUME TypeOK, NEW c \in Conversations, messages[c] # None, IsMessage(messages[c].parts)
  PROVE  Result(messages[c].status, Tail(messages[c].parts)) \in Results
<1>1. messages[c].status \in {"ok", "error"} /\ messages[c].parts \in Seq(Parts)
  BY DEF TypeOK, Messages, Payloads
<1>2. Tail(messages[c].parts) \in Payloads /\ <<>> \in Payloads
  BY <1>1, HeadTailProperties DEF IsMessage, Payloads
<1> QED
  BY <1>1, <1>2 DEF Result, Results

LEMMA InvDispatch ==
  ASSUME MercuryInv, Dispatch
  PROVE  MercuryInv'
<1>0. PICK packet, c, grown :
        /\ packet = Head(wire) /\ c = packet.seq
        /\ grown = AddParts(IF pending[c] # None THEN pending[c] ELSE NewPending(FALSE), packet)
  OBVIOUS
<1>1. /\ c \in Conversations /\ messages[c] # None /\ wire # <<>>
      /\ Carried(Tail(wire), unsent[c], Remaining(packet, grown), c, messages[c].cmd, messages[c].parts)
      /\ grown \in Entries
      /\ wire' = Tail(wire) /\ pending' = [pending EXCEPT ![c] = Remaining(packet, grown)]
      /\ UNCHANGED <<sequence, asks, messages, unsent, panicked>>
      /\ AnswersAtMostOne
  <2>1. Takes(packet, c, grown)
    BY <1>0, DispatchTakes
  <2> QED
    BY <2>1 DEF Takes
<1>2. wire \in Seq(Packets) /\ pending \in [Conversations -> Entries \cup {None}]
  BY DEF MercuryInv, TypeOK
<1>3. Tail(wire) \in Seq(Packets) /\ \A i \in 1 .. Len(Tail(wire)) : Tail(wire)[i] = wire[i + 1]
  BY <1>1, <1>2, PacketTaken DEF IsTail
<1>4. /\ future' \in [Requests -> {"none", "waiting", "ok", "error", "taken", "dropped", "panicked"}]
      /\ answer' \in [Requests -> Results \cup {None}]
      /\ CallersOK'
  <2>1. CASE UNCHANGED <<future, answer>>
    BY <1>1, <2>1 DEF MercuryInv, TypeOK, CallersOK
  <2>2. ASSUME NEW d \in Requests, Answers(d)
        PROVE  /\ future' \in [Requests -> {"none", "waiting", "ok", "error", "taken", "dropped", "panicked"}]
               /\ answer' \in [Requests -> Results \cup {None}]
               /\ CallersOK'
    <3>1. d \in Conversations /\ messages[d] # None
      BY <2>2, ConversationsAreTwo DEF Answers
    <3>2. IsMessage(messages[d].parts) /\ messages[d].status \in {"ok", "error"}
      BY <3>1 DEF MercuryInv, TypeOK, Conversing, MessageOK, Messages
    <3>3. Result(messages[d].status, Tail(messages[d].parts)) \in Results
      BY <3>1, <3>2, ResultTypes DEF MercuryInv
    <3>4. /\ future' = [future EXCEPT ![d] = messages[d].status]
          /\ answer' = [answer EXCEPT ![d] = Result(messages[d].status, Tail(messages[d].parts))]
          /\ future[d] = "waiting"
      BY <2>2 DEF Answers
    <3>5. /\ future' \in [Requests -> {"none", "waiting", "ok", "error", "taken", "dropped", "panicked"}]
          /\ answer' \in [Requests -> Results \cup {None}]
      BY <3>2, <3>3, <3>4 DEF MercuryInv, TypeOK
    <3>6. CallersOK'
      BY <1>1, <3>2, <3>4 DEF MercuryInv, TypeOK, CallersOK
    <3> QED
      BY <3>5, <3>6
  <2> QED
    BY <1>1, <2>1, <2>2 DEF AnswersAtMostOne
<1>5. TypeOK'
  <2>1. pending' \in [Conversations -> Entries \cup {None}]
    BY <1>1, <1>2 DEF Remaining
  <2> QED
    BY <1>1, <1>3, <1>4, <2>1 DEF MercuryInv, TypeOK
<1>6. ASSUME NEW d \in Conversations
      PROVE  IF messages'[d] = None THEN Silent(d)'
             ELSE /\ MessageOK(d, messages[d])'
                  /\ Carried(wire', unsent'[d], pending'[d], d, messages'[d].cmd, messages'[d].parts)
  <2>1. IF messages[d] = None THEN Silent(d)
        ELSE /\ MessageOK(d, messages[d])
             /\ Carried(wire, unsent[d], pending[d], d, messages[d].cmd, messages[d].parts)
    BY DEF MercuryInv, Conversing
  <2>2. messages[d] # None => MessageOK(d, messages[d])'
    BY <1>1, <2>1 DEF MessageOK
  <2>3. CASE d = c
    <3>1. pending'[d] = Remaining(packet, grown)
      BY <1>1, <1>2, <2>3
    <3> QED
      BY <1>1, <2>2, <2>3, <3>1
  <2>4. CASE d # c /\ messages[d] = None
    <3>1. pending'[d] = pending[d]
      BY <1>1, <1>2, <2>4
    <3>2. \A i \in 1 .. Len(wire) : wire[i].seq # d
      BY <2>1, <2>4 DEF Silent
    <3>3. \A i \in 1 .. Len(Tail(wire)) : i + 1 \in 1 .. Len(wire)
      BY <1>1, <1>2, PacketTaken DEF IsTail
    <3>4. \A i \in 1 .. Len(wire') : wire'[i].seq # d
      BY <1>1, <1>3, <3>2, <3>3
    <3>5. Silent(d)'
      BY <1>1, <2>1, <2>4, <3>1, <3>4 DEF Silent
    <3> QED
      BY <1>1, <2>4, <3>5
  <2>5. CASE d # c /\ messages[d] # None
    <3>1. pending'[d] = pending[d]
      BY <1>1, <1>2, <2>5
    <3>2. Head(wire).seq # d
      BY <1>0, <2>5
    <3>3. Carried(Tail(wire), unsent[d], pending[d], d, messages[d].cmd, messages[d].parts)
      BY <1>1, <1>2, <2>1, <2>5, <3>2, CarriedBesideTake
    <3> QED
      BY <1>1, <2>2, <2>5, <3>1, <3>3
  <2> QED
    BY <2>3, <2>4, <2>5
<1>7. Conversing'
  BY <1>6 DEF Conversing
<1> QED
  BY <1>4, <1>5, <1>7 DEF MercuryInv

LEMMA InvEndDispatch ==
  ASSUME MercuryInv, EndDispatch
  PROVE  MercuryInv'
<1>1. UNCHANGED <<sequence, pending, panicked, asks, future, answer, messages, unsent, wire>>
  BY DEF EndDispatch, manager, callers, accesspoint
<1>2. TypeOK' /\ CallersOK'
  BY <1>1 DEF MercuryInv, TypeOK, CallersOK
<1>3. Conversing'
  BY <1>1, ConversingKept DEF MercuryInv
<1> QED
  BY <1>2, <1>3 DEF MercuryInv

\* The access point begins a message in a conversation it was silent in.
LEMMA InvBegin ==
  ASSUME MercuryInv, NEW c \in Conversations, messages[c] = None,
         NEW message, NEW cmd, NEW status, IsNew(message, c, cmd, status),
         messages' = [messages EXCEPT ![c] = message], unsent' = [unsent EXCEPT ![c] = message.parts],
         UNCHANGED <<sequence, pending, panicked, asks, future, answer, wire>>,
         c \in Requests => c < sequence /\ cmd = "reply",
         c \notin Requests => cmd = "event" /\ status = "ok"
  PROVE  MercuryInv'
<1>1. /\ message \in Messages /\ message.cmd = cmd /\ message.status = status
      /\ IsMessage(message.parts) /\ message.parts[1][1].of = c
  BY DEF IsNew
<1>2. messages'[c] = message /\ unsent'[c] = message.parts /\ message # None
  BY <1>1, MercuryAssumption DEF MercuryInv, TypeOK
<1>3. message.parts \in Payloads
  BY <1>1 DEF IsMessage
<1>4. TypeOK'
  BY <1>1, <1>3 DEF MercuryInv, TypeOK
<1>5. CallersOK'
  BY DEF MercuryInv, CallersOK
<1>6. MessageOK(c, messages[c])'
  BY <1>1, <1>2 DEF MessageOK
<1>7. Carried(wire, message.parts, pending[c], c, cmd, message.parts)
  <2>1. Silent(c)
    BY DEF MercuryInv, Conversing
  <2>2. SubSeq(message.parts, 1, 0) = <<>> /\ Partial(message.parts, 0, 0) = <<>>
        /\ 0 # Len(message.parts)
    BY <1>1, StartCursor
  <2>3. NewPending(TRUE) \in Entries /\ IsHeld(NewPending(TRUE), message.parts, 0, 0)
        /\ NewPending(TRUE).callback = TRUE /\ NewPending(TRUE) # None
    BY <2>2, NewPendingIsEntry DEF NewPending, IsHeld
  <2>4. IsStored(pending[c], c, message.parts, 0, 0)
    <3>1. CASE c \in Requests
      <4>1. pending[c] = NewPending(TRUE)
        BY <2>1, <3>1 DEF Silent
      <4> QED
        BY <2>2, <2>3, <3>1, <4>1 DEF IsStored
    <3>2. CASE c \notin Requests
      <4>1. pending[c] = None
        BY <2>1, <3>2 DEF Silent
      <4> QED
        BY <3>2, <4>1 DEF IsStored
    <3> QED
      BY <3>1, <3>2
  <2>5. wire \in Seq(Packets) /\ \A i \in 1 .. Len(wire) : wire[i].seq # c
    BY <2>1 DEF MercuryInv, TypeOK, Silent
  <2> QED
    BY <1>1, <2>4, <2>5, CarriedFromStart
<1>8. ASSUME NEW d \in Conversations
      PROVE  IF messages'[d] = None THEN Silent(d)'
             ELSE /\ MessageOK(d, messages[d])'
                  /\ Carried(wire', unsent'[d], pending'[d], d, messages'[d].cmd, messages'[d].parts)
  <2>1. CASE d = c
    BY <1>1, <1>2, <1>6, <1>7, <2>1
  <2>2. CASE d # c
    <3>1. messages'[d] = messages[d] /\ unsent'[d] = unsent[d]
      BY <2>2 DEF MercuryInv, TypeOK
    <3>2. IF messages[d] = None THEN Silent(d)
          ELSE /\ MessageOK(d, messages[d])
               /\ Carried(wire, unsent[d], pending[d], d, messages[d].cmd, messages[d].parts)
      BY DEF MercuryInv, Conversing
    <3>3. messages[d] = None => Silent(d)'
      BY <3>1, <3>2 DEF Silent
    <3>4. messages[d] # None => MessageOK(d, messages[d])'
      BY <3>1, <3>2 DEF MessageOK
    <3> QED
      BY <3>1, <3>2, <3>3, <3>4
  <2> QED
    BY <2>1, <2>2
<1>9. Conversing'
  BY <1>8 DEF Conversing
<1> QED
  BY <1>4, <1>5, <1>9 DEF MercuryInv

LEMMA InvReply ==
  ASSUME MercuryInv, NEW c \in Requests, NEW r \in Replies, Reply(c, r)
  PROVE  MercuryInv'
<1> DEFINE message == Message(c, "reply", r.status, asks[c].uri, r.sizes)
<1>1. c \in Conversations /\ c < sequence /\ messages[c] = None
  BY ConversationsAreTwo DEF Reply
<1>2. asks[c] \in Asks
  BY <1>1 DEF MercuryInv, CallersOK
<1>3. asks[c].uri \in Uris
  BY <1>2 DEF Uris
<1>4. r.status \in {"ok", "error"} /\ r.sizes \in Seq(Nat \ {0}) \ {<<>>}
  BY MercuryAssumption
<1>5. IsNew(message, c, "reply", r.status)
  BY <1>1, <1>3, <1>4, MessageIsNew
<1>6. messages' = [messages EXCEPT ![c] = message]
  BY DEF Reply
<1>7. messages'[c] = message
  BY <1>1, <1>6 DEF MercuryInv, TypeOK
<1>8. unsent' = [unsent EXCEPT ![c] = message.parts]
  BY <1>7 DEF Reply
<1>9. UNCHANGED <<sequence, pending, panicked, asks, future, answer, wire>>
  BY DEF Reply, manager, callers
<1> HIDE DEF message
<1> QED
  BY <1>1, <1>5, <1>6, <1>8, <1>9, InvBegin

LEMMA InvHappen ==
  ASSUME MercuryInv, NEW e \in EventIds, NEW event \in Events, Happen(e, event)
  PROVE  MercuryInv'
<1> DEFINE message == Message(e, "event", "ok", event.uri, event.sizes)
<1>1. e \in Conversations /\ messages[e] = None /\ e \notin Requests
  BY ConversationsAreTwo DEF Happen
<1>2. event.uri \in Uris
  BY DEF Uris
<1>3. event.sizes \in Seq(Nat \ {0}) \ {<<>>}
  BY MercuryAssumption
<1>4. IsNew(message, e, "event", "ok")
  BY <1>1, <1>2, <1>3, MessageIsNew
<1>5. messages' = [messages EXCEPT ![e] = message]
  BY DEF Happen
<1>6. messages'[e] = message
  BY <1>1, <1>5 DEF MercuryInv, TypeOK
<1>7. unsent' = [unsent EXCEPT ![e] = message.parts]
  BY <1>6 DEF Happen
<1>8. UNCHANGED <<sequence, pending, panicked, asks, future, answer, wire>>
  BY DEF Happen, manager, callers
<1> HIDE DEF message
<1> QED
  BY <1>1, <1>4, <1>5, <1>7, <1>8, InvBegin

LEMMA InvSendSome ==
  ASSUME MercuryInv, NEW c \in Conversations, SendSome(c)
  PROVE  MercuryInv'
<1> DEFINE rest == unsent[c]
<1>0. PICK whole \in 0 .. Len(rest) :
        \E cut \in 0 .. (IF whole < Len(rest) THEN Len(rest[whole + 1]) - 1 ELSE 0) :
          whole + cut > 0 /\ SendPacket(c, whole, cut)
  BY DEF SendSome
<1>1. PICK cut \in 0 .. (IF whole < Len(rest) THEN Len(rest[whole + 1]) - 1 ELSE 0) :
        whole + cut > 0 /\ SendPacket(c, whole, cut)
  BY <1>0
<1>2. PICK packet, left :
        /\ packet = [seq |-> c, cmd |-> messages[c].cmd,
                     parts |-> SubSeq(rest, 1, whole)
                                 \o (IF cut = 0 THEN <<>> ELSE <<SubSeq(rest[whole + 1], 1, cut)>>),
                     flags |-> IF left = <<>> THEN 1 ELSE IF cut > 0 THEN 2 ELSE 0]
        /\ left = IF cut = 0 THEN SubSeq(rest, whole + 1, Len(rest))
                  ELSE <<SubSeq(rest[whole + 1], cut + 1, Len(rest[whole + 1]))>>
                         \o SubSeq(rest, whole + 2, Len(rest))
  OBVIOUS
<1>3. /\ unsent' = [unsent EXCEPT ![c] = left] /\ wire' = Append(wire, packet)
      /\ UNCHANGED <<sequence, pending, panicked, asks, future, answer, messages>>
  BY <1>1, <1>2 DEF SendPacket, manager, callers
<1>4. /\ IsCutOff(packet, left, rest, whole, cut)
      /\ packet.seq = c /\ packet.cmd = messages[c].cmd
      /\ packet = [seq |-> packet.seq, cmd |-> packet.cmd, parts |-> packet.parts, flags |-> packet.flags]
  BY <1>2 DEF IsCutOff
<1>5. rest \in Payloads /\ wire \in Seq(Packets)
  BY DEF MercuryInv, TypeOK
<1>6. rest # <<>>
  <2>1. SUFFICES ASSUME rest = <<>> PROVE FALSE
    OBVIOUS
  <2>2. Len(rest) = 0
    BY <1>5, <2>1, PayloadTypes
  <2>3. whole = 0 /\ cut = 0
    BY <2>2
  <2> QED
    BY <1>1, <2>3
<1>7. messages[c] # None
  BY <1>6 DEF MercuryInv, Conversing, Silent
<1>8. /\ MessageOK(c, messages[c])
      /\ Carried(wire, rest, pending[c], c, messages[c].cmd, messages[c].parts)
  BY <1>7 DEF MercuryInv, Conversing
<1>9. IsMessage(messages[c].parts) /\ messages[c].cmd \in {"reply", "event"}
  BY <1>7, <1>8 DEF MessageOK
<1> HIDE DEF rest
<1>10. ASSUME NEW w, NEW k, IsCursor(messages[c].parts, w, k), rest = Rest(messages[c].parts, w, k)
       PROVE  \E v, l : IsSent(messages[c].parts, packet, left, w, k, v, l)
  BY <1>1, <1>4, <1>9, <1>10, PacketLeads
<1>11. packet \in Packets /\ left \in Payloads
  <2>1. PICK w, k : IsCursor(messages[c].parts, w, k) /\ rest = Rest(messages[c].parts, w, k)
    BY <1>5, <1>8, CarriedLeft
  <2>2. PICK v, l : IsSent(messages[c].parts, packet, left, w, k, v, l)
    BY <1>10, <2>1
  <2>3. packet.parts \in Payloads /\ left \in Payloads /\ packet.flags \in {0, 1, 2}
    BY <2>2 DEF IsSent
  <2> QED
    BY <1>4, <1>9, <2>3 DEF Packets
<1>12. Carried(wire', left, pending[c], c, messages[c].cmd, messages[c].parts)
  BY <1>3, <1>4, <1>5, <1>6, <1>8, <1>9, <1>10, <1>11, CarriedSent
<1>13. TypeOK'
  <2>1. wire' \in Seq(Packets)
    BY <1>3, <1>5, <1>11, PacketAppended DEF IsAppended
  <2> QED
    BY <1>3, <1>11, <2>1 DEF MercuryInv, TypeOK
<1>14. CallersOK'
  BY <1>3 DEF MercuryInv, CallersOK
<1>15. ASSUME NEW d \in Conversations
       PROVE  IF messages'[d] = None THEN Silent(d)'
              ELSE /\ MessageOK(d, messages[d])'
                   /\ Carried(wire', unsent'[d], pending'[d], d, messages'[d].cmd, messages'[d].parts)
  <2>1. IF messages[d] = None THEN Silent(d)
        ELSE /\ MessageOK(d, messages[d])
             /\ Carried(wire, unsent[d], pending[d], d, messages[d].cmd, messages[d].parts)
    BY DEF MercuryInv, Conversing
  <2>2. messages[d] # None => MessageOK(d, messages[d])'
    BY <1>3, <2>1 DEF MessageOK
  <2>3. CASE d = c
    <3>1. unsent'[d] = left
      BY <1>3, <2>3 DEF MercuryInv, TypeOK
    <3> QED
      BY <1>3, <1>7, <1>12, <2>2, <2>3, <3>1
  <2>4. CASE d # c
    <3>1. unsent'[d] = unsent[d]
      BY <1>3, <2>4 DEF MercuryInv, TypeOK
    <3>2. IsAppended(wire', wire, packet)
      BY <1>3, <1>5, <1>11, PacketAppended
    <3>3. ASSUME messages[d] = None
          PROVE  Silent(d)'
      <4>1. \A i \in 1 .. Len(wire) : wire[i].seq # d
        BY <2>1, <3>3 DEF Silent
      <4>2. Len(wire') = Len(wire) + 1 /\ Len(wire) \in Nat /\ wire'[Len(wire) + 1].seq # d
            /\ \A i \in 1 .. Len(wire) : wire'[i] = wire[i]
        BY <1>4, <1>5, <2>4, <3>2, LenProperties DEF IsAppended
      <4>3. \A i \in 1 .. Len(wire) + 1 : i \in 1 .. Len(wire) \/ i = Len(wire) + 1
        BY <4>2
      <4>4. \A i \in 1 .. Len(wire') : wire'[i].seq # d
        BY <4>1, <4>2, <4>3
      <4> QED
        BY <1>3, <2>1, <3>1, <3>3, <4>4 DEF Silent
    <3>4. ASSUME messages[d] # None
          PROVE  Carried(wire', unsent[d], pending[d], d, messages[d].cmd, messages[d].parts)
      <4>1. IsMessage(messages[d].parts)
        BY <2>1, <3>4 DEF MessageOK
      <4> QED
        BY <1>3, <1>4, <1>5, <1>11, <2>1, <2>4, <3>4, <4>1, CarriedBesideSend
    <3> QED
      BY <1>3, <2>2, <3>1, <3>3, <3>4
  <2> QED
    BY <2>3, <2>4
<1>16. Conversing'
  BY <1>15 DEF Conversing
<1> QED
  BY <1>13, <1>14, <1>16 DEF MercuryInv

\* The access point may cut and interleave its messages as it likes: at every
\* moment the entry of a conversation, the packets on the wire and what is unsent
\* make up its message, in order and each piece once (dispatch() in mercury/mod.rs).
THEOREM MercuryInvHolds == Spec => []MercuryInv
<1>1. Init => MercuryInv
  BY InvInit
<1>2. MercuryInv /\ [Next]_vars => MercuryInv'
  <2> SUFFICES ASSUME MercuryInv, [Next]_vars PROVE MercuryInv'
    OBVIOUS
  <2>1. CASE UNCHANGED vars
    <3>1. UNCHANGED <<sequence, pending, panicked, asks, future, answer, messages, unsent, wire>>
      BY <2>1 DEF vars, manager, callers, accesspoint
    <3>2. TypeOK' /\ CallersOK'
      BY <3>1 DEF MercuryInv, TypeOK, CallersOK
    <3>3. Conversing'
      BY <3>1, ConversingKept DEF MercuryInv
    <3> QED
      BY <3>2, <3>3 DEF MercuryInv
  <2>2. ASSUME NEW a \in Asks, Request(a) PROVE MercuryInv'
    BY <2>2, InvRequest
  <2>3. ASSUME NEW c \in Requests, TakeAnswer(c) PROVE MercuryInv'
    BY <2>3, InvTakeAnswer
  <2>4. ASSUME NEW c \in Requests, Drop(c) PROVE MercuryInv'
    BY <2>4, InvDrop
  <2>5. CASE Dispatch
    BY <2>5, InvDispatch
  <2>6. CASE EndDispatch
    BY <2>6, InvEndDispatch
  <2>7. ASSUME NEW c \in Requests, NEW r \in Replies, Reply(c, r) PROVE MercuryInv'
    BY <2>7, InvReply
  <2>8. ASSUME NEW e \in EventIds, NEW event \in Events, Happen(e, event) PROVE MercuryInv'
    BY <2>8, InvHappen
  <2>9. ASSUME NEW c \in Conversations, SendSome(c) PROVE MercuryInv'
    BY <2>9, InvSendSome
  <2>10. CASE Idle
    BY <2>1, <2>10 DEF Idle
  <2> QED
    BY <2>1, <2>2, <2>3, <2>4, <2>5, <2>6, <2>7, <2>8, <2>9, <2>10 DEF Next
<1> QED
  BY <1>1, <1>2, PTL DEF Spec

-----------------------------------------------------------------------------
\* What follows.

\* complete_request() finds the header it unwraps: a message the access point
\* began whole never makes it panic, however it was cut.
THEOREM HeaderIsAlwaysFound == Spec => [](~ panicked)
<1>1. MercuryInv => ~ panicked
  BY DEF MercuryInv, TypeOK
<1> QED
  BY <1>1, MercuryInvHolds, PTL

LEMMA EntryUntilFinal == MercuryInv => PendingUntilFinal
<1> SUFFICES ASSUME MercuryInv, NEW c \in Requests
             PROVE  pending[c] # None
                      <=> c < sequence /\ (messages[c] = None \/ unsent[c] # <<>> \/ OnWire(c))
  BY DEF PendingUntilFinal
<1>1. c \in Conversations
  BY ConversationsAreTwo
<1>2. CASE messages[c] = None
  <2>1. pending[c] = IF c < sequence THEN NewPending(TRUE) ELSE None
    BY <1>1, <1>2 DEF MercuryInv, Conversing, Silent
  <2> QED
    BY <1>2, <2>1, NewPendingIsEntry
<1>3. CASE messages[c] # None
  <2>1. /\ c < sequence
        /\ Carried(wire, unsent[c], pending[c], c, messages[c].cmd, messages[c].parts)
    BY <1>1, <1>3 DEF MercuryInv, Conversing, MessageOK
  <2>2. wire \in Seq(Packets)
    BY DEF MercuryInv, TypeOK
  <2>3. pending[c] # None <=> unsent[c] # <<>> \/ \E i \in 1 .. Len(wire) : wire[i].seq = c
    BY <2>1, <2>2, CarriedStored
  <2>4. OnWire(c) <=> \E i \in 1 .. Len(wire) : wire[i].seq = c
    BY <2>2, LenProperties DEF OnWire
  <2> QED
    BY <1>3, <2>1, <2>3, <2>4
<1> QED
  BY <1>2, <1>3

\* A request has its entry in `pending' until its final packet has been dispatched
\* and no longer: dispatch() puts an unfinished entry back, and no finished one.
THEOREM EntryIsKeptUntilFinal == Spec => []PendingUntilFinal
BY MercuryInvHolds, EntryUntilFinal, PTL

-----------------------------------------------------------------------------
\* The refinement of Rpc.

LEMMA CallsInit == Init => Calls!Init
<1> SUFFICES ASSUME Init PROVE Calls!Init
  OBVIOUS
<1>1. 0 .. sequence - 1 = {}
  BY DEF Init
<1>2. \A c \in Requests : c \in Conversations /\ messages[c] = None
  BY ConversationsAreTwo DEF Init
<1>3. answer = [c \in Requests |-> None]
  BY DEF Init
<1> QED
  BY <1>1, <1>2, <1>3 DEF Calls!Init

\* A step that makes no request, begins no answer and gives none is not a call.
LEMMA CallsStutter ==
  ASSUME UNCHANGED <<sequence, messages, answer>>
  PROVE  UNCHANGED Calls!vars
BY DEF Calls!vars

LEMMA CallsAsk ==
  ASSUME MercuryInv, NEW a \in Asks, Request(a)
  PROVE  Calls!Next
<1>1. /\ sequence \in Requests /\ sequence' = sequence + 1
      /\ UNCHANGED <<messages, answer>>
  BY MercuryAssumption DEF MercuryInv, TypeOK, Request, Requests, accesspoint
<1>2. sequence \in Nat
  BY MercuryAssumption DEF MercuryInv, TypeOK
<1>3. sequence \notin 0 .. sequence - 1 /\ 0 .. sequence' - 1 = (0 .. sequence - 1) \cup {sequence}
  BY <1>1, <1>2
<1>4. Calls!Ask(sequence)
  BY <1>1, <1>3 DEF Calls!Ask
<1> QED
  BY <1>1, <1>4 DEF Calls!Next

LEMMA CallsSettle ==
  ASSUME MercuryInv, NEW c \in Requests, NEW r \in Replies, Reply(c, r)
  PROVE  Calls!Next
<1>1. /\ c \in Conversations /\ c < sequence /\ messages[c] = None
      /\ messages' = [messages EXCEPT ![c] = messages'[c]]
      /\ UNCHANGED <<sequence, answer>>
  BY ConversationsAreTwo DEF Reply, manager, callers, MercuryInv, TypeOK
<1>2. c \in 0 .. sequence - 1
  BY <1>1, MercuryAssumption DEF MercuryInv, TypeOK, Requests
<1>3. \A d \in Requests : d # c => messages'[d] = messages[d]
  BY <1>1, ConversationsAreTwo DEF MercuryInv, TypeOK
<1>4. Calls!Settle(c)
  BY <1>1, <1>2, <1>3 DEF Calls!Settle
<1> QED
  BY <1>4 DEF Calls!Next

LEMMA CallsHappen ==
  ASSUME MercuryInv, NEW e \in EventIds, NEW event \in Events, Happen(e, event)
  PROVE  UNCHANGED Calls!vars
<1>1. /\ messages' = [messages EXCEPT ![e] = messages'[e]]
      /\ UNCHANGED <<sequence, answer>>
  BY ConversationsAreTwo DEF Happen, manager, callers, MercuryInv, TypeOK
<1>2. \A d \in Requests : messages'[d] = messages[d]
  BY <1>1, ConversationsAreTwo DEF MercuryInv, TypeOK
<1> QED
  BY <1>1, <1>2 DEF Calls!vars

LEMMA CallsAnswer ==
  ASSUME MercuryInv, Dispatch
  PROVE  Calls!Next \/ UNCHANGED Calls!vars
<1>0. PICK packet, c, grown :
        /\ packet = Head(wire) /\ c = packet.seq
        /\ grown = AddParts(IF pending[c] # None THEN pending[c] ELSE NewPending(FALSE), packet)
  OBVIOUS
<1>1. UNCHANGED <<sequence, messages>> /\ AnswersAtMostOne
  <2>1. Takes(packet, c, grown)
    BY <1>0, DispatchTakes
  <2> QED
    BY <2>1 DEF Takes
<1>2. CASE UNCHANGED <<future, answer>>
  BY <1>1, <1>2, CallsStutter
<1>3. ASSUME NEW d \in Requests, Answers(d)
      PROVE  Calls!Next
  <2>1. /\ d \in Conversations /\ messages[d] # None /\ future[d] = "waiting"
        /\ answer' = [answer EXCEPT ![d] = Result(messages[d].status, Tail(messages[d].parts))]
    BY <1>3, ConversationsAreTwo DEF Answers
  <2>2. answer[d] = None
    BY <2>1 DEF MercuryInv, CallersOK
  <2>3. IsMessage(messages[d].parts)
    BY <2>1 DEF MercuryInv, Conversing, MessageOK
  <2>4. Result(messages[d].status, Tail(messages[d].parts)) # None
    BY <2>1, <2>3, ResultTypes, MercuryAssumption DEF MercuryInv
  <2>5. Calls!Answer(d)
    BY <1>1, <2>1, <2>2, <2>4 DEF Calls!Answer
  <2> QED
    BY <2>5 DEF Calls!Next
<1> QED
  BY <1>1, <1>2, <1>3 DEF AnswersAtMostOne

\* MercuryManager is a Rpc: a call is answered at most once, and with nothing but
\* what the access point replied to that very call, whole.
THEOREM RefinesRpc == Spec => ImplementsRpc
<1>1. Init => Calls!Init
  BY CallsInit
<1>2. MercuryInv /\ [Next]_vars => [Calls!Next]_(Calls!vars)
  <2> SUFFICES ASSUME MercuryInv, [Next]_vars
               PROVE  Calls!Next \/ UNCHANGED Calls!vars
    OBVIOUS
  <2>1. CASE UNCHANGED vars
    BY <2>1, CallsStutter DEF vars, manager, callers, accesspoint
  <2>2. ASSUME NEW a \in Asks, Request(a) PROVE Calls!Next
    BY <2>2, CallsAsk
  <2>3. ASSUME NEW c \in Requests, TakeAnswer(c) PROVE UNCHANGED Calls!vars
    BY <2>3, CallsStutter DEF TakeAnswer, accesspoint
  <2>4. ASSUME NEW c \in Requests, Drop(c) PROVE UNCHANGED Calls!vars
    BY <2>4, CallsStutter DEF Drop, manager, accesspoint
  <2>5. CASE Dispatch
    BY <2>5, CallsAnswer
  <2>6. CASE EndDispatch
    BY <2>6, CallsStutter DEF EndDispatch, manager, callers, accesspoint
  <2>7. ASSUME NEW c \in Requests, NEW r \in Replies, Reply(c, r) PROVE Calls!Next
    BY <2>7, CallsSettle
  <2>8. ASSUME NEW e \in EventIds, NEW event \in Events, Happen(e, event) PROVE UNCHANGED Calls!vars
    BY <2>8, CallsHappen
  <2>9. ASSUME NEW c \in Conversations, SendSome(c) PROVE UNCHANGED Calls!vars
    BY <2>9, CallsStutter DEF SendSome, SendPacket, manager, callers
  <2>10. CASE Idle
    BY <2>1, <2>10 DEF Idle
  <2> QED
    BY <2>1, <2>2, <2>3, <2>4, <2>5, <2>6, <2>7, <2>8, <2>9, <2>10 DEF Next
<1> QED
  BY <1>1, <1>2, MercuryInvHolds, PTL DEF Spec, ImplementsRpc, Calls!Spec

-----------------------------------------------------------------------------
\* What subscribers get.

\* The subscription that the i-th URI of the answer to c became.
Listing(c, i) ==
  [uri |-> IF answer[c].payload = <<>> THEN asks[c].uri ELSE ListedUri, to |-> c, entry |-> i]

\* Every part of a message that is not empty begins with whose it is.
Signed == \A c \in Conversations : messages[c] # None =>
            \A i \in 1 .. Len(messages[c].parts) : messages[c].parts[i][1].of = c

\* Who is told "ok" has an answer, and so has whoever is subscribed.
Answered ==
  /\ \A c \in Requests : future[c] \in {"ok", "error"} => answer[c] # None
  /\ \A s \in subscriptions :
       /\ s.to \in Requests /\ answer[s.to] # None
       /\ \E i \in 1 .. Listings(s.to) : s = Listing(s.to, i)

\* An event of which nothing is left to come.
Over(e) ==
  /\ e \in EventIds /\ messages[e] # None /\ unsent[e] = <<>>
  /\ \A i \in 1 .. Len(wire) : wire[i].seq # e

\* What c was given are such events, each at one time.
Given(c) ==
  /\ inbox[c] \in Seq(Payloads)
  /\ inbox[c] # <<>> => answer[c] # None
  /\ \A i \in 1 .. Len(inbox[c]) : \E e : Over(e) /\ inbox[c][i] = Tail(messages[e].parts)
  /\ \A i, j \in 1 .. Len(inbox[c]) :
       inbox[c][i] = inbox[c][j] /\ inbox[c][i] # <<>> => i - j < Listings(c)

DeliveryInv == Signed /\ Answered /\ \A c \in Requests : Given(c)

\* An answer lists as many URIs as it has parts, but one at least.
LEMMA ListingsType ==
  ASSUME TypeOK, NEW c \in Requests, answer[c] # None
  PROVE  Listings(c) \in Nat \ {0} /\ answer[c].payload \in Payloads
<1>1. answer[c] \in Results
  BY DEF TypeOK
<1>2. answer[c].payload \in Payloads
  BY <1>1 DEF Results
<1>3. answer[c].payload # <<>> => Len(answer[c].payload) \in Nat \ {0}
  BY <1>2, PayloadTypes
<1> QED
  BY <1>2, <1>3 DEF Listings

\* Of the subscriptions, no more lead to c than its answer listed.
LEMMA SubscriptionsBounded ==
  ASSUME TypeOK, Answered, NEW c \in Requests, NEW S,
         S \subseteq {s \in subscriptions : s.to = c}
  PROVE  /\ Cardinality(S) \in Nat
         /\ S # {} => answer[c] # None
         /\ answer[c] # None => Cardinality(S) <= Listings(c)
<1>1. CASE S = {}
  <2>1. answer[c] # None => Listings(c) \in Nat \ {0}
    BY ListingsType
  <2> QED
    BY <1>1, <2>1, FS_EmptySet
<1>2. CASE S # {}
  <2>1. answer[c] # None
    BY <1>2 DEF Answered
  <2> PICK k : k = Listings(c)
    OBVIOUS
  <2>2. k \in Nat \ {0}
    BY <2>1, ListingsType
  <2>3. \A s \in S : \E i \in 1 .. k : s = Listing(c, i)
    BY DEF Answered
  <2>4. \A s \in S : s.entry \in 1 .. k /\ s = Listing(c, s.entry)
    BY <2>3 DEF Listing
  <2> PICK f : f = [s \in S |-> s.entry]
    OBVIOUS
  <2>5. f \in Injection(S, 1 .. k)
    <3>1. f \in [S -> 1 .. k]
      BY <2>4
    <3>2. \A s, t \in S : f[s] = f[t] => s = t
      BY <2>4
    <3> QED
      BY <3>1, <3>2 DEF Injection, IsInjective
  <2>6. IsFiniteSet(1 .. k) /\ Cardinality(1 .. k) = k
    BY <2>2, FS_Interval
  <2>7. IsFiniteSet(S) /\ Cardinality(S) <= k
    BY <2>5, <2>6, FS_Injection
  <2> QED
    BY <2>1, <2>7, FS_CardinalityType
<1> QED
  BY <1>1, <1>2

\* What has something after its head is two long.
LEMMA TwoAtLeast == \A n, l \in Nat : l # 0 /\ l = n - 1 => 1 \in 1 .. l /\ 2 \in 1 .. n
OBVIOUS

\* Of two events that are not empty no one is taken for the other.
LEMMA PayloadsDiffer ==
  ASSUME MercuryInv, Signed, NEW c \in Conversations, NEW d \in Conversations,
         messages[c] # None, messages[d] # None,
         Tail(messages[c].parts) = Tail(messages[d].parts), Tail(messages[c].parts) # <<>>
  PROVE  c = d
<1>1. ASSUME NEW x \in Conversations, messages[x] # None, Tail(messages[x].parts) # <<>>
      PROVE  Tail(messages[x].parts)[1][1].of = x
  <2> PICK m : m = messages[x].parts
    OBVIOUS
  <2>1. m \in Seq(Parts) /\ m # <<>>
    BY <1>1 DEF MercuryInv, Conversing, MessageOK, IsMessage, Payloads
  <2>2. /\ Len(m) \in Nat /\ Tail(m) \in Seq(Parts) /\ Len(Tail(m)) = Len(m) - 1
        /\ \A i \in 1 .. Len(Tail(m)) : Tail(m)[i] = m[i + 1]
    BY <2>1, HeadTailProperties, LenProperties
  <2>3. Len(Tail(m)) \in Nat \ {0}
    BY <1>1, <2>2, EmptySeq, LenProperties
  <2>4. 1 \in 1 .. Len(Tail(m)) /\ 2 \in 1 .. Len(m)
    <3> PICK n, l : n = Len(m) /\ l = Len(Tail(m))
      OBVIOUS
    <3>1. n \in Nat /\ l \in Nat /\ l # 0 /\ l = n - 1
      BY <2>2, <2>3
    <3>2. 1 \in 1 .. l /\ 2 \in 1 .. n
      BY <3>1, TwoAtLeast
    <3> QED
      BY <3>2
  <2>5. Tail(m)[1] = m[2]
    BY <2>2, <2>4
  <2>6. m[2][1].of = x
    BY <1>1, <2>4 DEF Signed
  <2> QED
    BY <2>5, <2>6
<1> QED
  BY <1>1

\* What no step takes back: that a caller has its answer, and that an event is over.
Keeps ==
  /\ \A c \in Requests : answer[c] # None => asks'[c] = asks[c] /\ answer'[c] = answer[c]
  /\ \A e : Over(e) => Over(e)' /\ messages'[e] = messages[e]

LEMMA KeepsRequest ==
  ASSUME MercuryInv, NEW a \in Asks, Request(a)
  PROVE  Keeps
<1>1. /\ UNCHANGED <<answer, messages, unsent, wire>>
      /\ asks' = [asks EXCEPT ![sequence] = a]
  BY DEF Request, accesspoint
<1>2. \A c \in Requests : answer[c] # None => c # sequence
  BY MercuryAssumption DEF MercuryInv, TypeOK, CallersOK, Requests
<1> QED
  BY <1>1, <1>2 DEF Keeps, Over, MercuryInv, TypeOK

LEMMA KeepsDispatch ==
  ASSUME MercuryInv, Dispatch
  PROVE  Keeps
<1>0. PICK packet, c, grown :
        /\ packet = Head(wire) /\ c = packet.seq
        /\ grown = AddParts(IF pending[c] # None THEN pending[c] ELSE NewPending(FALSE), packet)
  OBVIOUS
<1>1. /\ wire # <<>> /\ wire' = Tail(wire)
      /\ UNCHANGED <<asks, messages, unsent>>
      /\ AnswersAtMostOne
  <2>1. Takes(packet, c, grown)
    BY <1>0, DispatchTakes
  <2> QED
    BY <2>1 DEF Takes
<1>2. \A d \in Requests : answer[d] # None => answer'[d] = answer[d]
  BY <1>1 DEF AnswersAtMostOne, Answers, MercuryInv, TypeOK, CallersOK
<1>3. IsTail(wire', wire)
  BY <1>1, PacketTaken DEF MercuryInv, TypeOK
<1>4. \A i \in 1 .. Len(wire') : i + 1 \in 1 .. Len(wire) /\ wire'[i] = wire[i + 1]
  BY <1>3 DEF IsTail
<1>5. \A e : Over(e) => Over(e)'
  BY <1>1, <1>4 DEF Over
<1> QED
  BY <1>1, <1>2, <1>5 DEF Keeps

\* The access point begins a message where it was silent.
LEMMA KeepsBegin ==
  ASSUME MercuryInv, NEW c \in Conversations, messages[c] = None, NEW message, NEW left,
         messages' = [messages EXCEPT ![c] = message], unsent' = [unsent EXCEPT ![c] = left],
         UNCHANGED <<asks, answer, wire>>
  PROVE  Keeps
<1>1. \A e : Over(e) => e # c /\ e \in Conversations
  BY ConversationsAreTwo DEF Over
<1>2. \A e \in Conversations : e # c => messages'[e] = messages[e] /\ unsent'[e] = unsent[e]
  BY DEF MercuryInv, TypeOK
<1>3. \A e : Over(e) => Over(e)' /\ messages'[e] = messages[e]
  BY <1>1, <1>2 DEF Over
<1> QED
  BY <1>3 DEF Keeps

LEMMA KeepsSendSome ==
  ASSUME MercuryInv, MercuryInv', NEW c \in Conversations, SendSome(c)
  PROVE  Keeps
<1>1. PICK packet, left :
        /\ wire' = Append(wire, packet) /\ packet.seq = c
        /\ unsent' = [unsent EXCEPT ![c] = left]
        /\ UNCHANGED <<asks, answer, messages>>
  BY DEF SendSome, SendPacket, manager, callers
<1>2. unsent[c] # <<>>
  <2>1. SUFFICES ASSUME unsent[c] = <<>> PROVE FALSE
    OBVIOUS
  <2>2. Len(unsent[c]) = 0
    BY <2>1
  <2> QED
    BY <2>2 DEF SendSome
<1>3. \A e : Over(e) => e # c /\ e \in Conversations
  BY <1>2, ConversationsAreTwo DEF Over
<1>4. \A e \in Conversations : e # c => unsent'[e] = unsent[e]
  BY <1>1 DEF MercuryInv, TypeOK
<1>5. Len(wire') = Len(wire) + 1 /\ Len(wire) \in Nat /\ wire'[Len(wire) + 1] = packet
      /\ \A i \in 1 .. Len(wire) : wire'[i] = wire[i]
  <2>1. wire \in Seq(Packets)
    BY DEF MercuryInv, TypeOK
  <2> QED
    BY <1>1, <2>1, AppendProperties, LenProperties
<1>6. \A i \in 1 .. Len(wire') : i \in 1 .. Len(wire) \/ i = Len(wire) + 1
  BY <1>5
<1>7. \A e : Over(e) => Over(e)'
  BY <1>1, <1>3, <1>4, <1>5, <1>6 DEF Over
<1> QED
  BY <1>1, <1>7 DEF Keeps

\* A step that gives c nothing.
LEMMA GivenKept ==
  ASSUME MercuryInv, Keeps, NEW c \in Requests, Given(c), inbox'[c] = inbox[c]
  PROVE  Given(c)'
<1>1. answer[c] # None => answer'[c] = answer[c] /\ Listings(c)' = Listings(c)
  BY DEF Keeps, Listings
<1>2. \A i \in 1 .. Len(inbox[c]) : \E e : Over(e)' /\ inbox'[c][i] = Tail(messages'[e].parts)
  BY DEF Given, Keeps
<1>3. \A i, j \in 1 .. Len(inbox[c]) :
        inbox[c][i] = inbox[c][j] /\ inbox[c][i] # <<>> => i - j < Listings(c)
  BY DEF Given
<1>4. \A i, j \in 1 .. Len(inbox[c]) :
        inbox'[c][i] = inbox'[c][j] /\ inbox'[c][i] # <<>> => i - j < Listings(c)'
  <2>1. CASE inbox[c] = <<>>
    <3>1. 1 .. Len(inbox[c]) = {}
      BY <2>1
    <3> QED
      BY <3>1
  <2>2. CASE inbox[c] # <<>>
    BY <1>1, <1>3, <2>2 DEF Given
  <2> QED
    BY <2>1, <2>2
<1>5. inbox'[c] \in Seq(Payloads) /\ (inbox'[c] # <<>> => answer'[c] # None)
  BY <1>1 DEF Given
<1> QED
  BY <1>2, <1>4, <1>5 DEF Given

\* A step that subscribes nobody.
LEMMA AnsweredKept ==
  ASSUME MercuryInv, Keeps, Answered, subscriptions' \subseteq subscriptions,
         \A c \in Requests : future'[c] \in {"ok", "error"} => answer'[c] # None
  PROVE  Answered'
<1>1. ASSUME NEW s \in subscriptions
      PROVE  /\ s.to \in Requests /\ answer'[s.to] # None
             /\ \E i \in 1 .. Listings(s.to)' : s = Listing(s.to, i)'
  <2>1. /\ s.to \in Requests /\ answer[s.to] # None
        /\ \E i \in 1 .. Listings(s.to) : s = Listing(s.to, i)
    BY DEF Answered
  <2>2. asks'[s.to] = asks[s.to] /\ answer'[s.to] = answer[s.to]
    BY <2>1 DEF Keeps
  <2>3. Listings(s.to)' = Listings(s.to) /\ \A i : Listing(s.to, i)' = Listing(s.to, i)
    BY <2>2 DEF Listings, Listing
  <2> QED
    BY <2>1, <2>2, <2>3
<1> QED
  BY <1>1 DEF Answered

LEMMA SignedKept ==
  ASSUME Signed, UNCHANGED messages
  PROVE  Signed'
BY DEF Signed

\* A step that neither answers, nor subscribes, nor delivers.
LEMMA DeliveryKept ==
  ASSUME MercuryInv, Keeps, DeliveryInv, UNCHANGED <<subscriptions, inbox>>, Signed',
         \A c \in Requests : future'[c] \in {"ok", "error"} => answer'[c] # None
  PROVE  DeliveryInv'
<1>1. Answered'
  BY AnsweredKept DEF DeliveryInv
<1>2. \A c \in Requests : Given(c)'
  BY GivenKept DEF DeliveryInv
<1> QED
  BY <1>1, <1>2 DEF DeliveryInv

LEMMA NotEmpty ==
  ASSUME NEW s, NEW i \in 1 .. Len(s)
  PROVE  s # <<>>
<1> SUFFICES ASSUME s = <<>> PROVE FALSE
  OBVIOUS
<1>1. Len(s) = 0
  OBVIOUS
<1> QED
  BY <1>1

\* k times the same event at the end of what c was given before.
IsMore(new, old, p, k) ==
  /\ new \in Seq(Payloads) /\ Len(new) = Len(old) + k /\ Len(old) \in Nat
  /\ \A i \in 1 .. Len(old) : new[i] = old[i]
  /\ \A i \in 1 .. Len(new) : i \in 1 .. Len(old) \/ (i > Len(old) /\ new[i] = p)

LEMMA Copies ==
  ASSUME NEW old \in Seq(Payloads), NEW p \in Payloads, NEW k \in Nat, NEW new,
         new = old \o [i \in 1 .. k |-> p]
  PROVE  IsMore(new, old, p, k)
<1> DEFINE f == [i \in 1 .. k |-> p]
<1>1. f \in [1 .. k -> Payloads] /\ \A i \in 1 .. k : f[i] = p
  OBVIOUS
<1>2. f \in Seq(Payloads) /\ DOMAIN f = 1 .. k
  BY <1>1, SeqDef
<1> HIDE DEF f
<1>3. Len(f) = k /\ Len(old) \in Nat
  BY <1>2, LenProperties
<1>4. /\ old \o f \in Seq(Payloads) /\ Len(old \o f) = Len(old) + Len(f)
      /\ \A i \in 1 .. Len(old) + Len(f) :
           (old \o f)[i] = IF i <= Len(old) THEN old[i] ELSE f[i - Len(old)]
  BY <1>2, ConcatProperties
<1>5. new = old \o f
  BY DEF f
<1>6. \A i \in 1 .. Len(old) + k : i > Len(old) => i - Len(old) \in 1 .. k
  BY <1>3
<1> QED
  BY <1>1, <1>3, <1>4, <1>5, <1>6 DEF IsMore

\* An event that comes is none of those that c has, which were over before.
LEMMA GivenMore ==
  ASSUME MercuryInv, Signed, Keeps, NEW c \in Requests, Given(c),
         NEW e \in Conversations, messages[e] # None, ~ Over(e), Over(e)',
         NEW k \in Nat, k > 0 => answer[c] # None, answer[c] # None => k <= Listings(c),
         inbox'[c] = inbox[c] \o [i \in 1 .. k |-> Tail(messages[e].parts)],
         messages'[e] = messages[e]
  PROVE  Given(c)'
<1> PICK old, new, p, b :
      old = inbox[c] /\ new = inbox'[c] /\ p = Tail(messages[e].parts) /\ b = Listings(c)
  OBVIOUS
<1>1. answer[c] # None => answer'[c] = answer[c] /\ Listings(c)' = b /\ b \in Nat \ {0}
  BY ListingsType DEF Keeps, Listings, MercuryInv
<1>2. p \in Payloads
  BY HeadTailProperties DEF MercuryInv, Conversing, MessageOK, IsMessage, Payloads
<1>3. old \in Seq(Payloads)
  BY DEF Given
<1>4. /\ new \in Seq(Payloads) /\ Len(new) = Len(old) + k /\ Len(old) \in Nat
      /\ \A i \in 1 .. Len(old) : new[i] = old[i]
      /\ \A i \in 1 .. Len(new) : i \in 1 .. Len(old) \/ (i > Len(old) /\ new[i] = p)
  <2>1. new = old \o [i \in 1 .. k |-> p]
    OBVIOUS
  <2>2. IsMore(new, old, p, k)
    BY <1>2, <1>3, <2>1, Copies
  <2> QED
    BY <2>2 DEF IsMore
<1>5. new # <<>> => answer[c] # None
  <2>1. SUFFICES ASSUME new # <<>>, k = 0 PROVE answer[c] # None
    OBVIOUS
  <2>2. Len(new) # 0
    BY <1>4, <2>1, EmptySeq
  <2>3. old # <<>>
    BY <1>4, <2>1, <2>2, LenProperties
  <2> QED
    BY <2>3 DEF Given
<1>6. \A i \in 1 .. Len(old) : \E d : Over(d) /\ Over(d)' /\ messages'[d] = messages[d]
                                       /\ old[i] = Tail(messages[d].parts)
  BY DEF Given, Keeps
<1>7. \A i \in 1 .. Len(new) : \E d : Over(d)' /\ new[i] = Tail(messages'[d].parts)
  <2> SUFFICES ASSUME NEW i \in 1 .. Len(new)
               PROVE  \E d : Over(d)' /\ new[i] = Tail(messages'[d].parts)
    OBVIOUS
  <2>1. CASE i \in 1 .. Len(old)
    <3>1. new[i] = old[i]
      BY <1>4, <2>1
    <3> QED
      BY <1>6, <2>1, <3>1
  <2>2. CASE new[i] = p
    <3>1. Over(e)' /\ new[i] = Tail(messages'[e].parts)
      BY <2>2
    <3> QED
      BY <3>1
  <2> QED
    BY <1>4, <2>1, <2>2
<1>8. \A i \in 1 .. Len(old) : old[i] = p => p = <<>>
  <2> SUFFICES ASSUME NEW i \in 1 .. Len(old), old[i] = p, p # <<>> PROVE FALSE
    OBVIOUS
  <2>1. PICK d : Over(d) /\ old[i] = Tail(messages[d].parts)
    BY <1>6
  <2>2. d \in Conversations /\ messages[d] # None
    BY <2>1, ConversationsAreTwo DEF Over
  <2>3. d = e
    BY <2>1, <2>2, PayloadsDiffer
  <2> QED
    BY <2>1, <2>3
<1>9. \A i, j \in 1 .. Len(old) : old[i] = old[j] /\ old[i] # <<>> => i - j < b
  BY DEF Given
<1>10. ASSUME NEW i \in 1 .. Len(new), NEW j \in 1 .. Len(new), new[i] = new[j], new[i] # <<>>
       PROVE  i - j < b
  <2>1. answer[c] # None
    <3>1. new # <<>>
      BY NotEmpty
    <3> QED
      BY <1>5, <3>1
  <2>2. b \in Nat \ {0} /\ k <= b
    BY <1>1, <2>1
  <2>3. CASE i \in 1 .. Len(old) /\ j \in 1 .. Len(old)
    BY <1>4, <1>9, <1>10, <2>3
  <2>4. CASE i \in 1 .. Len(old) /\ j > Len(old)
    BY <1>4, <2>2, <2>4
  <2>5. CASE i > Len(old) /\ j > Len(old)
    <3>1. i <= Len(old) + k /\ i \in Nat /\ j \in Nat
      BY <1>4
    <3> QED
      BY <1>4, <2>2, <2>5, <3>1
  <2>6. CASE i > Len(old) /\ new[i] = p /\ j \in 1 .. Len(old)
    BY <1>4, <1>8, <1>10, <2>6
  <2> QED
    BY <1>4, <2>3, <2>4, <2>5, <2>6
<1>11. \A i, j \in 1 .. Len(new) : new[i] = new[j] /\ new[i] # <<>> => i - j < Listings(c)'
  <2> SUFFICES ASSUME NEW i \in 1 .. Len(new), NEW j \in 1 .. Len(new), new[i] = new[j], new[i] # <<>>
               PROVE  i - j < Listings(c)'
    OBVIOUS
  <2>1. new # <<>>
    BY NotEmpty
  <2> QED
    BY <1>1, <1>5, <1>10, <2>1
<1>12. new # <<>> => answer'[c] # None
  BY <1>1, <1>5
<1> QED
  BY <1>4, <1>7, <1>11, <1>12 DEF Given

LEMMA SignedBegin ==
  ASSUME MercuryInv, Signed, NEW c \in Conversations, NEW message, NEW cmd, NEW status,
         IsNew(message, c, cmd, status), messages' = [messages EXCEPT ![c] = message]
  PROVE  Signed'
<1>1. messages'[c] = message /\ \A d \in Conversations : d # c => messages'[d] = messages[d]
  BY DEF MercuryInv, TypeOK
<1>2. \A i \in 1 .. Len(message.parts) : message.parts[i][1].of = c
  BY DEF IsNew
<1> SUFFICES ASSUME NEW d \in Conversations, messages'[d] # None
             PROVE  \A i \in 1 .. Len(messages'[d].parts) : messages'[d].parts[i][1].of = d
  BY DEF Signed
<1>3. CASE d = c
  BY <1>1, <1>2, <1>3
<1>4. CASE d # c
  BY <1>1, <1>4 DEF Signed
<1> QED
  BY <1>3, <1>4

LEMMA DeliveryInit == Init => DeliveryInv
<1> SUFFICES ASSUME Init PROVE DeliveryInv
  OBVIOUS
<1>1. Signed
  BY DEF Init, Signed
<1>2. Answered
  BY DEF Init, Answered
<1>3. ASSUME NEW c \in Requests PROVE Given(c)
  <2>1. inbox[c] = <<>> /\ <<>> \in Seq(Payloads) /\ Len(<<>>) = 0 /\ 1 .. 0 = {}
    BY DEF Init
  <2> QED
    BY <2>1 DEF Given
<1> QED
  BY <1>1, <1>2, <1>3 DEF DeliveryInv

LEMMA DeliveryRequest ==
  ASSUME MercuryInv, DeliveryInv, NEW a \in Asks, Request(a)
  PROVE  DeliveryInv'
<1>1. UNCHANGED <<subscriptions, inbox, answer, messages>>
      /\ future' = [future EXCEPT ![sequence] = "waiting"]
  BY DEF Request, accesspoint
<1>2. \A c \in Requests : future'[c] \in {"ok", "error"} => answer'[c] # None
  BY <1>1 DEF DeliveryInv, Answered, MercuryInv, TypeOK
<1> QED
  BY <1>1, <1>2, KeepsRequest, SignedKept, DeliveryKept DEF DeliveryInv

LEMMA DeliveryTakeAnswer ==
  ASSUME MercuryInv, DeliveryInv, NEW c \in Requests, TakeAnswer(c)
  PROVE  DeliveryInv'
<1>1. /\ UNCHANGED <<asks, answer, inbox, messages, unsent, wire>>
      /\ \E f \in {"taken", "panicked"} : future' = [future EXCEPT ![c] = f]
      /\ future[c] \in {"ok", "error"}
      /\ Subscribe(c) \/ UNCHANGED subscriptions
  BY DEF TakeAnswer, accesspoint
<1>2. Keeps
  BY <1>1 DEF Keeps, Over
<1>3. answer[c] # None
  BY <1>1 DEF DeliveryInv, Answered
<1>4. answer[c].payload \in Payloads
  BY <1>3, ListingsType DEF MercuryInv
<1>5. \A s \in subscriptions' :
        s \in subscriptions \/ \E i \in 1 .. Listings(c) : s = Listing(c, i)
  <2>1. CASE UNCHANGED subscriptions
    BY <2>1
  <2>2. CASE Subscribe(c) /\ answer[c].payload = <<>>
    <3>1. subscriptions' = subscriptions \cup
            {[uri |-> <<asks[c].uri>>[i], to |-> c, entry |-> i] : i \in DOMAIN <<asks[c].uri>>}
      BY <2>2 DEF Subscribe
    <3>2. DOMAIN <<asks[c].uri>> = {1} /\ <<asks[c].uri>>[1] = asks[c].uri
      OBVIOUS
    <3>3. Listings(c) = 1 /\ 1 \in 1 .. 1
      BY <2>2 DEF Listings
    <3>4. Listing(c, 1) = [uri |-> asks[c].uri, to |-> c, entry |-> 1]
      BY <2>2 DEF Listing
    <3>5. \A s \in subscriptions' : s \in subscriptions \/ s = Listing(c, 1)
      BY <3>1, <3>2, <3>4
    <3> QED
      BY <3>3, <3>5
  <2>3. CASE Subscribe(c) /\ answer[c].payload # <<>>
    <3> PICK payload : payload = answer[c].payload
      OBVIOUS
    <3>1. subscriptions' = subscriptions \cup
            {[uri |-> [j \in DOMAIN payload |-> ListedUri][i], to |-> c, entry |-> i] :
              i \in DOMAIN [j \in DOMAIN payload |-> ListedUri]}
      BY <2>3 DEF Subscribe
    <3>2. subscriptions' = subscriptions \cup
            {[uri |-> ListedUri, to |-> c, entry |-> i] : i \in DOMAIN payload}
      BY <3>1
    <3>3. DOMAIN payload = 1 .. Listings(c)
      BY <1>4, <2>3, PayloadTypes DEF Listings
    <3>4. \A i : Listing(c, i) = [uri |-> ListedUri, to |-> c, entry |-> i]
      BY <2>3 DEF Listing
    <3> QED
      BY <3>2, <3>3, <3>4
  <2> QED
    BY <1>1, <2>1, <2>2, <2>3
<1>6. /\ \A d : Listings(d)' = Listings(d)
      /\ \A d, i : Listing(d, i)' = Listing(d, i)
  BY <1>1 DEF Listings, Listing
<1>7. \A d \in Requests : future'[d] \in {"ok", "error"} => answer'[d] # None
  BY <1>1 DEF DeliveryInv, Answered, MercuryInv, TypeOK
<1>8. ASSUME NEW s \in subscriptions'
      PROVE  /\ s.to \in Requests /\ answer'[s.to] # None
             /\ \E i \in 1 .. Listings(s.to)' : s = Listing(s.to, i)'
  <2>1. CASE s \in subscriptions
    BY <1>1, <1>6, <2>1 DEF DeliveryInv, Answered
  <2>2. ASSUME NEW i \in 1 .. Listings(c), s = Listing(c, i)
        PROVE  /\ s.to \in Requests /\ answer'[s.to] # None
               /\ \E j \in 1 .. Listings(s.to)' : s = Listing(s.to, j)'
    <3>1. s.to = c
      BY <2>2 DEF Listing
    <3> QED
      BY <1>1, <1>3, <1>6, <2>2, <3>1
  <2> QED
    BY <1>5, <2>1, <2>2
<1>9. Answered'
  BY <1>7, <1>8 DEF Answered
<1>10. \A d \in Requests : Given(d)'
  BY <1>1, <1>2, GivenKept DEF DeliveryInv
<1> QED
  BY <1>1, <1>9, <1>10, SignedKept DEF DeliveryInv

LEMMA DeliveryDrop ==
  ASSUME MercuryInv, DeliveryInv, NEW c \in Requests, Drop(c)
  PROVE  DeliveryInv'
<1>1. /\ UNCHANGED <<subscriptions, asks, answer, inbox, messages, unsent, wire>>
      /\ future' = [future EXCEPT ![c] = "dropped"]
  BY DEF Drop, manager, accesspoint
<1>2. Keeps
  BY <1>1 DEF Keeps, Over
<1>3. \A d \in Requests : future'[d] \in {"ok", "error"} => answer'[d] # None
  BY <1>1 DEF DeliveryInv, Answered, MercuryInv, TypeOK
<1> QED
  BY <1>1, <1>2, <1>3, SignedKept, DeliveryKept DEF DeliveryInv

LEMMA DeliveryDispatch ==
  ASSUME MercuryInv, DeliveryInv, Dispatch
  PROVE  DeliveryInv'
<1>0. PICK packet, e, grown :
        /\ packet = Head(wire) /\ e = packet.seq
        /\ grown = AddParts(IF pending[e] # None THEN pending[e] ELSE NewPending(FALSE), packet)
  OBVIOUS
<1>1. /\ wire # <<>> /\ wire' = Tail(wire)
      /\ UNCHANGED <<asks, messages, unsent>>
      /\ AnswersAtMostOne
      /\ UNCHANGED <<subscriptions, inbox>> \/ Delivers(e)
  <2>1. Takes(packet, e, grown)
    BY <1>0, DispatchTakes
  <2> QED
    BY <2>1 DEF Takes
<1>2. Keeps /\ Signed'
  BY <1>1, KeepsDispatch, SignedKept DEF DeliveryInv
<1>3. \A d \in Requests : future'[d] \in {"ok", "error"} => answer'[d] # None
  <2>1. CASE UNCHANGED <<future, answer>>
    BY <2>1 DEF DeliveryInv, Answered
  <2>2. ASSUME NEW c \in Requests, Answers(c)
        PROVE  \A d \in Requests : future'[d] \in {"ok", "error"} => answer'[d] # None
    <3>1. /\ c \in Conversations /\ messages[c] # None
          /\ future' = [future EXCEPT ![c] = messages[c].status]
          /\ answer' = [answer EXCEPT ![c] = Result(messages[c].status, Tail(messages[c].parts))]
      BY <2>2, ConversationsAreTwo DEF Answers
    <3>2. IsMessage(messages[c].parts)
      BY <3>1 DEF MercuryInv, Conversing, MessageOK
    <3>3. Result(messages[c].status, Tail(messages[c].parts)) # None
      BY <3>1, <3>2, ResultTypes, MercuryAssumption DEF MercuryInv
    <3> QED
      BY <3>1, <3>3 DEF DeliveryInv, Answered, MercuryInv, TypeOK
  <2> QED
    BY <1>1, <2>1, <2>2 DEF AnswersAtMostOne
<1>4. CASE UNCHANGED <<subscriptions, inbox>>
  BY <1>2, <1>3, <1>4, DeliveryKept
<1>5. CASE Delivers(e)
  <2> DEFINE hits == {s \in subscriptions : StartsWith(messages[e].uri, s.uri)}
             taken == {s \in hits : future[s.to] = "taken"}
             Mine(c) == {s \in taken : s.to = c}
  <2>1. /\ subscriptions' = (subscriptions \ hits) \cup taken
        /\ inbox' = [c \in Requests |->
             inbox[c] \o [i \in 1 .. Cardinality(Mine(c)) |-> Tail(messages[e].parts)]]
    BY <1>5 DEF Delivers, Deliver
  <2>2. \A c : Mine(c) \subseteq {s \in subscriptions : s.to = c}
    OBVIOUS
  <2>3. subscriptions' \subseteq subscriptions
    BY <2>1
  <2> HIDE DEF hits, taken, Mine
  <2>4. Answered'
    BY <1>2, <1>3, <2>3, AnsweredKept DEF DeliveryInv
  <2>5. e \in Conversations /\ messages[e] # None /\ messages'[e] = messages[e] /\ Over(e)'
    BY <1>1, <1>5, ConversationsAreTwo DEF Delivers, Over
  <2>6. ~ Over(e)
    <3>1. IsTail(Tail(wire), wire)
      BY <1>1, PacketTaken DEF MercuryInv, TypeOK
    <3>2. 1 \in 1 .. Len(wire) /\ wire[1].seq = e
      BY <1>0, <3>1 DEF IsTail
    <3> QED
      BY <3>2 DEF Over
  <2>7. ASSUME NEW c \in Requests
        PROVE  Given(c)'
    <3> PICK k : k = Cardinality(Mine(c))
      OBVIOUS
    <3>1. /\ k \in Nat
          /\ Mine(c) # {} => answer[c] # None
          /\ answer[c] # None => k <= Listings(c)
      BY <2>2, SubscriptionsBounded DEF MercuryInv, DeliveryInv
    <3>2. k > 0 => answer[c] # None
      BY <3>1, FS_EmptySet
    <3>3. inbox'[c] = inbox[c] \o [i \in 1 .. k |-> Tail(messages[e].parts)]
      BY <2>1
    <3>4. Given(c) /\ Signed
      BY DEF DeliveryInv
    <3> QED
      BY <1>2, <2>5, <2>6, <3>1, <3>2, <3>3, <3>4, GivenMore
  <2> QED
    BY <1>2, <2>4, <2>7 DEF DeliveryInv
<1> QED
  BY <1>1, <1>4, <1>5

LEMMA DeliveryEndDispatch ==
  ASSUME MercuryInv, DeliveryInv,
         UNCHANGED <<subscriptions, asks, future, answer, inbox, messages, unsent, wire>>
  PROVE  DeliveryInv'
<1>1. Keeps
  BY DEF Keeps, Over
<1>2. \A d \in Requests : future'[d] \in {"ok", "error"} => answer'[d] # None
  BY DEF DeliveryInv, Answered
<1> QED
  BY <1>1, <1>2, SignedKept, DeliveryKept DEF DeliveryInv

LEMMA DeliveryBegin ==
  ASSUME MercuryInv, DeliveryInv, NEW c \in Conversations, messages[c] = None,
         NEW message, NEW cmd, NEW status, IsNew(message, c, cmd, status), NEW left,
         messages' = [messages EXCEPT ![c] = message], unsent' = [unsent EXCEPT ![c] = left],
         UNCHANGED <<subscriptions, asks, future, answer, inbox, wire>>
  PROVE  DeliveryInv'
<1>1. Keeps
  BY KeepsBegin
<1>2. Signed'
  BY SignedBegin DEF DeliveryInv
<1>3. \A d \in Requests : future'[d] \in {"ok", "error"} => answer'[d] # None
  BY DEF DeliveryInv, Answered
<1> QED
  BY <1>1, <1>2, <1>3, DeliveryKept

LEMMA DeliveryReply ==
  ASSUME MercuryInv, DeliveryInv, NEW c \in Requests, NEW r \in Replies, Reply(c, r)
  PROVE  DeliveryInv'
<1>1. c \in Conversations /\ c < sequence /\ messages[c] = None
  BY ConversationsAreTwo DEF Reply
<1>2. asks[c].uri \in Uris
  BY <1>1 DEF MercuryInv, CallersOK, Uris
<1>3. r.status \in {"ok", "error"} /\ r.sizes \in Seq(Nat \ {0}) \ {<<>>}
  BY MercuryAssumption
<1>4. IsNew(Message(c, "reply", r.status, asks[c].uri, r.sizes), c, "reply", r.status)
  BY <1>1, <1>2, <1>3, MessageIsNew
<1>5. /\ messages' = [messages EXCEPT ![c] = Message(c, "reply", r.status, asks[c].uri, r.sizes)]
      /\ unsent' = [unsent EXCEPT ![c] = messages'[c].parts]
      /\ UNCHANGED <<subscriptions, asks, future, answer, inbox, wire>>
  BY DEF Reply, manager, callers
<1> QED
  BY <1>1, <1>4, <1>5, DeliveryBegin

LEMMA DeliveryHappen ==
  ASSUME MercuryInv, DeliveryInv, NEW e \in EventIds, NEW event \in Events, Happen(e, event)
  PROVE  DeliveryInv'
<1>1. e \in Conversations /\ messages[e] = None
  BY ConversationsAreTwo DEF Happen
<1>2. event.uri \in Uris /\ event.sizes \in Seq(Nat \ {0}) \ {<<>>}
  BY MercuryAssumption DEF Uris
<1>3. IsNew(Message(e, "event", "ok", event.uri, event.sizes), e, "event", "ok")
  BY <1>1, <1>2, MessageIsNew
<1>4. /\ messages' = [messages EXCEPT ![e] = Message(e, "event", "ok", event.uri, event.sizes)]
      /\ unsent' = [unsent EXCEPT ![e] = messages'[e].parts]
      /\ UNCHANGED <<subscriptions, asks, future, answer, inbox, wire>>
  BY DEF Happen, manager, callers
<1> QED
  BY <1>1, <1>3, <1>4, DeliveryBegin

LEMMA DeliverySendSome ==
  ASSUME MercuryInv, MercuryInv', DeliveryInv, NEW c \in Conversations, SendSome(c)
  PROVE  DeliveryInv'
<1>1. UNCHANGED <<subscriptions, asks, future, answer, inbox, messages>>
  BY DEF SendSome, SendPacket, manager, callers
<1>2. \A d \in Requests : future'[d] \in {"ok", "error"} => answer'[d] # None
  BY <1>1 DEF DeliveryInv, Answered
<1> QED
  BY <1>1, <1>2, KeepsSendSome, SignedKept, DeliveryKept DEF DeliveryInv

\* complete_request() passes an event on whole, and to each subscription once: what
\* a subscriber got is always an event of which nothing is left to come, and one
\* that comes can be none of those it has.
THEOREM DeliveryInvHolds == Spec => []DeliveryInv
<1>1. Init => DeliveryInv
  BY DeliveryInit
<1>2. MercuryInv /\ MercuryInv' /\ DeliveryInv /\ [Next]_vars => DeliveryInv'
  <2> SUFFICES ASSUME MercuryInv, MercuryInv', DeliveryInv, [Next]_vars PROVE DeliveryInv'
    OBVIOUS
  <2>1. CASE UNCHANGED vars
    BY <2>1, DeliveryEndDispatch DEF vars, manager, callers, accesspoint
  <2>2. ASSUME NEW a \in Asks, Request(a) PROVE DeliveryInv'
    BY <2>2, DeliveryRequest
  <2>3. ASSUME NEW c \in Requests, TakeAnswer(c) PROVE DeliveryInv'
    BY <2>3, DeliveryTakeAnswer
  <2>4. ASSUME NEW c \in Requests, Drop(c) PROVE DeliveryInv'
    BY <2>4, DeliveryDrop
  <2>5. CASE Dispatch
    BY <2>5, DeliveryDispatch
  <2>6. CASE EndDispatch
    BY <2>6, DeliveryEndDispatch DEF EndDispatch, manager, callers, accesspoint
  <2>7. ASSUME NEW c \in Requests, NEW r \in Replies, Reply(c, r) PROVE DeliveryInv'
    BY <2>7, DeliveryReply
  <2>8. ASSUME NEW e \in EventIds, NEW event \in Events, Happen(e, event) PROVE DeliveryInv'
    BY <2>8, DeliveryHappen
  <2>9. ASSUME NEW c \in Conversations, SendSome(c) PROVE DeliveryInv'
    BY <2>9, DeliverySendSome
  <2>10. CASE Idle
    BY <2>1, <2>10 DEF Idle
  <2> QED
    BY <2>1, <2>2, <2>3, <2>4, <2>5, <2>6, <2>7, <2>8, <2>9, <2>10 DEF Next
<1> QED
  BY <1>1, <1>2, MercuryInvHolds, PTL DEF Spec

\* A subscriber gets whole events, and each of them at one time.
THEOREM SubscribersGetWholeEvents == Spec => []EventsAreWhole
<1>1. DeliveryInv => EventsAreWhole
  <2> SUFFICES ASSUME DeliveryInv, NEW c \in Requests
               PROVE  \A i, j \in DOMAIN inbox[c] :
                 /\ \E e \in EventIds : messages[e] # None /\ inbox[c][i] = Tail(messages[e].parts)
                 /\ inbox[c][i] = inbox[c][j] /\ inbox[c][i] # <<>> => i - j < Listings(c)
    BY DEF EventsAreWhole
  <2>1. Given(c)
    BY DEF DeliveryInv
  <2>2. DOMAIN inbox[c] = 1 .. Len(inbox[c])
    BY <2>1, LenProperties DEF Given
  <2>3. \A i \in 1 .. Len(inbox[c]) :
          \E e \in EventIds : messages[e] # None /\ inbox[c][i] = Tail(messages[e].parts)
    BY <2>1 DEF Given, Over
  <2>4. \A i, j \in 1 .. Len(inbox[c]) :
          inbox[c][i] = inbox[c][j] /\ inbox[c][i] # <<>> => i - j < Listings(c)
    BY <2>1 DEF Given
  <2> QED
    BY <2>2, <2>3, <2>4
<1> QED
  BY <1>1, DeliveryInvHolds, PTL
=============================================================================
