----------------------------- MODULE CanonProofs -----------------------------
(***************************************************************************)
(* Theorems about Platform and the encoding it rests on.                   *)
(***************************************************************************)
EXTENDS Platform, FiniteSetTheorems, TLAPS

Count == INSTANCE ChainProofs

-----------------------------------------------------------------------------
(* Integers. *)

LEMMA RadixIs == Radix \in Nat \ {0}
BY DEF Radix

\* The weights exist.
LEMMA WeightIs ==
  /\ Weight[0] = 1
  /\ \A k \in 1 .. UintOctets : Weight[k] = Radix * Weight[k - 1]
<1> DEFINE Step(f, k) == IF k = 0 THEN 1 ELSE Radix * f[k - 1]
           IsWeight(f, n) == f = [k \in 0 .. n |-> Step(f, k)]
           S == {n \in 0 .. UintOctets : \E f : IsWeight(f, n)}
<1>0. UintOctets \in Nat
  BY UintAssumption
<1>1. 0 \in S
  <2> DEFINE f == [k \in 0 .. 0 |-> 1]
  <2>1. IsWeight(f, 0)
    OBVIOUS
  <2> HIDE DEF IsWeight, f
  <2>2. \E h : IsWeight(h, 0)
    BY <2>1
  <2> QED BY <1>0, <2>2
<1>2. ASSUME NEW n \in 0 .. UintOctets, n \in S, n < UintOctets PROVE n + 1 \in S
  <2>1. PICK f : IsWeight(f, n)
    BY <1>2
  <2> DEFINE g == [k \in 0 .. n + 1 |-> IF k = n + 1 THEN Radix * f[n] ELSE f[k]]
  <2>2. \A k \in 0 .. n : f[k] = Step(f, k)
    BY <2>1
  <2>3. ASSUME NEW k \in 0 .. n + 1 PROVE g[k] = Step(g, k)
    <3>1. CASE k = n + 1
      BY <1>0, <3>1
    <3>2. CASE k \in 1 .. n
      <4>1. g[k] = f[k] /\ g[k - 1] = f[k - 1]
        BY <1>0, <3>2
      <4> QED BY <1>0, <2>2, <3>2, <4>1
    <3>3. CASE k = 0
      BY <1>0, <2>2, <3>3
    <3> QED BY <1>0, <3>1, <3>2, <3>3
  <2>4. IsWeight(g, n + 1)
    BY <2>3
  <2> HIDE DEF IsWeight, g
  <2>5. \E h : IsWeight(h, n + 1)
    BY <2>4
  <2> QED BY <1>0, <1>2, <2>5
<1> HIDE DEF S
<1>3. UintOctets \in S
  BY <1>0, <1>1, <1>2, Count!UpTo
<1>4. \E f : f = [k \in 0 .. UintOctets |-> IF k = 0 THEN 1 ELSE Radix * f[k - 1]]
  BY <1>3 DEF S
<1>5. Weight = [k \in 0 .. UintOctets |-> IF k = 0 THEN 1 ELSE Radix * Weight[k - 1]]
  BY <1>4 DEF Weight
<1> HIDE DEF S
<1> QED BY <1>0, <1>5

LEMMA WeightsArePositive ==
  ASSUME NEW k \in 0 .. UintOctets
  PROVE  Weight[k] \in Nat \ {0}
<1> DEFINE S == {n \in Nat : n \in 0 .. UintOctets => Weight[n] \in Nat \ {0}}
<1>1. 0 \in S
  BY WeightIs
<1>2. ASSUME NEW n \in 0 .. UintOctets, n \in S, n < UintOctets PROVE n + 1 \in S
  <2>1. n + 1 \in 1 .. UintOctets /\ (n + 1) - 1 = n
    BY <1>2, UintAssumption
  <2>2. Weight[n + 1] = Radix * Weight[n]
    BY <2>1, WeightIs
  <2>3. Weight[n] \in Nat \ {0}
    BY <1>2
  <2> QED BY <2>1, <2>2, <2>3 DEF Radix
<1> HIDE DEF S
<1>3. 0 .. UintOctets \subseteq S
  BY <1>1, <1>2, UintAssumption, Count!UpTo
<1> QED BY <1>3 DEF S

\* A quotient is the number with these bounds.
LEMMA QuotientIs ==
  ASSUME NEW m \in Nat, NEW a \in Nat \ {0}
  PROVE  /\ m \div a \in Nat
         /\ a * (m \div a) <= m /\ m < a * ((m \div a) + 1)
         /\ \A q \in Nat : a * q <= m /\ m < a * (q + 1) => q = m \div a
<1> DEFINE x == m \div a
<1>1. x \in Nat /\ a * x <= m /\ m < a * (x + 1)
  OBVIOUS
<1> HIDE DEF x
<1>2. ASSUME NEW q \in Nat, a * q <= m, m < a * (q + 1) PROVE q = x
  <2>1. CASE q < x
    <3>1. a * (q + 1) <= a * x
      BY <2>1, <1>1
    <3> QED BY <1>1, <1>2, <3>1
  <2>2. CASE x < q
    <3>1. a * (x + 1) <= a * q
      BY <2>2, <1>1
    <3> QED BY <1>1, <1>2, <3>1
  <2> QED BY <1>1, <2>1, <2>2
<1> QED BY <1>1, <1>2 DEF x

\* Dividing twice is dividing by the product.
LEMMA DivideTwice ==
  ASSUME NEW m \in Nat, NEW a \in Nat \ {0}, NEW c \in Nat \ {0}
  PROVE  (m \div a) \div c = m \div (c * a)
<1> DEFINE q == m \div a
           y == q \div c
           b == c * a
<1>1. q \in Nat /\ a * q <= m /\ m < a * (q + 1)
  BY QuotientIs
<1> HIDE DEF q
<1>2. y \in Nat /\ c * y <= q /\ q < c * (y + 1)
  BY <1>1, QuotientIs
<1> HIDE DEF y
<1>3. b \in Nat \ {0} /\ b * y = a * (c * y) /\ b * (y + 1) = a * (c * (y + 1))
  BY <1>2
<1>4. a * (c * y) <= a * q
  BY <1>1, <1>2
<1>5. a * (q + 1) <= a * (c * (y + 1))
  <2>1. c * (y + 1) \in Nat /\ q + 1 <= c * (y + 1)
    BY <1>1, <1>2
  <2> QED BY <1>1, <2>1
<1> HIDE DEF b
<1>6. b * y <= m /\ m < b * (y + 1)
  BY <1>1, <1>2, <1>3, <1>4, <1>5
<1>7. y = m \div b
  BY <1>2, <1>3, <1>6, QuotientIs
<1> QED BY <1>7 DEF q, y, b

\* Different integers have different octets.
LEMMA UintsDiffer ==
  ASSUME NEW v \in Uints, NEW w \in Uints, uint(v) = uint(w)
  PROVE  v = w
<1> DEFINE Quotient(x, n) == x \div Weight[UintOctets - n]
           S == {n \in Nat : Quotient(v, n) = Quotient(w, n)}
<1>0. UintOctets \in Nat \ {0} /\ Weight[UintOctets] \in Nat \ {0} /\ v \in Nat /\ w \in Nat
  BY UintAssumption, WeightsArePositive DEF Uints
<1>1. 0 \in S
  <2>1. v \div Weight[UintOctets] = 0 /\ w \div Weight[UintOctets] = 0
    <3>1. v < Weight[UintOctets] /\ w < Weight[UintOctets]
      BY <1>0 DEF Uints
    <3> QED BY <1>0, <3>1
  <2> QED BY <1>0, <2>1
<1>2. ASSUME NEW n \in 0 .. UintOctets, n \in S, n < UintOctets PROVE n + 1 \in S
  <2> DEFINE k == UintOctets - n
             a == Weight[k - 1]
  <2>1. k \in 1 .. UintOctets /\ n + 1 \in 1 .. UintOctets /\ UintOctets - (n + 1) = k - 1
    BY <1>0, <1>2
  <2>2. Weight[k] = Radix * a /\ a \in Nat \ {0}
    BY <1>0, <2>1, WeightIs, WeightsArePositive
  <2>3. Octet((v \div a) % Radix) = Octet((w \div a) % Radix)
    BY <2>1 DEF uint
  <2>4. v \div (Radix * a) = w \div (Radix * a)
    BY <1>2, <2>2
  <2> HIDE DEF a
  <2> DEFINE x == v \div a
             y == w \div a
  <2>5. x % Radix = y % Radix
    BY <2>3 DEF Octet
  <2>6. x \in Nat /\ y \in Nat
    BY <1>0, <2>2, QuotientIs
  <2>7. x \div Radix = v \div (Radix * a) /\ y \div Radix = w \div (Radix * a)
    BY <1>0, <2>2, RadixIs, DivideTwice
  <2> HIDE DEF x, y
  <2>8. x = y
    BY <2>5, <2>4, <2>6, <2>7 DEF Radix
  <2> QED BY <1>2, <2>1, <2>8 DEF a, x, y
<1> HIDE DEF S
<1>3. UintOctets \in S
  BY <1>0, <1>1, <1>2, Count!UpTo
<1>4. v \div Weight[0] = w \div Weight[0]
  BY <1>0, <1>3 DEF S
<1> QED BY <1>0, <1>4, WeightIs

-----------------------------------------------------------------------------
(* Sequences that agree as far as both go. *)

Agree(s, t) == \A k \in DOMAIN s \cap DOMAIN t : s[k] = t[k]

LEMMA ConcatIs ==
  ASSUME NEW C, NEW s \in Seq(C), NEW t \in Seq(C)
  PROVE  /\ s \o t \in Seq(C)
         /\ Len(s \o t) = Len(s) + Len(t)
         /\ \A k \in 1 .. Len(s) : (s \o t)[k] = s[k]
         /\ \A k \in 1 .. Len(t) : (s \o t)[Len(s) + k] = t[k]
OBVIOUS

\* What agrees, agrees from the start,
LEMMA PrefixesAgree ==
  ASSUME NEW C, NEW s \in Seq(C), NEW t \in Seq(C), NEW x \in Seq(C), NEW y \in Seq(C),
         Agree(s \o x, t \o y)
  PROVE  Agree(s, t)
<1> SUFFICES ASSUME NEW k \in DOMAIN s \cap DOMAIN t PROVE s[k] = t[k]
  BY DEF Agree
<1>1. k \in 1 .. Len(s) /\ k \in 1 .. Len(t)
  OBVIOUS
<1>2. (s \o x)[k] = s[k] /\ (t \o y)[k] = t[k]
  BY <1>1, ConcatIs
<1>3. k \in DOMAIN (s \o x) /\ k \in DOMAIN (t \o y)
  BY <1>1, ConcatIs
<1> QED BY <1>2, <1>3 DEF Agree

\* and after starts of one length.
LEMMA RestsAgree ==
  ASSUME NEW C, NEW s \in Seq(C), NEW t \in Seq(C), NEW x \in Seq(C), NEW y \in Seq(C),
         Agree(s \o x, t \o y), Len(s) = Len(t)
  PROVE  s = t /\ Agree(x, y)
<1>1. Agree(s, t)
  BY PrefixesAgree
<1>2. s = t
  BY <1>1, Count!SameSequence DEF Agree
<1>3. ASSUME NEW k \in DOMAIN x \cap DOMAIN y PROVE x[k] = y[k]
  <2>1. k \in 1 .. Len(x) /\ k \in 1 .. Len(y) /\ Len(s) \in Nat
    OBVIOUS
  <2>2. (s \o x)[Len(s) + k] = x[k] /\ (t \o y)[Len(s) + k] = y[k]
    BY <2>1, ConcatIs
  <2>3. Len(s) + k \in DOMAIN (s \o x) /\ Len(s) + k \in DOMAIN (t \o y)
    BY <2>1, ConcatIs
  <2> QED BY <2>2, <2>3 DEF Agree
<1> QED BY <1>2, <1>3 DEF Agree

-----------------------------------------------------------------------------
(* Frames of one kind. *)

\* C holds the symbols that may occur.
HasOctets(C) == \A n \in 0 .. Radix - 1 : Octet(n) \in C

TextsOver(C) == {s \in Seq(C) : Len(s) \in Uints}

LEMMA UintIs ==
  ASSUME NEW C, HasOctets(C), NEW v \in Uints
  PROVE  uint(v) \in Seq(C) /\ Len(uint(v)) = UintOctets
<1>1. ASSUME NEW k \in 1 .. UintOctets PROVE uint(v)[k] \in C
  <2>1. UintOctets - k \in 0 .. UintOctets /\ v \in Nat
    BY UintAssumption, WeightsArePositive DEF Uints
  <2>2. v \div Weight[UintOctets - k] \in Nat
    BY <2>1, WeightsArePositive, QuotientIs
  <2>3. (v \div Weight[UintOctets - k]) % Radix \in 0 .. Radix - 1
    BY <2>2 DEF Radix
  <2>4. uint(v)[k] = Octet((v \div Weight[UintOctets - k]) % Radix)
    BY DEF uint
  <2> QED BY <2>3, <2>4 DEF HasOctets
<1>2. uint(v) = [k \in 1 .. UintOctets |-> uint(v)[k]]
  BY DEF uint
<1> HIDE DEF uint
<1> QED BY <1>1, <1>2, UintAssumption

LEMMA TagIs ==
  ASSUME NEW C, HasOctets(C), NEW c \in 0 .. 255
  PROVE  <<Octet(c)>> \in Seq(C) /\ Len(<<Octet(c)>>) = 1
<1>1. Octet(c) \in C
  BY DEF HasOctets, Radix
<1> QED BY <1>1

\* A tag and an integer in front of anything.
LEMMA HeaderIs ==
  ASSUME NEW C, HasOctets(C), NEW c \in 0 .. 255, NEW v \in Uints
  PROVE  /\ <<Octet(c)>> \in Seq(C) /\ Len(<<Octet(c)>>) = 1
         /\ <<Octet(c)>> \o uint(v) \in Seq(C)
         /\ Len(<<Octet(c)>> \o uint(v)) = 1 + UintOctets
<1>1. <<Octet(c)>> \in Seq(C) /\ Len(<<Octet(c)>>) = 1
  BY TagIs
<1> QED BY <1>1, UintIs, ConcatIs, UintAssumption

LEMMA HeadersDiffer ==
  ASSUME NEW C, HasOctets(C), NEW c \in 0 .. 255, NEW v \in Uints, NEW w \in Uints,
         <<Octet(c)>> \o uint(v) = <<Octet(c)>> \o uint(w)
  PROVE  v = w
<1> DEFINE t == <<Octet(c)>>
<1>1. t \in Seq(C) /\ Len(t) = 1
  BY HeaderIs
<1>2. /\ uint(v) \in Seq(C) /\ uint(w) \in Seq(C)
      /\ Len(uint(v)) = UintOctets /\ Len(uint(w)) = UintOctets
  BY UintIs
<1> HIDE DEF t
<1>3. Agree(t \o uint(v), t \o uint(w))
  BY DEF Agree, t
<1>4. Agree(uint(v), uint(w))
  BY <1>1, <1>2, <1>3, RestsAgree
<1>5. uint(v) = uint(w)
  BY <1>2, <1>4, Count!SameSequence DEF Agree
<1> QED BY <1>5, UintsDiffer

\* A text's frame starts no other text's frame.
LEMMA StringIs ==
  ASSUME NEW C, HasOctets(C), NEW s \in TextsOver(C)
  PROVE  /\ String(s) \in Seq(C)
         /\ Len(String(s)) = 1 + UintOctets + Len(s)
         /\ String(s)[1] = Octet(111)
<1> DEFINE h == <<Octet(111)>> \o uint(Len(s))
<1>1. s \in Seq(C) /\ Len(s) \in Uints /\ UintOctets \in Nat
  BY UintAssumption DEF TextsOver
<1>2. h \in Seq(C) /\ Len(h) = 1 + UintOctets
  BY <1>1, HeaderIs
<1>3. h[1] = Octet(111)
  BY <1>1, HeaderIs, UintIs, ConcatIs
<1>4. String(s) = h \o s
  BY DEF String, Bytes, tagOctets
<1> HIDE DEF h
<1> QED BY <1>1, <1>2, <1>3, <1>4, ConcatIs

LEMMA StringsDiffer ==
  ASSUME NEW C, HasOctets(C), NEW s \in TextsOver(C), NEW t \in TextsOver(C),
         Agree(String(s), String(t))
  PROVE  s = t
<1> DEFINE H(x) == <<Octet(111)>> \o uint(Len(x))
<1>1. /\ s \in Seq(C) /\ t \in Seq(C) /\ Len(s) \in Uints /\ Len(t) \in Uints
  BY DEF TextsOver
<1>2. /\ H(s) \in Seq(C) /\ H(t) \in Seq(C)
      /\ Len(H(s)) = 1 + UintOctets /\ Len(H(t)) = 1 + UintOctets
  BY <1>1, HeaderIs
<1>3. Agree(H(s) \o s, H(t) \o t)
  BY DEF String, Bytes, tagOctets
<1>4. H(s) = H(t) /\ Agree(s, t)
  <2> HIDE DEF H
  <2> QED BY <1>1, <1>2, <1>3, RestsAgree
<1>5. Len(s) = Len(t)
  <2>1. 111 \in 0 .. 255 /\ <<Octet(111)>> \o uint(Len(s)) = <<Octet(111)>> \o uint(Len(t))
    BY <1>4
  <2> HIDE DEF H
  <2> QED BY <1>1, <2>1, HeadersDiffer
<1> QED BY <1>1, <1>4, <1>5, Count!SameSequence DEF Agree

-----------------------------------------------------------------------------
(* Frames after one another. *)

\* A code is a field with its frame.
AreCodes(P, C) == \A a \in P : a.frame \in Seq(C) /\ Len(a.frame) \in Nat \ {0}

\* No frame starts, or is, that of another field.
Unambiguous(P) == \A a, b \in P : Agree(a.frame, b.frame) => a = b

\* w consists of the frames of ps, which end at the places p.
Cut(w, ps, p) ==
  /\ p \in [0 .. Len(ps) -> Nat]
  /\ p[0] = 0 /\ p[Len(ps)] = Len(w)
  /\ \A i \in 1 .. Len(ps) :
       /\ p[i] = p[i - 1] + Len(ps[i].frame)
       /\ p[i] <= Len(w)
       /\ \A k \in 1 .. Len(ps[i].frame) : w[p[i - 1] + k] = ps[i].frame[k]

Written(w, ps) == \E p : Cut(w, ps, p)

LEMMA NothingIsWritten == Written(<<>>, <<>>)
<1> DEFINE p == [i \in 0 .. 0 |-> 0]
<1>1. Cut(<<>>, <<>>, p)
  BY DEF Cut
<1> QED BY <1>1 DEF Written

LEMMA OneMoreIsWritten ==
  ASSUME NEW C, NEW P, AreCodes(P, C), NEW w \in Seq(C), NEW ps \in Seq(P), Written(w, ps),
         NEW a \in P
  PROVE  w \o a.frame \in Seq(C) /\ Written(w \o a.frame, Append(ps, a))
<1> DEFINE f == a.frame
           v == w \o f
           qs == Append(ps, a)
           n == Len(ps)
<1>1. PICK p : Cut(w, ps, p)
  BY DEF Written
<1> DEFINE q == [i \in 0 .. n + 1 |-> IF i = n + 1 THEN Len(w) + Len(f) ELSE p[i]]
<1>2. f \in Seq(C) /\ Len(f) \in Nat /\ n \in Nat /\ Len(w) \in Nat
  BY DEF AreCodes
<1>3. /\ v \in Seq(C) /\ Len(v) = Len(w) + Len(f)
      /\ \A k \in 1 .. Len(w) : v[k] = w[k]
      /\ \A k \in 1 .. Len(f) : v[Len(w) + k] = f[k]
  BY <1>2, ConcatIs
<1>4. /\ qs \in Seq(P) /\ Len(qs) = n + 1 /\ qs[n + 1] = a
      /\ \A i \in 1 .. n : qs[i] = ps[i]
  BY Count!AppendedIs
<1>5. /\ p \in [0 .. n -> Nat] /\ p[0] = 0 /\ p[n] = Len(w)
  BY <1>1 DEF Cut
<1> HIDE DEF v, qs
<1>6. q \in [0 .. n + 1 -> Nat] /\ q[0] = 0 /\ q[n + 1] = Len(v) /\ \A i \in 0 .. n : q[i] = p[i]
  BY <1>2, <1>3, <1>5
<1> HIDE DEF q
<1>7. ASSUME NEW i \in 1 .. n + 1
      PROVE  /\ q[i] = q[i - 1] + Len(qs[i].frame)
             /\ q[i] <= Len(v)
             /\ \A k \in 1 .. Len(qs[i].frame) : v[q[i - 1] + k] = qs[i].frame[k]
  <2>1. CASE i = n + 1
    <3>1. i - 1 = n /\ n \in 0 .. n
      BY <1>2, <2>1
    <3>2. q[i - 1] = Len(w)
      BY <1>5, <1>6, <3>1
    <3>3. qs[i].frame = f
      BY <1>4, <2>1
    <3>4. q[i] = Len(v) /\ Len(v) = Len(w) + Len(f)
      BY <1>3, <1>6, <2>1
    <3> HIDE DEF f
    <3>5. q[i] = q[i - 1] + Len(qs[i].frame)
      BY <3>2, <3>3, <3>4
    <3>6. q[i] <= Len(v)
      BY <1>2, <3>4
    <3>7. \A k \in 1 .. Len(qs[i].frame) : v[q[i - 1] + k] = qs[i].frame[k]
      BY <1>3, <3>2, <3>3
    <3> QED BY <3>5, <3>6, <3>7
  <2>2. CASE i \in 1 .. n
    <3>1. q[i] = p[i] /\ q[i - 1] = p[i - 1] /\ qs[i] = ps[i] /\ i - 1 \in 0 .. n
      BY <1>2, <1>4, <1>6, <2>2
    <3>2. /\ p[i] = p[i - 1] + Len(ps[i].frame) /\ p[i] <= Len(w)
          /\ \A k \in 1 .. Len(ps[i].frame) : w[p[i - 1] + k] = ps[i].frame[k]
      BY <1>1, <2>2 DEF Cut
    <3>3. p[i] \in Nat /\ p[i - 1] \in Nat /\ Len(ps[i].frame) \in Nat
      BY <1>5, <2>2, <3>1 DEF AreCodes
    <3>4. ASSUME NEW k \in 1 .. Len(ps[i].frame) PROVE v[p[i - 1] + k] = ps[i].frame[k]
      <4> DEFINE c == p[i - 1]
                 l == Len(ps[i].frame)
      <4>1. c \in Nat /\ l \in Nat /\ k \in 1 .. l /\ c + l <= Len(w)
        BY <3>2, <3>3
      <4> HIDE DEF c, l
      <4>2. c + k \in 1 .. Len(w)
        BY <1>2, <4>1
      <4>3. v[c + k] = w[c + k]
        BY <1>3, <4>2
      <4> QED BY <3>2, <4>3 DEF c
    <3>5. q[i] <= Len(v)
      BY <1>2, <1>3, <3>1, <3>2, <3>3
    <3> QED BY <3>1, <3>2, <3>4, <3>5
  <2> QED BY <1>2, <2>1, <2>2
<1>8. Cut(v, qs, q)
  BY <1>2, <1>4, <1>6, <1>7 DEF Cut
<1> QED BY <1>3, <1>8 DEF Written, v, qs

\* What agrees was written of the same fields, as far as both go.
LEMMA CutsAgree ==
  ASSUME NEW C, NEW P, AreCodes(P, C), Unambiguous(P), NEW w \in Seq(C), NEW v \in Seq(C),
         NEW ps \in Seq(P), NEW qs \in Seq(P), NEW p, NEW q, Cut(w, ps, p), Cut(v, qs, q),
         Agree(w, v), NEW N \in Nat, N <= Len(ps), N <= Len(qs)
  PROVE  p[N] = q[N] /\ \A i \in 1 .. N : ps[i] = qs[i]
<1> DEFINE S == {i \in Nat : p[i] = q[i] /\ (i # 0 => ps[i] = qs[i])}
<1>1. 0 \in S
  BY DEF Cut
<1>2. ASSUME NEW n \in 0 .. N, n \in S, n < N PROVE n + 1 \in S
  <2> DEFINE i == n + 1
             f == ps[i].frame
             g == qs[i].frame
             b == p[n]
  <2>1. i \in 1 .. Len(ps) /\ i \in 1 .. Len(qs) /\ i - 1 = n /\ i # 0
    BY <1>2
  <2>2. ps[i] \in P /\ qs[i] \in P
    BY <2>1
  <2>3. f \in Seq(C) /\ g \in Seq(C) /\ Len(f) \in Nat /\ Len(g) \in Nat
    BY <2>2 DEF AreCodes
  <2>4. b \in Nat /\ q[n] = b
    <3>1. n \in 0 .. Len(ps)
      BY <1>2
    <3> QED BY <1>2, <3>1 DEF Cut
  <2>5. /\ p[i] = b + Len(f) /\ p[i] <= Len(w)
        /\ \A k \in 1 .. Len(f) : w[b + k] = f[k]
    BY <2>1 DEF Cut
  <2>6. /\ q[i] = b + Len(g) /\ q[i] <= Len(v)
        /\ \A k \in 1 .. Len(g) : v[b + k] = g[k]
    <3>1. /\ q[i] = q[i - 1] + Len(g) /\ q[i] <= Len(v)
          /\ \A k \in 1 .. Len(g) : v[q[i - 1] + k] = g[k]
      BY <2>1 DEF Cut
    <3>2. q[i - 1] = b
      BY <2>1, <2>4
    <3> QED BY <3>1, <3>2
  <2> HIDE DEF b, f, g
  <2>7. ASSUME NEW k \in DOMAIN f \cap DOMAIN g PROVE f[k] = g[k]
    <3>1. k \in 1 .. Len(f) /\ k \in 1 .. Len(g)
      BY <2>3
    <3>2. b + k \in 1 .. Len(w) /\ b + k \in 1 .. Len(v)
      <4>1. b + Len(f) <= Len(w) /\ b + Len(g) <= Len(v) /\ Len(w) \in Nat /\ Len(v) \in Nat
        BY <2>5, <2>6
      <4> QED BY <2>3, <2>4, <3>1, <4>1
    <3> DEFINE m == b + k
    <3>3. w[m] = v[m]
      <4>1. m \in DOMAIN w \cap DOMAIN v
        BY <3>2
      <4> HIDE DEF m
      <4> QED BY <4>1, Zenon DEF Agree
    <3> QED BY <2>5, <2>6, <3>1, <3>3
  <2>8. ps[i] = qs[i]
    BY <2>2, <2>7 DEF Agree, Unambiguous, f, g
  <2>9. p[i] = q[i]
    BY <2>5, <2>6, <2>8 DEF f, g
  <2> QED BY <1>2, <2>1, <2>8, <2>9
<1> HIDE DEF S
<1>3. 0 .. N \subseteq S
  BY <1>1, <1>2, Count!UpTo
<1> QED BY <1>3 DEF S

\* Sequences of as many fields that agree are equal.
LEMMA SameCount ==
  ASSUME NEW C, NEW P, AreCodes(P, C), Unambiguous(P), NEW w \in Seq(C), NEW u \in Seq(C),
         NEW xs \in Seq(P), NEW ys \in Seq(P), Written(w, xs), Written(u, ys), Agree(w, u),
         Len(xs) = Len(ys)
  PROVE  xs = ys
<1>1. PICK c, d : Cut(w, xs, c) /\ Cut(u, ys, d)
  BY DEF Written
<1>2. Len(xs) \in Nat /\ Len(xs) <= Len(xs) /\ Len(xs) <= Len(ys)
  OBVIOUS
<1> DEFINE n == Len(xs)
<1>3. \A i \in 1 .. n : xs[i] = ys[i]
  <2>1. Cut(w, xs, c) /\ Cut(u, ys, d) /\ n \in Nat /\ n <= Len(xs) /\ n <= Len(ys)
    BY <1>1, <1>2
  <2> HIDE DEF n
  <2>2. c[n] = d[n] /\ \A i \in 1 .. n : xs[i] = ys[i]
    BY <2>1, CutsAgree
  <2> QED BY <2>2
<1> QED BY <1>3, Count!SameSequence

\* One encoding is of one sequence of fields.
LEMMA SameEncoding ==
  ASSUME NEW C, NEW P, AreCodes(P, C), Unambiguous(P), NEW w \in Seq(C),
         NEW ps \in Seq(P), NEW qs \in Seq(P), Written(w, ps), Written(w, qs)
  PROVE  ps = qs
<1>1. Agree(w, w)
  BY DEF Agree
<1>2. ASSUME NEW rs \in Seq(P), NEW ss \in Seq(P), Written(w, rs), Written(w, ss), Len(rs) < Len(ss)
      PROVE  FALSE
  <2>1. PICK r, t : Cut(w, rs, r) /\ Cut(w, ss, t)
    BY <1>2 DEF Written
  <2> DEFINE n == Len(rs)
  <2>2. n \in Nat /\ n + 1 \in 1 .. Len(ss) /\ (n + 1) - 1 = n /\ n \in 0 .. Len(ss)
    BY <1>2
  <2>3. r[n] = t[n]
    BY <1>1, <1>2, <2>1, <2>2, CutsAgree
  <2>4. r[n] = Len(w)
    BY <2>1 DEF Cut
  <2>5. t[n + 1] = t[n] + Len(ss[n + 1].frame) /\ t[n + 1] <= Len(w)
    BY <2>1, <2>2 DEF Cut
  <2>6. Len(ss[n + 1].frame) \in Nat \ {0}
    BY <2>2 DEF AreCodes
  <2> DEFINE l == Len(ss[n + 1].frame)
  <2>7. t[n + 1] = Len(w) + l /\ t[n + 1] <= Len(w)
    BY <2>3, <2>4, <2>5
  <2>8. Len(w) \in Nat /\ l \in Nat \ {0}
    BY <2>6
  <2> HIDE DEF l
  <2> QED BY <2>7, <2>8
<1>3. Len(ps) \in Nat /\ Len(qs) \in Nat
  OBVIOUS
<1>4. Len(ps) = Len(qs)
  BY <1>2, <1>3
<1> QED BY <1>1, <1>4, SameCount

-----------------------------------------------------------------------------
(* Lists. *)

TextCodes(C) == {[field |-> s, frame |-> String(s)] : s \in TextsOver(C)}

LEMMA TextCodesAreCodes ==
  ASSUME NEW C, HasOctets(C)
  PROVE  AreCodes(TextCodes(C), C) /\ Unambiguous(TextCodes(C))
<1>1. ASSUME NEW a \in TextCodes(C) PROVE a.frame \in Seq(C) /\ Len(a.frame) \in Nat \ {0}
  <2>1. PICK s \in TextsOver(C) : a = [field |-> s, frame |-> String(s)]
    BY DEF TextCodes
  <2>2. String(s) \in Seq(C) /\ Len(String(s)) = 1 + UintOctets + Len(s) /\ Len(s) \in Nat
    BY StringIs DEF TextsOver
  <2>3. 1 + UintOctets + Len(s) \in Nat \ {0}
    BY <2>2, UintAssumption
  <2> QED BY <2>1, <2>2, <2>3
<1>2. ASSUME NEW a \in TextCodes(C), NEW b \in TextCodes(C), Agree(a.frame, b.frame)
      PROVE  a = b
  <2>1. PICK s \in TextsOver(C) : a = [field |-> s, frame |-> String(s)]
    BY DEF TextCodes
  <2>2. PICK t \in TextsOver(C) : b = [field |-> t, frame |-> String(t)]
    BY DEF TextCodes
  <2>3. s = t
    BY <1>2, <2>1, <2>2, StringsDiffer
  <2> QED BY <2>1, <2>2, <2>3
<1> QED BY <1>1, <1>2 DEF AreCodes, Unambiguous

\* What FlattenSeq makes of frames is what was written of them.
IsFlattening(f, seqs, n) ==
  f = [i \in 1 .. n |-> IF i = 1 THEN seqs[i] ELSE f[i - 1] \o seqs[i]]

LEMMA FlattenedIsWritten ==
  ASSUME NEW C, NEW P, AreCodes(P, C), NEW ps \in Seq(P),
         NEW seqs, seqs = [i \in 1 .. Len(ps) |-> ps[i].frame]
  PROVE  FlattenSeq(seqs) \in Seq(C) /\ Written(FlattenSeq(seqs), ps)
<1> DEFINE N == Len(ps)
           Part(n) == SubSeq(ps, 1, n)
           Done(n) == \E f : /\ IsFlattening(f, seqs, n)
                             /\ n # 0 => f[n] \in Seq(C) /\ Written(f[n], Part(n))
           S == {n \in Nat : Done(n)}
<1>0. N \in Nat /\ Len(seqs) = N
  OBVIOUS
<1>1. 0 \in S
  <2> DEFINE f == [i \in 1 .. 0 |-> IF i = 1 THEN seqs[i] ELSE <<>>]
  <2>1. IsFlattening(f, seqs, 0)
    BY DEF IsFlattening
  <2> HIDE DEF f
  <2>2. Done(0)
    BY <2>1
  <2> HIDE DEF Done
  <2> QED BY <2>2
<1>2. ASSUME NEW n \in 0 .. N, n \in S, n < N PROVE n + 1 \in S
  <2> DEFINE m == n + 1
             b == ps[m].frame
  <2>1. m \in 1 .. N /\ m - 1 = n /\ m \in Nat /\ n \in Nat /\ n \in 0 .. N
    BY <1>0, <1>2
  <2>2. ps[m] \in P /\ seqs[m] = b /\ b \in Seq(C)
    BY <2>1 DEF AreCodes
  <2>3. Part(n) \in Seq(P) /\ Append(Part(n), ps[m]) = Part(m)
    BY <2>1, Count!PrefixIs, Count!PrefixGrows
  <2>4. PICK f : /\ IsFlattening(f, seqs, n)
                 /\ n # 0 => f[n] \in Seq(C) /\ Written(f[n], Part(n))
    BY <1>2
  <2> DEFINE x == IF n = 0 THEN b ELSE f[n] \o b
             g == [i \in 1 .. m |-> IF i = m THEN x ELSE f[i]]
  <2>5. x \in Seq(C) /\ Written(x, Part(m))
    <3>1. CASE n = 0
      <4>1. Part(0) = <<>>
        BY Count!PrefixIs
      <4>2. <<>> \in Seq(C) /\ <<>> \in Seq(P) /\ <<>> \o b = b
        BY <2>2
      <4>3. Written(<<>> \o b, Append(<<>>, ps[m]))
        BY <2>2, <4>2, NothingIsWritten, OneMoreIsWritten
      <4> QED BY <2>2, <2>3, <3>1, <4>1, <4>2, <4>3
    <3>2. CASE n # 0
      <4>1. f[n] \in Seq(C) /\ Written(f[n], Part(n))
        BY <2>4, <3>2
      <4>2. f[n] \o b \in Seq(C) /\ Written(f[n] \o b, Append(Part(n), ps[m]))
        BY <2>2, <2>3, <4>1, OneMoreIsWritten
      <4> QED BY <2>3, <3>2, <4>2
    <3> QED BY <3>1, <3>2
  <2>6. IsFlattening(g, seqs, m)
    <3>1. ASSUME NEW i \in 1 .. m PROVE g[i] = IF i = 1 THEN seqs[i] ELSE g[i - 1] \o seqs[i]
      <4>1. CASE i = m /\ n = 0
        BY <2>1, <2>2, <4>1
      <4>2. CASE i = m /\ n # 0
        <5>1. i # 1 /\ i - 1 = n /\ n \in 1 .. m /\ n # m
          BY <2>1, <4>2
        <5>2. g[i] = f[n] \o b /\ g[n] = f[n]
          BY <4>2, <5>1
        <5> QED BY <2>2, <4>2, <5>1, <5>2
      <4>3. CASE i # m
        <5>1. i \in 1 .. n /\ (i # 1 => i - 1 \in 1 .. n)
          BY <2>1, <4>3
        <5>2. f[i] = IF i = 1 THEN seqs[i] ELSE f[i - 1] \o seqs[i]
          BY <2>4, <5>1 DEF IsFlattening
        <5>3. g[i] = f[i] /\ (i # 1 => g[i - 1] = f[i - 1])
          BY <2>1, <4>3, <5>1
        <5> QED BY <5>2, <5>3
      <4> QED BY <4>1, <4>2, <4>3
    <3> QED BY <3>1 DEF IsFlattening
  <2>7. g[m] = x
    BY <2>1
  <2> HIDE DEF g, x, m
  <2>8. Done(m)
    BY <2>5, <2>6, <2>7
  <2> HIDE DEF Done
  <2> QED BY <2>1, <2>8 DEF m
<1>3. Done(N)
  <2> HIDE DEF Done
  <2>1. 0 .. N \subseteq S
    <3> HIDE DEF S, N
    <3> QED BY <1>0, <1>1, <1>2, Count!UpTo
  <2> QED BY <1>0, <2>1
<1>4. CASE N = 0
  <2>1. FlattenSeq(seqs) = seqs
    BY <1>0, <1>4 DEF FlattenSeq
  <2>2. seqs = <<>> /\ ps = <<>>
    BY <1>4
  <2>3. <<>> \in Seq(C)
    OBVIOUS
  <2> HIDE DEF N
  <2> QED BY <2>1, <2>2, <2>3, NothingIsWritten
<1>5. CASE N # 0
  <2> DEFINE g == CHOOSE f : f = [i \in 1 .. Len(seqs) |->
                                    IF i = 1 THEN seqs[i] ELSE f[i - 1] \o seqs[i]]
  <2>1. PICK f : IsFlattening(f, seqs, N) /\ f[N] \in Seq(C) /\ Written(f[N], Part(N))
    BY <1>3, <1>5
  <2>2. IsFlattening(g, seqs, N)
    BY <1>0, <2>1 DEF IsFlattening
  <2>3. FlattenSeq(seqs) = g[N]
    BY <1>0, <1>5 DEF FlattenSeq
  <2> HIDE DEF g
  <2> DEFINE T == {i \in Nat : i # 0 => f[i] = g[i]}
  <2>4. \A i \in 0 .. N : i \in T /\ i < N => i + 1 \in T
    <3> SUFFICES ASSUME NEW i \in 0 .. N, i \in T, i < N PROVE f[i + 1] = g[i + 1]
      OBVIOUS
    <3>1. i + 1 \in 1 .. N /\ (i + 1) - 1 = i /\ (i + 1 = 1 <=> i = 0)
      BY <1>0
    <3>2. f[i + 1] = IF i + 1 = 1 THEN seqs[i + 1] ELSE f[i] \o seqs[i + 1]
      BY <2>1, <3>1 DEF IsFlattening
    <3>3. g[i + 1] = IF i + 1 = 1 THEN seqs[i + 1] ELSE g[i] \o seqs[i + 1]
      BY <2>2, <3>1 DEF IsFlattening
    <3> QED BY <3>1, <3>2, <3>3
  <2>5. N \in T
    <3>1. 0 \in T
      OBVIOUS
    <3>2. 0 .. N \subseteq T
      <4> HIDE DEF T, N
      <4> QED BY <1>0, <2>4, <3>1, Count!UpTo
    <3> HIDE DEF T, N
    <3> QED BY <1>0, <3>2
  <2>6. Part(N) = ps
    BY <1>0, Count!PrefixIs, Count!SameSequence
  <2> QED BY <1>5, <2>1, <2>3, <2>5, <2>6
<1> QED BY <1>4, <1>5

ListsOver(C) == {ss \in Seq(TextsOver(C)) : Len(ss) \in Uints}

Frames(ss) == [k \in DOMAIN ss |-> String(ss[k])]

\* The strings of a list follow each other.
LEMMA ListIsWritten ==
  ASSUME NEW C, HasOctets(C), NEW ss \in ListsOver(C)
  PROVE  /\ FlattenSeq(Frames(ss)) \in Seq(C)
         /\ \E ps \in Seq(TextCodes(C)) :
              /\ Written(FlattenSeq(Frames(ss)), ps)
              /\ Len(ps) = Len(ss)
              /\ \A k \in 1 .. Len(ss) : ps[k].field = ss[k]
<1> DEFINE n == Len(ss)
           ps == [k \in 1 .. n |-> [field |-> ss[k], frame |-> String(ss[k])]]
<1>1. ss \in Seq(TextsOver(C)) /\ n \in Nat /\ DOMAIN ss = 1 .. n
  BY DEF ListsOver
<1>2. ASSUME NEW k \in 1 .. n PROVE ps[k] \in TextCodes(C)
  <2>1. ss[k] \in TextsOver(C)
    BY <1>1
  <2> QED BY <2>1 DEF TextCodes
<1>3. ps \in Seq(TextCodes(C)) /\ Len(ps) = n
  BY <1>1, <1>2
<1>4. Frames(ss) = [i \in 1 .. Len(ps) |-> ps[i].frame]
  BY <1>1, <1>3 DEF Frames
<1>5. \A k \in 1 .. n : ps[k].field = ss[k]
  OBVIOUS
<1> HIDE DEF ps, n
<1>6. FlattenSeq(Frames(ss)) \in Seq(C) /\ Written(FlattenSeq(Frames(ss)), ps)
  BY <1>3, <1>4, TextCodesAreCodes, FlattenedIsWritten
<1> QED BY <1>3, <1>5, <1>6 DEF n

LEMMA ListIs ==
  ASSUME NEW C, HasOctets(C), NEW ss \in ListsOver(C)
  PROVE  Strings(ss) \in Seq(C) /\ Len(Strings(ss)) \in Nat \ {0} /\ Strings(ss)[1] = Octet(108)
<1> DEFINE h == <<Octet(108)>> \o uint(Len(ss))
           x == FlattenSeq(Frames(ss))
<1>1. Len(ss) \in Uints /\ UintOctets \in Nat
  BY UintAssumption DEF ListsOver
<1>2. h \in Seq(C) /\ Len(h) = 1 + UintOctets
  BY <1>1, HeaderIs
<1>3. h[1] = Octet(108)
  BY <1>1, HeaderIs, UintIs, ConcatIs
<1>4. Strings(ss) = h \o x
  BY DEF Strings, tagList, Frames
<1>5. x \in Seq(C)
  BY ListIsWritten
<1> HIDE DEF h, x
<1> QED BY <1>1, <1>2, <1>3, <1>4, <1>5, ConcatIs

\* No list's frame starts another list's.
LEMMA ListsDiffer ==
  ASSUME NEW C, HasOctets(C), NEW ss \in ListsOver(C), NEW tt \in ListsOver(C),
         Agree(Strings(ss), Strings(tt))
  PROVE  ss = tt
<1> DEFINE H(l) == <<Octet(108)>> \o uint(Len(l))
           X(l) == FlattenSeq(Frames(l))
<1>1. Len(ss) \in Uints /\ Len(tt) \in Uints
  BY DEF ListsOver
<1>2. /\ H(ss) \in Seq(C) /\ H(tt) \in Seq(C)
      /\ Len(H(ss)) = 1 + UintOctets /\ Len(H(tt)) = 1 + UintOctets
  BY <1>1, HeaderIs
<1>3. Agree(H(ss) \o X(ss), H(tt) \o X(tt))
  BY DEF Strings, tagList, Frames
<1>4. X(ss) \in Seq(C) /\ X(tt) \in Seq(C)
  BY ListIsWritten
<1>5. H(ss) = H(tt) /\ Agree(X(ss), X(tt))
  <2> HIDE DEF H, X
  <2> QED BY <1>2, <1>3, <1>4, RestsAgree
<1>6. Len(ss) = Len(tt)
  <2>1. 108 \in 0 .. 255 /\ <<Octet(108)>> \o uint(Len(ss)) = <<Octet(108)>> \o uint(Len(tt))
    BY <1>5
  <2> HIDE DEF H, X
  <2> QED BY <1>1, <2>1, HeadersDiffer
<1>7. PICK xs \in Seq(TextCodes(C)) :
        /\ Written(X(ss), xs) /\ Len(xs) = Len(ss)
        /\ \A k \in 1 .. Len(ss) : xs[k].field = ss[k]
  BY ListIsWritten
<1>8. PICK ys \in Seq(TextCodes(C)) :
        /\ Written(X(tt), ys) /\ Len(ys) = Len(tt)
        /\ \A k \in 1 .. Len(tt) : ys[k].field = tt[k]
  BY ListIsWritten
<1>9. xs = ys
  <2> HIDE DEF X
  <2> QED BY <1>4, <1>5, <1>6, <1>7, <1>8, TextCodesAreCodes, SameCount
<1>10. \A k \in 1 .. Len(ss) : ss[k] = tt[k]
  BY <1>6, <1>7, <1>8, <1>9
<1> QED BY <1>6, <1>10, Count!SameSequence DEF ListsOver

-----------------------------------------------------------------------------
(* Fields of any kind. *)

UintCodes == {[field |-> [uint |-> v], frame |-> Uint64(v)] : v \in Uints}
BoolCodes == {[field |-> [bool |-> v], frame |-> Bool(v)] : v \in BOOLEAN}
OctetCodes(C) == {[field |-> [octets |-> s], frame |-> String(s)] : s \in TextsOver(C)}
ListCodes(C) == {[field |-> [list |-> ss], frame |-> Strings(ss)] : ss \in ListsOver(C)}
RawCodes(C) == {[field |-> [raw |-> d], frame |-> Raw32(d)] : d \in C}

FieldCodes(C) == UintCodes \cup BoolCodes \cup OctetCodes(C) \cup ListCodes(C) \cup RawCodes(C)

\* a's frame begins with the tag c.
Tagged(a, c, C) ==
  a.frame \in Seq(C) /\ Len(a.frame) \in Nat \ {0} /\ a.frame[1] = Octet(c)

LEMMA TagsTell ==
  ASSUME NEW C, HasOctets(C)
  PROVE  /\ \A a \in UintCodes : Tagged(a, 117, C)
         /\ \A a \in BoolCodes : Tagged(a, 98, C)
         /\ \A a \in OctetCodes(C) : Tagged(a, 111, C)
         /\ \A a \in ListCodes(C) : Tagged(a, 108, C)
         /\ \A a \in RawCodes(C) : Tagged(a, 114, C)
<1>1. ASSUME NEW v \in Uints PROVE Tagged([field |-> [uint |-> v], frame |-> Uint64(v)], 117, C)
  <2>1. Uint64(v) = <<Octet(117)>> \o uint(v)
    BY DEF Uint64, tagUint
  <2>2. Uint64(v) \in Seq(C) /\ Len(Uint64(v)) = 1 + UintOctets
    BY <2>1, HeaderIs
  <2>3. Uint64(v)[1] = Octet(117)
    BY <2>1, HeaderIs, UintIs, ConcatIs
  <2>4. 1 + UintOctets \in Nat \ {0}
    BY UintAssumption
  <2> HIDE DEF Uint64
  <2> QED BY <2>2, <2>3, <2>4 DEF Tagged
<1>2. ASSUME NEW v \in BOOLEAN PROVE Tagged([field |-> [bool |-> v], frame |-> Bool(v)], 98, C)
  <2> DEFINE c == Octet(IF v THEN 1 ELSE 0)
  <2>1. Octet(98) \in C /\ c \in C
    BY DEF HasOctets, Radix
  <2> HIDE DEF c
  <2>2. Bool(v) = Append(<<Octet(98)>>, c)
    BY DEF Bool, tagBool, c
  <2>3. Bool(v) \in Seq(C) /\ Len(Bool(v)) = 2 /\ Bool(v)[1] = Octet(98)
    BY <2>1, <2>2
  <2>4. Len(Bool(v)) \in Nat \ {0}
    BY <2>3
  <2> QED BY <2>3, <2>4 DEF Tagged
<1>3. ASSUME NEW s \in TextsOver(C) PROVE Tagged([field |-> [octets |-> s], frame |-> String(s)], 111, C)
  <2>1. Len(s) \in Nat /\ UintOctets \in Nat
    BY UintAssumption DEF TextsOver
  <2>2. /\ String(s) \in Seq(C) /\ String(s)[1] = Octet(111)
        /\ Len(String(s)) = 1 + UintOctets + Len(s)
    BY StringIs
  <2>3. Len(String(s)) \in Nat \ {0}
    BY <2>1, <2>2
  <2> QED BY <2>2, <2>3 DEF Tagged
<1>4. ASSUME NEW ss \in ListsOver(C) PROVE Tagged([field |-> [list |-> ss], frame |-> Strings(ss)], 108, C)
  BY ListIs DEF Tagged
<1>5. ASSUME NEW d \in C PROVE Tagged([field |-> [raw |-> d], frame |-> Raw32(d)], 114, C)
  <2>1. Octet(114) \in C
    BY DEF HasOctets, Radix
  <2>2. Raw32(d) = Append(<<Octet(114)>>, d)
    BY DEF Raw32, tagRaw32
  <2>3. Raw32(d) \in Seq(C) /\ Len(Raw32(d)) = 2 /\ Raw32(d)[1] = Octet(114)
    BY <2>1, <2>2
  <2>4. Len(Raw32(d)) \in Nat \ {0}
    BY <2>3
  <2> QED BY <2>3, <2>4 DEF Tagged
<1> QED BY <1>1, <1>2, <1>3, <1>4, <1>5 DEF UintCodes, BoolCodes, OctetCodes, ListCodes, RawCodes

\* Agreeing frames have one tag.
LEMMA SameTag ==
  ASSUME NEW C, NEW a, NEW b, NEW c, NEW d, Tagged(a, c, C), Tagged(b, d, C), Agree(a.frame, b.frame)
  PROVE  c = d
<1>1. 1 \in DOMAIN a.frame \cap DOMAIN b.frame
  BY DEF Tagged
<1>2. Octet(c) = Octet(d)
  BY <1>1 DEF Tagged, Agree
<1> QED BY <1>2 DEF Octet

LEMMA AfterTag ==
  ASSUME NEW C, NEW h \in Seq(C), NEW x \in C, NEW y \in C
  PROVE  Agree(Append(h, x), Append(h, y)) => x = y
<1>1. ASSUME NEW z \in C
      PROVE  Append(h, z) \in Seq(C) /\ Len(Append(h, z)) = Len(h) + 1 /\ Append(h, z)[Len(h) + 1] = z
  BY Count!AppendedIs
<1>2. ASSUME NEW z \in C PROVE Len(h) + 1 \in DOMAIN Append(h, z)
  BY <1>1
<1> QED BY <1>1, <1>2 DEF Agree

\* Agreeing frames of one kind are of one content.
LEMMA SameContent ==
  ASSUME NEW C, HasOctets(C)
  PROVE  /\ Unambiguous(UintCodes) /\ Unambiguous(BoolCodes) /\ Unambiguous(OctetCodes(C))
         /\ Unambiguous(ListCodes(C)) /\ Unambiguous(RawCodes(C))
<1>1. ASSUME NEW v \in Uints, NEW w \in Uints, Agree(Uint64(v), Uint64(w)) PROVE v = w
  <2> DEFINE t == <<Octet(117)>>
  <2>1. t \in Seq(C) /\ Len(t) = 1
    BY HeaderIs
  <2>2. /\ uint(v) \in Seq(C) /\ uint(w) \in Seq(C)
        /\ Len(uint(v)) = UintOctets /\ Len(uint(w)) = UintOctets
    BY UintIs
  <2>3. Agree(t \o uint(v), t \o uint(w))
    BY <1>1 DEF Uint64, tagUint
  <2> HIDE DEF t
  <2>4. Agree(uint(v), uint(w))
    BY <2>1, <2>2, <2>3, RestsAgree
  <2>5. uint(v) = uint(w)
    BY <2>2, <2>4, Count!SameSequence DEF Agree
  <2> QED BY <2>5, UintsDiffer
<1>2. ASSUME NEW v \in BOOLEAN, NEW w \in BOOLEAN, Agree(Bool(v), Bool(w)) PROVE v = w
  <2> DEFINE c(b) == Octet(IF b THEN 1 ELSE 0)
  <2> DEFINE h == <<Octet(98)>>
  <2>1. Agree(Append(h, c(v)), Append(h, c(w)))
    BY <1>2, Zenon DEF Bool, tagBool
  <2>2. h \in Seq(C)
    BY TagIs
  <2>3. c(v) \in C /\ c(w) \in C
    BY DEF HasOctets, Radix
  <2>4. c(v) = c(w)
    <3> HIDE DEF h, c
    <3> QED BY <2>1, <2>2, <2>3, AfterTag
  <2> QED BY <2>4 DEF Octet
<1>3. ASSUME NEW d \in C, NEW e \in C, Agree(Raw32(d), Raw32(e)) PROVE d = e
  <2> DEFINE h == <<Octet(114)>>
  <2>1. Agree(Append(h, d), Append(h, e))
    BY <1>3, Zenon DEF Raw32, tagRaw32
  <2>2. h \in Seq(C)
    BY TagIs
  <2> HIDE DEF h
  <2> QED BY <2>1, <2>2, AfterTag
<1>4. Unambiguous(UintCodes)
  BY <1>1 DEF Unambiguous, UintCodes
<1>5. Unambiguous(BoolCodes)
  BY <1>2 DEF Unambiguous, BoolCodes
<1>6. Unambiguous(OctetCodes(C))
  BY StringsDiffer DEF Unambiguous, OctetCodes
<1>7. Unambiguous(ListCodes(C))
  BY ListsDiffer DEF Unambiguous, ListCodes
<1>8. Unambiguous(RawCodes(C))
  BY <1>3 DEF Unambiguous, RawCodes
<1> QED BY <1>4, <1>5, <1>6, <1>7, <1>8

\* The framing keeps all fields apart.
LEMMA FieldsAreApart ==
  ASSUME NEW C, HasOctets(C)
  PROVE  AreCodes(FieldCodes(C), C) /\ Unambiguous(FieldCodes(C))
<1> DEFINE Kinds == {<<117, UintCodes>>, <<98, BoolCodes>>, <<111, OctetCodes(C)>>,
                     <<108, ListCodes(C)>>, <<114, RawCodes(C)>>}
<1>1. \A k \in Kinds : Unambiguous(k[2]) /\ \A a \in k[2] : Tagged(a, k[1], C)
  BY TagsTell, SameContent
<1>2. \A a \in FieldCodes(C) : \E k \in Kinds : a \in k[2]
  BY DEF FieldCodes
<1>3. \A k, l \in Kinds : k[1] = l[1] => k = l
  OBVIOUS
<1> HIDE DEF Kinds
<1>4. AreCodes(FieldCodes(C), C)
  BY <1>1, <1>2 DEF AreCodes, Tagged
<1>5. ASSUME NEW a \in FieldCodes(C), NEW b \in FieldCodes(C), Agree(a.frame, b.frame) PROVE a = b
  <2>1. PICK k \in Kinds : a \in k[2]
    BY <1>2
  <2>2. PICK l \in Kinds : b \in l[2]
    BY <1>2
  <2>3. Tagged(a, k[1], C) /\ Tagged(b, l[1], C)
    BY <1>1, <2>1, <2>2
  <2>4. k = l
    BY <1>3, <1>5, <2>3, SameTag
  <2> QED BY <1>1, <1>5, <2>1, <2>2, <2>4 DEF Unambiguous
<1> QED BY <1>4, <1>5 DEF Unambiguous

-----------------------------------------------------------------------------
(* Fields in a row. *)

\* What was written is the frames of the given fields and nothing else.
Faithful(C, written, given) ==
  /\ written \in Seq(C)
  /\ \E ps \in Seq(FieldCodes(C)) :
       Written(written, ps) /\ given = [i \in 1 .. Len(ps) |-> ps[i].field]

LEMMA NothingIsFaithful ==
  ASSUME NEW C
  PROVE  Faithful(C, <<>>, <<>>)
<1>1. <<>> \in Seq(C) /\ <<>> \in Seq(FieldCodes(C))
  OBVIOUS
<1>2. <<>> = [i \in 1 .. Len(<<>>) |-> <<>>[i].field]
  OBVIOUS
<1> QED BY <1>1, <1>2, NothingIsWritten DEF Faithful

LEMMA MoreIsFaithful ==
  ASSUME NEW C, HasOctets(C), NEW written, NEW given, Faithful(C, written, given),
         NEW a \in FieldCodes(C)
  PROVE  Faithful(C, written \o a.frame, Append(given, a.field))
<1> DEFINE P == FieldCodes(C)
<1>1. AreCodes(P, C)
  BY FieldsAreApart
<1> HIDE DEF P
<1>2. PICK ps \in Seq(P) : Written(written, ps) /\ given = [i \in 1 .. Len(ps) |-> ps[i].field]
  BY DEF Faithful, P
<1>3. written \in Seq(C) /\ a \in P
  BY DEF Faithful, P
<1> DEFINE qs == Append(ps, a)
<1>4. written \o a.frame \in Seq(C) /\ Written(written \o a.frame, qs)
  BY <1>1, <1>2, <1>3, OneMoreIsWritten
<1>5. /\ qs \in Seq(P) /\ Len(qs) = Len(ps) + 1 /\ qs[Len(ps) + 1] = a
      /\ \A i \in 1 .. Len(ps) : qs[i] = ps[i]
  BY <1>3, Count!AppendedIs
<1>6. Append(given, a.field) = [i \in 1 .. Len(qs) |-> qs[i].field]
  <2> DEFINE n == Len(ps)
             f == a.field
             G == {ps[i].field : i \in 1 .. n} \cup {f}
  <2>1. n \in Nat /\ given = [i \in 1 .. n |-> ps[i].field]
    BY <1>2
  <2>2. given \in Seq(G) /\ Len(given) = n /\ f \in G
    BY <2>1
  <2> DEFINE x == Append(given, f)
             y == [i \in 1 .. n + 1 |-> qs[i].field]
  <2>3. /\ x \in Seq(G) /\ Len(x) = n + 1 /\ x[n + 1] = f
        /\ \A i \in 1 .. n : x[i] = given[i]
    BY <2>2, Count!AppendedIs
  <2> HIDE DEF x, qs
  <2>4. \A i \in 1 .. n + 1 : x[i] = y[i]
    BY <1>5, <2>1, <2>3
  <2>5. x = [i \in 1 .. n + 1 |-> x[i]]
    BY <2>3
  <2>6. x = y
    BY <2>4, <2>5
  <2> QED BY <1>5, <2>6 DEF x
<1> HIDE DEF qs
<1> QED BY <1>4, <1>5, <1>6 DEF Faithful, P

\* One encoding is of one list of fields.
LEMMA OneMeaning ==
  ASSUME NEW C, HasOctets(C), NEW w, NEW f, NEW g, Faithful(C, w, f), Faithful(C, w, g)
  PROVE  f = g
<1> DEFINE P == FieldCodes(C)
<1>1. AreCodes(P, C) /\ Unambiguous(P)
  BY FieldsAreApart
<1>2. PICK xs \in Seq(P) : Written(w, xs) /\ f = [i \in 1 .. Len(xs) |-> xs[i].field]
  BY DEF Faithful
<1>3. PICK ys \in Seq(P) : Written(w, ys) /\ g = [i \in 1 .. Len(ys) |-> ys[i].field]
  BY DEF Faithful
<1>4. w \in Seq(C)
  BY DEF Faithful
<1> HIDE DEF P
<1>5. xs = ys
  BY <1>1, <1>2, <1>3, <1>4, SameEncoding
<1> QED BY <1>2, <1>3, <1>5

-----------------------------------------------------------------------------
(* Texts and their symbols. *)

\* Texts are texts over whatever holds their symbols.
LEMMA TextIsOver ==
  ASSUME NEW C, NEW s, IsText(s), Range(s) \subseteq C
  PROVE  s \in TextsOver(C)
<1> DEFINE R == Range(s)
<1>1. s \in Seq(R) /\ Len(s) \in Uints /\ R \subseteq C
  BY DEF IsText
<1> HIDE DEF R
<1> QED BY <1>1 DEF TextsOver

\* The symbols of texts, and of fields of 32 octets.
SymbolsOf(texts, raws) ==
  {Octet(n) : n \in 0 .. Radix - 1} \cup raws \cup UNION {Range(s) : s \in texts}

LEMMA SymbolsSuffice ==
  ASSUME NEW texts, NEW raws, \A s \in texts : IsText(s)
  PROVE  /\ HasOctets(SymbolsOf(texts, raws))
         /\ texts \subseteq TextsOver(SymbolsOf(texts, raws))
         /\ raws \subseteq SymbolsOf(texts, raws)
<1>1. ASSUME NEW s \in texts PROVE s \in TextsOver(SymbolsOf(texts, raws))
  BY TextIsOver DEF SymbolsOf
<1> QED BY <1>1 DEF HasOctets, SymbolsOf

\* One symbol is a text, and so are two.
LEMMA ShortTexts ==
  ASSUME NEW C, HasOctets(C), NEW x \in C, NEW y \in C
  PROVE  <<x>> \in TextsOver(C) /\ <<x, y>> \in TextsOver(C)
<1>1. 1 \in Uints /\ 2 \in Uints
  <2>1. UintOctets \in 1 .. UintOctets /\ UintOctets - 1 \in 0 .. UintOctets
    BY UintAssumption
  <2>2. Weight[UintOctets] = Radix * Weight[UintOctets - 1] /\ Weight[UintOctets - 1] \in Nat \ {0}
    BY <2>1, WeightIs, WeightsArePositive
  <2>3. Weight[UintOctets] \in Nat /\ Weight[UintOctets] > 2
    BY <2>2 DEF Radix
  <2> QED BY <2>3 DEF Uints
<1>2. <<x>> \in Seq(C) /\ Len(<<x>>) = 1 /\ <<x, y>> \in Seq(C) /\ Len(<<x, y>>) = 2
  OBVIOUS
<1> QED BY <1>1, <1>2 DEF TextsOver

LEMMA LabelIsText ==
  ASSUME NEW C, HasOctets(C), NEW n \in 0 .. 255
  PROVE  <<Octet(n)>> \in TextsOver(C)
<1>1. Octet(n) \in C
  BY DEF HasOctets, Radix
<1> QED BY <1>1, ShortTexts

-----------------------------------------------------------------------------
(* Fields after a label. *)

\* w is fields in a row, the label n first.
Labelled(C, n, w) ==
  /\ w \in Seq(C)
  /\ \E ps \in Seq(FieldCodes(C)) :
       Written(w, ps) /\ Len(ps) > 0 /\ ps[1].field = [octets |-> <<Octet(n)>>]

Alike(C, n, w, v) == Labelled(C, n, w) /\ Labelled(C, n, v)

LEMMA DomainIsLabelled ==
  ASSUME NEW C, HasOctets(C), NEW n \in 0 .. 255
  PROVE  Alike(C, n, Domain(n), Domain(n))
<1> DEFINE t == <<Octet(n)>>
           P == FieldCodes(C)
           a == [field |-> [octets |-> t], frame |-> String(t)]
<1>1. t \in TextsOver(C)
  BY LabelIsText
<1>2. String(t) \in Seq(C)
  BY <1>1, StringIs
<1>3. a \in P
  <2> HIDE DEF t
  <2> QED BY <1>1 DEF FieldCodes, OctetCodes
<1>4. AreCodes(P, C)
  BY FieldsAreApart
<1>5. a.field = [octets |-> t] /\ a.frame = String(t)
  OBVIOUS
<1>6. Domain(n) = String(t)
  BY Zenon DEF Domain, New, t
<1> HIDE DEF t, P, a
<1>7. <<>> \in Seq(C) /\ <<>> \in Seq(P) /\ Len(<<>>) = 0
  OBVIOUS
<1>8. <<>> \o a.frame \in Seq(C) /\ Written(<<>> \o a.frame, Append(<<>>, a))
  BY <1>3, <1>4, <1>7, NothingIsWritten, OneMoreIsWritten
<1>9. <<>> \o a.frame = Domain(n)
  BY <1>2, <1>5, <1>6
<1> DEFINE ps == Append(<<>>, a)
<1>10. ps \in Seq(P) /\ Len(ps) = 1 /\ ps[1] = a
  BY <1>3, <1>7
<1>11. Written(Domain(n), ps) /\ Domain(n) \in Seq(C)
  BY <1>8, <1>9
<1> HIDE DEF ps
<1>12. ps \in Seq(P) /\ Written(Domain(n), ps) /\ Len(ps) > 0 /\ ps[1].field = [octets |-> t]
  BY <1>5, <1>10, <1>11
<1>13. Labelled(C, n, Domain(n))
  BY <1>11, <1>12, Zenon DEF Labelled, P, t
<1> QED BY <1>13 DEF Alike

LEMMA LabelsDiffer ==
  ASSUME NEW C, HasOctets(C), NEW m, NEW n, NEW w, Labelled(C, m, w), Labelled(C, n, w)
  PROVE  m = n
<1> DEFINE P == FieldCodes(C)
<1>1. AreCodes(P, C) /\ Unambiguous(P) /\ w \in Seq(C)
  BY FieldsAreApart DEF Labelled
<1>2. PICK ps \in Seq(P) : Written(w, ps) /\ ps[1].field = [octets |-> <<Octet(m)>>]
  BY DEF Labelled
<1>3. PICK qs \in Seq(P) : Written(w, qs) /\ qs[1].field = [octets |-> <<Octet(n)>>]
  BY DEF Labelled
<1> HIDE DEF P
<1>4. ps = qs
  BY <1>1, <1>2, <1>3, SameEncoding
<1>5. [octets |-> <<Octet(m)>>] = [octets |-> <<Octet(n)>>]
  BY <1>2, <1>3, <1>4
<1> QED BY <1>5 DEF Octet

Then(w, frame) == w \o frame

\* One more field: the encodings stay apart, and agree only in all they were given.
LEMMA NextField ==
  ASSUME NEW C, HasOctets(C), NEW n, NEW w, NEW v, Alike(C, n, w, v), NEW f, NEW g, NEW s, NEW t,
         [field |-> f, frame |-> s] \in FieldCodes(C), [field |-> g, frame |-> t] \in FieldCodes(C)
  PROVE  /\ Alike(C, n, Then(w, s), Then(v, t))
         /\ Then(w, s) = Then(v, t) => w = v /\ f = g
<1>0. ASSUME NEW a \in FieldCodes(C), NEW b \in FieldCodes(C)
      PROVE  /\ Alike(C, n, w \o a.frame, v \o b.frame)
             /\ w \o a.frame = v \o b.frame => w = v /\ a = b
  <2> DEFINE P == FieldCodes(C)
             L == [octets |-> <<Octet(n)>>]
  <2>1. AreCodes(P, C) /\ Unambiguous(P) /\ w \in Seq(C) /\ v \in Seq(C)
    BY FieldsAreApart DEF Alike, Labelled
  <2>2. PICK ps \in Seq(P) : Written(w, ps) /\ Len(ps) > 0 /\ ps[1].field = L
    BY DEF Alike, Labelled
  <2>3. PICK qs \in Seq(P) : Written(v, qs) /\ Len(qs) > 0 /\ qs[1].field = L
    BY DEF Alike, Labelled
  <2> DEFINE xs == Append(ps, a)
             ys == Append(qs, b)
  <2>4. a \in P /\ b \in P
    OBVIOUS
  <2> HIDE DEF P, L
  <2>5. /\ w \o a.frame \in Seq(C) /\ Written(w \o a.frame, xs)
        /\ v \o b.frame \in Seq(C) /\ Written(v \o b.frame, ys)
    BY <2>1, <2>2, <2>3, <2>4, OneMoreIsWritten
  <2>6. /\ xs \in Seq(P) /\ Len(xs) = Len(ps) + 1 /\ xs[Len(ps) + 1] = a /\ xs[1] = ps[1]
        /\ ys \in Seq(P) /\ Len(ys) = Len(qs) + 1 /\ ys[Len(qs) + 1] = b /\ ys[1] = qs[1]
    BY <2>2, <2>3, <2>4, Count!AppendedIs
  <2> HIDE DEF xs, ys
  <2>7. Alike(C, n, w \o a.frame, v \o b.frame)
    <3>1. Len(xs) > 0 /\ Len(ys) > 0 /\ xs[1].field = L /\ ys[1].field = L
      BY <2>2, <2>3, <2>6
    <3> QED BY <2>5, <2>6, <3>1 DEF Alike, Labelled, P, L
  <2>8. ASSUME w \o a.frame = v \o b.frame PROVE w = v /\ a = b
    <3>1. xs = ys
      BY <2>1, <2>5, <2>6, <2>8, SameEncoding
    <3>2. Len(ps) \in Nat /\ Len(qs) \in Nat
      OBVIOUS
    <3>3. Len(ps) = Len(qs)
      BY <2>6, <3>1, <3>2
    <3>4. a = b
      BY <2>6, <3>1, <3>3
    <3> DEFINE u == a.frame
    <3>5. u \in Seq(C) /\ w \o u = v \o u
      BY <2>1, <2>4, <2>8, <3>4 DEF AreCodes
    <3> HIDE DEF u
    <3>6. /\ Len(w \o u) = Len(w) + Len(u) /\ Len(v \o u) = Len(v) + Len(u)
          /\ \A k \in 1 .. Len(w) : (w \o u)[k] = w[k]
          /\ \A k \in 1 .. Len(v) : (v \o u)[k] = v[k]
      BY <2>1, <3>5, ConcatIs
    <3>7. Len(w) \in Nat /\ Len(v) \in Nat /\ Len(u) \in Nat
      BY <2>1, <3>5
    <3>8. Len(w) = Len(v)
      BY <3>5, <3>6, <3>7
    <3>9. \A k \in 1 .. Len(w) : w[k] = v[k]
      BY <3>5, <3>6, <3>8
    <3> QED BY <2>1, <3>4, <3>8, <3>9, Count!SameSequence
  <2> QED BY <2>7, <2>8
<1> DEFINE a == [field |-> f, frame |-> s]
           b == [field |-> g, frame |-> t]
<1>1. /\ a.field = f /\ a.frame = s /\ b.field = g /\ b.frame = t
      /\ a \in FieldCodes(C) /\ b \in FieldCodes(C)
  OBVIOUS
<1> HIDE DEF a, b
<1>2. /\ Alike(C, n, w \o a.frame, v \o b.frame)
      /\ w \o a.frame = v \o b.frame => w = v /\ a = b
  BY <1>0, <1>1
<1> QED BY <1>1, <1>2 DEF Then

LEMMA NextUintField ==
  ASSUME NEW C, HasOctets(C), NEW n, NEW w, NEW v, Alike(C, n, w, v),
         NEW x \in Uints, NEW y \in Uints
  PROVE  /\ Alike(C, n, Then(w, Uint64(x)), Then(v, Uint64(y)))
         /\ Then(w, Uint64(x)) = Then(v, Uint64(y)) => w = v /\ x = y
<1>1. /\ [field |-> [uint |-> x], frame |-> Uint64(x)] \in FieldCodes(C)
      /\ [field |-> [uint |-> y], frame |-> Uint64(y)] \in FieldCodes(C)
  BY DEF FieldCodes, UintCodes
<1>2. [uint |-> x] = [uint |-> y] => x = y
  OBVIOUS
<1> QED BY <1>1, <1>2, NextField

LEMMA NextBoolField ==
  ASSUME NEW C, HasOctets(C), NEW n, NEW w, NEW v, Alike(C, n, w, v),
         NEW x \in BOOLEAN, NEW y \in BOOLEAN
  PROVE  /\ Alike(C, n, Then(w, Bool(x)), Then(v, Bool(y)))
         /\ Then(w, Bool(x)) = Then(v, Bool(y)) => w = v /\ x = y
<1>1. /\ [field |-> [bool |-> x], frame |-> Bool(x)] \in FieldCodes(C)
      /\ [field |-> [bool |-> y], frame |-> Bool(y)] \in FieldCodes(C)
  BY DEF FieldCodes, BoolCodes
<1>2. [bool |-> x] = [bool |-> y] => x = y
  OBVIOUS
<1> QED BY <1>1, <1>2, NextField

LEMMA NextTextField ==
  ASSUME NEW C, HasOctets(C), NEW n, NEW w, NEW v, Alike(C, n, w, v),
         NEW x \in TextsOver(C), NEW y \in TextsOver(C)
  PROVE  /\ Alike(C, n, Then(w, String(x)), Then(v, String(y)))
         /\ Then(w, String(x)) = Then(v, String(y)) => w = v /\ x = y
<1>1. /\ [field |-> [octets |-> x], frame |-> String(x)] \in FieldCodes(C)
      /\ [field |-> [octets |-> y], frame |-> String(y)] \in FieldCodes(C)
  BY DEF FieldCodes, OctetCodes
<1>2. [octets |-> x] = [octets |-> y] => x = y
  OBVIOUS
<1> QED BY <1>1, <1>2, NextField

LEMMA NextListField ==
  ASSUME NEW C, HasOctets(C), NEW n, NEW w, NEW v, Alike(C, n, w, v),
         NEW x \in ListsOver(C), NEW y \in ListsOver(C)
  PROVE  /\ Alike(C, n, Then(w, Strings(x)), Then(v, Strings(y)))
         /\ Then(w, Strings(x)) = Then(v, Strings(y)) => w = v /\ x = y
<1>1. /\ [field |-> [list |-> x], frame |-> Strings(x)] \in FieldCodes(C)
      /\ [field |-> [list |-> y], frame |-> Strings(y)] \in FieldCodes(C)
  BY DEF FieldCodes, ListCodes
<1>2. [list |-> x] = [list |-> y] => x = y
  OBVIOUS
<1> QED BY <1>1, <1>2, NextField

LEMMA NextRawField ==
  ASSUME NEW C, HasOctets(C), NEW n, NEW w, NEW v, Alike(C, n, w, v),
         NEW x \in C, NEW y \in C
  PROVE  /\ Alike(C, n, Then(w, Raw32(x)), Then(v, Raw32(y)))
         /\ Then(w, Raw32(x)) = Then(v, Raw32(y)) => w = v /\ x = y
<1>1. /\ [field |-> [raw |-> x], frame |-> Raw32(x)] \in FieldCodes(C)
      /\ [field |-> [raw |-> y], frame |-> Raw32(y)] \in FieldCodes(C)
  BY DEF FieldCodes, RawCodes
<1>2. [raw |-> x] = [raw |-> y] => x = y
  OBVIOUS
<1> QED BY <1>1, <1>2, NextField

-----------------------------------------------------------------------------
(* Hashers. *)

\* All symbols that the contents consist of.
Symbols == SymbolsOf(Texts \cup Domains \cup UNION {Range(ss) : ss \in Lists}, Digests)

LEMMA ContentsAreOverSymbols ==
  /\ HasOctets(Symbols)
  /\ Texts \cup Domains \subseteq TextsOver(Symbols)
  /\ Lists \subseteq ListsOver(Symbols)
  /\ Numbers \subseteq Uints /\ Digests \subseteq Symbols
<1> DEFINE T == Texts \cup Domains \cup UNION {Range(ss) : ss \in Lists}
<1>1. \A s \in T : IsText(s)
  BY ContentsAssumption
<1>2. HasOctets(Symbols) /\ T \subseteq TextsOver(Symbols) /\ Digests \subseteq Symbols
  <2> HIDE DEF T
  <2>1. Symbols = SymbolsOf(T, Digests)
    BY Zenon DEF Symbols, T
  <2> QED BY <1>1, <2>1, SymbolsSuffice
<1>3. ASSUME NEW ss \in Lists PROVE ss \in ListsOver(Symbols)
  <2> DEFINE R == Range(ss)
  <2>1. ss \in Seq(R) /\ Len(ss) \in Uints
    BY ContentsAssumption DEF IsText
  <2>2. R \subseteq TextsOver(Symbols)
    BY <1>2
  <2> HIDE DEF R
  <2> QED BY <2>1, <2>2 DEF ListsOver
<1> QED BY <1>2, <1>3, ContentsAssumption

CanonInv ==
  /\ DOMAIN absorbed = Hashers /\ DOMAIN fields = Hashers
  /\ \A h \in Hashers : Faithful(Symbols, absorbed[h], fields[h])

LEMMA AbsorbStep ==
  ASSUME CanonInv, NEW h \in Hashers, NEW a \in FieldCodes(Symbols), Absorb(h, a.frame, a.field)
  PROVE  CanonInv'
<1>1. /\ absorbed' = [absorbed EXCEPT ![h] = absorbed[h] \o a.frame]
      /\ fields' = [fields EXCEPT ![h] = Append(fields[h], a.field)]
  BY DEF Absorb
<1>2. DOMAIN absorbed' = Hashers /\ DOMAIN fields' = Hashers
  BY <1>1 DEF CanonInv
<1>3. ASSUME NEW k \in Hashers PROVE Faithful(Symbols, absorbed'[k], fields'[k])
  <2>1. Faithful(Symbols, absorbed[k], fields[k])
    BY DEF CanonInv
  <2>2. CASE k = h
    <3>1. absorbed'[k] = absorbed[k] \o a.frame /\ fields'[k] = Append(fields[k], a.field)
      BY <1>1, <2>2 DEF CanonInv
    <3> QED BY <2>1, <3>1, MoreIsFaithful, ContentsAreOverSymbols
  <2>3. CASE k # h
    <3>1. absorbed'[k] = absorbed[k] /\ fields'[k] = fields[k]
      BY <1>1, <2>3 DEF CanonInv
    <3> QED BY <2>1, <3>1
  <2> QED BY <2>2, <2>3
<1> QED BY <1>2, <1>3 DEF CanonInv

\* Every hasher has absorbed the frames of its fields and nothing else.
LEMMA CanonInvariant == Spec => []CanonInv
<1>1. Init => CanonInv
  <2> SUFFICES ASSUME Init PROVE CanonInv
    OBVIOUS
  <2>1. Faithful(Symbols, <<>>, <<>>)
    BY NothingIsFaithful
  <2> QED BY <2>1 DEF Init, CInit, CanonInv
<1>2. ASSUME CanonInv, [Next]_<<canonVars, platformVars>> PROVE CanonInv'
  <2>1. CASE UNCHANGED canonVars
    BY <1>2, <2>1 DEF CanonInv, canonVars
  <2>2. ASSUME NEW h \in Hashers, NEW domain \in Domains, Begin(h, domain) PROVE CanonInv'
    <3> DEFINE a == [field |-> [octets |-> domain], frame |-> String(domain)]
    <3>1. a \in FieldCodes(Symbols)
      BY ContentsAreOverSymbols DEF FieldCodes, OctetCodes
    <3>2. Absorb(h, a.frame, a.field)
      BY <2>2 DEF Begin, New
    <3> QED BY <1>2, <3>1, <3>2, AbsorbStep
  <2>3. ASSUME NEW h \in Hashers, AbsorbField(h) PROVE CanonInv'
    <3>1. \E a \in FieldCodes(Symbols) : Absorb(h, a.frame, a.field)
      <4>1. ASSUME NEW v \in Numbers, Absorb(h, Uint64(v), [uint |-> v])
            PROVE  \E a \in FieldCodes(Symbols) : Absorb(h, a.frame, a.field)
        <5> DEFINE a == [field |-> [uint |-> v], frame |-> Uint64(v)]
        <5>1. a \in FieldCodes(Symbols)
          BY ContentsAreOverSymbols DEF FieldCodes, UintCodes
        <5>2. Absorb(h, a.frame, a.field)
          BY <4>1
        <5> QED BY <5>1, <5>2
      <4>2. ASSUME NEW v \in BOOLEAN, Absorb(h, Bool(v), [bool |-> v])
            PROVE  \E a \in FieldCodes(Symbols) : Absorb(h, a.frame, a.field)
        <5> DEFINE a == [field |-> [bool |-> v], frame |-> Bool(v)]
        <5>1. a \in FieldCodes(Symbols)
          BY DEF FieldCodes, BoolCodes
        <5>2. Absorb(h, a.frame, a.field)
          BY <4>2
        <5> QED BY <5>1, <5>2
      <4>3. ASSUME NEW s \in Texts, Absorb(h, String(s), [octets |-> s])
            PROVE  \E a \in FieldCodes(Symbols) : Absorb(h, a.frame, a.field)
        <5> DEFINE a == [field |-> [octets |-> s], frame |-> String(s)]
        <5>1. a \in FieldCodes(Symbols)
          BY ContentsAreOverSymbols DEF FieldCodes, OctetCodes
        <5>2. Absorb(h, a.frame, a.field)
          BY <4>3
        <5> QED BY <5>1, <5>2
      <4>4. ASSUME NEW ss \in Lists, Absorb(h, Strings(ss), [list |-> ss])
            PROVE  \E a \in FieldCodes(Symbols) : Absorb(h, a.frame, a.field)
        <5> DEFINE a == [field |-> [list |-> ss], frame |-> Strings(ss)]
        <5>1. a \in FieldCodes(Symbols)
          BY ContentsAreOverSymbols DEF FieldCodes, ListCodes
        <5>2. Absorb(h, a.frame, a.field)
          BY <4>4
        <5> QED BY <5>1, <5>2
      <4>5. ASSUME NEW d \in Digests, Absorb(h, Raw32(d), [raw |-> d])
            PROVE  \E a \in FieldCodes(Symbols) : Absorb(h, a.frame, a.field)
        <5> DEFINE a == [field |-> [raw |-> d], frame |-> Raw32(d)]
        <5>1. a \in FieldCodes(Symbols)
          BY ContentsAreOverSymbols DEF FieldCodes, RawCodes
        <5>2. Absorb(h, a.frame, a.field)
          BY <4>5
        <5> QED BY <5>1, <5>2
      <4> QED BY <2>3, <4>1, <4>2, <4>3, <4>4, <4>5 DEF AbsorbField
    <3> QED BY <1>2, <3>1, AbsorbStep
  <2> QED BY <1>2, <2>1, <2>2, <2>3 DEF Next, CNext, canonVars, platformVars
<1> QED BY <1>1, <1>2, PTL DEF Spec

\* Whatever hashers are given, two that were given different fields have different
\* digests.
THEOREM EncodingIsInjective == Spec => []EncodingsAreInjective
<1>1. ASSUME CanonInv PROVE EncodingsAreInjective
  <2> SUFFICES ASSUME NEW h \in Hashers, NEW k \in Hashers, Sum(absorbed[h]) = Sum(absorbed[k])
               PROVE  fields[h] = fields[k]
    BY DEF EncodingsAreInjective
  <2>1. absorbed[h] = absorbed[k]
    BY DEF Sum
  <2>2. Faithful(Symbols, absorbed[h], fields[h]) /\ Faithful(Symbols, absorbed[k], fields[k])
    BY <1>1 DEF CanonInv
  <2> QED BY <2>1, <2>2, OneMeaning, ContentsAreOverSymbols
<1> QED BY <1>1, CanonInvariant, PTL

-----------------------------------------------------------------------------
(* Identities. *)

\* A measurement is of one image, whose fields cannot be shifted into each other.
LEMMA MeasurementsDiffer ==
  ASSUME NEW i, NEW j, IsImage(i), IsImage(j), Measure(i) = Measure(j)
  PROVE  i = j
<1> DEFINE T == {i.signer, i.engineVersion, i.policy, j.signer, j.engineVersion, j.policy}
           C == SymbolsOf(T, {})
           W0 == Domain(1)
           W1(x) == Then(W0, String(x.signer))
           W2(x) == Then(W1(x), String(x.engineVersion))
           W3(x) == Then(W2(x), String(x.policy))
<1>1. HasOctets(C)
  BY DEF HasOctets, SymbolsOf
<1>2. \A t \in T : t \in TextsOver(C)
  <2>1. \A t \in T : IsText(t)
    BY DEF IsImage
  <2> HIDE DEF T
  <2> QED BY <2>1, SymbolsSuffice
<1> HIDE DEF C
<1>3. W3(i) = W3(j)
  <2>1. \A x : Measure(x) = [sum |-> W3(x)]
    BY Zenon DEF Measure, Sum, Then, String
  <2> HIDE DEF W3
  <2> QED BY <2>1
<1>4. Alike(C, 1, W0, W0)
  BY <1>1, DomainIsLabelled
<1>5. Alike(C, 1, W1(i), W1(j)) /\ (W1(i) = W1(j) => i.signer = j.signer)
  <2> HIDE DEF W0
  <2>1. i.signer \in TextsOver(C) /\ j.signer \in TextsOver(C)
    BY <1>2
  <2> QED BY <1>1, <1>4, <2>1, NextTextField
<1>6. /\ Alike(C, 1, W2(i), W2(j))
      /\ W2(i) = W2(j) => W1(i) = W1(j) /\ i.engineVersion = j.engineVersion
  <2> HIDE DEF W1
  <2>1. i.engineVersion \in TextsOver(C) /\ j.engineVersion \in TextsOver(C)
    BY <1>2
  <2> QED BY <1>1, <1>5, <2>1, NextTextField
<1>7. Alike(C, 1, W3(i), W3(j)) /\ (W3(i) = W3(j) => W2(i) = W2(j) /\ i.policy = j.policy)
  <2> HIDE DEF W2
  <2>1. i.policy \in TextsOver(C) /\ j.policy \in TextsOver(C)
    BY <1>2
  <2> QED BY <1>1, <1>6, <2>1, NextTextField
<1>8. i.signer = j.signer /\ i.engineVersion = j.engineVersion /\ i.policy = j.policy
  <2> HIDE DEF W1, W2, W3
  <2> QED BY <1>3, <1>5, <1>6, <1>7, Zenon
<1> QED BY <1>8 DEF IsImage

LEMMA SignersDiffer ==
  ASSUME NEW s, NEW t, IsText(s), IsText(t), SignerIdentity(s) = SignerIdentity(t)
  PROVE  s = t
<1> DEFINE C == SymbolsOf({s, t}, {})
           W0 == Domain(2)
           W1(x) == Then(W0, String(x))
<1>1. HasOctets(C) /\ s \in TextsOver(C) /\ t \in TextsOver(C)
  BY SymbolsSuffice
<1> HIDE DEF C
<1>2. W1(s) = W1(t)
  BY DEF SignerIdentity, Sum, Then
<1>3. Alike(C, 2, W0, W0)
  BY <1>1, DomainIsLabelled
<1>4. Alike(C, 2, W1(s), W1(t)) /\ (W1(s) = W1(t) => s = t)
  <2> HIDE DEF W0
  <2>1. s \in TextsOver(C) /\ t \in TextsOver(C)
    BY <1>1
  <2> QED BY <1>1, <1>3, <2>1, NextTextField
<1> HIDE DEF W1
<1> QED BY <1>2, <1>4

LEMMA BuildsDiffer ==
  ASSUME NEW m, NEW k, BuildIdentity(m) = BuildIdentity(k)
  PROVE  m = k
<1> DEFINE C == SymbolsOf({}, {m, k})
           W0 == Domain(3)
           W1(x) == Then(W0, Raw32(x))
<1>1. HasOctets(C) /\ m \in C /\ k \in C
  BY DEF HasOctets, SymbolsOf
<1> HIDE DEF C
<1>2. W1(m) = W1(k)
  BY DEF BuildIdentity, Sum, Then
<1>3. Alike(C, 3, W0, W0)
  BY <1>1, DomainIsLabelled
<1>4. Alike(C, 3, W1(m), W1(k)) /\ (W1(m) = W1(k) => m = k)
  <2> HIDE DEF W0
  <2>1. m \in C /\ k \in C
    BY <1>1
  <2> QED BY <1>1, <1>3, <2>1, NextRawField
<1> HIDE DEF W1
<1> QED BY <1>2, <1>4

-----------------------------------------------------------------------------
(* Sealing. *)

\* A blob's key and associated data are those of the enclave that sealed it and of
\* the policy it chose, whatever the host made of the rest.
BlobInv ==
  /\ running \subseteq Enclaves
  /\ \A b \in blobs :
       /\ b = [header |-> b.header, key |-> b.key, aad |-> b.aad, intact |-> b.intact,
               by |-> b.by, policy |-> b.policy]
       /\ b.by \in Enclaves /\ b.policy \in SealPolicies
       /\ b.aad = b.policy /\ b.key = sealingKey(b.by, b.policy)

LEMMA BlobInvariant == Spec => []BlobInv
<1>1. Init => BlobInv
  BY DEF Init, PInit, BlobInv
<1>2. ASSUME BlobInv, [Next]_<<canonVars, platformVars>> PROVE BlobInv'
  <2>1. CASE UNCHANGED platformVars
    BY <1>2, <2>1 DEF BlobInv, platformVars
  <2>2. ASSUME NEW e \in Enclaves, Launch(e) PROVE BlobInv'
    BY <1>2, <2>2 DEF BlobInv, Launch
  <2>3. ASSUME NEW e \in running, Stop(e) PROVE BlobInv'
    BY <1>2, <2>3 DEF BlobInv, Stop
  <2>4. ASSUME NEW e \in running, NEW name \in CounterNames, CounterIncrement(e, name) PROVE BlobInv'
    BY <1>2, <2>4 DEF BlobInv, CounterIncrement
  <2>5. ASSUME NEW e \in running, NEW policy \in SealPolicies, Seal(e, policy) PROVE BlobInv'
    BY <1>2, <2>5 DEF BlobInv, Seal
  <2>6. ASSUME NEW e \in running, NEW s \in Statements, Sign(e, s) PROVE BlobInv'
    BY <1>2, <2>6 DEF BlobInv, Sign
  <2>7. ASSUME NEW b \in blobs, HostDamages(b) PROVE BlobInv'
    BY <1>2, <2>7 DEF BlobInv, HostDamages
  <2>8. ASSUME NEW b \in blobs, NEW header \in 0 .. 3, HostRelabels(b, header) PROVE BlobInv'
    BY <1>2, <2>8 DEF BlobInv, HostRelabels
  <2> QED BY <1>2, <2>1, <2>2, <2>3, <2>4, <2>5, <2>6, <2>7, <2>8 DEF Next, PNext, canonVars, platformVars
<1> QED BY <1>1, <1>2, PTL DEF Spec

\* A blob is readable where its policy says and nowhere else, for any number of
\* platforms, images and blobs.
THEOREM SealingIsExact == Spec => []UnsealDecides
<1>1. ASSUME BlobInv PROVE UnsealDecides
  <2> SUFFICES ASSUME NEW e \in running, NEW b \in blobs
               PROVE  Unseals(e, b) <=>
                        /\ b.intact /\ b.header = b.policy
                        /\ e.platform = b.by.platform
                        /\ IF b.policy = SealToSigner THEN e.image.signer = b.by.image.signer
                                                      ELSE e.image = b.by.image
    BY DEF UnsealDecides
  <2>1. /\ e \in Enclaves /\ b.by \in Enclaves /\ b.policy \in SealPolicies
        /\ b.aad = b.policy /\ b.key = sealingKey(b.by, b.policy)
    BY <1>1 DEF BlobInv
  <2>2. e.image \in Images /\ b.by.image \in Images
    BY <2>1 DEF Enclaves
  <2>3. sealingKey(b.by, b.policy) = sealingKey(e, b.policy) <=>
          /\ e.platform = b.by.platform
          /\ IF b.policy = SealToSigner THEN e.image.signer = b.by.image.signer
                                        ELSE e.image = b.by.image
    <3>1. CASE b.policy = SealToSigner
      BY <2>2, <3>1, SignersDiffer, ImagesAssumption DEF sealingKey, IsImage
    <3>2. CASE b.policy # SealToSigner
      BY <2>2, <3>2, MeasurementsDiffer, BuildsDiffer, ImagesAssumption DEF sealingKey
    <3> QED BY <3>1, <3>2
  <2> QED BY <2>1, <2>3 DEF Unseals
<1> QED BY <1>1, BlobInvariant, PTL

-----------------------------------------------------------------------------
(* Counters. *)

Made(history, e, name) == {k \in DOMAIN history : history[k] = [by |-> e, name |-> name]}

\* Every enclave that can be launched would read what its image counted.
CounterInv ==
  /\ running \subseteq Enclaves
  /\ DOMAIN counters = Platforms
  /\ increments \in Seq([by : Enclaves, name : CounterNames])
  /\ \A e \in Enclaves, name \in CounterNames :
       /\ IsFiniteSet(Made(increments, e, name))
       /\ CounterRead(e, name) = Cardinality(Made(increments, e, name))

\* Counters are shared exactly within one image.
LEMMA CounterKeysDiffer ==
  ASSUME NEW e \in Enclaves, NEW f \in Enclaves, NEW n \in CounterNames, NEW m \in CounterNames,
         e.platform = f.platform
  PROVE  counterKey(e, n) = counterKey(f, m) <=> e = f /\ n = m
<1>1. /\ e.image \in Images /\ f.image \in Images
      /\ e = [platform |-> e.platform, image |-> e.image]
      /\ f = [platform |-> f.platform, image |-> f.image]
  BY DEF Enclaves
<1>2. counterKey(e, n) = counterKey(f, m) => e.image = f.image /\ n = m
  BY <1>1, MeasurementsDiffer, ImagesAssumption DEF counterKey
<1> QED BY <1>1, <1>2

\* An increment is read by whom it was made, and by nobody else.
LEMMA IncrementIsRead ==
  ASSUME CounterInv, NEW f \in running, NEW m \in CounterNames, CounterIncrement(f, m),
         NEW e \in Enclaves, NEW n \in CounterNames
  PROVE  CounterRead(e, n)' = IF e = f /\ n = m THEN CounterRead(e, n) + 1 ELSE CounterRead(e, n)
<1> DEFINE p == f.platform
           key == counterKey(f, m)
           own == counters[p]
           new == [k \in DOMAIN own \cup {key} |->
                     IF k = key THEN CounterRead(f, m) + 1 ELSE own[k]]
<1>1. f \in Enclaves /\ p \in Platforms /\ e.platform \in Platforms /\ DOMAIN counters = Platforms
  BY DEF CounterInv, Enclaves
<1>2. counters' = [counters EXCEPT ![p] = new]
  BY DEF CounterIncrement
<1>3. /\ DOMAIN new = {key} \cup DOMAIN own
      /\ new[key] = CounterRead(f, m) + 1
      /\ \A k \in DOMAIN own : k # key => new[k] = own[k]
  OBVIOUS
<1> HIDE DEF new, key
<1>4. CASE e.platform # p
  <2>1. counters'[e.platform] = counters[e.platform]
    BY <1>1, <1>2, <1>4
  <2> QED BY <1>4, <2>1 DEF CounterRead
<1>5. CASE e.platform = p
  <2>1. counters'[e.platform] = new
    BY <1>1, <1>2, <1>5
  <2>2. counterKey(e, n) = key <=> e = f /\ n = m
    BY <1>1, <1>5, CounterKeysDiffer DEF key
  <2>3. CASE e = f /\ n = m
    BY <1>3, <2>1, <2>2, <2>3 DEF CounterRead
  <2>4. CASE ~(e = f /\ n = m)
    BY <1>3, <1>5, <2>1, <2>2, <2>4 DEF CounterRead
  <2> QED BY <2>3, <2>4
<1> QED BY <1>4, <1>5

LEMMA IncrementIsMade ==
  ASSUME CounterInv, NEW f \in running, NEW m \in CounterNames, CounterIncrement(f, m),
         NEW e \in Enclaves, NEW n \in CounterNames
  PROVE  LET now == Made(increments', e, n)
         IN  /\ IsFiniteSet(now)
             /\ Cardinality(now) = Cardinality(Made(increments, e, n)) + (IF e = f /\ n = m THEN 1 ELSE 0)
<1> DEFINE C == [by : Enclaves, name : CounterNames]
           c == [by |-> f, name |-> m]
           k == Len(increments) + 1
           old == Made(increments, e, n)
           now == Made(increments', e, n)
<1>1. increments \in Seq(C) /\ c \in C /\ increments' = Append(increments, c)
  BY DEF CounterInv, CounterIncrement
<1>2. /\ increments' \in Seq(C) /\ Len(increments') = k /\ increments'[k] = c
      /\ \A i \in 1 .. Len(increments) : increments'[i] = increments[i]
  BY <1>1, Count!AppendedIs
<1>3. IsFiniteSet(old) /\ k \notin old /\ Cardinality(old) \in Nat
  BY <1>1, FS_CardinalityType DEF CounterInv, Made
<1>4. DOMAIN increments = 1 .. Len(increments) /\ DOMAIN increments' = DOMAIN increments \cup {k}
  BY <1>1, <1>2
<1>5. c = [by |-> e, name |-> n] <=> e = f /\ n = m
  OBVIOUS
<1> HIDE DEF c, k
<1>6. CASE e = f /\ n = m
  <2>1. now = old \cup {k}
    BY <1>2, <1>4, <1>5, <1>6 DEF Made
  <2>2. IsFiniteSet(now) /\ Cardinality(now) = Cardinality(old) + 1
    BY <1>3, <2>1, FS_AddElement
  <2> QED BY <1>6, <2>2
<1>7. CASE ~(e = f /\ n = m)
  <2>1. now = old
    BY <1>2, <1>4, <1>5, <1>7 DEF Made
  <2> QED BY <1>3, <1>7, <2>1
<1> QED BY <1>6, <1>7

LEMMA CounterInvariant == Spec => []CounterInv
<1>1. Init => CounterInv
  <2> SUFFICES ASSUME Init PROVE CounterInv
    OBVIOUS
  <2>1. running = {} /\ counters = [p \in Platforms |-> <<>>] /\ increments = <<>>
    BY DEF Init, PInit
  <2>2. ASSUME NEW e \in Enclaves, NEW name \in CounterNames
        PROVE  /\ IsFiniteSet(Made(increments, e, name))
               /\ CounterRead(e, name) = Cardinality(Made(increments, e, name))
    <3>1. Made(increments, e, name) = {}
      BY <2>1 DEF Made
    <3>2. CounterRead(e, name) = 0
      BY <2>1 DEF CounterRead, Enclaves
    <3> QED BY <3>1, <3>2, FS_EmptySet
  <2> QED BY <2>1, <2>2 DEF CounterInv
<1>2. ASSUME CounterInv, [Next]_<<canonVars, platformVars>> PROVE CounterInv'
  <2>1. ASSUME running' \subseteq Enclaves, UNCHANGED <<counters, increments>> PROVE CounterInv'
    BY <1>2, <2>1 DEF CounterInv, CounterRead
  <2>2. ASSUME NEW f \in running, NEW m \in CounterNames, CounterIncrement(f, m) PROVE CounterInv'
    <3>1. running' \subseteq Enclaves /\ DOMAIN counters' = Platforms
      BY <1>2, <2>2 DEF CounterInv, CounterIncrement
    <3>2. increments' \in Seq([by : Enclaves, name : CounterNames])
      BY <1>2, <2>2 DEF CounterInv, CounterIncrement
    <3>3. ASSUME NEW e \in Enclaves, NEW n \in CounterNames
          PROVE  /\ IsFiniteSet(Made(increments', e, n))
                 /\ CounterRead(e, n)' = Cardinality(Made(increments', e, n))
      <4>1. IsFiniteSet(Made(increments, e, n)) /\ CounterRead(e, n) = Cardinality(Made(increments, e, n))
        BY <1>2 DEF CounterInv
      <4>2. Cardinality(Made(increments, e, n)) \in Nat
        BY <4>1, FS_CardinalityType
      <4>3. CounterRead(e, n)' = IF e = f /\ n = m THEN CounterRead(e, n) + 1 ELSE CounterRead(e, n)
        BY <1>2, <2>2, IncrementIsRead
      <4>4. /\ IsFiniteSet(Made(increments', e, n))
            /\ Cardinality(Made(increments', e, n))
                 = Cardinality(Made(increments, e, n)) + (IF e = f /\ n = m THEN 1 ELSE 0)
        BY <1>2, <2>2, IncrementIsMade
      <4> QED BY <4>1, <4>2, <4>3, <4>4
    <3> QED BY <3>1, <3>2, <3>3 DEF CounterInv
  <2>3. ASSUME PNext PROVE CounterInv'
    <3>1. ASSUME NEW e \in Enclaves, Launch(e) PROVE CounterInv'
      BY <1>2, <2>1, <3>1 DEF CounterInv, Launch
    <3>2. ASSUME NEW e \in running, Stop(e) PROVE CounterInv'
      BY <1>2, <2>1, <3>2 DEF CounterInv, Stop
    <3>3. ASSUME NEW e \in running, NEW policy \in SealPolicies, Seal(e, policy) PROVE CounterInv'
      BY <1>2, <2>1, <3>3 DEF CounterInv, Seal
    <3>4. ASSUME NEW e \in running, NEW s \in Statements, Sign(e, s) PROVE CounterInv'
      BY <1>2, <2>1, <3>4 DEF CounterInv, Sign
    <3>5. ASSUME NEW b \in blobs, HostDamages(b) \/ \E header \in 0 .. 3 : HostRelabels(b, header)
          PROVE  CounterInv'
      BY <1>2, <2>1, <3>5 DEF CounterInv, HostDamages, HostRelabels
    <3> QED BY <2>2, <2>3, <3>1, <3>2, <3>3, <3>4, <3>5 DEF PNext
  <2>4. CASE UNCHANGED platformVars
    BY <1>2, <2>1, <2>4 DEF CounterInv, platformVars
  <2> QED BY <1>2, <2>3, <2>4 DEF Next, canonVars, platformVars
<1> QED BY <1>1, <1>2, PTL DEF Spec

\* A counter counts exactly what enclaves of its image did under its name on its
\* platform, for any number of images, names, stops and relaunches.
THEOREM CountersAreExact == Spec => []CountersCount
<1>1. CounterInv => CountersCount
  BY DEF CounterInv, CountersCount, Made
<1> QED BY <1>1, CounterInvariant, PTL

-----------------------------------------------------------------------------
(* Statements. *)

\* normalizeSet lists a set's members, once each and as many as a list may have.
LEMMA MembersAreListed ==
  ASSUME NEW list, IsText(list)
  PROVE  /\ normalizeSet(list) \in Seq(Members(list))
         /\ Len(normalizeSet(list)) \in Uints
         /\ Range(normalizeSet(list)) = Members(list)
<1> DEFINE R == Range(list)
           n == Len(list)
           T == ToSet(list)
           S == Members(list)
           m == Cardinality(S)
           f == SetToSeq(S)
<1>1. list \in Seq(R) /\ n \in Uints
  BY DEF IsText
<1>2. list \in [1 .. n -> R] /\ n \in Nat /\ DOMAIN list = 1 .. n
  BY <1>1
<1>3. list \in Surjection(1 .. n, T)
  <2>1. T = {list[k] : k \in 1 .. n}
    BY <1>2 DEF ToSet
  <2> HIDE DEF T, n, R
  <2>2. list \in [1 .. n -> T]
    BY <1>2, <2>1
  <2> QED BY <2>1, <2>2, Zenon DEF Surjection
<1>4. IsFiniteSet(1 .. n) /\ Cardinality(1 .. n) = n
  <2> HIDE DEF n
  <2>1. 1 \in Int /\ n \in Int /\ n \in Nat
    BY <1>2
  <2> QED BY <2>1, FS_Interval
<1>5. IsFiniteSet(T) /\ Cardinality(T) <= n
  <2> HIDE DEF T, n
  <2> QED BY <1>3, <1>4, FS_Surjection
<1>6. S \in SUBSET T
  BY DEF Members
<1>7. IsFiniteSet(S) /\ m <= Cardinality(T)
  <2> HIDE DEF T, S
  <2> QED BY <1>5, <1>6, FS_Subset
<1> HIDE DEF S
<1>8. m \in Nat /\ ExistsBijection(1 .. m, S)
  BY <1>7, FS_CardinalityType
<1>9. \E g \in [1 .. m -> S] : IsInjective(g)
  BY <1>8 DEF ExistsBijection, Bijection, Injection
<1>10. f \in [1 .. m -> S] /\ IsInjective(f)
  BY <1>9, Zenon DEF SetToSeq
<1>11. f \in Injection(1 .. m, S)
  BY <1>10 DEF Injection
<1>12. IsFiniteSet(1 .. m) /\ Cardinality(1 .. m) = m
  BY <1>8, FS_Interval
<1> HIDE DEF f
<1>13. f \in Surjection(1 .. m, S)
  BY <1>7, <1>11, <1>12, FS_Injection
<1>14. Range(f) = S
  BY <1>10, <1>13 DEF Surjection, Range
<1>15. f \in Seq(S) /\ Len(f) = m
  BY <1>8, <1>10
<1>16. m \in Uints
  <2>1. Cardinality(T) \in Nat
    BY <1>5, FS_CardinalityType
  <2> HIDE DEF m, T, n
  <2> QED BY <1>1, <1>5, <1>7, <1>8, <2>1, WeightsArePositive, UintAssumption DEF Uints
<1> QED BY <1>14, <1>15, <1>16 DEF f, S, normalizeSet

LEMMA ListingIsOver ==
  ASSUME NEW C, NEW list, IsText(list), Range(list) \subseteq TextsOver(C)
  PROVE  normalizeSet(list) \in ListsOver(C)
<1> DEFINE S == Members(list)
           f == normalizeSet(list)
<1>1. S \subseteq TextsOver(C)
  BY DEF Members, ToSet, Range
<1>2. f \in Seq(S) /\ Len(f) \in Uints
  BY MembersAreListed
<1> HIDE DEF S, f
<1>3. f \in Seq(TextsOver(C))
  BY <1>1, <1>2
<1> QED BY <1>2, <1>3 DEF ListsOver, f

\* Requests with one hash differ at most in how their roles are listed.
LEMMA RequestsDiffer ==
  ASSUME NEW r, NEW q, IsRequest(r), IsRequest(q), HashRequest(r) = HashRequest(q)
  PROVE  [r EXCEPT !.roles = Members(@)] = [q EXCEPT !.roles = Members(@)]
<1> DEFINE T(x) == {x.id, x.auth, x.name, x.network} \cup Range(x.roles)
           C == SymbolsOf(T(r) \cup T(q), {})
           l(x) == normalizeSet(x.roles)
           W0 == Domain(5)
           W1(x) == Then(W0, String(x.id))
           W2(x) == Then(W1(x), Strings(l(x)))
           W3(x) == Then(W2(x), String(x.auth))
           W4(x) == Then(W3(x), Bool(x.managed))
           W5(x) == Then(W4(x), Bool(x.patched))
           W6(x) == Then(W5(x), Bool(x.encrypted))
           W7(x) == Then(W6(x), String(x.name))
           W8(x) == Then(W7(x), Uint64(x.sensitivity))
           W9(x) == Then(W8(x), String(x.network))
<1>1. HasOctets(C) /\ T(r) \cup T(q) \subseteq TextsOver(C)
  <2>1. \A s \in T(r) \cup T(q) : IsText(s)
    BY DEF IsRequest
  <2> HIDE DEF T
  <2> QED BY <2>1, SymbolsSuffice
<1>0. HasOctets(C)
  BY <1>1
<1> HIDE DEF C
<1>2. \A t \in {r.id, r.auth, r.name, r.network, q.id, q.auth, q.name, q.network} :
        t \in TextsOver(C)
  BY <1>1
<1>3. l(r) \in ListsOver(C) /\ l(q) \in ListsOver(C)
  <2>1. \A x \in {r, q} : IsText(x.roles) /\ Range(x.roles) \subseteq TextsOver(C)
    BY <1>1 DEF IsRequest
  <2> QED BY <2>1, ListingIsOver
<1>4. /\ {r.managed, q.managed, r.patched, q.patched, r.encrypted, q.encrypted} \subseteq BOOLEAN
      /\ r.sensitivity \in Uints /\ q.sensitivity \in Uints
  BY DEF IsRequest
<1>5. W9(r) = W9(q)
  BY DEF HashRequest, Sum, Then
<1>6. Alike(C, 5, W0, W0)
  BY <1>1, DomainIsLabelled
<1>7. Alike(C, 5, W1(r), W1(q)) /\ (W1(r) = W1(q) => r.id = q.id)
  <2> HIDE DEF W0
  <2>1. r.id \in TextsOver(C) /\ q.id \in TextsOver(C)
    BY <1>2
  <2> QED BY <1>0, <1>6, <2>1, NextTextField
<1>8. Alike(C, 5, W2(r), W2(q)) /\ (W2(r) = W2(q) => W1(r) = W1(q) /\ l(r) = l(q))
  <2> HIDE DEF W1, l
  <2> QED BY <1>0, <1>3, <1>7, NextListField
<1>9. Alike(C, 5, W3(r), W3(q)) /\ (W3(r) = W3(q) => W2(r) = W2(q) /\ r.auth = q.auth)
  <2> HIDE DEF W2
  <2>1. r.auth \in TextsOver(C) /\ q.auth \in TextsOver(C)
    BY <1>2
  <2> QED BY <1>0, <1>8, <2>1, NextTextField
<1>10. Alike(C, 5, W4(r), W4(q)) /\ (W4(r) = W4(q) => W3(r) = W3(q) /\ r.managed = q.managed)
  <2> HIDE DEF W3
  <2>1. r.managed \in BOOLEAN /\ q.managed \in BOOLEAN
    BY <1>4
  <2> QED BY <1>0, <1>9, <2>1, NextBoolField
<1>11. Alike(C, 5, W5(r), W5(q)) /\ (W5(r) = W5(q) => W4(r) = W4(q) /\ r.patched = q.patched)
  <2> HIDE DEF W4
  <2>1. r.patched \in BOOLEAN /\ q.patched \in BOOLEAN
    BY <1>4
  <2> QED BY <1>0, <1>10, <2>1, NextBoolField
<1>12. /\ Alike(C, 5, W6(r), W6(q))
       /\ W6(r) = W6(q) => W5(r) = W5(q) /\ r.encrypted = q.encrypted
  <2> HIDE DEF W5
  <2>1. r.encrypted \in BOOLEAN /\ q.encrypted \in BOOLEAN
    BY <1>4
  <2> QED BY <1>0, <1>11, <2>1, NextBoolField
<1>13. Alike(C, 5, W7(r), W7(q)) /\ (W7(r) = W7(q) => W6(r) = W6(q) /\ r.name = q.name)
  <2> HIDE DEF W6
  <2>1. r.name \in TextsOver(C) /\ q.name \in TextsOver(C)
    BY <1>2
  <2> QED BY <1>0, <1>12, <2>1, NextTextField
<1>14. /\ Alike(C, 5, W8(r), W8(q))
       /\ W8(r) = W8(q) => W7(r) = W7(q) /\ r.sensitivity = q.sensitivity
  <2> HIDE DEF W7
  <2>1. r.sensitivity \in Uints /\ q.sensitivity \in Uints
    BY <1>4
  <2> QED BY <1>0, <1>13, <2>1, NextUintField
<1>15. Alike(C, 5, W9(r), W9(q)) /\ (W9(r) = W9(q) => W8(r) = W8(q) /\ r.network = q.network)
  <2> HIDE DEF W8
  <2>1. r.network \in TextsOver(C) /\ q.network \in TextsOver(C)
    BY <1>2
  <2> QED BY <1>0, <1>14, <2>1, NextTextField
<1>16. /\ l(r) = l(q) /\ r.id = q.id /\ r.auth = q.auth
       /\ r.managed = q.managed /\ r.patched = q.patched /\ r.encrypted = q.encrypted
       /\ r.name = q.name /\ r.sensitivity = q.sensitivity /\ r.network = q.network
  <2> HIDE DEF l, W1, W2, W3, W4, W5, W6, W7, W8, W9
  <2> QED BY <1>5, <1>7, <1>8, <1>9, <1>10, <1>11, <1>12, <1>13, <1>14, <1>15, Zenon
<1>17. Members(r.roles) = Members(q.roles)
  <2>1. IsText(r.roles) /\ IsText(q.roles)
    BY DEF IsRequest
  <2> QED BY <1>16, <2>1, MembersAreListed
<1>18. \A x \in {r, q} :
         [x EXCEPT !.roles = Members(@)] =
           [id |-> x.id, roles |-> Members(x.roles), auth |-> x.auth, managed |-> x.managed,
            patched |-> x.patched, encrypted |-> x.encrypted, name |-> x.name,
            sensitivity |-> x.sensitivity, network |-> x.network]
  BY DEF IsRequest
<1> QED BY <1>16, <1>17, <1>18

\* C has the symbols of texts and of fields of 32 octets.
Spells(C, texts, raws) == HasOctets(C) /\ texts \subseteq TextsOver(C) /\ raws \subseteq C

DecisionTexts(d) == {d.ruleID, d.reason, d.policyVersion} \cup Range(d.obligations.mask)
DecisionRaws(d) == {HashRequest(d.request), d.nonce}

\* Decisions with one digest say the same.
LEMMA DecisionsDiffer ==
  ASSUME NEW C, NEW d, NEW e, IsDecision(d), IsDecision(e),
         Spells(C, DecisionTexts(d), DecisionRaws(d)), Spells(C, DecisionTexts(e), DecisionRaws(e))
  PROVE  /\ Alike(C, 6, DecisionDigest(d).sum, DecisionDigest(e).sum)
         /\ DecisionDigest(d) = DecisionDigest(e) => Said(d) = Said(e)
<1> DEFINE l(x) == normalizeSet(x.obligations.mask)
           W0 == Domain(6)
           W1(x) == Then(W0, Bool(x.allow))
           W2(x) == Then(W1(x), String(x.ruleID))
           W3(x) == Then(W2(x), String(x.reason))
           W4(x) == Then(W3(x), String(x.policyVersion))
           W5(x) == Then(W4(x), Bool(x.obligations.readOnly))
           W6(x) == Then(W5(x), Uint64(x.obligations.reauth))
           W7(x) == Then(W6(x), Uint64(x.obligations.ttl))
           W8(x) == Then(W7(x), Strings(l(x)))
           W9(x) == Then(W8(x), Raw32(HashRequest(x.request)))
           W10(x) == Then(W9(x), Raw32(x.nonce))
<1>0. HasOctets(C)
  BY DEF Spells
<1>1. /\ \A t \in {d.ruleID, d.reason, d.policyVersion, e.ruleID, e.reason, e.policyVersion} :
           t \in TextsOver(C)
      /\ {HashRequest(d.request), HashRequest(e.request), d.nonce, e.nonce} \subseteq C
  BY DEF Spells, DecisionTexts, DecisionRaws
<1>2. /\ {d.allow, e.allow, d.obligations.readOnly, e.obligations.readOnly} \subseteq BOOLEAN
      /\ {d.obligations.reauth, e.obligations.reauth, d.obligations.ttl, e.obligations.ttl} \subseteq Uints
  BY DEF IsDecision, IsObligations
<1>3. l(d) \in ListsOver(C) /\ l(e) \in ListsOver(C)
  <2>1. \A x \in {d, e} : IsText(x.obligations.mask) /\ Range(x.obligations.mask) \subseteq TextsOver(C)
    BY DEF Spells, DecisionTexts, IsDecision, IsObligations
  <2> QED BY <2>1, ListingIsOver
<1>4. \A x : DecisionDigest(x) = [sum |-> W10(x)]
  BY Zenon DEF DecisionDigest, hashObligations, Sum, Then
<1>5. Alike(C, 6, W0, W0)
  BY <1>0, DomainIsLabelled
<1>6. Alike(C, 6, W1(d), W1(e)) /\ (W1(d) = W1(e) => d.allow = e.allow)
  <2> HIDE DEF W0
  <2>1. d.allow \in BOOLEAN /\ e.allow \in BOOLEAN
    BY <1>2
  <2> QED BY <1>0, <1>5, <2>1, NextBoolField
<1>7. Alike(C, 6, W2(d), W2(e)) /\ (W2(d) = W2(e) => W1(d) = W1(e) /\ d.ruleID = e.ruleID)
  <2> HIDE DEF W1
  <2>1. d.ruleID \in TextsOver(C) /\ e.ruleID \in TextsOver(C)
    BY <1>1
  <2> QED BY <1>0, <1>6, <2>1, NextTextField
<1>8. Alike(C, 6, W3(d), W3(e)) /\ (W3(d) = W3(e) => W2(d) = W2(e) /\ d.reason = e.reason)
  <2> HIDE DEF W2
  <2>1. d.reason \in TextsOver(C) /\ e.reason \in TextsOver(C)
    BY <1>1
  <2> QED BY <1>0, <1>7, <2>1, NextTextField
<1>9. /\ Alike(C, 6, W4(d), W4(e))
      /\ W4(d) = W4(e) => W3(d) = W3(e) /\ d.policyVersion = e.policyVersion
  <2> HIDE DEF W3
  <2>1. d.policyVersion \in TextsOver(C) /\ e.policyVersion \in TextsOver(C)
    BY <1>1
  <2> QED BY <1>0, <1>8, <2>1, NextTextField
<1>10. /\ Alike(C, 6, W5(d), W5(e))
       /\ W5(d) = W5(e) => W4(d) = W4(e) /\ d.obligations.readOnly = e.obligations.readOnly
  <2> HIDE DEF W4
  <2>1. d.obligations.readOnly \in BOOLEAN /\ e.obligations.readOnly \in BOOLEAN
    BY <1>2
  <2> QED BY <1>0, <1>9, <2>1, NextBoolField
<1>11. /\ Alike(C, 6, W6(d), W6(e))
       /\ W6(d) = W6(e) => W5(d) = W5(e) /\ d.obligations.reauth = e.obligations.reauth
  <2> HIDE DEF W5
  <2>1. d.obligations.reauth \in Uints /\ e.obligations.reauth \in Uints
    BY <1>2
  <2> QED BY <1>0, <1>10, <2>1, NextUintField
<1>12. /\ Alike(C, 6, W7(d), W7(e))
       /\ W7(d) = W7(e) => W6(d) = W6(e) /\ d.obligations.ttl = e.obligations.ttl
  <2> HIDE DEF W6
  <2>1. d.obligations.ttl \in Uints /\ e.obligations.ttl \in Uints
    BY <1>2
  <2> QED BY <1>0, <1>11, <2>1, NextUintField
<1>13. Alike(C, 6, W8(d), W8(e)) /\ (W8(d) = W8(e) => W7(d) = W7(e) /\ l(d) = l(e))
  <2> HIDE DEF W7, l
  <2>1. l(d) \in ListsOver(C) /\ l(e) \in ListsOver(C)
    BY <1>3
  <2> QED BY <1>0, <1>12, <2>1, NextListField
<1>14. /\ Alike(C, 6, W9(d), W9(e))
       /\ W9(d) = W9(e) => W8(d) = W8(e) /\ HashRequest(d.request) = HashRequest(e.request)
  <2> HIDE DEF W8
  <2>1. HashRequest(d.request) \in C /\ HashRequest(e.request) \in C
    BY <1>1
  <2> QED BY <1>0, <1>13, <2>1, NextRawField
<1>15. Alike(C, 6, W10(d), W10(e)) /\ (W10(d) = W10(e) => W9(d) = W9(e) /\ d.nonce = e.nonce)
  <2> HIDE DEF W9
  <2>1. d.nonce \in C /\ e.nonce \in C
    BY <1>1
  <2> QED BY <1>0, <1>14, <2>1, NextRawField
<1>16. Alike(C, 6, DecisionDigest(d).sum, DecisionDigest(e).sum)
  <2> HIDE DEF W10
  <2> QED BY <1>4, <1>15
<1>17. ASSUME DecisionDigest(d) = DecisionDigest(e) PROVE Said(d) = Said(e)
  <2>1. W10(d) = W10(e)
    <3> HIDE DEF W10
    <3> QED BY <1>4, <1>17
  <2>2. /\ d.allow = e.allow /\ d.ruleID = e.ruleID /\ d.reason = e.reason /\ d.policyVersion = e.policyVersion
        /\ d.obligations.readOnly = e.obligations.readOnly /\ d.obligations.reauth = e.obligations.reauth
        /\ d.obligations.ttl = e.obligations.ttl /\ l(d) = l(e)
        /\ HashRequest(d.request) = HashRequest(e.request) /\ d.nonce = e.nonce
    <3> HIDE DEF l, W1, W2, W3, W4, W5, W6, W7, W8, W9, W10
    <3> QED BY <2>1, <1>6, <1>7, <1>8, <1>9, <1>10, <1>11, <1>12, <1>13, <1>14, <1>15, Zenon
  <2>3. Members(d.obligations.mask) = Members(e.obligations.mask)
    <3>1. IsText(d.obligations.mask) /\ IsText(e.obligations.mask)
      BY DEF IsDecision, IsObligations
    <3> QED BY <2>2, <3>1, MembersAreListed
  <2>4. [d.obligations EXCEPT !.mask = Members(@)] = [e.obligations EXCEPT !.mask = Members(@)]
    BY <2>2, <2>3 DEF IsDecision, IsObligations
  <2>5. [d.request EXCEPT !.roles = Members(@)] = [e.request EXCEPT !.roles = Members(@)]
    BY <2>2, RequestsDiffer DEF IsDecision
  <2> QED BY <2>2, <2>4, <2>5 DEF Said
<1> QED BY <1>16, <1>17

LEMMA SaidDiffer ==
  ASSUME NEW d, NEW e, IsDecision(d), IsDecision(e), DecisionDigest(d) = DecisionDigest(e)
  PROVE  Said(d) = Said(e)
<1> DEFINE C == SymbolsOf(DecisionTexts(d) \cup DecisionTexts(e), DecisionRaws(d) \cup DecisionRaws(e))
<1>1. \A s \in DecisionTexts(d) \cup DecisionTexts(e) : IsText(s)
  BY DEF DecisionTexts, IsDecision, IsObligations
<1>2. /\ HasOctets(C)
      /\ DecisionTexts(d) \cup DecisionTexts(e) \subseteq TextsOver(C)
      /\ DecisionRaws(d) \cup DecisionRaws(e) \subseteq C
  BY <1>1, SymbolsSuffice
<1> HIDE DEF C
<1>3. Spells(C, DecisionTexts(d), DecisionRaws(d)) /\ Spells(C, DecisionTexts(e), DecisionRaws(e))
  BY <1>2 DEF Spells
<1> QED BY <1>3, DecisionsDiffer

\* and those that say the same have one digest, and so do their requests.
LEMMA SaidIsHashed ==
  ASSUME NEW d, NEW e, IsDecision(d), IsDecision(e), Said(d) = Said(e)
  PROVE  /\ d.allow = e.allow /\ d.ruleID = e.ruleID /\ d.policyVersion = e.policyVersion
         /\ HashRequest(d.request) = HashRequest(e.request)
         /\ DecisionDigest(d) = DecisionDigest(e)
<1> DEFINE m(x) == normalizeSet(x.obligations.mask)
           l(x) == normalizeSet(x.request.roles)
<1>1. /\ d.allow = e.allow /\ d.ruleID = e.ruleID /\ d.reason = e.reason
      /\ d.policyVersion = e.policyVersion /\ d.nonce = e.nonce
      /\ [d.obligations EXCEPT !.mask = Members(@)] = [e.obligations EXCEPT !.mask = Members(@)]
      /\ [d.request EXCEPT !.roles = Members(@)] = [e.request EXCEPT !.roles = Members(@)]
  BY DEF Said
<1>2. /\ d.obligations.readOnly = e.obligations.readOnly
      /\ d.obligations.reauth = e.obligations.reauth /\ d.obligations.ttl = e.obligations.ttl
      /\ Members(d.obligations.mask) = Members(e.obligations.mask)
  <2> DEFINE O(x) == [readOnly |-> x.readOnly, reauth |-> x.reauth, ttl |-> x.ttl,
                      mask |-> Members(x.mask)]
  <2>1. O(d.obligations) = O(e.obligations)
    BY <1>1 DEF IsDecision, IsObligations
  <2> QED BY <2>1
<1>3. /\ d.request.id = e.request.id /\ d.request.auth = e.request.auth
      /\ d.request.managed = e.request.managed /\ d.request.patched = e.request.patched
      /\ d.request.encrypted = e.request.encrypted /\ d.request.name = e.request.name
      /\ d.request.sensitivity = e.request.sensitivity /\ d.request.network = e.request.network
      /\ Members(d.request.roles) = Members(e.request.roles)
  <2> DEFINE R(x) == [id |-> x.id, roles |-> Members(x.roles), auth |-> x.auth,
                      managed |-> x.managed, patched |-> x.patched, encrypted |-> x.encrypted,
                      name |-> x.name, sensitivity |-> x.sensitivity, network |-> x.network]
  <2>1. R(d.request) = R(e.request)
    BY <1>1 DEF IsDecision, IsRequest
  <2> QED BY <2>1
<1>4. m(d) = m(e) /\ l(d) = l(e)
  BY <1>2, <1>3, Zenon DEF normalizeSet
<1>5. HashRequest(d.request) = HashRequest(e.request)
  BY <1>3, <1>4, Zenon DEF HashRequest
<1>6. DecisionDigest(d) = DecisionDigest(e)
  BY <1>1, <1>2, <1>4, <1>5, Zenon DEF DecisionDigest, hashObligations
<1> QED BY <1>1, <1>5, <1>6

\* A signed decision's hash is of its digest and its signature.
LEMMA SignedDiffer ==
  ASSUME NEW d, NEW e, DecisionHash(d) = DecisionHash(e)
  PROVE  DecisionDigest(d) = DecisionDigest(e) /\ d.signature = e.signature
<1> DEFINE C == SymbolsOf({}, {DecisionDigest(d), DecisionDigest(e), d.signature, e.signature})
           W0 == Domain(7)
           W1(x) == Then(W0, String(<<DecisionDigest(x)>>))
           W2(x) == Then(W1(x), String(<<x.signature>>))
<1>1. HasOctets(C) /\ {DecisionDigest(d), DecisionDigest(e), d.signature, e.signature} \subseteq C
  BY DEF HasOctets, SymbolsOf
<1> HIDE DEF C
<1>2. W2(d) = W2(e)
  <2>1. \A x : DecisionHash(x) = [sum |-> W2(x)]
    BY Zenon DEF DecisionHash, Sum, Then, String
  <2> HIDE DEF W2
  <2> QED BY <2>1
<1>3. Alike(C, 7, W0, W0)
  BY <1>1, DomainIsLabelled
<1>4. /\ Alike(C, 7, W1(d), W1(e))
      /\ W1(d) = W1(e) => <<DecisionDigest(d)>> = <<DecisionDigest(e)>>
  <2> HIDE DEF W0, C
  <2>1. <<DecisionDigest(d)>> \in TextsOver(C) /\ <<DecisionDigest(e)>> \in TextsOver(C)
    BY <1>1, ShortTexts
  <2> QED BY <1>1, <1>3, <2>1, NextTextField
<1>5. /\ Alike(C, 7, W2(d), W2(e))
      /\ W2(d) = W2(e) => W1(d) = W1(e) /\ <<d.signature>> = <<e.signature>>
  <2> HIDE DEF W1, C
  <2>1. <<d.signature>> \in TextsOver(C) /\ <<e.signature>> \in TextsOver(C)
    BY <1>1, ShortTexts
  <2> QED BY <1>1, <1>4, <2>1, NextTextField
<1>6. <<DecisionDigest(d)>> = <<DecisionDigest(e)>> /\ <<d.signature>> = <<e.signature>>
  <2> HIDE DEF W1, W2
  <2> QED BY <1>2, <1>4, <1>5, Zenon
<1> QED BY <1>6

\* An entry's hash is of its place, its predecessor and its decision.
LEMMA EntriesDiffer ==
  ASSUME NEW e, NEW f, IsDecision(e.decision), IsDecision(f.decision), e.seq \in Uints,
         f.seq \in Uints, ComputeHash(e) = ComputeHash(f)
  PROVE  /\ e.seq = f.seq /\ e.prevHash = f.prevHash
         /\ DecisionHash(e.decision) = DecisionHash(f.decision)
<1> DEFINE T(x) == {x.decision.ruleID, x.decision.policyVersion}
           R(x) == {x.prevHash, HashRequest(x.decision.request), DecisionHash(x.decision)}
           C == SymbolsOf(T(e) \cup T(f), R(e) \cup R(f))
           W0 == Domain(8)
           W1(x) == Then(W0, Uint64(x.seq))
           W2(x) == Then(W1(x), Raw32(x.prevHash))
           W3(x) == Then(W2(x), Bool(x.decision.allow))
           W4(x) == Then(W3(x), String(x.decision.ruleID))
           W5(x) == Then(W4(x), String(x.decision.policyVersion))
           W6(x) == Then(W5(x), Raw32(HashRequest(x.decision.request)))
           W7(x) == Then(W6(x), Raw32(DecisionHash(x.decision)))
<1>0. e.seq \in Uints /\ f.seq \in Uints /\ e.decision.allow \in BOOLEAN /\ f.decision.allow \in BOOLEAN
  BY DEF IsDecision
<1>1. HasOctets(C) /\ T(e) \cup T(f) \subseteq TextsOver(C) /\ R(e) \cup R(f) \subseteq C
  <2>1. \A s \in T(e) \cup T(f) : IsText(s)
    BY DEF IsDecision
  <2> HIDE DEF T, R
  <2> QED BY <2>1, SymbolsSuffice
<1> HIDE DEF C
<1>octets. HasOctets(C)
  BY <1>1
<1>2. W7(e) = W7(f)
  <2>1. \A x : ComputeHash(x) = [sum |-> W7(x)]
    BY Zenon DEF ComputeHash, Sum, Then
  <2> HIDE DEF W7
  <2> QED BY <2>1
<1>3. Alike(C, 8, W0, W0)
  BY <1>octets, DomainIsLabelled
<1>4. Alike(C, 8, W1(e), W1(f)) /\ (W1(e) = W1(f) => e.seq = f.seq)
  <2> HIDE DEF W0
  <2>1. e.seq \in Uints /\ f.seq \in Uints
    BY <1>0
  <2> QED BY <1>octets, <1>3, <2>1, NextUintField
<1>5. Alike(C, 8, W2(e), W2(f)) /\ (W2(e) = W2(f) => W1(e) = W1(f) /\ e.prevHash = f.prevHash)
  <2> HIDE DEF W1
  <2>1. e.prevHash \in C /\ f.prevHash \in C
    BY <1>1
  <2> QED BY <1>octets, <1>4, <2>1, NextRawField
<1>6. /\ Alike(C, 8, W3(e), W3(f))
      /\ W3(e) = W3(f) => W2(e) = W2(f) /\ e.decision.allow = f.decision.allow
  <2> HIDE DEF W2
  <2>1. e.decision.allow \in BOOLEAN /\ f.decision.allow \in BOOLEAN
    BY <1>0
  <2> QED BY <1>octets, <1>5, <2>1, NextBoolField
<1>7. /\ Alike(C, 8, W4(e), W4(f))
      /\ W4(e) = W4(f) => W3(e) = W3(f) /\ e.decision.ruleID = f.decision.ruleID
  <2> HIDE DEF W3
  <2>1. e.decision.ruleID \in TextsOver(C) /\ f.decision.ruleID \in TextsOver(C)
    BY <1>1
  <2> QED BY <1>octets, <1>6, <2>1, NextTextField
<1>8. /\ Alike(C, 8, W5(e), W5(f))
      /\ W5(e) = W5(f) => W4(e) = W4(f) /\ e.decision.policyVersion = f.decision.policyVersion
  <2> HIDE DEF W4
  <2>1. e.decision.policyVersion \in TextsOver(C) /\ f.decision.policyVersion \in TextsOver(C)
    BY <1>1
  <2> QED BY <1>octets, <1>7, <2>1, NextTextField
<1>9. /\ Alike(C, 8, W6(e), W6(f))
      /\ W6(e) = W6(f) => W5(e) = W5(f) /\ HashRequest(e.decision.request) = HashRequest(f.decision.request)
  <2> HIDE DEF W5
  <2>1. HashRequest(e.decision.request) \in C /\ HashRequest(f.decision.request) \in C
    BY <1>1
  <2> QED BY <1>octets, <1>8, <2>1, NextRawField
<1>10. /\ Alike(C, 8, W7(e), W7(f))
       /\ W7(e) = W7(f) => W6(e) = W6(f) /\ DecisionHash(e.decision) = DecisionHash(f.decision)
  <2> HIDE DEF W6
  <2>1. DecisionHash(e.decision) \in C /\ DecisionHash(f.decision) \in C
    BY <1>1
  <2> QED BY <1>octets, <1>9, <2>1, NextRawField
<1> HIDE DEF W1, W2, W3, W4, W5, W6, W7
<1> QED BY <1>2, <1>4, <1>5, <1>6, <1>7, <1>8, <1>9, <1>10, Zenon

CheckpointTexts(c) == {c.policyVersion}
CheckpointRaws(c) == {ComputeHash(c.last)}

LEMMA CheckpointsDiffer ==
  ASSUME NEW C, NEW c, NEW b, IsCheckpoint(c), IsCheckpoint(b),
         Spells(C, CheckpointTexts(c), CheckpointRaws(c)),
         Spells(C, CheckpointTexts(b), CheckpointRaws(b))
  PROVE  /\ Alike(C, 9, CheckpointDigest(c).sum, CheckpointDigest(b).sum)
         /\ CheckpointDigest(c) = CheckpointDigest(b) <=> Attested(c) = Attested(b)
<1> DEFINE W0 == Domain(9)
           W1(x) == Then(W0, String(x.policyVersion))
           W2(x) == Then(W1(x), Uint64(x.count))
           W3(x) == Then(W2(x), Raw32(ComputeHash(x.last)))
           W4(x) == Then(W3(x), Uint64(x.counter))
<1>0. HasOctets(C)
  BY DEF Spells
<1>1. /\ c.policyVersion \in TextsOver(C) /\ b.policyVersion \in TextsOver(C)
      /\ ComputeHash(c.last) \in C /\ ComputeHash(b.last) \in C
  BY DEF Spells, CheckpointTexts, CheckpointRaws
<1>2. /\ c.count \in Uints /\ b.count \in Uints /\ c.counter \in Uints /\ b.counter \in Uints
      /\ c.last.seq \in Uints /\ b.last.seq \in Uints
      /\ IsDecision(c.last.decision) /\ IsDecision(b.last.decision)
  BY DEF IsCheckpoint
<1>3. \A x : CheckpointDigest(x) = [sum |-> W4(x)]
  BY Zenon DEF CheckpointDigest, Sum, Then
<1>4. Alike(C, 9, W0, W0)
  BY <1>0, DomainIsLabelled
<1>5. Alike(C, 9, W1(c), W1(b)) /\ (W1(c) = W1(b) => c.policyVersion = b.policyVersion)
  <2> HIDE DEF W0
  <2>1. c.policyVersion \in TextsOver(C) /\ b.policyVersion \in TextsOver(C)
    BY <1>1
  <2> QED BY <1>0, <1>4, <2>1, NextTextField
<1>6. Alike(C, 9, W2(c), W2(b)) /\ (W2(c) = W2(b) => W1(c) = W1(b) /\ c.count = b.count)
  <2> HIDE DEF W1
  <2>1. c.count \in Uints /\ b.count \in Uints
    BY <1>2
  <2> QED BY <1>0, <1>5, <2>1, NextUintField
<1>7. /\ Alike(C, 9, W3(c), W3(b))
      /\ W3(c) = W3(b) => W2(c) = W2(b) /\ ComputeHash(c.last) = ComputeHash(b.last)
  <2> HIDE DEF W2
  <2>1. ComputeHash(c.last) \in C /\ ComputeHash(b.last) \in C
    BY <1>1
  <2> QED BY <1>0, <1>6, <2>1, NextRawField
<1>8. Alike(C, 9, W4(c), W4(b)) /\ (W4(c) = W4(b) => W3(c) = W3(b) /\ c.counter = b.counter)
  <2> HIDE DEF W3
  <2>1. c.counter \in Uints /\ b.counter \in Uints
    BY <1>2
  <2> QED BY <1>0, <1>7, <2>1, NextUintField
<1>9. Alike(C, 9, CheckpointDigest(c).sum, CheckpointDigest(b).sum)
  <2> HIDE DEF W4
  <2> QED BY <1>3, <1>8
<1>10. ASSUME CheckpointDigest(c) = CheckpointDigest(b) PROVE Attested(c) = Attested(b)
  <2>1. W4(c) = W4(b)
    <3> HIDE DEF W4
    <3> QED BY <1>3, <1>10
  <2>2. /\ c.policyVersion = b.policyVersion /\ c.count = b.count /\ c.counter = b.counter
        /\ ComputeHash(c.last) = ComputeHash(b.last)
    <3> HIDE DEF W1, W2, W3, W4
    <3> QED BY <2>1, <1>5, <1>6, <1>7, <1>8, Zenon
  <2>3. /\ c.last.seq = b.last.seq /\ c.last.prevHash = b.last.prevHash
        /\ DecisionHash(c.last.decision) = DecisionHash(b.last.decision)
    BY <1>2, <2>2, EntriesDiffer
  <2>4. /\ DecisionDigest(c.last.decision) = DecisionDigest(b.last.decision)
        /\ c.last.decision.signature = b.last.decision.signature
    BY <2>3, SignedDiffer
  <2>5. Said(c.last.decision) = Said(b.last.decision)
    BY <1>2, <2>4, SaidDiffer
  <2> QED BY <2>2, <2>3, <2>4, <2>5 DEF Attested
<1>11. ASSUME Attested(c) = Attested(b) PROVE CheckpointDigest(c) = CheckpointDigest(b)
  <2>1. /\ c.policyVersion = b.policyVersion /\ c.count = b.count /\ c.counter = b.counter
        /\ c.last.seq = b.last.seq /\ c.last.prevHash = b.last.prevHash
        /\ Said(c.last.decision) = Said(b.last.decision)
        /\ c.last.decision.signature = b.last.decision.signature
    BY <1>11 DEF Attested
  <2> DEFINE d == c.last.decision
             e == b.last.decision
  <2>2. /\ d.allow = e.allow /\ d.ruleID = e.ruleID /\ d.policyVersion = e.policyVersion
        /\ HashRequest(d.request) = HashRequest(e.request)
        /\ DecisionDigest(d) = DecisionDigest(e)
    BY <1>2, <2>1, SaidIsHashed
  <2>3. DecisionHash(d) = DecisionHash(e)
    BY <2>1, <2>2, Zenon DEF DecisionHash
  <2>4. ComputeHash(c.last) = ComputeHash(b.last)
    BY <2>1, <2>2, <2>3, Zenon DEF ComputeHash
  <2> QED BY <2>1, <2>4, Zenon DEF CheckpointDigest
<1> QED BY <1>9, <1>10, <1>11

QuoteTexts(q) == {q.image.signer}
QuoteRaws(q) == {Measure(q.image), Sum(q.pub), q.nonce}

LEMMA QuotesDiffer ==
  ASSUME NEW C, NEW q, NEW r, IsQuote(q), IsQuote(r),
         Spells(C, QuoteTexts(q), QuoteRaws(q)), Spells(C, QuoteTexts(r), QuoteRaws(r))
  PROVE  /\ Alike(C, 4, QuoteDigest(q).sum, QuoteDigest(r).sum)
         /\ QuoteDigest(q) = QuoteDigest(r) =>
              q.image = r.image /\ q.pub = r.pub /\ q.nonce = r.nonce /\ q.tcb = r.tcb
<1> DEFINE W0 == Domain(4)
           W1(x) == Then(W0, Raw32(Measure(x.image)))
           W2(x) == Then(W1(x), String(x.image.signer))
           W3(x) == Then(W2(x), String(KeyBinding(x.pub, x.nonce)))
           W4(x) == Then(W3(x), Uint64(x.tcb))
<1>0. HasOctets(C)
  BY DEF Spells
<1>1. /\ q.image.signer \in TextsOver(C) /\ r.image.signer \in TextsOver(C)
      /\ Measure(q.image) \in C /\ Measure(r.image) \in C
      /\ {Sum(q.pub), Sum(r.pub), q.nonce, r.nonce} \subseteq C
  BY DEF Spells, QuoteTexts, QuoteRaws
<1>2. /\ KeyBinding(q.pub, q.nonce) \in TextsOver(C) /\ KeyBinding(r.pub, r.nonce) \in TextsOver(C)
      /\ q.tcb \in Uints /\ r.tcb \in Uints
  BY <1>0, <1>1, ShortTexts DEF KeyBinding, IsQuote
<1>3. \A x : QuoteDigest(x) = [sum |-> W4(x)]
  BY Zenon DEF QuoteDigest, Sum, Then, String
<1>4. Alike(C, 4, W0, W0)
  BY <1>0, DomainIsLabelled
<1>5. Alike(C, 4, W1(q), W1(r)) /\ (W1(q) = W1(r) => Measure(q.image) = Measure(r.image))
  <2> HIDE DEF W0
  <2>1. Measure(q.image) \in C /\ Measure(r.image) \in C
    BY <1>1
  <2> QED BY <1>0, <1>4, <2>1, NextRawField
<1>6. /\ Alike(C, 4, W2(q), W2(r))
      /\ W2(q) = W2(r) => W1(q) = W1(r) /\ q.image.signer = r.image.signer
  <2> HIDE DEF W1
  <2>1. q.image.signer \in TextsOver(C) /\ r.image.signer \in TextsOver(C)
    BY <1>1
  <2> QED BY <1>0, <1>5, <2>1, NextTextField
<1>7. /\ Alike(C, 4, W3(q), W3(r))
      /\ W3(q) = W3(r) => W2(q) = W2(r) /\ KeyBinding(q.pub, q.nonce) = KeyBinding(r.pub, r.nonce)
  <2> HIDE DEF W2
  <2>1. KeyBinding(q.pub, q.nonce) \in TextsOver(C) /\ KeyBinding(r.pub, r.nonce) \in TextsOver(C)
    BY <1>2
  <2> QED BY <1>0, <1>6, <2>1, NextTextField
<1>8. Alike(C, 4, W4(q), W4(r)) /\ (W4(q) = W4(r) => W3(q) = W3(r) /\ q.tcb = r.tcb)
  <2> HIDE DEF W3
  <2>1. q.tcb \in Uints /\ r.tcb \in Uints
    BY <1>2
  <2> QED BY <1>0, <1>7, <2>1, NextUintField
<1>9. Alike(C, 4, QuoteDigest(q).sum, QuoteDigest(r).sum)
  <2> HIDE DEF W4
  <2> QED BY <1>3, <1>8
<1>10. ASSUME QuoteDigest(q) = QuoteDigest(r)
      PROVE  q.image = r.image /\ q.pub = r.pub /\ q.nonce = r.nonce /\ q.tcb = r.tcb
  <2>1. W4(q) = W4(r)
    <3> HIDE DEF W4
    <3> QED BY <1>3, <1>10
  <2>2. /\ Measure(q.image) = Measure(r.image) /\ q.tcb = r.tcb
        /\ KeyBinding(q.pub, q.nonce) = KeyBinding(r.pub, r.nonce)
    <3> HIDE DEF W1, W2, W3, W4
    <3> QED BY <2>1, <1>5, <1>6, <1>7, <1>8, Zenon
  <2>3. q.image = r.image
    BY <2>2, MeasurementsDiffer DEF IsQuote
  <2>4. Sum(q.pub) = Sum(r.pub) /\ q.nonce = r.nonce
    BY <2>2 DEF KeyBinding
  <2>5. q.pub = r.pub
    BY <2>4 DEF Sum
  <2> QED BY <2>2, <2>3, <2>4, <2>5
<1> QED BY <1>9, <1>10

TextsOf(s) ==
  IF s.kind = "quote" THEN QuoteTexts(s)
  ELSE IF s.kind = "decision" THEN DecisionTexts(s) ELSE CheckpointTexts(s)

RawsOf(s) ==
  IF s.kind = "quote" THEN QuoteRaws(s)
  ELSE IF s.kind = "decision" THEN DecisionRaws(s) ELSE CheckpointRaws(s)

LabelOf(s) == IF s.kind = "quote" THEN 4 ELSE IF s.kind = "decision" THEN 6 ELSE 9

LEMMA StatementsSpell ==
  ASSUME NEW s, NEW t, IsStatement(s), IsStatement(t)
  PROVE  \E C : Spells(C, TextsOf(s), RawsOf(s)) /\ Spells(C, TextsOf(t), RawsOf(t))
<1> DEFINE T == TextsOf(s) \cup TextsOf(t)
           R == RawsOf(s) \cup RawsOf(t)
           C == SymbolsOf(T, R)
<1>1. ASSUME NEW x \in {s, t}, NEW y \in TextsOf(x) PROVE IsText(y)
  <2>1. CASE x.kind = "quote"
    BY <1>1, <2>1 DEF TextsOf, QuoteTexts, IsStatement, IsQuote, IsImage
  <2>2. CASE x.kind = "decision"
    BY <1>1, <2>2 DEF TextsOf, DecisionTexts, IsStatement, IsDecision, IsObligations
  <2>3. CASE x.kind = "checkpoint"
    BY <1>1, <2>3 DEF TextsOf, CheckpointTexts, IsStatement, IsCheckpoint
  <2> QED BY <2>1, <2>2, <2>3 DEF IsStatement
<1>2. \A y \in T : IsText(y)
  BY <1>1
<1>3. HasOctets(C) /\ T \subseteq TextsOver(C) /\ R \subseteq C
  <2> HIDE DEF T, R
  <2> QED BY <1>2, SymbolsSuffice
<1> HIDE DEF C
<1>4. Spells(C, TextsOf(s), RawsOf(s)) /\ Spells(C, TextsOf(t), RawsOf(t))
  BY <1>3 DEF Spells
<1> QED BY <1>4

LEMMA StatementIsLabelled ==
  ASSUME NEW C, NEW s, IsStatement(s), Spells(C, TextsOf(s), RawsOf(s))
  PROVE  Labelled(C, LabelOf(s), SignedBytes(s).sum)
<1>1. CASE s.kind = "quote"
  <2>1. IsQuote(s) /\ Spells(C, QuoteTexts(s), QuoteRaws(s))
    BY <1>1 DEF IsStatement, TextsOf, RawsOf
  <2>2. Labelled(C, 4, QuoteDigest(s).sum)
    BY <2>1, QuotesDiffer DEF Alike
  <2>3. SignedBytes(s) = QuoteDigest(s)
    BY <1>1, Zenon DEF SignedBytes
  <2> QED BY <1>1, <2>2, <2>3 DEF LabelOf
<1>2. CASE s.kind = "decision"
  <2>1. IsDecision(s) /\ Spells(C, DecisionTexts(s), DecisionRaws(s))
    BY <1>2 DEF IsStatement, TextsOf, RawsOf
  <2>2. Labelled(C, 6, DecisionDigest(s).sum)
    BY <2>1, DecisionsDiffer DEF Alike
  <2>3. SignedBytes(s) = DecisionDigest(s)
    BY <1>2, Zenon DEF SignedBytes
  <2> QED BY <1>2, <2>2, <2>3 DEF LabelOf
<1>3. CASE s.kind = "checkpoint"
  <2>1. IsCheckpoint(s) /\ Spells(C, CheckpointTexts(s), CheckpointRaws(s))
    BY <1>3 DEF IsStatement, TextsOf, RawsOf
  <2>2. Labelled(C, 9, CheckpointDigest(s).sum)
    BY <2>1, CheckpointsDiffer DEF Alike
  <2>3. SignedBytes(s) = CheckpointDigest(s)
    BY <1>3, Zenon DEF SignedBytes
  <2> QED BY <1>3, <2>2, <2>3 DEF LabelOf
<1> QED BY <1>1, <1>2, <1>3 DEF IsStatement

\* What is signed for two statements is the same if and only if they are.
LEMMA DigestsDiffer ==
  ASSUME NEW s, NEW t, IsStatement(s), IsStatement(t)
  PROVE  SignedBytes(s) = SignedBytes(t) <=> SameStatement(s, t)
<1>1. PICK C : Spells(C, TextsOf(s), RawsOf(s)) /\ Spells(C, TextsOf(t), RawsOf(t))
  BY StatementsSpell
<1>2. /\ Labelled(C, LabelOf(s), SignedBytes(s).sum)
      /\ Labelled(C, LabelOf(t), SignedBytes(t).sum)
  BY <1>1, StatementIsLabelled
<1>3. SignedBytes(s) = SignedBytes(t) => LabelOf(s) = LabelOf(t)
  <2>1. HasOctets(C)
    BY <1>1 DEF Spells
  <2> QED BY <1>2, <2>1, LabelsDiffer
<1>4. CASE s.kind = "quote" /\ t.kind = "quote"
  <2>1. /\ IsQuote(s) /\ IsQuote(t)
        /\ Spells(C, QuoteTexts(s), QuoteRaws(s)) /\ Spells(C, QuoteTexts(t), QuoteRaws(t))
    BY <1>1, <1>4 DEF IsStatement, TextsOf, RawsOf
  <2>2. QuoteDigest(s) = QuoteDigest(t) =>
          s.image = t.image /\ s.pub = t.pub /\ s.nonce = t.nonce /\ s.tcb = t.tcb
    BY <2>1, QuotesDiffer
  <2>3. QuoteDigest(s) = QuoteDigest(t) <=> s = t
    BY <1>4, <2>1, <2>2 DEF IsQuote
  <2>4. SignedBytes(s) = QuoteDigest(s) /\ SignedBytes(t) = QuoteDigest(t)
    BY <1>4, Zenon DEF SignedBytes
  <2> QED BY <1>4, <2>3, <2>4 DEF SameStatement
<1>5. CASE s.kind = "decision" /\ t.kind = "decision"
  <2>1. /\ IsDecision(s) /\ IsDecision(t)
    BY <1>5 DEF IsStatement
  <2>2. DecisionDigest(s) = DecisionDigest(t) <=> Said(s) = Said(t)
    BY <2>1, SaidDiffer, SaidIsHashed
  <2>4. SignedBytes(s) = DecisionDigest(s) /\ SignedBytes(t) = DecisionDigest(t)
    BY <1>5, Zenon DEF SignedBytes
  <2> QED BY <1>5, <2>2, <2>4 DEF SameStatement
<1>6. CASE s.kind = "checkpoint" /\ t.kind = "checkpoint"
  <2>1. /\ IsCheckpoint(s) /\ IsCheckpoint(t)
        /\ Spells(C, CheckpointTexts(s), CheckpointRaws(s))
        /\ Spells(C, CheckpointTexts(t), CheckpointRaws(t))
    BY <1>1, <1>6 DEF IsStatement, TextsOf, RawsOf
  <2>2. CheckpointDigest(s) = CheckpointDigest(t) <=> Attested(s) = Attested(t)
    BY <2>1, CheckpointsDiffer
  <2>4. SignedBytes(s) = CheckpointDigest(s) /\ SignedBytes(t) = CheckpointDigest(t)
    BY <1>6, Zenon DEF SignedBytes
  <2> QED BY <1>6, <2>2, <2>4 DEF SameStatement
<1>7. CASE s.kind # t.kind
  <2>1. {s.kind, t.kind} \subseteq {"quote", "decision", "checkpoint"}
    BY DEF IsStatement
  <2>2. LabelOf(s) # LabelOf(t)
    BY <1>7, <2>1 DEF LabelOf
  <2>3. ~SameStatement(s, t)
    BY <1>7 DEF SameStatement
  <2> QED BY <1>3, <2>2, <2>3
<1> QED BY <1>4, <1>5, <1>6, <1>7 DEF IsStatement

\* What was signed, was signed for one of the statements.
SignedInv == \A g \in signed : g.statement \in Statements /\ g.digest = SignedBytes(g.statement)

LEMMA SignedInvariant == Spec => []SignedInv
<1>1. Init => SignedInv
  BY DEF Init, PInit, SignedInv
<1>2. ASSUME SignedInv, [Next]_<<canonVars, platformVars>> PROVE SignedInv'
  <2>1. CASE UNCHANGED signed
    BY <1>2, <2>1 DEF SignedInv
  <2>2. ASSUME NEW e \in running, NEW s \in Statements, Sign(e, s) PROVE SignedInv'
    <3> DEFINE g == [digest |-> SignedBytes(s), statement |-> s]
    <3>1. signed' = signed \cup {g} /\ g.statement = s /\ g.digest = SignedBytes(s)
      BY <2>2 DEF Sign
    <3> HIDE DEF g
    <3> QED BY <1>2, <3>1 DEF SignedInv
  <2>3. CASE UNCHANGED platformVars
    BY <2>1, <2>3 DEF platformVars
  <2>4. ASSUME PNext PROVE SignedInv'
    BY <2>1, <2>2, <2>4
       DEF PNext, Launch, Stop, CounterIncrement, Seal, HostDamages, HostRelabels
  <2> QED BY <1>2, <2>3, <2>4 DEF Next, platformVars
<1> QED BY <1>1, <1>2, PTL DEF Spec

\* A signature holds for the statement it was made for and for no other, for any
\* statements that the program could come to sign.
THEOREM SignaturesAreExact == Spec => []SignatureMeansStatement
<1>1. SignedInv => SignatureMeansStatement
  <2> SUFFICES ASSUME SignedInv, NEW g \in signed, NEW t \in Statements
               PROVE  g.digest = DigestOf[t] <=> SameStatement(g.statement, t)
    BY DEF SignatureMeansStatement
  <2>1. g.statement \in Statements /\ g.digest = SignedBytes(g.statement)
    BY DEF SignedInv
  <2>2. IsStatement(g.statement) /\ IsStatement(t)
    BY <2>1, StatementsAssumption
  <2>3. DigestOf[t] = SignedBytes(t)
    BY DEF DigestOf
  <2> QED BY <2>1, <2>2, <2>3, DigestsDiffer
<1> QED BY <1>1, SignedInvariant, PTL

=============================================================================
