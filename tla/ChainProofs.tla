----------------------------- MODULE ChainProofs -----------------------------
(***************************************************************************)
(* Lemmas about the hash chain and its auditor, for chains of any length   *)
(* over any set of decisions: an intact chain is the trail of its head.    *)
(*                                                                         *)
(* What a replay has computed after n entries is shown by induction on n,  *)
(* from the least number at which it would be something else.              *)
(***************************************************************************)
EXTENDS AuditChain, TLAPS, WellFoundedInduction

\* Every set of numbers that is not empty has a least member.
LEMMA LeastNumber ==
  ASSUME NEW S, S \subseteq Nat, S # {}
  PROVE  \E n \in S : \A m \in S : n <= m
<1> DEFINE R == OpToRel(<, Nat)
<1>1. IsWellFoundedOn(R, Nat)
  BY NatLessThanWellFounded, Zenon
<1>2. \A m, n \in Nat : m < n => <<m, n>> \in R
  BY DEF OpToRel
<1> HIDE DEF R
<1>3. PICK n \in S : \A m \in S : ~(<<m, n>> \in R)
  BY <1>1, WFMin
<1>4. ASSUME NEW m \in S, ~(n <= m) PROVE FALSE
  <2>1. m \in Nat /\ n \in Nat /\ m < n
    BY <1>4
  <2> QED BY <1>2, <1>3, <2>1, Zenon
<1> QED BY <1>4

\* A set that has 0, and with a number below N the next one, has all up to N.
LEMMA UpTo ==
  ASSUME NEW N \in Nat, NEW S, 0 \in S, \A n \in 0 .. N : n \in S /\ n < N => n + 1 \in S
  PROVE  0 .. N \subseteq S
<1> SUFFICES ASSUME (0 .. N) \ S # {} PROVE FALSE
  OBVIOUS
<1>1. (0 .. N) \ S \subseteq Nat
  OBVIOUS
<1>2. PICK n \in (0 .. N) \ S : \A m \in (0 .. N) \ S : n <= m
  BY <1>1, LeastNumber
<1>3. n # 0 /\ n \in 0 .. N
  BY <1>2
<1>4. n - 1 \in 0 .. N /\ n - 1 < N /\ (n - 1) + 1 = n
  BY <1>3
<1>5. n - 1 \in S
  BY <1>2, <1>4
<1> QED BY <1>2, <1>4, <1>5

-----------------------------------------------------------------------------
(* Sequences. *)

\* What Append makes of a sequence.
LEMMA AppendedIs ==
  ASSUME NEW C, NEW s \in Seq(C), NEW c \in C
  PROVE  /\ Append(s, c) \in Seq(C)
         /\ Len(Append(s, c)) = Len(s) + 1
         /\ \A n \in 1 .. Len(s) : Append(s, c)[n] = s[n]
         /\ Append(s, c)[Len(s) + 1] = c
OBVIOUS

\* What a prefix is.
LEMMA PrefixIs ==
  ASSUME NEW C, NEW s \in Seq(C), NEW n \in 0 .. Len(s)
  PROVE  /\ SubSeq(s, 1, n) \in Seq(C)
         /\ Len(SubSeq(s, 1, n)) = n
         /\ \A k \in 1 .. n : SubSeq(s, 1, n)[k] = s[k]
OBVIOUS

\* Sequences of one length with the same members are equal.
LEMMA SameSequence ==
  ASSUME NEW C, NEW s \in Seq(C), NEW t \in Seq(C), Len(s) = Len(t),
         \A n \in 1 .. Len(s) : s[n] = t[n]
  PROVE  s = t
OBVIOUS

-----------------------------------------------------------------------------
(* Chains. *)

\* h is a hash an engine can have computed: its n-th commitment is to entry n.
IsHistory(h, C) ==
  /\ h \in Seq(C)
  /\ \A n \in 1 .. Len(h) : h[n] = [seq |-> n, decision |-> h[n].decision]

\* e has the fields of an entry and commits to something in C.
IsEntry(e, C) ==
  /\ e = [seq |-> e.seq, decision |-> e.decision, prevHash |-> e.prevHash, hash |-> e.hash]
  /\ [seq |-> e.seq, decision |-> e.decision] \in C

AreEntries(E, C) == \A e \in E : IsEntry(e, C)

\* One more commitment continues a prefix.
LEMMA PrefixGrows ==
  ASSUME NEW C, NEW s \in Seq(C), NEW n \in 1 .. Len(s)
  PROVE  Append(SubSeq(s, 1, n - 1), s[n]) = SubSeq(s, 1, n)
<1>1. s[n] \in C /\ n - 1 \in 0 .. Len(s) /\ n \in 0 .. Len(s)
  OBVIOUS
<1>2. /\ SubSeq(s, 1, n - 1) \in Seq(C) /\ Len(SubSeq(s, 1, n - 1)) = n - 1
      /\ \A k \in 1 .. n - 1 : SubSeq(s, 1, n - 1)[k] = s[k]
  BY <1>1, PrefixIs
<1>3. /\ SubSeq(s, 1, n) \in Seq(C) /\ Len(SubSeq(s, 1, n)) = n
      /\ \A k \in 1 .. n : SubSeq(s, 1, n)[k] = s[k]
  BY <1>1, PrefixIs
<1> DEFINE p == SubSeq(s, 1, n - 1)
           a == Append(p, s[n])
<1>4. /\ a \in Seq(C) /\ Len(a) = n /\ a[n] = s[n]
      /\ \A k \in 1 .. n - 1 : a[k] = s[k]
  BY <1>1, <1>2, AppendedIs
<1> HIDE DEF a, p
<1>5. \A k \in 1 .. n : a[k] = SubSeq(s, 1, n)[k]
  BY <1>3, <1>4
<1>6. a = SubSeq(s, 1, n)
  BY <1>3, <1>4, <1>5, SameSequence
<1> QED BY <1>6 DEF a, p

\* The predecessor that replay expects along a trail is the prefix so far.
LEMMA TrailPrefixes ==
  ASSUME NEW C, NEW h \in Seq(C), NEW n \in 0 .. Len(h)
  PROVE  PrevOf(TrailOf(h), n + 1) = SubSeq(h, 1, n)
<1>1. CASE n = 0
  <2>1. SubSeq(h, 1, 0) \in Seq(C) /\ Len(SubSeq(h, 1, 0)) = 0
    BY PrefixIs
  <2>2. SubSeq(h, 1, 0) = <<>>
    BY <2>1
  <2> QED BY <1>1, <2>2 DEF PrevOf, ZeroHash
<1>2. CASE n # 0
  <2>1. n \in 1 .. Len(h) /\ n + 1 # 1 /\ (n + 1) - 1 = n
    BY <1>2
  <2> QED BY <2>1 DEF PrevOf, TrailOf
<1> QED BY <1>1, <1>2

\* The trail of a history is an intact chain that ends in it.
LEMMA TrailIsIntact ==
  ASSUME NEW C, NEW h, IsHistory(h, C)
  PROVE  /\ Len(TrailOf(h)) = Len(h)
         /\ ChainIntact(TrailOf(h))
         /\ ReplayHead(TrailOf(h)) = h
<1>0. h \in Seq(C) /\ Len(h) \in Nat
  BY DEF IsHistory
<1>1. Len(TrailOf(h)) = Len(h)
  BY <1>0 DEF TrailOf
<1>2. ASSUME NEW n \in 1 .. Len(h)
      PROVE  /\ TrailOf(h)[n].seq = n
             /\ TrailOf(h)[n].prevHash = PrevOf(TrailOf(h), n)
             /\ TrailOf(h)[n].hash = ComputeHash(TrailOf(h)[n])
  <2>1. TrailOf(h)[n] = [seq |-> n, decision |-> h[n].decision,
                         prevHash |-> SubSeq(h, 1, n - 1), hash |-> SubSeq(h, 1, n)]
    BY DEF TrailOf
  <2>2. n - 1 \in 0 .. Len(h) /\ (n - 1) + 1 = n
    BY <1>0
  <2>3. PrevOf(TrailOf(h), n) = SubSeq(h, 1, n - 1)
    BY <1>0, <2>2, TrailPrefixes
  <2>4. ComputeHash(TrailOf(h)[n]) = Append(SubSeq(h, 1, n - 1), h[n])
    BY <2>1 DEF ComputeHash, IsHistory
  <2>5. ComputeHash(TrailOf(h)[n]) = SubSeq(h, 1, n)
    BY <1>0, <2>4, PrefixGrows
  <2>6. /\ TrailOf(h)[n].seq = n
        /\ TrailOf(h)[n].prevHash = SubSeq(h, 1, n - 1)
        /\ TrailOf(h)[n].hash = SubSeq(h, 1, n)
    BY <2>1
  <2> QED BY <2>3, <2>5, <2>6
<1>3. ReplayHead(TrailOf(h)) = SubSeq(h, 1, Len(h))
  BY <1>0, <1>1, TrailPrefixes DEF ReplayHead
<1>4. SubSeq(h, 1, Len(h)) = h
  BY <1>0, PrefixIs, SameSequence
<1> QED BY <1>1, <1>2, <1>3, <1>4 DEF ChainIntact

\* What replay has computed after n entries of an intact chain: the commitments
\* to these entries, in their order.
LEMMA ReplayComputes ==
  ASSUME NEW C, NEW E, AreEntries(E, C), NEW es \in Seq(E), ChainIntact(es)
  PROVE  \A n \in 0 .. Len(es) :
           /\ PrevOf(es, n + 1) \in Seq(C)
           /\ Len(PrevOf(es, n + 1)) = n
           /\ \A k \in 1 .. n : PrevOf(es, n + 1)[k] = [seq |-> k, decision |-> es[k].decision]
<1> DEFINE Computed(n) ==
             /\ PrevOf(es, n + 1) \in Seq(C)
             /\ Len(PrevOf(es, n + 1)) = n
             /\ \A k \in 1 .. n : PrevOf(es, n + 1)[k] = [seq |-> k, decision |-> es[k].decision]
           S == {n \in 0 .. Len(es) : Computed(n)}
<1>0. Len(es) \in Nat /\ \A n \in 1 .. Len(es) : IsEntry(es[n], C)
  BY DEF AreEntries
<1>1. Computed(0)
  BY DEF PrevOf, ZeroHash
<1>2. ASSUME NEW n \in 0 .. Len(es), n < Len(es), Computed(n)
      PROVE  Computed(n + 1)
  <2> DEFINE p == PrevOf(es, n + 1)
             c == [seq |-> n + 1, decision |-> es[n + 1].decision]
  <2>1. n + 1 \in 1 .. Len(es)
    BY <1>0, <1>2
  <2>2. /\ es[n + 1].seq = n + 1
        /\ es[n + 1].prevHash = p
        /\ es[n + 1].hash = ComputeHash(es[n + 1])
    BY <2>1 DEF ChainIntact
  <2>3. c \in C
    BY <1>0, <2>1, <2>2 DEF IsEntry
  <2>4. PrevOf(es, (n + 1) + 1) = Append(p, c)
    <3>1. PrevOf(es, (n + 1) + 1) = es[n + 1].hash
      BY <2>1 DEF PrevOf
    <3>2. ComputeHash(es[n + 1]) = Append(p, c)
      BY <2>2 DEF ComputeHash
    <3> QED BY <2>2, <3>1, <3>2
  <2>5. p \in Seq(C) /\ Len(p) = n
        /\ \A k \in 1 .. n : p[k] = [seq |-> k, decision |-> es[k].decision]
    BY <1>2
  <2> HIDE DEF p, c
  <2>6. /\ Append(p, c) \in Seq(C) /\ Len(Append(p, c)) = n + 1
        /\ \A k \in 1 .. n : Append(p, c)[k] = p[k]
        /\ Append(p, c)[n + 1] = c
    BY <2>3, <2>5, AppendedIs
  <2>7. ASSUME NEW k \in 1 .. n + 1
        PROVE  Append(p, c)[k] = [seq |-> k, decision |-> es[k].decision]
    <3>1. CASE k = n + 1
      <4>1. c = [seq |-> k, decision |-> es[k].decision]
        BY <3>1 DEF c
      <4>2. Append(p, c)[k] = c
        BY <2>6, <3>1
      <4> QED BY <4>1, <4>2
    <3>2. CASE k \in 1 .. n
      <4>1. Append(p, c)[k] = p[k] /\ p[k] = [seq |-> k, decision |-> es[k].decision]
        BY <2>5, <2>6, <3>2
      <4> QED BY <4>1
    <3>3. k = n + 1 \/ k \in 1 .. n
      OBVIOUS
    <3> QED BY <3>1, <3>2, <3>3, Zenon
  <2> QED BY <2>4, <2>6, <2>7
<1> HIDE DEF Computed
<1>3. 0 \in S
  BY <1>0, <1>1
<1>4. \A n \in 0 .. Len(es) : n \in S /\ n < Len(es) => n + 1 \in S
  BY <1>0, <1>2
<1>5. 0 .. Len(es) \subseteq S
  <2> HIDE DEF S
  <2> QED BY <1>0, <1>3, <1>4, UpTo
<1>6. \A n \in 0 .. Len(es) : Computed(n)
  BY <1>5
<1> QED BY <1>6 DEF Computed

\* An intact chain of entries is the trail of the head that replay returns.
LEMMA IntactIsTrail ==
  ASSUME NEW C, NEW E, AreEntries(E, C), NEW es \in Seq(E), ChainIntact(es)
  PROVE  /\ IsHistory(ReplayHead(es), C)
         /\ Len(ReplayHead(es)) = Len(es)
         /\ es = TrailOf(ReplayHead(es))
<1> DEFINE h == ReplayHead(es)
<1>1. Len(es) \in Nat /\ \A n \in 1 .. Len(es) : IsEntry(es[n], C)
  BY DEF AreEntries
<1>2. ASSUME NEW n \in 0 .. Len(es)
      PROVE  /\ PrevOf(es, n + 1) \in Seq(C)
             /\ Len(PrevOf(es, n + 1)) = n
             /\ \A k \in 1 .. n : PrevOf(es, n + 1)[k] = [seq |-> k, decision |-> es[k].decision]
  BY ReplayComputes
<1>3. /\ h \in Seq(C) /\ Len(h) = Len(es)
      /\ \A k \in 1 .. Len(es) : h[k] = [seq |-> k, decision |-> es[k].decision]
  BY <1>1, <1>2 DEF ReplayHead
<1> HIDE DEF h
<1>d. ASSUME NEW n \in 1 .. Len(es)
      PROVE  /\ h[n].decision = es[n].decision
             /\ h[n] = [seq |-> n, decision |-> h[n].decision]
  <2>1. h[n] = [seq |-> n, decision |-> es[n].decision]
    BY <1>3
  <2>2. h[n].decision = es[n].decision
    BY <2>1
  <2> QED BY <2>1, <2>2
<1>4. IsHistory(h, C)
  <2>1. \A n \in 1 .. Len(h) : h[n] = [seq |-> n, decision |-> h[n].decision]
    BY <1>3, <1>d
  <2> QED BY <1>3, <2>1 DEF IsHistory
<1>5. ASSUME NEW n \in 0 .. Len(es) PROVE PrevOf(es, n + 1) = SubSeq(h, 1, n)
  <2>1. /\ SubSeq(h, 1, n) \in Seq(C) /\ Len(SubSeq(h, 1, n)) = n
        /\ \A k \in 1 .. n : SubSeq(h, 1, n)[k] = h[k]
    BY <1>3, PrefixIs
  <2>2. \A k \in 1 .. n : PrevOf(es, n + 1)[k] = SubSeq(h, 1, n)[k]
    <3> SUFFICES ASSUME NEW k \in 1 .. n PROVE PrevOf(es, n + 1)[k] = SubSeq(h, 1, n)[k]
      OBVIOUS
    <3>1. k \in 1 .. Len(es)
      BY <1>1
    <3>2. PrevOf(es, n + 1)[k] = [seq |-> k, decision |-> es[k].decision]
      BY <1>2
    <3> QED BY <1>3, <2>1, <3>1, <3>2
  <2> QED BY <1>2, <2>1, <2>2, SameSequence
<1>6. ASSUME NEW n \in 1 .. Len(es)
      PROVE  es[n] = [seq |-> n, decision |-> h[n].decision,
                      prevHash |-> SubSeq(h, 1, n - 1), hash |-> SubSeq(h, 1, n)]
  <2>1. n - 1 \in 0 .. Len(es) /\ (n - 1) + 1 = n /\ n \in 0 .. Len(es) /\ n + 1 # 1
    BY <1>1
  <2>2. es[n].seq = n /\ es[n].prevHash = PrevOf(es, n)
    BY DEF ChainIntact
  <2>3. PrevOf(es, n) = SubSeq(h, 1, n - 1)
    BY <1>5, <2>1
  <2>4. PrevOf(es, n + 1) = es[n].hash
    BY <2>1 DEF PrevOf
  <2>5. es[n].hash = SubSeq(h, 1, n)
    BY <1>5, <2>1, <2>4
  <2>6. es[n].decision = h[n].decision
    BY <1>d
  <2>7. es[n] = [seq |-> es[n].seq, decision |-> es[n].decision,
                 prevHash |-> es[n].prevHash, hash |-> es[n].hash]
    BY <1>1 DEF IsEntry
  <2> QED BY <2>2, <2>3, <2>5, <2>6, <2>7
<1>7. es = [n \in 1 .. Len(es) |-> es[n]]
  OBVIOUS
<1>8. es = TrailOf(h)
  BY <1>3, <1>6, <1>7 DEF TrailOf
<1> QED BY <1>3, <1>4, <1>8 DEF h

-----------------------------------------------------------------------------
(* The auditor. *)

\* Verify accepts exactly the trail of the checkpoint's head.
LEMMA VerifyIsTrail ==
  ASSUME NEW C, NEW E, AreEntries(E, C), NEW es \in Seq(E),
         NEW cp, IsHistory(cp.head, C), cp.count = Len(cp.head), NEW pub
  PROVE  (Verify(es, cp, pub) = "ok") <=> (cp.signer = pub /\ es = TrailOf(cp.head))
<1>1. (Verify(es, cp, pub) = "ok") <=>
        /\ cp.signer = pub /\ ChainIntact(es)
        /\ Len(es) = cp.count /\ ReplayHead(es) = cp.head
  BY DEF Verify, SignedBy
<1>2. ASSUME ChainIntact(es), ReplayHead(es) = cp.head PROVE es = TrailOf(cp.head)
  BY <1>2, IntactIsTrail
<1>3. ASSUME es = TrailOf(cp.head)
      PROVE  ChainIntact(es) /\ Len(es) = cp.count /\ ReplayHead(es) = cp.head
  BY <1>3, TrailIsIntact
<1> QED BY <1>1, <1>2, <1>3

\* VerifyAppendOnly accepts exactly, besides, an older checkpoint about a prefix.
LEMMA GrowthIsPrefix ==
  ASSUME NEW C, NEW E, AreEntries(E, C), NEW es \in Seq(E), NEW pub,
         NEW older, IsHistory(older.head, C), older.count = Len(older.head),
         NEW newer, IsHistory(newer.head, C), newer.count = Len(newer.head)
  PROVE  (VerifyAppendOnly(es, older, newer, pub) = "ok")
           <=> /\ older.signer = pub /\ newer.signer = pub
               /\ es = TrailOf(newer.head)
               /\ ExtensionOf(newer.head, older.head)
               /\ older.counter <= newer.counter
<1> DEFINE a == older.head
           b == newer.head
           m == Len(a)
<1>1. /\ a \in Seq(C) /\ b \in Seq(C) /\ m \in Nat /\ Len(b) \in Nat
      /\ older.count = m /\ newer.count = Len(b)
  BY DEF IsHistory
<1>2. (VerifyAppendOnly(es, older, newer, pub) = "ok") <=>
        /\ Verify(es, newer, pub) = "ok"
        /\ older.signer = pub
        /\ m <= Len(b)
        /\ older.counter <= newer.counter
        /\ a = PrevOf(es, m + 1)
  <2>1. CASE Verify(es, newer, pub) # "ok"
    BY <2>1 DEF VerifyAppendOnly
  <2>2. CASE Verify(es, newer, pub) = "ok" /\ older.signer # pub
    BY <2>2 DEF VerifyAppendOnly, SignedBy
  <2>3. CASE Verify(es, newer, pub) = "ok" /\ older.signer = pub
    <3> DEFINE grown == /\ older.count <= newer.count
                        /\ older.counter <= newer.counter
                        /\ older.head = PrevOf(es, older.count + 1)
    <3>1. VerifyAppendOnly(es, older, newer, pub) = IF grown THEN "ok" ELSE "mismatch"
      BY <2>3 DEF VerifyAppendOnly, SignedBy
    <3> QED BY <1>1, <2>3, <3>1
  <2> QED BY <2>1, <2>2, <2>3
<1>3. (Verify(es, newer, pub) = "ok") <=> (newer.signer = pub /\ es = TrailOf(newer.head))
  BY VerifyIsTrail
<1>4. ASSUME m <= Len(b) PROVE ExtensionOf(b, a) <=> a = PrevOf(TrailOf(b), m + 1)
  <2>1. m \in 0 .. Len(b)
    BY <1>1, <1>4
  <2>2. PrevOf(TrailOf(b), m + 1) = SubSeq(b, 1, m)
    BY <1>1, <2>1, TrailPrefixes
  <2>3. /\ SubSeq(b, 1, m) \in Seq(C) /\ Len(SubSeq(b, 1, m)) = m
        /\ \A k \in 1 .. m : SubSeq(b, 1, m)[k] = b[k]
    BY <1>1, <2>1, PrefixIs
  <2>4. ASSUME ExtensionOf(b, a) PROVE a = SubSeq(b, 1, m)
    <3>1. \A k \in 1 .. m : a[k] = SubSeq(b, 1, m)[k]
      BY <2>3, <2>4 DEF ExtensionOf
    <3> QED BY <1>1, <2>3, <3>1, SameSequence
  <2>5. ASSUME a = SubSeq(b, 1, m) PROVE ExtensionOf(b, a)
    BY <1>4, <2>3, <2>5 DEF ExtensionOf
  <2> QED BY <2>2, <2>4, <2>5
<1>5. ExtensionOf(b, a) => m <= Len(b)
  BY DEF ExtensionOf
<1> QED BY <1>2, <1>3, <1>4, <1>5
=============================================================================
