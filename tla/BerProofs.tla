----------------------------- MODULE BerProofs ------------------------------
(***************************************************************************)
(* What the encoders write the parsers read back, for every value of the   *)
(* sizes they have room for, and what happens beyond; what the loops of    *)
(* the parsers unfold to; that every PDU is octets, whatever is asked; and *)
(* that a server which decodes a request finds what the caller meant.      *)
(***************************************************************************)
EXTENDS Ber, FiniteSetTheorems, SequenceTheorems, WellFoundedInduction, TLAPS

-----------------------------------------------------------------------------
\* Induction over the natural numbers and functions that are defined by recursion,
\* with sets and functions where the library's theorems have operators as
\* parameters; and what the flattening of a sequence of sequences is.

LEMMA Least ==
  ASSUME NEW T \in SUBSET Nat, T # {}
  PROVE  \E n \in T : \A m \in T : n <= m
<1> DEFINE R == OpToRel(<, Nat)
<1>1. \A x, y \in Nat : x < y => <<x, y>> \in R
  BY DEF OpToRel
<1>2. IsWellFoundedOn(R, Nat)
  BY NatLessThanWellFounded
<1> HIDE DEF R
<1>3. PICK n \in T : \A m \in T : ~(<<m, n>> \in R)
  BY <1>2, WFMin
<1>4. ASSUME NEW m \in T PROVE n <= m
  <2>1. m \in Nat /\ n \in Nat /\ ~(<<m, n>> \in R)
    BY <1>3
  <2>2. ~(m < n)
    BY <1>1, <2>1, Zenon
  <2> QED
    BY <2>1, <2>2
<1> QED
  BY <1>4

\* Induction, for the numbers in a set.
LEMMA AllBelow ==
  ASSUME NEW T, \A n \in Nat : (\A m \in Nat : m < n => m \in T) => n \in T
  PROVE  \A n \in Nat : n \in T
<1> SUFFICES ASSUME Nat \ T # {} PROVE FALSE
  OBVIOUS
<1>1. PICK n \in Nat \ T : \A m \in Nat \ T : n <= m
  BY Least
<1> QED
  BY <1>1

\* A recursive definition: g satisfies it at d.
Obeys(g, d, stop, base, p, h) ==
  g[d] = IF d \in stop THEN base[d] ELSE h[<<d, g[p[d]]>>]

LEMMA RecursiveFunction ==
  ASSUME NEW D, NEW V, NEW m \in [D -> Nat], NEW stop, NEW base \in [D -> V],
         NEW p \in [D -> D], NEW h \in [D \X V -> V],
         \A d \in D : d \notin stop => m[p[d]] < m[d]
  PROVE  \E f \in [D -> V] : \A d \in D : Obeys(f, d, stop, base, p, h)
<1> DEFINE F == [D -> V]
           Good(g, n) == \A d \in D : m[d] < n => Obeys(g, d, stop, base, p, h)
           Some == {n \in Nat : \E g \in F : Good(g, n)}
<1>1. \A d \in D : m[d] \in Nat /\ p[d] \in D
  OBVIOUS
<1>2. \A n \in Nat : \E g \in F : Good(g, n)
  <2>1. ASSUME NEW n \in Nat, n # 0, NEW g \in F, Good(g, n - 1)
        PROVE  \E k \in F : Good(k, n)
    <3> DEFINE Value(d) == IF d \in stop THEN base[d] ELSE h[<<d, g[p[d]]>>]
               k == [d \in D |-> IF m[d] < n - 1 THEN g[d] ELSE Value(d)]
    <3>1. \A d \in D : Value(d) \in V
      BY <1>1
    <3>2. k \in F
      BY <3>1
    <3>3. \A d \in D : k[d] = IF m[d] < n - 1 THEN g[d] ELSE Value(d)
      OBVIOUS
    <3> HIDE DEF k
    <3>4. ASSUME NEW d \in D, m[d] < n PROVE Obeys(k, d, stop, base, p, h)
      <4>1. k[d] = Value(d)
        BY <2>1, <3>3, <3>4 DEF Obeys
      <4>2. ASSUME d \notin stop PROVE k[p[d]] = g[p[d]]
        <5>1. /\ p[d] \in D /\ m[p[d]] \in Nat /\ m[d] \in Nat
              /\ m[p[d]] < m[d]
          BY <1>1, <4>2
        <5>2. m[p[d]] < n - 1
          BY <3>4, <5>1
        <5> QED
          BY <3>3, <5>1, <5>2
      <4> QED
        BY <4>1, <4>2 DEF Obeys
    <3> QED
      BY <3>2, <3>4
  <2>2. base \in F /\ Good(base, 0)
    BY <1>1
  <2> HIDE DEF F, Good
  <2>3. ASSUME NEW n \in Nat, \A i \in Nat : i < n => i \in Some PROVE n \in Some
    <3>1. CASE n = 0
      BY <2>2, <3>1
    <3>2. CASE n # 0
      <4>1. n - 1 \in Nat /\ n - 1 < n
        BY <3>2
      <4>2. PICK g \in F : Good(g, n - 1)
        BY <2>3, <4>1
      <4> QED
        BY <2>1, <3>2, <4>2
    <3> QED
      BY <3>1, <3>2
  <2>4. \A n \in Nat : n \in Some
    <3> HIDE DEF Some
    <3> QED
      BY <2>3, AllBelow
  <2> QED
    BY <2>4
\* Two that satisfy it at all that is needed for d agree on d.
<1>3. ASSUME NEW g \in F, NEW k \in F, NEW i \in Nat, NEW j \in Nat, Good(g, i), Good(k, j)
      PROVE  \A d \in D : m[d] < i /\ m[d] < j => g[d] = k[d]
  <2> DEFINE Agree == {n \in Nat : \A d \in D : m[d] = n /\ n < i /\ n < j => g[d] = k[d]}
  <2>1. ASSUME NEW n \in Nat, \A l \in Nat : l < n => l \in Agree PROVE n \in Agree
    <3>1. ASSUME NEW d \in D, m[d] = n, n < i, n < j PROVE g[d] = k[d]
      <4>1. Obeys(g, d, stop, base, p, h) /\ Obeys(k, d, stop, base, p, h)
        BY <1>3, <3>1
      <4>2. ASSUME d \notin stop PROVE g[p[d]] = k[p[d]]
        <5>1. m[p[d]] \in Nat /\ p[d] \in D /\ m[p[d]] < n
          BY <1>1, <3>1, <4>2
        <5>2. m[p[d]] \in Agree
          BY <2>1, <5>1
        <5> QED
          BY <3>1, <5>1, <5>2
      <4> QED
        BY <4>1, <4>2 DEF Obeys
    <3> QED
      BY <3>1
  <2>2. \A n \in Nat : n \in Agree
    <3> HIDE DEF Agree
    <3> QED
      BY <2>1, AllBelow
  <2> QED
    BY <1>1, <2>2
<1> DEFINE G == [n \in Nat |-> CHOOSE g \in F : Good(g, n)]
           f == [d \in D |-> G[m[d] + 1][d]]
<1>4. \A n \in Nat : G[n] \in F /\ Good(G[n], n)
  <2> HIDE DEF F, Good
  <2>1. ASSUME NEW n \in Nat PROVE G[n] \in F /\ Good(G[n], n)
    <3>1. \E g \in F : Good(g, n)
      BY <1>2
    <3>2. G[n] = CHOOSE g \in F : Good(g, n)
      OBVIOUS
    <3> QED
      BY <3>1, <3>2
  <2> QED
    BY <2>1
<1> HIDE DEF G
<1>5. \A d \in D : m[d] + 1 \in Nat /\ f[d] = G[m[d] + 1][d]
  BY <1>1
<1>6. f \in F
  BY <1>1, <1>4
<1> HIDE DEF f
<1>7. ASSUME NEW d \in D PROVE Obeys(f, d, stop, base, p, h)
  <2>1. m[d] + 1 \in Nat /\ f[d] = G[m[d] + 1][d] /\ m[d] < m[d] + 1
    BY <1>1, <1>5
  <2>2. Obeys(G[m[d] + 1], d, stop, base, p, h)
    BY <1>4, <2>1
  <2>3. ASSUME d \notin stop PROVE f[p[d]] = G[m[d] + 1][p[d]]
    <3>1. p[d] \in D /\ m[p[d]] \in Nat /\ m[p[d]] < m[d] + 1 /\ m[p[d]] < m[p[d]] + 1
      BY <1>1, <2>3
    <3>2. m[p[d]] + 1 \in Nat /\ f[p[d]] = G[m[p[d]] + 1][p[d]]
      BY <1>5, <3>1
    <3> HIDE DEF F, Good
    <3>3. /\ G[m[p[d]] + 1] \in F /\ Good(G[m[p[d]] + 1], m[p[d]] + 1)
          /\ G[m[d] + 1] \in F /\ Good(G[m[d] + 1], m[d] + 1)
      BY <1>4, <2>1, <3>2
    <3> QED
      BY <1>3, <2>1, <3>1, <3>2, <3>3
  <2> QED
    BY <2>1, <2>2, <2>3 DEF Obeys
<1> QED
  BY <1>6, <1>7

LEMMA FlattenUnfolds ==
  ASSUME NEW S, NEW ss \in Seq(Seq(S)), ss # <<>>
  PROVE  \E f \in [1..Len(ss) -> Seq(S)] :
           /\ FlattenSeq(ss) = f[Len(ss)]
           /\ \A i \in 1..Len(ss) : f[i] = IF i = 1 THEN ss[i] ELSE f[i - 1] \o ss[i]
<1> DEFINE D == 1..Len(ss)
           V == Seq(S)
           m == [i \in D |-> i]
           stop == {1}
           base == [i \in D |-> ss[i]]
           p == [i \in D |-> IF i = 1 THEN 1 ELSE i - 1]
           h == [x \in D \X V |-> x[2] \o ss[x[1]]]
           Body(f, i) == IF i = 1 THEN ss[i] ELSE f[i - 1] \o ss[i]
           flatten == CHOOSE f : f = [i \in D |-> Body(f, i)]
<1>1. Len(ss) \in Nat /\ Len(ss) # 0 /\ \A i \in D : ss[i] \in V
  OBVIOUS
<1>2. m \in [D -> Nat] /\ base \in [D -> V] /\ p \in [D -> D] /\ h \in [D \X V -> V]
  BY <1>1
<1>3. \A i \in D : i \notin stop => m[p[i]] < m[i]
  BY <1>1
<1> HIDE DEF m, base, p, h, stop
<1>4. PICK f \in [D -> V] : \A i \in D : Obeys(f, i, stop, base, p, h)
  BY <1>2, <1>3, RecursiveFunction
<1>5. \A i \in D : f[i] = Body(f, i)
  <2>1. ASSUME NEW i \in D, i # 1 PROVE f[i] = f[i - 1] \o ss[i]
    <3>1. i \notin stop /\ p[i] = i - 1 /\ i - 1 \in D
      BY <1>1, <2>1 DEF stop, p
    <3>2. f[i] = h[<<i, f[i - 1]>>] /\ <<i, f[i - 1]>> \in D \X V
      BY <1>4, <3>1 DEF Obeys
    <3> QED
      BY <3>2 DEF h
  <2>2. ASSUME NEW i \in D, i = 1 PROVE f[i] = ss[i]
    BY <1>4, <2>2 DEF Obeys, stop, base
  <2> QED
    BY <2>1, <2>2
<1>6. f = [i \in D |-> Body(f, i)]
  BY <1>5
<1>7. flatten = [i \in D |-> Body(flatten, i)]
  <2> HIDE DEF Body, D
  <2> QED
    BY <1>6
<1> DEFINE Typed == {n \in Nat : n \in D => flatten[n] \in V}
<1>8. \A n \in Nat : n \in Typed
  <2>1. \A i \in D : flatten[i] = Body(flatten, i)
    <3> HIDE DEF Body, flatten, D
    <3> QED
      BY <1>7
  <2> HIDE DEF flatten
  <2>2. ASSUME NEW n \in Nat, \A k \in Nat : k < n => k \in Typed PROVE n \in Typed
    <3>1. ASSUME n \in D, n # 1 PROVE flatten[n] \in V
      <4>1. n - 1 \in Nat /\ n - 1 < n /\ n - 1 \in D
        BY <1>1, <3>1
      <4>2. flatten[n - 1] \in V /\ ss[n] \in V
        BY <1>1, <2>2, <3>1, <4>1
      <4>3. flatten[n] = flatten[n - 1] \o ss[n]
        BY <2>1, <3>1
      <4> QED
        BY <4>2, <4>3, ConcatProperties
    <3>2. ASSUME n \in D, n = 1 PROVE flatten[n] \in V
      BY <1>1, <2>1, <3>2
    <3> QED
      BY <3>1, <3>2
  <2> HIDE DEF Typed
  <2> QED
    BY <2>2, AllBelow
<1>9. FlattenSeq(ss) = flatten[Len(ss)]
  BY <1>1 DEF FlattenSeq
<1> HIDE DEF flatten
<1>10. \A i \in D : flatten[i] = Body(flatten, i) /\ flatten[i] \in V
  <2>1. \A i \in D : flatten[i] \in V
    BY <1>1, <1>8
  <2> HIDE DEF Body, D, V
  <2> QED
    BY <1>7, <2>1
<1>11. flatten \in [D -> V]
  <2> HIDE DEF Body, D, V
  <2> QED
    BY <1>7, <1>10
<1> QED
  BY <1>9, <1>10, <1>11

\* For every three sequences at once, as a step with names of its own needs it.
LEMMA Associative ==
  ASSUME NEW S
  PROVE  \A a \in Seq(S), b \in Seq(S), c \in Seq(S) : a \o (b \o c) = (a \o b) \o c
<1> TAKE a \in Seq(S), b \in Seq(S), c \in Seq(S)
<1> QED
  BY SMT

\* The concatenation of one more.
LEMMA FlattenGrows ==
  ASSUME NEW S, NEW ss \in Seq(Seq(S)), NEW s \in Seq(S)
  PROVE  /\ FlattenSeq(<<>>) = <<>>
         /\ FlattenSeq(ss) \in Seq(S)
         /\ FlattenSeq(Append(ss, s)) = FlattenSeq(ss) \o s
<1>1. FlattenSeq(<<>>) = <<>>
  BY DEF FlattenSeq
<1>2. FlattenSeq(ss) \in Seq(S)
  <2>1. CASE ss = <<>>
    BY <1>1, <2>1, EmptySeq, Zenon
  <2>2. CASE ss # <<>>
    <3>1. Len(ss) \in 1..Len(ss)
      BY <2>2, EmptySeq
    <3>2. PICK f \in [1..Len(ss) -> Seq(S)] : FlattenSeq(ss) = f[Len(ss)]
      BY <2>2, FlattenUnfolds, Zenon
    <3> QED
      BY <3>1, <3>2, Zenon
  <2> QED
    BY <2>1, <2>2
<1> DEFINE tt == Append(ss, s)
           n == Len(ss)
<1>3. /\ tt \in Seq(Seq(S)) /\ tt # <<>> /\ Len(tt) = n + 1 /\ n \in Nat
      /\ \A i \in 1..n : tt[i] = ss[i]
      /\ tt[n + 1] = s /\ (ss = <<>> <=> n = 0)
  BY AppendProperties, EmptySeq
<1> HIDE DEF tt, n
<1>4. PICK g \in [1..Len(tt) -> Seq(S)] :
        /\ FlattenSeq(tt) = g[Len(tt)]
        /\ \A i \in 1..Len(tt) : g[i] = IF i = 1 THEN tt[i] ELSE g[i - 1] \o tt[i]
  BY <1>3, FlattenUnfolds, ZenonT(40)
<1>5. ASSUME ss = <<>> PROVE FlattenSeq(tt) = FlattenSeq(ss) \o s
  <2>1. n = 0 /\ Len(tt) = 1 /\ 1 \in 1..Len(tt)
    BY <1>3, <1>5
  <2>2. FlattenSeq(tt) = s
    BY <1>3, <1>4, <2>1
  <2>3. <<>> \o s = s
    BY ConcatEmptySeq
  <2> QED
    BY <1>1, <1>5, <2>2, <2>3, Zenon
<1>6. ASSUME ss # <<>> PROVE FlattenSeq(tt) = FlattenSeq(ss) \o s
  <2>1. PICK f \in [1..n -> Seq(S)] :
          /\ FlattenSeq(ss) = f[n]
          /\ \A i \in 1..n : f[i] = IF i = 1 THEN ss[i] ELSE f[i - 1] \o ss[i]
    BY <1>6, FlattenUnfolds DEF n
  <2> DEFINE Same == {i \in Nat : i \in 1..n => f[i] = g[i]}
  <2>2. ASSUME NEW i \in Nat, \A k \in Nat : k < i => k \in Same PROVE i \in Same
    <3>1. ASSUME i \in 1..n, i # 1 PROVE f[i] = g[i]
      <4>1. i - 1 \in Nat /\ i - 1 < i /\ i - 1 \in 1..n /\ i \in 1..Len(tt)
        BY <1>3, <3>1
      <4>2. f[i - 1] = g[i - 1]
        BY <2>2, <4>1
      <4>3. f[i] = f[i - 1] \o ss[i]
        BY <2>1, <3>1
      <4>4. g[i] = g[i - 1] \o tt[i] /\ tt[i] = ss[i]
        BY <1>3, <1>4, <3>1, <4>1
      <4> QED
        BY <4>2, <4>3, <4>4
    <3>2. ASSUME i \in 1..n, i = 1 PROVE f[i] = g[i]
      <4>1. f[i] = ss[i]
        BY <2>1, <3>2
      <4>2. g[i] = tt[i] /\ tt[i] = ss[i]
        BY <1>3, <1>4, <3>2
      <4> QED
        BY <4>1, <4>2
    <3> QED
      BY <3>1, <3>2
  <2>3. \A i \in Nat : i \in Same
    <3> HIDE DEF Same
    <3> QED
      BY <2>2, AllBelow
  <2>4. n \in 1..n /\ n + 1 \in 1..Len(tt) /\ n + 1 # 1 /\ (n + 1) - 1 = n
    BY <1>3, <1>6
  <2>5. f[n] = g[n]
    BY <1>3, <2>3, <2>4
  <2>6. g[n + 1] = g[n] \o tt[n + 1]
    <3>1. g[n + 1] = IF n + 1 = 1 THEN tt[n + 1] ELSE g[(n + 1) - 1] \o tt[n + 1]
      BY <1>4, <2>4, Zenon
    <3> QED
      BY <2>4, <3>1, Zenon
  <2> QED
    BY <1>3, <1>4, <2>1, <2>5, <2>6
<1> QED
  BY <1>1, <1>2, <1>5, <1>6 DEF tt

-----------------------------------------------------------------------------
\* Arithmetic in octets.

\* The lengths that _encode_length has room for in two octets.
Room == 65536

LEMMA OctetIs ==
  ASSUME NEW a
  PROVE  a \in Octets <=> a \in Nat /\ a < 256
BY SMT DEF Octets

LEMMA Digits ==
  ASSUME NEW n \in Nat, n < Room
  PROVE  \E q \in Octets, r \in Octets :
           n \div 256 = q /\ n % 256 = r /\ q % 256 = q /\ n = (256 * q) + r
<1> DEFINE q == n \div 256
           r == n % 256
<1>1. q \in Nat /\ r \in Nat /\ r < 256 /\ n = (256 * q) + r
  BY SMT
<1>2. q < 256
  <2> HIDE DEF q, r
  <2> QED
    BY <1>1, SMT DEF Room
<1>3. q % 256 = q
  <2> HIDE DEF q, r
  <2> QED
    BY <1>1, <1>2, SMT
<1>4. q \in Octets /\ r \in Octets
  <2> HIDE DEF q, r
  <2> QED
    BY <1>1, <1>2, OctetIs
<1>5. n \div 256 = q /\ n % 256 = r
  OBVIOUS
<1> HIDE DEF q, r
<1> QED
  BY <1>1, <1>3, <1>4, <1>5

LEMMA LengthShape ==
  ASSUME NEW n \in Nat, n < Room
  PROVE  /\ n < 128 => EncodeLength(n) = <<n>>
         /\ n >= 128 /\ n < 256 => EncodeLength(n) = <<129, n>>
         /\ n >= 256 => \E q \in Octets, r \in Octets :
                          EncodeLength(n) = <<130, q, r>> /\ n = (256 * q) + r
<1>1. PICK q \in Octets, r \in Octets :
        n \div 256 = q /\ n % 256 = r /\ q % 256 = q /\ n = (256 * q) + r
  BY Digits
<1>2. n >= 256 => EncodeLength(n) = <<130, q, r>>
  BY <1>1, SMT DEF EncodeLength
<1>3. n < 128 => EncodeLength(n) = <<n>>
  BY SMT DEF EncodeLength
<1>4. n >= 128 /\ n < 256 => EncodeLength(n) = <<129, n>>
  BY SMT DEF EncodeLength
<1> QED
  BY <1>1, <1>2, <1>3, <1>4

LEMMA OneOctet ==
  ASSUME NEW a \in Nat
  PROVE  Unsigned(<<a>>) = a
BY SMT DEF Unsigned, Octet

LEMMA TwoOctets ==
  ASSUME NEW a \in Nat, NEW b \in Nat
  PROVE  Unsigned(<<a, b>>) = (256 * a) + b
BY SMT DEF Unsigned, Octet

\* The octets after the first of a length are taken as they are written.
LEMMA ShortSequence ==
  ASSUME NEW u \in Seq(Octets)
  PROVE  /\ Len(u) = 1 => u = <<u[1]>>
         /\ Len(u) = 2 => u = <<u[1], u[2]>>
<1>1. Len(u) = 1 => u = <<u[1]>>
  BY SMT
<1>2. Len(u) = 2 => u = <<u[1], u[2]>>
  BY SMT
<1> QED
  BY <1>1, <1>2

LEMMA FirstOfSequence ==
  ASSUME NEW t \in Seq(Octets)
  PROVE  /\ Len(t) >= 1 => SubSeq(t, 1, 1) = <<t[1]>>
         /\ Len(t) >= 2 => SubSeq(t, 1, 2) = <<t[1], t[2]>>
<1>1. ASSUME Len(t) >= 1 PROVE SubSeq(t, 1, 1) = <<t[1]>>
  <2>1. /\ SubSeq(t, 1, 1) \in Seq(Octets) /\ Len(SubSeq(t, 1, 1)) = 1
        /\ SubSeq(t, 1, 1)[1] = t[1]
    BY <1>1, SMT
  <2> QED
    BY <2>1, ShortSequence, Zenon
<1>2. ASSUME Len(t) >= 2 PROVE SubSeq(t, 1, 2) = <<t[1], t[2]>>
  <2>1. /\ SubSeq(t, 1, 2) \in Seq(Octets) /\ Len(SubSeq(t, 1, 2)) = 2
        /\ SubSeq(t, 1, 2)[1] = t[1] /\ SubSeq(t, 1, 2)[2] = t[2]
    BY <1>2, SMT
  <2> QED
    BY <2>1, ShortSequence, Zenon
<1> QED
  BY <1>1, <1>2

LEMMA FirstOctet ==
  ASSUME NEW a \in Octets, NEW s \in Seq(Octets)
  PROVE  UpTo(<<a>> \o s, 1) = <<a>>
<1>1. Len(<<a>> \o s) = 1 + Len(s) /\ Len(s) \in Nat /\ (<<a>> \o s)[1] = a
  BY SMT
<1>2. SubSeq(<<a>> \o s, 1, 1) = <<a>>
  <2>1. <<a>> \o s \in Seq(Octets) /\ Len(<<a>> \o s) >= 1
    BY <1>1, SMT
  <2> QED
    BY <1>1, <2>1, FirstOfSequence, Zenon
<1>3. (IF 1 < Len(<<a>> \o s) THEN 1 ELSE Len(<<a>> \o s)) = 1
  BY <1>1, SMT
<1> QED
  BY <1>2, <1>3, Zenon DEF UpTo

LEMMA FirstTwoOctets ==
  ASSUME NEW a \in Octets, NEW b \in Octets, NEW s \in Seq(Octets)
  PROVE  UpTo(<<a, b>> \o s, 2) = <<a, b>>
<1>1. /\ Len(<<a, b>> \o s) = 2 + Len(s) /\ Len(s) \in Nat
      /\ (<<a, b>> \o s)[1] = a /\ (<<a, b>> \o s)[2] = b
  BY SMT
<1>2. SubSeq(<<a, b>> \o s, 1, 2) = <<a, b>>
  <2>1. <<a, b>> \o s \in Seq(Octets) /\ Len(<<a, b>> \o s) >= 2
    BY <1>1, SMT
  <2> QED
    BY <1>1, <2>1, FirstOfSequence, Zenon
<1>3. (IF 2 < Len(<<a, b>> \o s) THEN 2 ELSE Len(<<a, b>> \o s)) = 2
  BY <1>1, SMT
<1> QED
  BY <1>2, <1>3, Zenon DEF UpTo

\* A length that is written in two octets after the first.
LEMMA LongForm ==
  ASSUME NEW q \in Octets, NEW r \in Octets, NEW rest \in Seq(Octets)
  PROVE  ParseLength(<<130, q, r>> \o rest) = <<(256 * q) + r, 3>>
<1>1. /\ (<<130, q, r>> \o rest)[1] = 130
      /\ Tail(<<130, q, r>> \o rest) = <<q, r>> \o rest
  BY SMT
<1>2. q \in Nat /\ r \in Nat
  BY OctetIs
<1>3. Unsigned(UpTo(<<q, r>> \o rest, 2)) = (256 * q) + r
  <2>1. UpTo(<<q, r>> \o rest, 2) = <<q, r>>
    BY FirstTwoOctets, Zenon
  <2>2. Unsigned(<<q, r>>) = (256 * q) + r
    BY <1>2, TwoOctets, Zenon
  <2> QED
    BY <2>1, <2>2, Zenon
<1>4. ~(130 < 128) /\ 130 - 128 = 2 /\ 1 + 130 - 128 = 3
  BY SMT
<1> QED
  BY <1>1, <1>3, <1>4, Zenon DEF ParseLength

-----------------------------------------------------------------------------
\* _encode_length and _parse_length: every length below 65536, with whatever
\* comes after it, is read back as what it was, and as many octets as it was
\* written in.
THEOREM LengthsReadBack ==
  ASSUME NEW n \in Nat, n < Room, NEW rest \in Seq(Octets)
  PROVE  ParseLength(EncodeLength(n) \o rest) = <<n, Len(EncodeLength(n))>>
<1>1. CASE n < 128
  <2>1. EncodeLength(n) = <<n>> /\ Len(<<n>>) = 1
    BY <1>1, LengthShape, SMT
  <2>2. (<<n>> \o rest)[1] = n
    BY SMT
  <2>3. ParseLength(<<n>> \o rest) = <<n, 1>>
    BY <1>1, <2>2, SMT DEF ParseLength
  <2> QED
    BY <2>1, <2>3, Zenon
<1>2. CASE n >= 128 /\ n < 256
  <2>1. EncodeLength(n) = <<129, n>> /\ Len(<<129, n>>) = 2
    BY <1>2, LengthShape, SMT
  <2>2. n \in Octets
    BY <1>2, OctetIs
  <2>3. (<<129, n>> \o rest)[1] = 129 /\ Tail(<<129, n>> \o rest) = <<n>> \o rest
    BY <2>2, SMT
  <2>4. Unsigned(UpTo(<<n>> \o rest, 1)) = n
    BY <2>2, FirstOctet, OneOctet, Zenon
  <2>5. ParseLength(<<129, n>> \o rest) = <<Unsigned(UpTo(<<n>> \o rest, 1)), 2>>
    <3>1. ~(129 < 128) /\ 129 - 128 = 1 /\ 1 + 129 - 128 = 2
      BY SMT
    <3> QED
      BY <2>3, <3>1, Zenon DEF ParseLength
  <2> QED
    BY <2>1, <2>4, <2>5, Zenon
<1>3. CASE n >= 256
  <2>1. PICK q \in Octets, r \in Octets :
          EncodeLength(n) = <<130, q, r>> /\ n = (256 * q) + r
    BY <1>3, LengthShape
  <2>2. Len(<<130, q, r>>) = 3
    BY SMT
  <2>3. ParseLength(<<130, q, r>> \o rest) = <<(256 * q) + r, 3>>
    BY LongForm, SMT
  <2> QED
    BY <2>1, <2>2, <2>3, SMT
<1>4. n < 128 \/ (n >= 128 /\ n < 256) \/ n >= 256
  BY SMT
<1> QED
  BY <1>1, <1>2, <1>3, <1>4, Zenon

\* A length of 65536 or more is read back as another one, which is smaller: the
\* long form has two octets for it whatever it is, and no encoder refuses.
THEOREM LengthsWrap ==
  ASSUME NEW n \in Nat, n >= Room, NEW rest \in Seq(Octets)
  PROVE  /\ ParseLength(EncodeLength(n) \o rest) = <<n % Room, Len(EncodeLength(n))>>
         /\ n % Room < n
<1> DEFINE q == (n \div 256) % 256
           r == n % 256
<1>1. n % Room = (256 * q) + r
  BY SMT DEF Room
<1>2. n % Room < n
  BY SMT DEF Room
<1>3. q \in Octets /\ r \in Octets
  BY SMT DEF Octets
<1>4. EncodeLength(n) = <<130, q, r>>
  BY SMT DEF EncodeLength, Room
<1> HIDE DEF q, r
<1>5. ParseLength(<<130, q, r>> \o rest) = <<(256 * q) + r, 3>>
  BY <1>3, LongForm, SMT
<1>6. Len(<<130, q, r>>) = 3
  BY SMT
<1> QED
  BY <1>1, <1>2, <1>4, <1>5, <1>6, SMT

-----------------------------------------------------------------------------
\* Numbers.

LEMMA ThreeOctets ==
  ASSUME NEW a \in Nat, NEW b \in Nat, NEW c \in Nat
  PROVE  Unsigned(<<a, b, c>>) = (65536 * a) + (256 * b) + c
BY SMT DEF Unsigned, Octet

LEMMA FourOctets ==
  ASSUME NEW a \in Nat, NEW b \in Nat, NEW c \in Nat, NEW d \in Nat
  PROVE  Unsigned(<<a, b, c, d>>) = (16777216 * a) + (65536 * b) + (256 * c) + d
BY SMT DEF Unsigned, Octet

\* The bound of IntegerOctets.
Large == 2147483648

\* _encode_integer: every number below 2^31, the largest that LDAP has, is one to
\* four octets that are read back as what it was, by parse_message_id, which
\* takes them as unsigned, and by a server, to which the top bit is the sign.
THEOREM NumbersReadBack ==
  ASSUME NEW n \in Nat, n < Large
  PROVE  /\ IntegerOctets(n) \in Seq(Octets)
         /\ Len(IntegerOctets(n)) \in 1..4
         /\ IntegerOctets(n)[1] < 128
         /\ Unsigned(IntegerOctets(n)) = n
<1>1. CASE n < 128
  <2>1. IntegerOctets(n) = <<n>>
    BY <1>1, SMT DEF IntegerOctets
  <2>2. /\ <<n>> \in Seq(Octets) /\ Len(<<n>>) \in 1..4 /\ <<n>>[1] < 128
    BY <1>1, SMT DEF Octets
  <2>3. Unsigned(<<n>>) = n
    BY OneOctet, SMT
  <2> QED
    BY <2>1, <2>2, <2>3, SMT
<1>2. CASE n >= 128 /\ n < 32768
  <2> DEFINE a == n \div 256
             b == n % 256
  <2>1. a \in Nat /\ a < 128 /\ b \in Nat /\ b < 256 /\ n = (256 * a) + b
    BY <1>2, SMT
  <2>2. IntegerOctets(n) = <<a, b>>
    BY <1>2, SMT DEF IntegerOctets
  <2> HIDE DEF a, b
  <2>3. <<a, b>> \in Seq(Octets) /\ Len(<<a, b>>) \in 1..4 /\ <<a, b>>[1] < 128
    BY <2>1, SMT DEF Octets
  <2>4. Unsigned(<<a, b>>) = n
    BY <2>1, TwoOctets, SMT
  <2> QED
    BY <2>2, <2>3, <2>4, SMT
<1>3. CASE n >= 32768 /\ n < 8388608
  <2> DEFINE a == n \div 65536
             b == (n \div 256) % 256
             c == n % 256
  <2>1. /\ a \in Nat /\ a < 128 /\ b \in Nat /\ b < 256 /\ c \in Nat /\ c < 256
        /\ n = (65536 * a) + (256 * b) + c
    BY <1>3, SMT
  <2>2. IntegerOctets(n) = <<a, b, c>>
    BY <1>3, SMT DEF IntegerOctets
  <2> HIDE DEF a, b, c
  <2>3. <<a, b, c>> \in Seq(Octets) /\ Len(<<a, b, c>>) \in 1..4 /\ <<a, b, c>>[1] < 128
    BY <2>1, SMT DEF Octets
  <2>4. Unsigned(<<a, b, c>>) = n
    BY <2>1, ThreeOctets, SMT
  <2> QED
    BY <2>2, <2>3, <2>4, SMT
<1>4. CASE n >= 8388608
  <2> DEFINE a == n \div 16777216
             b == (n \div 65536) % 256
             c == (n \div 256) % 256
             d == n % 256
  <2>1. /\ a \in Nat /\ a < 128 /\ b \in Nat /\ b < 256 /\ c \in Nat /\ c < 256
        /\ d \in Nat /\ d < 256
        /\ n = (16777216 * a) + (65536 * b) + (256 * c) + d
    BY <1>4, SMT DEF Large
  <2>2. IntegerOctets(n) = <<a, b, c, d>>
    BY <1>4, SMT DEF IntegerOctets
  <2> HIDE DEF a, b, c, d
  <2>3. /\ <<a, b, c, d>> \in Seq(Octets) /\ Len(<<a, b, c, d>>) \in 1..4
        /\ <<a, b, c, d>>[1] < 128
    BY <2>1, SMT DEF Octets
  <2>4. Unsigned(<<a, b, c, d>>) = n
    BY <2>1, FourOctets, SMT
  <2> QED
    BY <2>2, <2>3, <2>4, SMT
<1> QED
  BY <1>1, <1>2, <1>3, <1>4, SMT

-----------------------------------------------------------------------------
\* Elements.

\* What a slice takes of two sequences one after the other, at their border.
LEMMA SliceAtBorder ==
  ASSUME NEW a \in Seq(Octets), NEW b \in Seq(Octets)
  PROVE  Drop(a \o b, Len(a)) = b /\ UpTo(a \o b, Len(a)) = a
<1>1. /\ a \o b \in Seq(Octets) /\ Len(a \o b) = Len(a) + Len(b)
      /\ \A i \in 1..Len(a) + Len(b) :
           (a \o b)[i] = IF i <= Len(a) THEN a[i] ELSE b[i - Len(a)]
      /\ Len(a) \in Nat /\ Len(b) \in Nat
  BY ConcatProperties, LenProperties
<1>2. SubSeq(a \o b, Len(a) + 1, Len(a) + Len(b)) = b
  <2> DEFINE s == SubSeq(a \o b, Len(a) + 1, Len(a) + Len(b))
  <2>1. \A i \in (Len(a) + 1)..(Len(a) + Len(b)) : (a \o b)[i] \in Octets
    BY <1>1, ElementOfSeq
  <2>2. /\ s \in Seq(Octets) /\ Len(s) = Len(b)
        /\ \A i \in 1..Len(b) : s[i] = (a \o b)[Len(a) + i]
    BY <1>1, SMT
  <2>3. \A i \in 1..Len(b) : (a \o b)[Len(a) + i] = b[i]
    BY <1>1, SMT
  <2> HIDE DEF s
  <2>4. s = b
    BY <2>2, <2>3, SeqEqual
  <2> QED
    BY <2>4 DEF s
<1>3. SubSeq(a \o b, 1, Len(a)) = a
  <2> DEFINE s == SubSeq(a \o b, 1, Len(a))
  <2>1. /\ s \in Seq(Octets) /\ Len(s) = Len(a)
        /\ \A i \in 1..Len(a) : s[i] = (a \o b)[i]
    BY <1>1, SMT
  <2>2. \A i \in 1..Len(a) : (a \o b)[i] = a[i]
    BY <1>1, SMT
  <2> HIDE DEF s
  <2>3. s = a
    BY <2>1, <2>2, SeqEqual
  <2> QED
    BY <2>3 DEF s
<1>4. (IF Len(a) < Len(a \o b) THEN Len(a) ELSE Len(a \o b)) = Len(a)
  BY <1>1, SMT
<1> QED
  BY <1>1, <1>2, <1>3, <1>4, Zenon DEF Drop, UpTo

LEMMA LengthIsOctets ==
  ASSUME NEW n \in Nat, n < Room
  PROVE  /\ EncodeLength(n) \in Seq(Octets) /\ EncodeLength(n) # <<>>
         /\ Len(EncodeLength(n)) <= 3
<1>1. CASE n < 128
  <2>1. EncodeLength(n) = <<n>> /\ n \in Octets
    BY <1>1, LengthShape, OctetIs, SMT
  <2> QED
    BY <2>1, SMT
<1>2. CASE n >= 128 /\ n < 256
  <2>1. EncodeLength(n) = <<129, n>> /\ n \in Octets /\ 129 \in Octets
    BY <1>2, LengthShape, OctetIs, SMT
  <2> QED
    BY <2>1, SMT
<1>3. CASE n >= 256
  <2>1. PICK q \in Octets, r \in Octets : EncodeLength(n) = <<130, q, r>>
    BY <1>3, LengthShape
  <2>2. 130 \in Octets
    BY OctetIs, SMT
  <2> QED
    BY <2>1, <2>2, SMT
<1> QED
  BY <1>1, <1>2, <1>3, SMT

LEMMA TagFirst ==
  ASSUME NEW a \in Octets, NEW u \in Seq(Octets)
  PROVE  /\ <<a>> \o u # <<>> /\ Head(<<a>> \o u) = a /\ Tail(<<a>> \o u) = u
         /\ Len(<<a>> \o u) = 1 + Len(u)
<1>1. Len(<<a>> \o u) = 1 + Len(u) /\ Len(u) \in Nat /\ <<a>> \o u \in Seq(Octets)
  BY SMT
<1>2. <<a>> \o u # <<>> /\ Head(<<a>> \o u) = a
  BY <1>1, SMT
<1>3. Tail(<<a>> \o u) = u
  BY SMT
<1> QED
  BY <1>1, <1>2, <1>3

\* _tlv and the parsers' step into an element: what was put into an element is
\* taken out of it, whatever comes after it, and the parser goes on at exactly
\* that; contents of 65536 octets or more are cut short instead (LengthsWrap).
THEOREM ElementsReadBack ==
  ASSUME NEW tag \in Octets, NEW c \in Seq(Octets), Len(c) < Room,
         NEW rest \in Seq(Octets), NEW tags, tag \in tags
  PROVE  LET entered == Enter(Start(Tlv(tag, c) \o rest), tags)
         IN  /\ entered.state = "ok" /\ ~entered.cut
             /\ entered.left = c \o rest /\ Contents(entered) = c
             /\ Over(entered) = [entered EXCEPT !.left = rest]
<1> DEFINE n == Len(c)
           l == EncodeLength(n)
           s == Tlv(tag, c) \o rest
           entered == Enter(Start(s), tags)
<1>1. n \in Nat /\ l \in Seq(Octets) /\ l # <<>> /\ Len(l) \in Nat /\ Len(l) > 0
  <2>1. n \in Nat
    BY LenProperties
  <2>2. l \in Seq(Octets) /\ l # <<>>
    BY <2>1, LengthIsOctets
  <2> HIDE DEF n, l
  <2> QED
    BY <2>1, <2>2, SMT
<1>2. s = <<tag>> \o (l \o (c \o rest))
  <2>1. s = ((<<tag>> \o l) \o c) \o rest
    BY DEF Tlv
  <2> DEFINE h == <<tag>>
             x == h \o l
             y == c \o rest
  <2> HIDE DEF n, l, s
  <2>2. h \in Seq(Octets) /\ x \in Seq(Octets) /\ y \in Seq(Octets)
    BY <1>1, SMT
  <2>3. l \in Seq(Octets)
    BY <1>1
  <2> HIDE DEF h, x
  <2>4. x \o y = (x \o c) \o rest
    <3>1. x \in Seq(Octets) /\ c \in Seq(Octets) /\ rest \in Seq(Octets)
      BY <2>2
    <3> QED
      BY <3>1, SMT
  <2> HIDE DEF y
  <2>5. h \o (l \o y) = (h \o l) \o y
    BY <2>2, <2>3, SMTT(30)
  <2> QED
    BY <2>1, <2>4, <2>5, Zenon DEF h, x, y
<1> DEFINE after == c \o rest
<1>3. after \in Seq(Octets) /\ Len(after) = n + Len(rest) /\ Len(rest) \in Nat
  BY ConcatProperties, LenProperties
<1>4. ParseLength(l \o after) = <<n, Len(l)>>
  <2> HIDE DEF after
  <2> QED
    BY <1>1, <1>3, LengthsReadBack
<1>5. UpTo(after, n) = c /\ Drop(after, n) = rest
  BY SliceAtBorder
<1> HIDE DEF n, l, s, after
<1>6. s = <<tag>> \o (l \o after)
  BY <1>2 DEF after
<1>7. /\ s # <<>> /\ Head(s) = tag /\ Tail(s) = l \o after
      /\ Len(s) = 1 + Len(l) + Len(after) /\ Len(s) # 1
  <2>1. l \o after \in Seq(Octets) /\ Len(l \o after) = Len(l) + Len(after)
    BY <1>1, <1>3, ConcatProperties
  <2>2. s # <<>> /\ Head(s) = tag /\ Tail(s) = l \o after /\ Len(s) = 1 + Len(l \o after)
    BY <1>6, <2>1, TagFirst, Zenon
  <2>3. Len(s) = 1 + Len(l) + Len(after) /\ Len(s) # 1
    <3> DEFINE a == Len(l)
               b == Len(after)
    <3>1. a \in Nat /\ a > 0 /\ b \in Nat /\ Len(s) = 1 + (a + b)
      BY <1>1, <1>3, <2>1, <2>2
    <3> HIDE DEF a, b
    <3>2. 1 + (a + b) = 1 + a + b /\ 1 + (a + b) # 1
      BY <3>1, SMT
    <3> QED
      BY <3>1, <3>2, Zenon DEF a, b
  <2> QED
    BY <2>2, <2>3, Zenon
<1>8. Drop(s, 1 + Len(l)) = after
  <2>1. <<tag>> \in Seq(Octets) /\ <<tag>> \o l \in Seq(Octets) /\ Len(<<tag>> \o l) = 1 + Len(l)
    BY <1>1, SMT
  <2> DEFINE h == <<tag>>
             x == h \o l
  <2>2. s = x \o after
    <3>1. h \in Seq(Octets) /\ l \in Seq(Octets) /\ after \in Seq(Octets)
      BY <1>1, <1>3, <2>1
    <3> HIDE DEF h
    <3>2. h \o (l \o after) = (h \o l) \o after
      BY <3>1, SMT
    <3> QED
      BY <1>6, <3>2, Zenon DEF h
  <2>3. x \in Seq(Octets) /\ Len(x) = 1 + Len(l) /\ after \in Seq(Octets)
    BY <1>3, <2>1
  <2> HIDE DEF x
  <2>4. Drop(x \o after, Len(x)) = after
    BY <2>3, SliceAtBorder, Zenon
  <2> QED
    BY <2>2, <2>3, <2>4, Zenon
<1>9. ~BeyondEnd(s, 1 + Len(l) + n)
  <2>1. ~(1 + Len(l) + n > Len(s))
    BY <1>1, <1>3, <1>7, SMT
  <2> QED
    BY <2>1, Zenon DEF BeyondEnd
<1>10. entered = [left |-> after, size |-> n, state |-> "ok",
                  cut |-> BeyondEnd(s, 1 + Len(l) + n)]
  <2>1. Start(s) = [left |-> s, size |-> 0, cut |-> FALSE, state |-> "ok"]
    BY DEF Start, Cursor
  <2>2. ParseLength(Tail(s))[1] = n /\ ParseLength(Tail(s))[2] = Len(l)
    <3>1. ParseLength(Tail(s)) = <<n, Len(l)>>
      BY <1>4, <1>7, Zenon
    <3>2. <<n, Len(l)>>[1] = n /\ <<n, Len(l)>>[2] = Len(l)
      BY SMT
    <3> QED
      BY <3>1, <3>2, Zenon
  <2>3. Start(s).state = "ok" /\ Start(s).left = s
    BY <2>1, SMT
  <2>4. Enter(Start(s), tags) =
          [left |-> Drop(s, 1 + ParseLength(Tail(s))[2]), size |-> ParseLength(Tail(s))[1],
           state |-> "ok",
           cut |-> BeyondEnd(s, 1 + ParseLength(Tail(s))[2] + ParseLength(Tail(s))[1])]
    BY <1>7, <2>3, Zenon DEF Enter
  <2> QED
    BY <1>8, <2>2, <2>4, Zenon DEF entered
<1> HIDE DEF entered
<1>11. Contents(entered) = c
  BY <1>5, <1>10 DEF Contents
<1>12. Over(entered) = [entered EXCEPT !.left = rest]
  BY <1>5, <1>10 DEF Over
<1>13. entered.state = "ok" /\ ~entered.cut /\ entered.left = c \o rest
  BY <1>9, <1>10 DEF after
<1> QED
  BY <1>11, <1>12, <1>13 DEF entered, s

\* A cursor within an element reads on as one at the start of what is left.
LEMMA ReadsOn ==
  ASSUME NEW c, c.state = "ok", NEW tags
  PROVE  Enter(c, tags) = Enter(Start(c.left), tags)
<1>1. Start(c.left).state = "ok" /\ Start(c.left).left = c.left
  BY DEF Start, Cursor
<1> DEFINE l == c.left
           state == c.state
           first == Start(l)
<1> QED
  BY <1>1, Zenon DEF Enter

\* ElementsReadBack for a parser that expects one tag.
ReadBack(tag, c, rest) ==
  LET entered == Enter(Start(Tlv(tag, c) \o rest), {tag})
  IN  /\ entered.state = "ok" /\ entered.left = c \o rest /\ Contents(entered) = c
      /\ Over(entered).state = "ok" /\ Over(entered).left = rest

LEMMA Enters ==
  ASSUME NEW tag \in Octets, NEW c \in Seq(Octets), Len(c) < Room,
         NEW rest \in Seq(Octets)
  PROVE  ReadBack(tag, c, rest)
<1> DEFINE tags == {tag}
           entered == Enter(Start(Tlv(tag, c) \o rest), tags)
<1>1. tag \in tags
  OBVIOUS
<1> HIDE DEF tags
<1>2. /\ entered.state = "ok" /\ entered.left = c \o rest /\ Contents(entered) = c
      /\ Over(entered) = [entered EXCEPT !.left = rest]
  BY <1>1, ElementsReadBack
<1> HIDE DEF entered
<1>3. Over(entered).state = entered.state /\ Over(entered).left = rest
  <2>1. Over(entered) = [entered EXCEPT !.left = Drop(entered.left, entered.size)]
    BY DEF Over
  <2> QED
    BY <1>2, <2>1
<1> QED
  BY <1>2, <1>3 DEF entered, tags, ReadBack

LEMMA ElementSize ==
  ASSUME NEW tag \in Octets, NEW c \in Seq(Octets), Len(c) < Room
  PROVE  Tlv(tag, c) \in Seq(Octets) /\ Len(Tlv(tag, c)) <= 4 + Len(c)
<1> DEFINE l == EncodeLength(Len(c))
<1>1. l \in Seq(Octets) /\ Len(l) <= 3 /\ Len(l) \in Nat /\ Len(c) \in Nat
  BY LengthIsOctets, LenProperties
<1>2. Tlv(tag, c) = <<tag>> \o l \o c
  BY DEF Tlv
<1> HIDE DEF l
<1>3. <<tag>> \o l \in Seq(Octets) /\ Len(<<tag>> \o l) = 1 + Len(l)
  BY <1>1, SMT
<1>4. /\ (<<tag>> \o l) \o c \in Seq(Octets)
      /\ Len((<<tag>> \o l) \o c) = 1 + Len(l) + Len(c)
  BY <1>1, <1>3, ConcatProperties, SMT
<1> QED
  BY <1>1, <1>2, <1>4, SMT

\* paged_results_control_value and parse_paged_cookie (RFC 2696): a cookie of
\* any length that fits is taken out of the value as it was put in, after a size
\* of whatever length: the next page is asked for with the cookie of this one.
THEOREM CookiesReadBack ==
  ASSUME NEW size \in Nat, size < Large,
         NEW cookie \in Seq(Octets), Len(cookie) + 12 < Room
  PROVE  ParsePagedCookie(PagedResultsControlValue(size, cookie)) = cookie
<1> DEFINE number == IntegerOctets(size)
           first == Tlv(2, number)
           second == Tlv(4, cookie)
           body == first \o second
           value == Tlv(48, body)
           sequence == Enter(Start(value), {48})
           skipped == Over(Enter(Start(body), {2}))
           found == Enter(Start(second), {4})
<1>1. /\ number \in Seq(Octets) /\ Len(number) < Room /\ Len(number) <= 4
      /\ Len(number) \in Nat
  <2>1. number \in Seq(Octets) /\ Len(number) \in 1..4
    BY NumbersReadBack
  <2> HIDE DEF number
  <2>2. \A k \in 1..4 : k \in Nat /\ k <= 4 /\ k < Room
    BY SMT DEF Room
  <2> QED
    BY <2>1, <2>2, Zenon
<1>2. Len(cookie) \in Nat /\ Len(cookie) < Room
  BY LenProperties, SMT DEF Room
<1>3. 2 \in Octets /\ 4 \in Octets /\ 48 \in Octets
  BY SMT DEF Octets
<1>4. PagedResultsControlValue(size, cookie) = value
  BY DEF PagedResultsControlValue, EncodeSequence, EncodeInteger, EncodeOctetString
<1> HIDE DEF number
<1>5. /\ first \in Seq(Octets) /\ Len(first) <= 4 + Len(number)
      /\ second \in Seq(Octets) /\ Len(second) <= 4 + Len(cookie)
  BY <1>1, <1>2, <1>3, ElementSize
<1> HIDE DEF first, second
<1>6. body \in Seq(Octets) /\ Len(body) < Room
  <2>1. body \in Seq(Octets) /\ Len(body) = Len(first) + Len(second)
    BY <1>5, ConcatProperties
  <2>2. Len(first) \in Nat /\ Len(second) \in Nat
    BY <1>5, LenProperties
  <2> HIDE DEF body
  <2> QED
    BY <1>1, <1>2, <1>5, <2>1, <2>2, SMT DEF Room
<1> HIDE DEF body
<1>7. <<>> \in Seq(Octets) /\ value \o <<>> = value /\ body \o <<>> = body
      /\ second \o <<>> = second
  BY <1>3, <1>5, <1>6, ElementSize, ConcatEmptySeq, EmptySeq
<1>8. sequence.state = "ok" /\ sequence.left = body
  <2>1. value \o <<>> = Tlv(48, body) \o <<>>
    OBVIOUS
  <2> HIDE DEF value
  <2>2. /\ Enter(Start(Tlv(48, body) \o <<>>), {48}).state = "ok"
        /\ Enter(Start(Tlv(48, body) \o <<>>), {48}).left = body \o <<>>
    <3>1. 48 \in Octets /\ body \in Seq(Octets) /\ Len(body) < Room /\ <<>> \in Seq(Octets)
      BY <1>3, <1>6, <1>7, Zenon
    <3>2. ReadBack(48, body, <<>>)
      BY <3>1, Enters, Zenon
    <3> QED
      BY <3>2, Zenon DEF ReadBack
  <2> QED
    BY <1>7, <2>1, <2>2, Zenon
<1> HIDE DEF value, sequence
<1>9. skipped.state = "ok" /\ skipped.left = second
  <2>1. body = Tlv(2, number) \o second
    BY DEF body, first
  <2>2. /\ Over(Enter(Start(Tlv(2, number) \o second), {2})).state = "ok"
        /\ Over(Enter(Start(Tlv(2, number) \o second), {2})).left = second
    <3>1. /\ 2 \in Octets /\ number \in Seq(Octets) /\ Len(number) < Room
          /\ second \in Seq(Octets)
      BY <1>1, <1>3, <1>5, Zenon
    <3>2. ReadBack(2, number, second)
      BY <3>1, Enters, Zenon
    <3> QED
      BY <3>2, Zenon DEF ReadBack
  <2> QED
    BY <2>1, <2>2, Zenon
<1>10. Contents(found) = cookie /\ found.state = "ok"
  <2>1. second = Tlv(4, cookie) \o <<>>
    BY <1>7 DEF second
  <2>2. /\ Contents(Enter(Start(Tlv(4, cookie) \o <<>>), {4})) = cookie
        /\ Enter(Start(Tlv(4, cookie) \o <<>>), {4}).state = "ok"
    <3>1. 4 \in Octets /\ cookie \in Seq(Octets) /\ Len(cookie) < Room /\ <<>> \in Seq(Octets)
      BY <1>2, <1>3, <1>7, Zenon
    <3>2. ReadBack(4, cookie, <<>>)
      BY <3>1, Enters, Zenon
    <3> QED
      BY <3>2, Zenon DEF ReadBack
  <2> QED
    BY <2>1, <2>2, Zenon
<1>11. Skip(sequence, {2}) = skipped
  BY <1>8, ReadsOn DEF Skip
<1> HIDE DEF skipped
<1>12. Enter(Skip(sequence, {2}), {4}) = found
  BY <1>9, <1>11, ReadsOn
<1> QED
  BY <1>4, <1>10, <1>12, Zenon DEF ParsePagedCookie, sequence

\* What the parsers' helpers return, whatever they are given.

LEMMA UnsignedIsNat ==
  ASSUME NEW u \in Seq(Octets)
  PROVE  Unsigned(u) \in Nat
<1>1. ASSUME NEW k \in Nat PROVE Octet(u, k) \in Nat
  <2>1. CASE k < Len(u)
    <3>1. Len(u) - k \in 1..Len(u)
      BY <2>1, LenProperties
    <3>2. u[Len(u) - k] \in Octets
      BY <3>1, ElementOfSeq
    <3> QED
      BY <2>1, <3>2, OctetIs DEF Octet
  <2> QED
    BY <2>1 DEF Octet
<1>2. Octet(u, 0) \in Nat /\ Octet(u, 1) \in Nat /\ Octet(u, 2) \in Nat /\ Octet(u, 3) \in Nat
  BY <1>1
<1> QED
  <2> DEFINE a == Octet(u, 0)
             b == Octet(u, 1)
             c == Octet(u, 2)
             d == Octet(u, 3)
  <2>1. a \in Nat /\ b \in Nat /\ c \in Nat /\ d \in Nat
    BY <1>2
  <2>2. Unsigned(u) = a + 256 * b + 65536 * c + 16777216 * d
    BY SMT DEF Unsigned, a, b, c, d
  <2> HIDE DEF a, b, c, d
  <2>3. a + 256 * b + 65536 * c + 16777216 * d \in Nat
    BY <2>1, SMT
  <2> QED
    BY <2>2, <2>3, SMT

LEMMA SliceTyped ==
  ASSUME NEW s \in Seq(Octets), NEW n \in Nat
  PROVE  /\ Drop(s, n) \in Seq(Octets)
         /\ Len(Drop(s, n)) = IF n < Len(s) THEN Len(s) - n ELSE 0
         /\ UpTo(s, n) \in Seq(Octets)
         /\ Len(UpTo(s, n)) = IF n < Len(s) THEN n ELSE Len(s)
<1> DEFINE k == IF n < Len(s) THEN n ELSE Len(s)
<1>1. Len(s) \in Nat /\ \A i \in 1..Len(s) : s[i] \in Octets
  BY LenProperties, ElementOfSeq
<1>2. k \in Nat /\ k <= Len(s) /\ n + 1 \in Int
  BY <1>1
<1>3. UpTo(s, n) = SubSeq(s, 1, k) /\ Drop(s, n) = SubSeq(s, n + 1, Len(s))
  BY DEF UpTo, Drop
<1>4. /\ SubSeq(s, 1, k) \in Seq(Octets)
      /\ Len(SubSeq(s, 1, k)) = IF 1 <= k THEN (k - 1) + 1 ELSE 0
  <2>1. \A i \in 1..k : s[i] \in Octets
    BY <1>1, <1>2
  <2> HIDE DEF k
  <2> QED
    BY <1>2, <2>1, SubSeqProperties
<1>5. /\ SubSeq(s, n + 1, Len(s)) \in Seq(Octets)
      /\ Len(SubSeq(s, n + 1, Len(s))) =
           IF n + 1 <= Len(s) THEN (Len(s) - (n + 1)) + 1 ELSE 0
  <2>1. \A i \in (n + 1)..Len(s) : s[i] \in Octets
    BY <1>1
  <2> QED
    BY <1>1, <1>2, <2>1, SubSeqProperties
<1>6. Len(UpTo(s, n)) = k /\ Len(Drop(s, n)) = IF n < Len(s) THEN Len(s) - n ELSE 0
  BY <1>1, <1>2, <1>3, <1>4, <1>5
<1> QED
  BY <1>3, <1>4, <1>5, <1>6

LEMMA ParseLengthTyped ==
  ASSUME NEW s \in Seq(Octets), s # <<>>
  PROVE  /\ ParseLength(s)[1] \in Nat
         /\ ParseLength(s)[2] \in Nat /\ ParseLength(s)[2] >= 1
<1>1. s[1] \in Nat /\ Tail(s) \in Seq(Octets)
  <2>1. 1 \in 1..Len(s)
    BY LenProperties, EmptySeq
  <2> QED
    BY <2>1, ElementOfSeq, HeadTailProperties, OctetIs
<1>2. CASE s[1] < 128
  BY <1>1, <1>2 DEF ParseLength
<1>3. CASE ~(s[1] < 128)
  <2>1. s[1] - 128 \in Nat
    BY <1>1, <1>3
  <2>2. Unsigned(UpTo(Tail(s), s[1] - 128)) \in Nat
    BY <1>1, <2>1, SliceTyped, UnsignedIsNat
  <2>3. ParseLength(s) = <<Unsigned(UpTo(Tail(s), s[1] - 128)), 1 + s[1] - 128>>
    BY <1>3, Zenon DEF ParseLength
  <2> QED
    BY <1>1, <2>1, <2>2, <2>3
<1> QED
  BY <1>2, <1>3

States == {"ok", "None", "IndexError"}

\* Past a tag and a length there is less to read.
LEMMA EnterTyped ==
  ASSUME NEW d \in Seq(Octets), NEW tags
  PROVE  LET e == Enter(Start(d), tags)
         IN  /\ e.state \in States /\ e.left \in Seq(Octets) /\ e.size \in Nat
             /\ e.state = "ok" <=> Len(d) >= 2 /\ Head(d) \in tags
             /\ d # <<>> /\ Head(d) \in tags /\ Len(d) < 2 => e.state = "IndexError"
             /\ d = <<>> \/ Head(d) \notin tags => e.state = "None"
             /\ e.state = "ok" => Len(e.left) < Len(d)
             /\ Over(e).state = e.state /\ Over(e).left = Drop(e.left, e.size)
             /\ Over(e).left \in Seq(Octets) /\ Len(Over(e).left) <= Len(e.left)
<1> DEFINE c == Start(d)
           e == Enter(c, tags)
<1>1. c.state = "ok" /\ c.left = d
  BY DEF Start, Cursor
<1> HIDE DEF c
<1>2. /\ Len(d) \in Nat /\ (d = <<>> <=> Len(d) = 0)
      /\ d # <<>> /\ Len(d) # 1 => Len(d) >= 2
  <2>1. Len(d) \in Nat /\ (d = <<>> <=> Len(d) = 0)
    BY LenProperties, EmptySeq
  <2>2. \A k \in Nat : k # 0 /\ k # 1 => k >= 2
    OBVIOUS
  <2> QED
    BY <2>1, <2>2, Zenon
<1>3. /\ e.state \in States /\ e.left \in Seq(Octets) /\ e.size \in Nat
      /\ e.state = "ok" <=> Len(d) >= 2 /\ Head(d) \in tags
      /\ d # <<>> /\ Head(d) \in tags /\ Len(d) < 2 => e.state = "IndexError"
      /\ d = <<>> \/ Head(d) \notin tags => e.state = "None"
      /\ e.state = "ok" => Len(e.left) < Len(d)
      /\ e = [left |-> e.left, size |-> e.size, cut |-> e.cut, state |-> e.state]
  <2>1. CASE d = <<>> \/ Head(d) \notin tags
    <3>1. e = Cursor(<<>>, "None")
      BY <1>1, <2>1, Zenon DEF Enter
    <3> QED
      BY <1>2, <2>1, <3>1 DEF Cursor, States
  <2>2. CASE d # <<>> /\ Head(d) \in tags /\ Len(d) = 1
    <3>1. e = Cursor(<<>>, "IndexError")
      BY <1>1, <2>2, Zenon DEF Enter
    <3> QED
      BY <1>2, <2>2, <3>1 DEF Cursor, States
  <2>3. CASE d # <<>> /\ Head(d) \in tags /\ Len(d) # 1
    <3> DEFINE length == ParseLength(Tail(d))
               cut == BeyondEnd(d, 1 + length[2] + length[1])
    <3>1. Tail(d) \in Seq(Octets) /\ Tail(d) # <<>> /\ Len(d) >= 2
      <4>1. Len(d) >= 2
        BY <1>2, <2>3, Zenon
      <4>2. Tail(d) \in Seq(Octets) /\ Len(Tail(d)) = Len(d) - 1
        BY <2>3, HeadTailProperties
      <4>3. Len(Tail(d)) # Len(<<>>)
        BY <1>2, <4>1, <4>2
      <4> QED
        BY <4>1, <4>2, <4>3, Zenon
    <3>2. length[1] \in Nat /\ length[2] \in Nat /\ length[2] >= 1
      BY <3>1, ParseLengthTyped
    <3>3. e = [left |-> Drop(d, 1 + length[2]), size |-> length[1], state |-> "ok", cut |-> cut]
      BY <1>1, <2>3, Zenon DEF Enter
    <3> HIDE DEF length, cut
    <3>4. 1 + length[2] \in Nat /\ 1 + length[2] >= 1
      BY <3>2
    <3>5. /\ Drop(d, 1 + length[2]) \in Seq(Octets)
          /\ Len(Drop(d, 1 + length[2])) < Len(d)
      BY <1>2, <3>1, <3>4, SliceTyped
    <3> HIDE DEF e
    <3> QED
      BY <1>2, <2>3, <3>1, <3>2, <3>3, <3>5 DEF States
  <2> QED
    BY <2>1, <2>2, <2>3
<1>4. Over(e).state = e.state /\ Over(e).left = Drop(e.left, e.size)
  <2> HIDE DEF e
  <2>1. Over(e) = [e EXCEPT !.left = Drop(e.left, e.size)]
    BY DEF Over
  <2> QED
    BY <1>3, <2>1
<1>5. Drop(e.left, e.size) \in Seq(Octets) /\ Len(Drop(e.left, e.size)) <= Len(e.left)
  <2> HIDE DEF e
  <2>1. Len(e.left) \in Nat
    BY <1>3, LenProperties
  <2> QED
    BY <1>3, <2>1, SliceTyped
<1> HIDE DEF e
<1> QED
  BY <1>3, <1>4, <1>5 DEF c, e

-----------------------------------------------------------------------------
\* The loops of the parsers, taken apart: each is the function that its
\* definition says.

FirstMessage(d) == Enter(Start(d), {48})
AfterFirst(d) == Over(FirstMessage(d)).left
First(d) == SubSeq(d, 1, Len(d) - Len(AfterFirst(d)))
SplitBody(f, d) ==
  IF d = <<>> \/ Head(d) # 48 THEN Result("ok", <<>>)
  ELSE IF FirstMessage(d).state # "ok" THEN Result(FirstMessage(d).state, <<>>)
  ELSE IF FirstMessage(d).cut THEN Result("ok", <<>>)
  ELSE Result(f[AfterFirst(d)].state, <<First(d)>> \o f[AfterFirst(d)].value)
Splits == [state : States, value : Seq(Seq(Octets))]

LEMMA FirstTyped ==
  ASSUME NEW d \in Seq(Octets)
  PROVE  /\ FirstMessage(d).state \in States /\ AfterFirst(d) \in Seq(Octets)
         /\ First(d) \in Seq(Octets)
         /\ FirstMessage(d).state = "ok" <=> Len(d) >= 2 /\ Head(d) = 48
         /\ FirstMessage(d).state = "ok" => Len(AfterFirst(d)) < Len(d)
<1> DEFINE tags == {48}
           e == Enter(Start(d), tags)
<1>1. /\ e.state \in States /\ e.left \in Seq(Octets)
      /\ e.state = "ok" <=> Len(d) >= 2 /\ Head(d) \in tags
      /\ e.state = "ok" => Len(e.left) < Len(d)
      /\ Over(e).left \in Seq(Octets) /\ Len(Over(e).left) <= Len(e.left)
  <2> HIDE DEF tags
  <2> QED
    BY EnterTyped
<1> HIDE DEF e
<1>2. e.state = "ok" => Len(Over(e).left) < Len(d)
  <2>1. Len(e.left) \in Nat /\ Len(Over(e).left) \in Nat /\ Len(d) \in Nat
    BY <1>1, LenProperties
  <2> QED
    BY <1>1, <2>1
<1>3. ASSUME NEW k \in Nat PROVE SubSeq(d, 1, Len(d) - k) \in Seq(Octets)
  <2>1. Len(d) \in Nat /\ Len(d) - k \in Int /\ \A i \in 1..(Len(d) - k) : i \in 1..Len(d)
    BY LenProperties
  <2>2. \A i \in 1..(Len(d) - k) : d[i] \in Octets
    BY <2>1, ElementOfSeq
  <2> QED
    BY <2>1, <2>2, SubSeqProperties
<1>4. Len(Over(e).left) \in Nat
  BY <1>1, LenProperties
<1> QED
  BY <1>1, <1>2, <1>3, <1>4 DEF FirstMessage, AfterFirst, First, e

LEMMA SplitUnfolds ==
  ASSUME NEW d \in Seq(Octets)
  PROVE  /\ SplitMessages[d] = SplitBody(SplitMessages, d)
         /\ SplitMessages[d] \in Splits
<1> DEFINE D == Seq(Octets)
           Goes(x) == Head(x) = 48 /\ FirstMessage(x).state = "ok" /\ ~FirstMessage(x).cut
           stop == {x \in D : x = <<>> \/ ~Goes(x)}
           m == [x \in D |-> Len(x)]
           p == [x \in D |-> AfterFirst(x)]
           base == [x \in D |-> Result(IF x = <<>> \/ Head(x) # 48 THEN "ok"
                                       ELSE FirstMessage(x).state, <<>>)]
           h == [y \in D \X Splits |-> Result(y[2].state, <<First(y[1])>> \o y[2].value)]
<1>1. ASSUME NEW x \in D
      PROVE  /\ Len(x) \in Nat /\ AfterFirst(x) \in D /\ First(x) \in D
             /\ FirstMessage(x).state \in States
             /\ Goes(x) => Len(AfterFirst(x)) < Len(x)
  BY FirstTyped, LenProperties
<1>2. ASSUME NEW x \in D, NEW r \in Splits
      PROVE  Result(r.state, <<First(x)>> \o r.value) \in Splits
  <2>1. <<First(x)>> \in Seq(D) /\ r.value \in Seq(D) /\ r.state \in States
    BY <1>1 DEF Splits
  <2>2. <<First(x)>> \o r.value \in Seq(D)
    BY <2>1, ConcatProperties
  <2> QED
    BY <2>1, <2>2 DEF Splits, Result
<1>3. \A s \in States : Result(s, <<>>) \in Splits
  BY DEF Splits, Result
<1>4. m \in [D -> Nat] /\ p \in [D -> D]
  BY <1>1
<1>5. base \in [D -> Splits]
  BY <1>1, <1>3 DEF States
<1>6. h \in [D \X Splits -> Splits]
  BY <1>2
<1>7. \A x \in D : x \notin stop => m[p[x]] < m[x]
  BY <1>1
<1>8. \A x \in D : /\ x \in stop <=> x = <<>> \/ ~Goes(x)
                   /\ p[x] = AfterFirst(x)
                   /\ base[x] = Result(IF x = <<>> \/ Head(x) # 48 THEN "ok"
                                       ELSE FirstMessage(x).state, <<>>)
                   /\ \A r \in Splits : h[<<x, r>>] = Result(r.state, <<First(x)>> \o r.value)
  OBVIOUS
<1> HIDE DEF m, base, p, h, stop, D
<1>9. PICK f \in [D -> Splits] : \A x \in D : Obeys(f, x, stop, base, p, h)
  BY <1>4, <1>5, <1>6, <1>7, RecursiveFunction
<1>10. f = [x \in D |-> SplitBody(f, x)]
  <2>1. ASSUME NEW x \in D, x \in stop PROVE f[x] = SplitBody(f, x)
    <3>1. f[x] = base[x]
      BY <1>9, <2>1, Zenon DEF Obeys
    <3>2. x = <<>> \/ Head(x) # 48 \/ FirstMessage(x).state # "ok" \/ FirstMessage(x).cut
      BY <1>8, <2>1, Zenon
    <3>3. base[x] = Result(IF x = <<>> \/ Head(x) # 48 THEN "ok" ELSE FirstMessage(x).state, <<>>)
      BY <1>8, Zenon
    <3> QED
      BY <3>1, <3>2, <3>3, Zenon DEF SplitBody
  <2>2. ASSUME NEW x \in D, x \notin stop PROVE f[x] = SplitBody(f, x)
    <3>1. p[x] \in D /\ f[p[x]] \in Splits /\ p[x] = AfterFirst(x)
      BY <1>4, <1>8
    <3>2. f[x] = h[<<x, f[AfterFirst(x)]>>]
      BY <1>9, <2>2, <3>1, Zenon DEF Obeys
    <3>3. f[x] = Result(f[AfterFirst(x)].state, <<First(x)>> \o f[AfterFirst(x)].value)
      BY <1>8, <3>1, <3>2, Zenon
    <3>4. x # <<>> /\ Head(x) = 48 /\ FirstMessage(x).state = "ok" /\ ~FirstMessage(x).cut
      BY <1>8, <2>2, Zenon
    <3> QED
      BY <3>3, <3>4, Zenon DEF SplitBody
  <2> HIDE DEF Goes
  <2>3. \A x \in D : f[x] = SplitBody(f, x)
    BY <2>1, <2>2, Zenon
  <2> QED
    BY <2>3
<1> DEFINE g == CHOOSE g : g = [x \in D |-> SplitBody(g, x)]
<1>11. g = [x \in D |-> SplitBody(g, x)]
  BY <1>10
<1>12. SplitMessages = g
  BY DEF SplitMessages, SplitBody, FirstMessage, AfterFirst, First, D
<1> HIDE DEF g
<1>13. \A x \in D : g[x] = SplitBody(g, x)
  BY <1>11
<1> DEFINE Typed == {n \in Nat : \A x \in D : Len(x) = n => g[x] \in Splits}
<1>14. ASSUME NEW n \in Nat, \A k \in Nat : k < n => k \in Typed PROVE n \in Typed
  <2>1. ASSUME NEW x \in D, Len(x) = n PROVE g[x] \in Splits
    <3>1. CASE Goes(x) /\ x # <<>>
      <4>1. AfterFirst(x) \in D /\ Len(AfterFirst(x)) \in Nat /\ Len(AfterFirst(x)) < n
        BY <1>1, <2>1, <3>1
      <4>2. g[AfterFirst(x)] \in Splits
        BY <1>14, <4>1
      <4>3. g[x] = Result(g[AfterFirst(x)].state, <<First(x)>> \o g[AfterFirst(x)].value)
        BY <1>13, <3>1, Zenon DEF SplitBody
      <4> QED
        BY <1>2, <4>2, <4>3
    <3>2. CASE ~Goes(x) \/ x = <<>>
      <4>1. g[x] = Result("ok", <<>>) \/ g[x] = Result(FirstMessage(x).state, <<>>)
        BY <1>13, <3>2, Zenon DEF SplitBody
      <4>2. "ok" \in States
        BY DEF States
      <4> QED
        BY <1>1, <1>3, <4>1, <4>2
    <3> QED
      BY <3>1, <3>2
  <2> QED
    BY <2>1
<1>15. \A n \in Nat : n \in Typed
  <2> HIDE DEF Typed
  <2> QED
    BY <1>14, AllBelow
<1>16. d \in D /\ Len(d) \in Nat
  BY LenProperties DEF D
<1> QED
  BY <1>12, <1>13, <1>15, <1>16

LastBody(f, d) ==
  IF Len(d) < 2 THEN <<>>
  ELSE IF Head(d) # 48 THEN f[Tail(d)]
  ELSE IF FirstMessage(d).cut THEN <<>>
  ELSE IF f[AfterFirst(d)] # <<>> THEN f[AfterFirst(d)] ELSE First(d)

LEMMA LastUnfolds ==
  ASSUME NEW d \in Seq(Octets)
  PROVE  /\ LastCompleteMessage[d] = LastBody(LastCompleteMessage, d)
         /\ LastCompleteMessage[d] \in Seq(Octets)
<1> DEFINE D == Seq(Octets)
           Stops(x) == Len(x) < 2 \/ (Head(x) = 48 /\ FirstMessage(x).cut)
           stop == {x \in D : Stops(x)}
           m == [x \in D |-> Len(x)]
           p == [x \in D |-> IF Stops(x) THEN x
                             ELSE IF Head(x) # 48 THEN Tail(x) ELSE AfterFirst(x)]
           base == [x \in D |-> <<>>]
           h == [y \in D \X D |-> IF Head(y[1]) # 48 \/ y[2] # <<>> THEN y[2] ELSE First(y[1])]
<1>1. ASSUME NEW x \in D
      PROVE  /\ Len(x) \in Nat /\ AfterFirst(x) \in D /\ First(x) \in D /\ <<>> \in D
             /\ ~Stops(x) /\ Head(x) = 48 => Len(AfterFirst(x)) < Len(x)
             /\ ~Stops(x) => Tail(x) \in D /\ Len(Tail(x)) < Len(x)
  <2>1. Len(x) \in Nat /\ AfterFirst(x) \in D /\ First(x) \in D /\ <<>> \in D
    BY FirstTyped, LenProperties, EmptySeq
  <2>2. ASSUME ~Stops(x), Head(x) = 48 PROVE Len(AfterFirst(x)) < Len(x)
    <3>1. Len(x) >= 2
      BY <2>1, <2>2
    <3> QED
      BY <2>2, <3>1, FirstTyped
  <2>3. ASSUME ~Stops(x) PROVE Tail(x) \in D /\ Len(Tail(x)) < Len(x)
    <3>1. Len(x) >= 2 /\ x # <<>>
      BY <2>1, <2>3
    <3>2. Tail(x) \in D /\ Len(Tail(x)) = Len(x) - 1
      BY <3>1, HeadTailProperties
    <3> QED
      BY <2>1, <3>2
  <2> QED
    BY <2>1, <2>2, <2>3
<1>2. m \in [D -> Nat] /\ p \in [D -> D] /\ base \in [D -> D] /\ h \in [D \X D -> D]
  BY <1>1
<1>3. \A x \in D : x \notin stop => m[p[x]] < m[x]
  BY <1>1
<1>4. \A x \in D : /\ x \in stop <=> Stops(x)
                   /\ ~Stops(x) => p[x] = IF Head(x) # 48 THEN Tail(x) ELSE AfterFirst(x)
                   /\ base[x] = <<>>
                   /\ \A r \in D : h[<<x, r>>] = IF Head(x) # 48 \/ r # <<>> THEN r ELSE First(x)
  OBVIOUS
<1> HIDE DEF m, base, p, h, stop, D, Stops
<1>5. PICK f \in [D -> D] : \A x \in D : Obeys(f, x, stop, base, p, h)
  BY <1>2, <1>3, RecursiveFunction
<1>6. f = [x \in D |-> LastBody(f, x)]
  <2>1. ASSUME NEW x \in D, Stops(x) PROVE f[x] = LastBody(f, x)
    <3>1. f[x] = <<>>
      BY <1>4, <1>5, <2>1, Zenon DEF Obeys
    <3>2. Len(x) < 2 \/ (Head(x) = 48 /\ FirstMessage(x).cut)
      BY <2>1, Zenon DEF Stops
    <3> QED
      BY <3>1, <3>2, Zenon DEF LastBody
  <2>2. ASSUME NEW x \in D, ~Stops(x) PROVE f[x] = LastBody(f, x)
    <3>1. p[x] \in D /\ f[p[x]] \in D
      BY <1>2
    <3>2. f[x] = h[<<x, f[p[x]]>>]
      BY <1>4, <1>5, <2>2, Zenon DEF Obeys
    <3>3. f[x] = IF Head(x) # 48 \/ f[p[x]] # <<>> THEN f[p[x]] ELSE First(x)
      BY <1>4, <3>1, <3>2, Zenon
    <3>4. p[x] = IF Head(x) # 48 THEN Tail(x) ELSE AfterFirst(x)
      BY <1>4, <2>2, Zenon
    <3>5. ~(Len(x) < 2) /\ (Head(x) = 48 => ~FirstMessage(x).cut)
      BY <2>2, Zenon DEF Stops
    <3> QED
      BY <3>3, <3>4, <3>5, Zenon DEF LastBody
  <2>3. \A x \in D : f[x] = LastBody(f, x)
    BY <2>1, <2>2, Zenon
  <2> QED
    BY <2>3
<1> DEFINE g == CHOOSE g : g = [x \in D |-> LastBody(g, x)]
<1>7. g = [x \in D |-> LastBody(g, x)]
  BY <1>6
<1>8. LastCompleteMessage = g
  BY DEF LastCompleteMessage, LastBody, FirstMessage, AfterFirst, First, D
<1> HIDE DEF g
<1>9. \A x \in D : g[x] = LastBody(g, x)
  BY <1>7
<1> DEFINE Typed == {n \in Nat : \A x \in D : Len(x) = n => g[x] \in D}
<1>10. ASSUME NEW n \in Nat, \A k \in Nat : k < n => k \in Typed PROVE n \in Typed
  <2>1. ASSUME NEW x \in D, Len(x) = n PROVE g[x] \in D
    <3>1. CASE Stops(x)
      <4>1. g[x] = <<>>
        BY <1>9, <3>1, Zenon DEF LastBody, Stops
      <4> QED
        BY <1>1, <4>1
    <3>2. CASE ~Stops(x) /\ Head(x) # 48
      <4>1. Tail(x) \in D /\ Len(Tail(x)) \in Nat /\ Len(Tail(x)) < n
        BY <1>1, <2>1, <3>2
      <4>2. g[x] = g[Tail(x)]
        BY <1>9, <3>2, Zenon DEF LastBody, Stops
      <4> QED
        BY <1>10, <4>1, <4>2
    <3>3. CASE ~Stops(x) /\ Head(x) = 48
      <4>1. AfterFirst(x) \in D /\ Len(AfterFirst(x)) \in Nat /\ Len(AfterFirst(x)) < n
        BY <1>1, <2>1, <3>3
      <4>2. g[x] = g[AfterFirst(x)] \/ g[x] = First(x)
        BY <1>9, <3>3, Zenon DEF LastBody, Stops
      <4>3. g[AfterFirst(x)] \in D /\ First(x) \in D
        BY <1>1, <1>10, <4>1
      <4> QED
        BY <4>2, <4>3
    <3> QED
      BY <3>1, <3>2, <3>3
  <2> QED
    BY <2>1
<1>11. \A n \in Nat : n \in Typed
  <2> HIDE DEF Typed
  <2> QED
    BY <1>10, AllBelow
<1>12. d \in D /\ Len(d) \in Nat
  BY LenProperties DEF D
<1>13. g[d] \in D
  BY <1>11, <1>12
<1> QED
  BY <1>8, <1>9, <1>12, <1>13 DEF D

-----------------------------------------------------------------------------
\* What is built is octets, whatever is asked for.

LEMMA IsSequence ==
  ASSUME NEW n \in Nat, NEW S, NEW f \in [1..n -> S]
  PROVE  f \in Seq(S) /\ Len(f) = n
<1>1. f \in Seq(S)
  BY SeqDef
<1>2. Len(f) \in Nat /\ DOMAIN f = 1..Len(f)
  BY <1>1, LenProperties
<1>3. 1..Len(f) = 1..n
  BY <1>2
<1> QED
  BY <1>1, <1>2, <1>3

\* A function of each element of a sequence.
Map(g, s) == [i \in DOMAIN s |-> g[s[i]]]

MapsInto(g, S, V) ==
  \A s \in Seq(S) : Map(g, s) \in Seq(V) /\ Len(Map(g, s)) = Len(s)

LEMMA MapTyped ==
  ASSUME NEW S, NEW V, NEW g \in [S -> V]
  PROVE  MapsInto(g, S, V)
<1> SUFFICES ASSUME NEW s \in Seq(S)
             PROVE  Map(g, s) \in Seq(V) /\ Len(Map(g, s)) = Len(s)
  BY DEF MapsInto
<1>1. Len(s) \in Nat /\ DOMAIN s = 1..Len(s) /\ \A i \in 1..Len(s) : s[i] \in S
  BY LenProperties, ElementOfSeq
<1>2. Map(g, s) \in [1..Len(s) -> V]
  BY <1>1 DEF Map
<1> QED
  BY <1>1, <1>2, IsSequence

LEMMA MapGrows ==
  ASSUME NEW S, NEW V, NEW g \in [S -> V], NEW s \in Seq(S), NEW e \in S
  PROVE  /\ Map(g, <<>>) = <<>>
         /\ Map(g, Append(s, e)) = Append(Map(g, s), g[e])
<1> DEFINE n == Len(s)
           r == Append(s, e)
           u == Map(g, r)
           w == Map(g, s)
           y == g[e]
           v == Append(w, y)
<1>0. \A x \in Seq(S) : Map(g, x) \in Seq(V) /\ Len(Map(g, x)) = Len(x)
  <2>1. MapsInto(g, S, V)
    BY MapTyped, Zenon
  <2> QED
    BY <2>1, Zenon DEF MapsInto
<1>1. Map(g, <<>>) = <<>>
  <2> DEFINE z == Map(g, <<>>)
  <2>1. <<>> \in Seq(S) /\ Len(<<>>) = 0
    BY EmptySeq
  <2>2. z \in Seq(V) /\ Len(z) = 0
    BY <1>0, <2>1, Zenon
  <2> HIDE DEF z
  <2>3. z = <<>>
    BY <2>2, EmptySeq
  <2> QED
    BY <2>3 DEF z
<1>2. /\ n \in Nat /\ DOMAIN s = 1..n /\ \A i \in 1..n : s[i] \in S
      /\ r \in Seq(S) /\ Len(r) = n + 1 /\ DOMAIN r = 1..(n + 1)
      /\ r[n + 1] = e /\ \A i \in 1..n : r[i] = s[i]
  BY AppendProperties, LenProperties, ElementOfSeq
<1>3. w \in Seq(V) /\ Len(w) = n /\ u \in Seq(V) /\ Len(u) = n + 1 /\ y \in V
  <2>1. y \in V
    OBVIOUS
  <2> HIDE DEF r, y
  <2> QED
    BY <1>0, <1>2, <2>1, Zenon
<1>4. v \in Seq(V) /\ Len(v) = n + 1 /\ v[n + 1] = y /\ \A i \in 1..n : v[i] = w[i]
  BY <1>3, AppendProperties
<1>5. \A i \in 1..n : w[i] = g[s[i]]
  BY <1>2 DEF Map
<1>6. \A i \in 1..(n + 1) : u[i] = g[r[i]]
  <2> HIDE DEF r
  <2> QED
    BY <1>2 DEF Map
<1> HIDE DEF u, v, w, r, n, y
<1>7. \A i \in 1..(n + 1) : i \in 1..n \/ i = n + 1
  BY <1>2
<1>8. \A i \in 1..(n + 1) : u[i] = v[i]
  <2>1. \A i \in 1..n : u[i] = v[i]
    <3>1. \A i \in 1..n : i \in 1..(n + 1)
      BY <1>2
    <3> QED
      BY <1>2, <1>4, <1>5, <1>6, <3>1
  <2>2. u[n + 1] = v[n + 1]
    <3>1. n + 1 \in 1..(n + 1)
      BY <1>2
    <3> QED
      BY <1>2, <1>4, <1>6, <3>1 DEF y
  <2> QED
    BY <1>7, <2>1, <2>2, Zenon
<1>9. u = v
  BY <1>3, <1>4, <1>8, SeqEqual
<1> QED
  BY <1>1, <1>9, Zenon DEF u, v, r, w, y

\* Induction over sequences, for those in a set.
LEMMA Sequences ==
  ASSUME NEW S, NEW T, <<>> \in T,
         \A s \in Seq(S) : \A e \in S : s \in T => Append(s, e) \in T
  PROVE  \A s \in Seq(S) : s \in T
<1> DEFINE N == {n \in Nat : \A s \in Seq(S) : Len(s) = n => s \in T}
<1>1. ASSUME NEW n \in Nat, \A k \in Nat : k < n => k \in N PROVE n \in N
  <2>1. ASSUME NEW s \in Seq(S), Len(s) = n PROVE s \in T
    <3>1. CASE s = <<>>
      BY <3>1
    <3>2. CASE s # <<>>
      <4>1. PICK r \in Seq(S), e \in S : s = Append(r, e)
        BY <3>2, SequenceEmptyOrAppend, Zenon
      <4>2. Len(r) \in Nat /\ Len(s) = Len(r) + 1
        BY <4>1, AppendProperties, LenProperties
      <4>3. Len(r) < n
        BY <2>1, <4>2
      <4>4. r \in T
        BY <1>1, <4>2, <4>3
      <4> QED
        BY <4>1, <4>4, Zenon
    <3> QED
      BY <3>1, <3>2
  <2> QED
    BY <2>1
<1>2. \A n \in Nat : n \in N
  <2> HIDE DEF N
  <2> QED
    BY <1>1, AllBelow
<1> QED
  BY <1>2, LenProperties

LEMMA Octetwise ==
  /\ \A a \in Octets : <<a>> \in Texts
  /\ \A a, b \in Octets : <<a, b>> \in Texts
  /\ \A a, b, c \in Octets : <<a, b, c>> \in Texts
  /\ \A a, b, c, d \in Octets : <<a, b, c, d>> \in Texts
BY DEF Texts

LEMMA Joined ==
  \A a, b \in Texts : a \o b \in Texts /\ (a # <<>> => a \o b # <<>>)
<1> SUFFICES ASSUME NEW a \in Texts, NEW b \in Texts
             PROVE  a \o b \in Texts /\ (a # <<>> => a \o b # <<>>)
  OBVIOUS
<1> QED
  BY ConcatProperties, ConcatEqualIffEmpty DEF Texts

LEMMA JoinedAll ==
  \A ss \in Seq(Texts) : Concat(ss) \in Texts
BY FlattenGrows DEF Concat, Texts

LEMMA NamesAreTexts ==
  Names \subseteq Texts
<1>1. SUFFICES ASSUME NEW s \in Names PROVE s \in Texts
  OBVIOUS
<1>2. Len(s) \in Nat /\ s \in [1..Len(s) -> 0..127]
  BY LenProperties DEF Names
<1>3. s \in [1..Len(s) -> Octets]
  BY <1>2 DEF Octets
<1> QED
  BY <1>2, <1>3, IsSequence DEF Texts

LEMMA LengthAlwaysOctets ==
  \A n \in Nat : EncodeLength(n) \in Texts /\ EncodeLength(n) # <<>>
<1> SUFFICES ASSUME NEW n \in Nat
             PROVE  EncodeLength(n) \in Texts /\ EncodeLength(n) # <<>>
  OBVIOUS
<1>1. /\ n < 256 => n \in Octets
      /\ (n \div 256) % 256 \in Octets /\ n % 256 \in Octets
      /\ 129 \in Octets /\ 130 \in Octets
  BY SMT DEF Octets
<1>2. CASE n < 256
  BY <1>1, <1>2, Octetwise DEF EncodeLength
<1>3. CASE ~(n < 256)
  <2>1. EncodeLength(n) = <<130, (n \div 256) % 256, n % 256>>
    BY <1>3, SMT DEF EncodeLength
  <2>2. PICK q \in Octets, r \in Octets : q = (n \div 256) % 256 /\ r = n % 256
    BY <1>1
  <2>3. EncodeLength(n) = <<130, q, r>> /\ 130 \in Octets
    BY <1>1, <2>1, <2>2
  <2> QED
    BY <2>3, Octetwise
<1> QED
  BY <1>2, <1>3

LEMMA TlvTyped ==
  \A tag \in Octets : \A c \in Texts : Tlv(tag, c) \in Texts /\ Tlv(tag, c) # <<>>
<1> SUFFICES ASSUME NEW tag \in Octets, NEW c \in Texts
             PROVE  Tlv(tag, c) \in Texts /\ Tlv(tag, c) # <<>>
  OBVIOUS
<1>1. Len(c) \in Nat
  BY LenProperties DEF Texts
<1>2. <<tag>> \in Texts /\ <<tag>> # <<>> /\ EncodeLength(Len(c)) \in Texts
  BY <1>1, Octetwise, LengthAlwaysOctets
<1>3. Tlv(tag, c) = (<<tag>> \o EncodeLength(Len(c))) \o c
  BY DEF Tlv
<1> QED
  BY <1>2, <1>3, Joined, Zenon

\* The tags and the other octets that are written as such.
Tags == {0, 1, 2, 3, 4, 10, 48, 49, 80, 96, 97, 99, 100, 101, 102, 103, 104, 115, 119, 120, 121,
         128, 129, 130, 131, 135, 160, 163, 169, 255}
LEMMA TagsAreOctets ==
  Tags \subseteq Octets
BY SMT DEF Tags, Octets

LEMMA Tagged ==
  ASSUME NEW t \in Tags, NEW c \in Texts
  PROVE  Tlv(t, c) \in Texts /\ Tlv(t, c) # <<>>
BY TagsAreOctets, TlvTyped

LEMMA PartsTyped ==
  /\ \A n \in Numbers : EncodeInteger(n) \in Texts
  /\ \A s \in Texts : EncodeOctetString(s) \in Texts
  /\ \A s \in Texts : EncodeSequence(s) \in Texts /\ EncodeSequence(s) # <<>>
  /\ \A n \in Octets : EncodeEnumerated(n) \in Texts
  /\ \A ss \in Seq(Texts) : Strings(ss) \in Texts
<1>0. {1, 2, 4, 10, 48} \subseteq Tags
  BY DEF Tags
<1>1. \A n \in Numbers : EncodeInteger(n) \in Texts
  <2>1. \A n \in Numbers : IntegerOctets(n) \in Texts
    <3> SUFFICES ASSUME NEW n \in Numbers PROVE IntegerOctets(n) \in Texts
      OBVIOUS
    <3>1. n \in Nat /\ n < Large
      <4>1. n \in Nat /\ n <= 2147483647
        BY SMT DEF Numbers
      <4> QED
        BY <4>1, SMT DEF Large
    <3>2. IntegerOctets(n) \in Seq(Octets)
      BY <3>1, NumbersReadBack, Zenon
    <3> QED
      BY <3>2 DEF Texts
  <2> QED
    BY <1>0, <2>1, Tagged DEF EncodeInteger
<1>2. \A s \in Texts : EncodeOctetString(s) \in Texts
  BY <1>0, Tagged DEF EncodeOctetString
<1>3. \A s \in Texts : EncodeSequence(s) \in Texts /\ EncodeSequence(s) # <<>>
  BY <1>0, Tagged DEF EncodeSequence
<1>4. \A n \in Octets : EncodeEnumerated(n) \in Texts
  BY <1>0, Octetwise, TagsAreOctets DEF EncodeEnumerated
<1>5. ASSUME NEW ss \in Seq(Texts) PROVE Strings(ss) \in Texts
  <2> DEFINE each == [i \in DOMAIN ss |-> EncodeOctetString(ss[i])]
  <2>1. /\ Len(ss) \in Nat /\ DOMAIN ss = 1..Len(ss)
        /\ \A i \in 1..Len(ss) : ss[i] \in Texts
    BY LenProperties, ElementOfSeq
  <2>2. each \in [1..Len(ss) -> Texts]
    BY <1>2, <2>1
  <2>3. each \in Seq(Texts)
    BY <2>1, <2>2, IsSequence
  <2>4. Strings(ss) = Concat(each)
    BY DEF Strings, Each
  <2> QED
    BY <2>3, <2>4, JoinedAll
<1> QED
  BY <1>1, <1>2, <1>3, <1>4, <1>5

\* The methods, one by one: what they return for arguments of their types.
LEMMA MessageTyped ==
  /\ \A id \in Numbers : \A op \in Texts :
       LDAPMessage(id, op) \in Texts /\ LDAPMessage(id, op) # <<>>
  /\ \A id \in Numbers : \A op \in Texts : \A controls \in Seq(Texts) :
       WithControls(id, op, controls) \in Texts /\ WithControls(id, op, controls) # <<>>
<1>1. ASSUME NEW id \in Numbers, NEW op \in Texts
      PROVE  LDAPMessage(id, op) \in Texts /\ LDAPMessage(id, op) # <<>>
  BY PartsTyped, Joined DEF LDAPMessage
<1>2. ASSUME NEW id \in Numbers, NEW op \in Texts, NEW controls \in Seq(Texts)
      PROVE  WithControls(id, op, controls) \in Texts /\ WithControls(id, op, controls) # <<>>
  <2> DEFINE part == IF controls = <<>> THEN <<>> ELSE Tlv(160, Concat(controls))
  <2>1. 160 \in Tags /\ <<>> \in Texts
    BY EmptySeq DEF Tags, Texts
  <2>2. part \in Texts
    BY <2>1, JoinedAll, Tagged
  <2>3. WithControls(id, op, controls) = LDAPMessage(id, op \o part)
    BY DEF WithControls
  <2> HIDE DEF part
  <2> QED
    BY <1>1, <2>2, <2>3, Joined
<1> QED
  BY <1>1, <1>2

LEMMA BindTyped ==
  ASSUME NEW id \in Numbers, NEW version \in Numbers, NEW dn \in Texts
  PROVE  /\ \A auth \in Texts : /\ BuildBindRequestAuth(id, version, dn, auth) \in Texts
                                /\ BuildBindRequestAuth(id, version, dn, auth) # <<>>
         /\ \A password \in Texts : /\ BuildBindRequest(id, version, dn, password) \in Texts
                                    /\ BuildBindRequest(id, version, dn, password) # <<>>
         /\ \A mechanism \in Texts : \A credentials \in Seq(Texts) :
              /\ BuildSaslBindRequest(id, version, dn, mechanism, credentials) \in Texts
              /\ BuildSaslBindRequest(id, version, dn, mechanism, credentials) # <<>>
<1>1. 96 \in Tags /\ 128 \in Tags /\ 163 \in Tags
  BY DEF Tags
<1>2. ASSUME NEW auth \in Texts
      PROVE  /\ BuildBindRequestAuth(id, version, dn, auth) \in Texts
             /\ BuildBindRequestAuth(id, version, dn, auth) # <<>>
  <2>1. EncodeInteger(version) \o EncodeOctetString(dn) \o auth \in Texts
    BY PartsTyped, Joined
  <2> QED
    BY <1>1, <2>1, Tagged, MessageTyped DEF BuildBindRequestAuth
<1>3. ASSUME NEW password \in Texts
      PROVE  /\ BuildBindRequest(id, version, dn, password) \in Texts
             /\ BuildBindRequest(id, version, dn, password) # <<>>
  BY <1>1, <1>2, Tagged DEF BuildBindRequest
<1>4. ASSUME NEW mechanism \in Texts, NEW credentials \in Seq(Texts)
      PROVE  /\ BuildSaslBindRequest(id, version, dn, mechanism, credentials) \in Texts
             /\ BuildSaslBindRequest(id, version, dn, mechanism, credentials) # <<>>
  <2>1. EncodeOctetString(mechanism) \o Strings(credentials) \in Texts
    BY PartsTyped, Joined
  <2> QED
    BY <1>1, <1>2, <2>1, Tagged DEF BuildSaslBindRequest
<1> QED
  BY <1>2, <1>3, <1>4

LEMMA ModifyTyped ==
  ASSUME NEW id \in Numbers, NEW dn \in Texts, NEW attribute \in Texts, NEW values \in Seq(Texts),
         NEW operation \in 0..3
  PROVE  /\ BuildModifyRequest(id, dn, attribute, values, operation) \in Texts
         /\ BuildModifyRequest(id, dn, attribute, values, operation) # <<>>
<1> DEFINE partial == EncodeSequence(EncodeOctetString(attribute) \o Tlv(49, Strings(values)))
           change == EncodeSequence(EncodeEnumerated(operation) \o partial)
<1>1. 49 \in Tags /\ 102 \in Tags /\ operation \in Octets
  BY DEF Tags, Octets
<1>2. Strings(values) \in Texts /\ EncodeOctetString(attribute) \in Texts
  BY PartsTyped
<1>3. partial \in Texts
  BY <1>1, <1>2, PartsTyped, Joined, Tagged
<1>4. change \in Texts
  <2> HIDE DEF partial
  <2> QED
    BY <1>1, <1>3, PartsTyped, Joined
<1>5. BuildModifyRequest(id, dn, attribute, values, operation) =
        LDAPMessage(id, Tlv(102, EncodeOctetString(dn) \o EncodeSequence(change)))
  BY DEF BuildModifyRequest
<1> HIDE DEF change
<1>6. EncodeOctetString(dn) \o EncodeSequence(change) \in Texts
  BY <1>4, PartsTyped, Joined
<1> QED
  BY <1>1, <1>5, <1>6, Tagged, MessageTyped

LEMMA EachTyped ==
  ASSUME NEW T, NEW s \in Seq(T), NEW f, DOMAIN f = DOMAIN s, \A i \in DOMAIN s : f[i] \in Texts,
         f = [i \in DOMAIN s |-> f[i]]
  PROVE  f \in Seq(Texts) /\ Concat(f) \in Texts
<1>1. Len(s) \in Nat /\ DOMAIN s = 1..Len(s)
  BY LenProperties
<1>2. f \in [1..Len(s) -> Texts]
  BY <1>1
<1> QED
  BY <1>1, <1>2, IsSequence, JoinedAll

LEMMA AddTyped ==
  ASSUME NEW id \in Numbers, NEW dn \in Texts, NEW attributes \in Seq(Attributes)
  PROVE  /\ BuildAddRequest(id, dn, attributes) \in Texts
         /\ BuildAddRequest(id, dn, attributes) # <<>>
<1> DEFINE Partial(a) == EncodeSequence(EncodeOctetString(a.type) \o Tlv(49, Strings(a.vals)))
           f == [i \in DOMAIN attributes |-> Partial(attributes[i])]
<1>1. 49 \in Tags /\ 104 \in Tags
  BY DEF Tags
<1>2. ASSUME NEW a \in Attributes PROVE Partial(a) \in Texts
  <2>1. a.type \in Texts /\ a.vals \in Seq(Texts)
    BY NamesAreTexts DEF Attributes
  <2>2. EncodeOctetString(a.type) \in Texts /\ Strings(a.vals) \in Texts
    BY <2>1, PartsTyped
  <2> QED
    BY <1>1, <2>2, PartsTyped, Joined, Tagged
<1> HIDE DEF Partial
<1>3. \A i \in DOMAIN attributes : attributes[i] \in Attributes
  BY LenProperties, ElementOfSeq
<1>4. Concat(f) \in Texts
  <2>1. DOMAIN f = DOMAIN attributes /\ \A i \in DOMAIN attributes : f[i] \in Texts
    BY <1>2, <1>3
  <2>2. f = [i \in DOMAIN attributes |-> f[i]]
    OBVIOUS
  <2> HIDE DEF f
  <2> QED
    BY <2>1, <2>2, EachTyped
<1>5. BuildAddRequest(id, dn, attributes) =
        LDAPMessage(id, Tlv(104, EncodeOctetString(dn) \o EncodeSequence(Concat(f))))
  BY DEF BuildAddRequest, Each, Partial
<1> HIDE DEF f
<1>6. EncodeOctetString(dn) \o EncodeSequence(Concat(f)) \in Texts
  BY <1>4, PartsTyped, Joined
<1> QED
  BY <1>1, <1>5, <1>6, Tagged, MessageTyped

LEMMA ValuesTyped ==
  /\ \A size \in Numbers : \A cookie \in Texts :
       /\ PagedResultsControlValue(size, cookie) \in Texts
       /\ PagedResultsControlValue(size, cookie) # <<>>
  /\ \A new, user, old \in Texts :
       /\ PasswordModifyRequestValue(new, user, old) \in Texts
       /\ PasswordModifyRequestValue(new, user, old) # <<>>
  /\ \A target \in Numbers : CancelValue(target) \in Texts /\ CancelValue(target) # <<>>
  /\ \A id \in Numbers : \A target \in Numbers :
       /\ BuildAbandonRequest(id, target) \in Texts /\ BuildAbandonRequest(id, target) # <<>>
<1>1. 80 \in Tags /\ 128 \in Tags /\ 129 \in Tags /\ 130 \in Tags /\ <<>> \in Texts
  BY EmptySeq DEF Tags, Texts
<1>2. ASSUME NEW size \in Numbers, NEW cookie \in Texts
      PROVE  /\ PagedResultsControlValue(size, cookie) \in Texts
             /\ PagedResultsControlValue(size, cookie) # <<>>
  BY PartsTyped, Joined DEF PagedResultsControlValue
<1>3. ASSUME NEW new \in Texts, NEW user \in Texts, NEW old \in Texts
      PROVE  /\ PasswordModifyRequestValue(new, user, old) \in Texts
             /\ PasswordModifyRequestValue(new, user, old) # <<>>
  <2> DEFINE a == IF user = <<>> THEN <<>> ELSE Tlv(128, user)
             b == IF old = <<>> THEN <<>> ELSE Tlv(129, old)
             c == Tlv(130, new)
  <2>1. a \in Texts /\ b \in Texts /\ c \in Texts
    BY <1>1, Tagged
  <2>2. PasswordModifyRequestValue(new, user, old) = EncodeSequence(Concat(<<a, b, c>>))
    BY DEF PasswordModifyRequestValue
  <2> HIDE DEF a, b, c
  <2>3. <<a, b, c>> \in Seq(Texts)
    BY <2>1
  <2> QED
    BY <2>2, <2>3, JoinedAll, PartsTyped
<1>4. \A target \in Numbers : CancelValue(target) \in Texts /\ CancelValue(target) # <<>>
  BY PartsTyped DEF CancelValue
<1>5. ASSUME NEW id \in Numbers, NEW target \in Numbers
      PROVE  BuildAbandonRequest(id, target) \in Texts /\ BuildAbandonRequest(id, target) # <<>>
  <2>1. Tlv(80, EncodeInteger(target)) \in Texts
    BY <1>1, PartsTyped, Tagged
  <2> QED
    BY <2>1, MessageTyped DEF BuildAbandonRequest
<1> QED
  BY <1>2, <1>3, <1>4, <1>5

LEMMA SortTyped ==
  ASSUME NEW attributes \in Seq(Texts)
  PROVE  SortControlValue(attributes) \in Texts /\ SortControlValue(attributes) # <<>>
<1> DEFINE Key(a) == EncodeSequence(EncodeOctetString(a))
           f == [i \in DOMAIN attributes |-> Key(attributes[i])]
<1>1. \A a \in Texts : Key(a) \in Texts
  BY PartsTyped
<1>2. \A i \in DOMAIN attributes : attributes[i] \in Texts
  BY LenProperties, ElementOfSeq
<1>3. SortControlValue(attributes) = EncodeSequence(Concat(f))
  BY DEF SortControlValue, Each
<1> HIDE DEF Key
<1>4. DOMAIN f = DOMAIN attributes /\ \A i \in DOMAIN attributes : f[i] \in Texts
  BY <1>1, <1>2
<1>5. f = [i \in DOMAIN attributes |-> f[i]]
  OBVIOUS
<1> HIDE DEF f
<1>6. Concat(f) \in Texts
  BY <1>4, <1>5, EachTyped
<1> QED
  BY <1>3, <1>6, PartsTyped

LEMMA ControlTyped ==
  ASSUME NEW oid \in Texts, NEW criticality \in BOOLEAN, NEW value \in Seq(Texts)
  PROVE  /\ BuildControl(oid, criticality, value) \in Texts
         /\ BuildControl(oid, criticality, value) # <<>>
<1> DEFINE part == IF criticality THEN <<1, 1, 255>> ELSE <<>>
<1>1. 1 \in Octets /\ 255 \in Octets /\ <<>> \in Texts
  BY TagsAreOctets, EmptySeq DEF Tags, Texts
<1>2. part \in Texts
  BY <1>1, Octetwise
<1>3. BuildControl(oid, criticality, value) =
        EncodeSequence(EncodeOctetString(oid) \o part \o Strings(value))
  BY DEF BuildControl
<1> HIDE DEF part
<1>4. EncodeOctetString(oid) \o part \o Strings(value) \in Texts
  BY <1>2, PartsTyped, Joined
<1> QED
  BY <1>3, <1>4, PartsTyped

LEMMA FilterTyped ==
  ASSUME NEW attribute \in Texts, NEW rule \in Texts, NEW value \in Texts
  PROVE  /\ BuildExtensibleMatchFilter(attribute, rule, value) \in Texts
         /\ BuildExtensibleMatchFilter(attribute, rule, value) # <<>>
<1> DEFINE Part(t, s) == <<t>> \o EncodeLength(Characters(s)) \o s
<1>1. ASSUME NEW s \in Texts PROVE Characters(s) \in Nat
  <2>1. Len(s) \in Nat /\ DOMAIN s = 1..Len(s)
    BY LenProperties DEF Texts
  <2>2. IsFiniteSet(1..Len(s))
    BY <2>1, FS_Interval
  <2>3. {i \in DOMAIN s : s[i] \notin 128..191} \in SUBSET (1..Len(s))
    BY <2>1
  <2> QED
    BY <2>2, <2>3, FS_Subset, FS_CardinalityType DEF Characters
<1>2. {129, 130, 131} \subseteq Octets /\ 169 \in Tags
  BY TagsAreOctets DEF Tags
<1>3. ASSUME NEW t \in {129, 130, 131}, NEW s \in Texts PROVE Part(t, s) \in Texts
  <2>1. EncodeLength(Characters(s)) \in Texts /\ <<t>> \in Texts
    BY <1>1, <1>2, LengthAlwaysOctets, Octetwise
  <2> QED
    BY <2>1, Joined
<1>4. BuildExtensibleMatchFilter(attribute, rule, value) =
        Tlv(169, Part(129, rule) \o Part(130, attribute) \o Part(131, value))
  BY DEF BuildExtensibleMatchFilter
<1> HIDE DEF Part
<1>5. Part(129, rule) \o Part(130, attribute) \o Part(131, value) \in Texts
  BY <1>3, Joined
<1> QED
  BY <1>2, <1>4, <1>5, Tagged

LEMMA ExtendedTyped ==
  ASSUME NEW id \in Numbers, NEW name \in Texts, NEW value \in Seq(Texts),
         NEW controls \in Seq(Texts)
  PROVE  /\ BuildExtendedRequest(id, name, value, controls) \in Texts
         /\ BuildExtendedRequest(id, name, value, controls) # <<>>
<1> DEFINE f == [i \in DOMAIN value |-> Tlv(129, value[i])]
           op == Tlv(119, Tlv(128, name) \o Concat(f))
<1>1. {119, 128, 129} \subseteq Tags
  BY DEF Tags
<1>2. \A i \in DOMAIN value : value[i] \in Texts
  BY LenProperties, ElementOfSeq
<1>3. DOMAIN f = DOMAIN value /\ \A i \in DOMAIN value : f[i] \in Texts
  BY <1>1, <1>2, Tagged
<1>4. f = [i \in DOMAIN value |-> f[i]]
  OBVIOUS
<1>5. BuildExtendedRequest(id, name, value, controls) = WithControls(id, op, controls)
  BY DEF BuildExtendedRequest, Each
<1> HIDE DEF f
<1>6. Concat(f) \in Texts
  BY <1>3, <1>4, EachTyped
<1>7. op \in Texts
  BY <1>1, <1>6, Tagged, Joined
<1> QED
  BY <1>5, <1>7, MessageTyped

LEMMA CancelTyped ==
  ASSUME NEW id \in Numbers, NEW target \in Numbers
  PROVE  BuildCancelRequest(id, target) \in Texts /\ BuildCancelRequest(id, target) # <<>>
<1>1. CancelOid \in Texts
  <2>1. CancelOid \in [1..11 -> {46, 49, 50, 51, 54, 56}]
    BY SMT DEF CancelOid
  <2>2. {46, 49, 50, 51, 54, 56} \subseteq Octets
    BY SMT DEF Octets
  <2>3. CancelOid \in [1..11 -> Octets]
    BY <2>1, <2>2
  <2> QED
    BY <2>3, IsSequence DEF Texts
<1>2. <<CancelValue(target)>> \in Seq(Texts) /\ <<>> \in Seq(Texts)
  BY ValuesTyped
<1> QED
  BY <1>1, <1>2, ExtendedTyped DEF BuildCancelRequest

LEMMA SearchTyped ==
  ASSUME NEW id \in Numbers, NEW base \in Texts, NEW attributes \in Seq(Texts),
         NEW scope \in 0..3, NEW filter \in Seq(Texts), NEW controls \in Seq(Texts)
  PROVE  /\ BuildSearchRequest(id, base, attributes, scope, filter, controls) \in Texts
         /\ BuildSearchRequest(id, base, attributes, scope, filter, controls) # <<>>
<1> DEFINE asked == IF filter = <<>> THEN PresentFilter ELSE filter[1]
           parts == <<EncodeOctetString(base), EncodeEnumerated(scope), EncodeEnumerated(0),
                      EncodeInteger(0), EncodeInteger(0), <<1, 1, 0>>, asked,
                      EncodeSequence(Strings(attributes))>>
<1>1. 99 \in Tags /\ 135 \in Tags /\ 0 \in Octets /\ 1 \in Octets /\ scope \in Octets
  BY DEF Tags, Octets
<1>2. asked \in Texts
  <2>1. PresentFilter \in Texts
    <3>1. ObjectClass \in [1..11 -> Octets]
      BY SMT DEF ObjectClass, Octets
    <3>2. ObjectClass \in Texts
      BY <3>1, IsSequence DEF Texts
    <3> QED
      BY <1>1, <3>2, Tagged DEF PresentFilter
  <2>2. filter # <<>> => filter[1] \in Texts
    BY EmptySeq, ElementOfSeq
  <2> QED
    BY <2>1, <2>2
<1>3. BuildSearchRequest(id, base, attributes, scope, filter, controls) =
        WithControls(id, Tlv(99, Concat(parts)), controls)
  BY DEF BuildSearchRequest
<1> HIDE DEF asked
<1>4. parts \in Seq(Texts)
  <2>1. EncodeOctetString(base) \in Texts /\ EncodeSequence(Strings(attributes)) \in Texts
    BY PartsTyped
  <2>2. EncodeEnumerated(scope) \in Texts /\ EncodeEnumerated(0) \in Texts
    BY <1>1, PartsTyped
  <2>3. EncodeInteger(0) \in Texts
    BY PartsTyped, SMT DEF Numbers
  <2>4. <<1, 1, 0>> \in Texts
    BY <1>1, Octetwise
  <2> QED
    BY <1>2, <2>1, <2>2, <2>3, <2>4
<1> HIDE DEF parts
<1>5. Tlv(99, Concat(parts)) \in Texts
  BY <1>1, <1>4, JoinedAll, Tagged
<1> QED
  BY <1>3, <1>5, MessageTyped

\* Every method returns octets, at least one, for all that it may be asked.
LEMMA BuildTyped ==
  ASSUME NEW r, Askable(r)
  PROVE  Build(r) \in Texts /\ Build(r) # <<>> /\ r # Idle
<1>16. r # Idle
  BY SMT DEF Askable, Idle
<1>17. r.kind \in {"bind", "sasl", "modify", "increment", "abandon", "add", "cancel", "extended",
                    "search", "pagedValue", "sortValue", "passwordValue", "cancelValue", "control",
                    "extensibleFilter"}
  BY SMT DEF Askable
<1>1. CASE r.kind = "bind"
  <2>1. r.id \in Numbers /\ r.version \in Numbers /\ r.dn \in Texts /\ r.password \in Texts
    BY <1>1, SMT DEF Askable
  <2>2. Build(r) = BuildBindRequest(r.id, r.version, r.dn, r.password)
    BY <1>1, SMT DEF Build
  <2> QED
    BY <2>1, <2>2, <1>16, BindTyped, Zenon
<1>2. CASE r.kind = "sasl"
  <2>1. /\ r.id \in Numbers /\ r.version \in Numbers /\ r.dn \in Texts
        /\ r.mechanism \in Texts /\ r.credentials \in Seq(Texts)
    BY <1>2, SMT DEF Askable
  <2>2. Build(r) = BuildSaslBindRequest(r.id, r.version, r.dn, r.mechanism, r.credentials)
    BY <1>2, SMT DEF Build
  <2> QED
    BY <2>1, <2>2, <1>16, BindTyped, Zenon
<1>3. CASE r.kind = "modify"
  <2>1. /\ r.id \in Numbers /\ r.dn \in Texts /\ r.attribute \in Texts
        /\ r.values \in Seq(Texts) /\ r.operation \in 0..3
    BY <1>3, SMT DEF Askable
  <2>2. Build(r) = BuildModifyRequest(r.id, r.dn, r.attribute, r.values, r.operation)
    BY <1>3, SMT DEF Build
  <2> QED
    BY <2>1, <2>2, <1>16, ModifyTyped, Zenon
<1>4. CASE r.kind = "increment"
  <2>1. r.id \in Numbers /\ r.dn \in Texts /\ r.attribute \in Texts /\ <<r.by>> \in Seq(Texts)
    BY <1>4, SMT DEF Askable
  <2>2. Build(r) = BuildModifyRequest(r.id, r.dn, r.attribute, <<r.by>>, 3)
    <3>1. Build(r) = BuildModifyIncrement(r.id, r.dn, r.attribute, r.by)
      BY <1>4, SMT DEF Build
    <3> QED
      BY <3>1 DEF BuildModifyIncrement
  <2>3. 3 \in 0..3
    BY SMT
  <2> QED
    BY <2>1, <2>2, <2>3, <1>16, ModifyTyped, Zenon
<1>5. CASE r.kind = "abandon"
  <2>1. r.id \in Numbers /\ r.target \in Numbers
    BY <1>5, SMT DEF Askable
  <2>2. Build(r) = BuildAbandonRequest(r.id, r.target)
    BY <1>5, SMT DEF Build
  <2> QED
    BY <2>1, <2>2, <1>16, ValuesTyped, Zenon
<1>6. CASE r.kind = "add"
  <2>1. r.id \in Numbers /\ r.dn \in Texts /\ r.attributes \in Seq(Attributes)
    BY <1>6, SMT DEF Askable, Entries
  <2>2. Build(r) = BuildAddRequest(r.id, r.dn, r.attributes)
    BY <1>6, SMT DEF Build
  <2> QED
    BY <2>1, <2>2, <1>16, AddTyped, Zenon
<1>7. CASE r.kind = "cancel"
  <2>1. r.id \in Numbers /\ r.target \in Numbers
    BY <1>7, SMT DEF Askable
  <2>2. Build(r) = BuildCancelRequest(r.id, r.target)
    BY <1>7, SMT DEF Build
  <2> QED
    BY <2>1, <2>2, <1>16, CancelTyped, Zenon
<1>8. CASE r.kind = "extended"
  <2>1. r.id \in Numbers /\ r.name \in Texts /\ r.value \in Seq(Texts) /\ r.controls \in Seq(Texts)
    BY <1>8, SMT DEF Askable
  <2>2. Build(r) = BuildExtendedRequest(r.id, r.name, r.value, r.controls)
    BY <1>8, SMT DEF Build
  <2> QED
    BY <2>1, <2>2, <1>16, ExtendedTyped, Zenon
<1>9. CASE r.kind = "search"
  <2>1. /\ r.id \in Numbers /\ r.base \in Texts /\ r.attributes \in Seq(Texts)
        /\ r.scope \in 0..3 /\ r.filter \in Seq(Texts) /\ r.controls \in Seq(Texts)
    BY <1>9, SMT DEF Askable
  <2>2. Build(r) = BuildSearchRequest(r.id, r.base, r.attributes, r.scope, r.filter, r.controls)
    BY <1>9, SMT DEF Build
  <2> QED
    BY <2>1, <2>2, <1>16, SearchTyped, Zenon
<1>10. CASE r.kind = "pagedValue"
  <2>1. r.size \in Numbers /\ r.cookie \in Texts
    BY <1>10, SMT DEF Askable
  <2>2. Build(r) = PagedResultsControlValue(r.size, r.cookie)
    BY <1>10, SMT DEF Build
  <2> QED
    BY <2>1, <2>2, <1>16, ValuesTyped, Zenon
<1>11. CASE r.kind = "sortValue"
  <2>1. r.attributes \in Seq(Texts)
    BY <1>11, SMT DEF Askable
  <2>2. Build(r) = SortControlValue(r.attributes)
    BY <1>11, SMT DEF Build
  <2> QED
    BY <2>1, <2>2, <1>16, SortTyped, Zenon
<1>12. CASE r.kind = "passwordValue"
  <2>1. r.new \in Texts /\ r.user \in Texts /\ r.old \in Texts
    BY <1>12, SMT DEF Askable
  <2>2. Build(r) = PasswordModifyRequestValue(r.new, r.user, r.old)
    BY <1>12, SMT DEF Build
  <2> QED
    BY <2>1, <2>2, <1>16, ValuesTyped, Zenon
<1>13. CASE r.kind = "cancelValue"
  <2>1. r.target \in Numbers
    BY <1>13, SMT DEF Askable
  <2>2. Build(r) = CancelValue(r.target)
    BY <1>13, SMT DEF Build
  <2> QED
    BY <2>1, <2>2, <1>16, ValuesTyped, Zenon
<1>14. CASE r.kind = "control"
  <2>1. r.oid \in Texts /\ r.criticality \in BOOLEAN /\ r.value \in Seq(Texts)
    BY <1>14, SMT DEF Askable
  <2>2. Build(r) = BuildControl(r.oid, r.criticality, r.value)
    BY <1>14, SMT DEF Build
  <2> QED
    BY <2>1, <2>2, <1>16, ControlTyped, Zenon
<1>15. CASE r.kind = "extensibleFilter"
  <2>1. r.attribute \in Texts /\ r.rule \in Texts /\ r.value \in Texts
    BY <1>15, SMT DEF Askable
  <2>2. Build(r) = BuildExtensibleMatchFilter(r.attribute, r.rule, r.value)
    BY <1>15, SMT DEF Build
  <2> QED
    BY <2>1, <2>2, <1>16, FilterTyped, Zenon
<1> QED
  BY <1>17, <1>1, <1>2, <1>3, <1>4, <1>5, <1>6, <1>7, <1>8, <1>9, <1>10,
     <1>11, <1>12, <1>13, <1>14, <1>15

-----------------------------------------------------------------------------
\* What the server sends is octets.

LEMMA ServerLengthTyped ==
  ASSUME NEW form \in 0..4, NEW n \in Nat
  PROVE  ServerLength(form, n) \in Texts
<1> DEFINE a == (n \div 16777216) % 256
           b == (n \div 65536) % 256
           c == (n \div 256) % 256
           d == n % 256
           four == <<a, b, c, d>>
<1>1. a \in Octets /\ b \in Octets /\ c \in Octets /\ d \in Octets /\ 129 \in Octets
  BY SMT DEF Octets
<1>2. (n < 128 => n \in Octets) /\ 128 + form \in Octets
  BY SMT DEF Octets
<1>3. CASE form = 0
  <2>1. ServerLength(form, n) = IF n < 128 THEN <<n>> ELSE <<129, d>>
    BY <1>3 DEF ServerLength
  <2> HIDE DEF d
  <2> QED
    BY <1>1, <1>2, <2>1, Octetwise
<1>4. CASE form # 0
  <2>1. ServerLength(form, n) = <<128 + form>> \o SubSeq(four, 5 - form, 4)
    BY <1>4 DEF ServerLength
  <2>2. four \in Seq(Octets) /\ Len(four) = 4 /\ 5 - form \in Int /\ 5 - form >= 1
    <3> HIDE DEF a, b, c, d
    <3> QED
      BY <1>1
  <2> HIDE DEF four
  <2>3. \A i \in (5 - form)..4 : four[i] \in Octets
    <3>1. \A i \in (5 - form)..4 : i \in 1..Len(four)
      BY <2>2
    <3> QED
      BY <2>2, <3>1, ElementOfSeq
  <2>4. SubSeq(four, 5 - form, 4) \in Texts
    BY <2>2, <2>3, SubSeqProperties DEF Texts
  <2>5. <<128 + form>> \in Texts
    BY <1>2, Octetwise
  <2> QED
    BY <2>1, <2>4, <2>5, Joined
<1> QED
  BY <1>3, <1>4

LEMMA ElementTyped ==
  ASSUME NEW form \in 0..4, NEW t \in Tags, NEW s \in Texts
  PROVE  Element(form, t, s) \in Texts
<1>1. Len(s) \in Nat
  BY LenProperties DEF Texts
<1>2. <<t>> \in Texts /\ ServerLength(form, Len(s)) \in Texts
  BY <1>1, TagsAreOctets, Octetwise, ServerLengthTyped
<1>3. Element(form, t, s) = <<t>> \o ServerLength(form, Len(s)) \o s
  BY DEF Element
<1> QED
  BY <1>2, <1>3, Joined

LEMMA ElementsOfTyped ==
  ASSUME NEW form \in 0..4, NEW t \in Tags, NEW ss \in Seq(Texts)
  PROVE  ElementsOf(form, t, ss) \in Texts
<1> DEFINE f == [i \in DOMAIN ss |-> Element(form, t, ss[i])]
<1>1. \A i \in DOMAIN ss : ss[i] \in Texts
  BY LenProperties, ElementOfSeq
<1>2. DOMAIN f = DOMAIN ss /\ \A i \in DOMAIN ss : f[i] \in Texts
  BY <1>1, ElementTyped
<1>3. f = [i \in DOMAIN ss |-> f[i]]
  OBVIOUS
<1>4. ElementsOf(form, t, ss) = Concat(f)
  BY DEF ElementsOf
<1> HIDE DEF f
<1> QED
  BY <1>2, <1>3, <1>4, EachTyped

LEMMA AttributeTyped ==
  ASSUME NEW form \in 0..4, NEW a \in Attributes
  PROVE  AttributeContents(form, a) \in Texts
<1>1. {4, 49} \subseteq Tags
  BY DEF Tags
<1>2. a.type \in Texts /\ a.vals \in Seq(Texts)
  BY NamesAreTexts DEF Attributes
<1> QED
  BY <1>1, <1>2, ElementTyped, ElementsOfTyped, Joined DEF AttributeContents

LEMMA EntryTyped ==
  ASSUME NEW form \in 0..4, NEW attributes \in Seq(Attributes)
  PROVE  /\ EntryContents(form, attributes) \in Texts
         /\ [i \in DOMAIN attributes |-> AttributeContents(form, attributes[i])] \in Seq(Texts)
<1> DEFINE f == [i \in DOMAIN attributes |-> AttributeContents(form, attributes[i])]
<1>1. {4, 48} \subseteq Tags /\ <<>> \in Texts
  BY EmptySeq DEF Tags, Texts
<1>2. f \in Seq(Texts)
  <2>1. \A i \in DOMAIN attributes : attributes[i] \in Attributes
    BY LenProperties, ElementOfSeq
  <2>2. DOMAIN f = DOMAIN attributes /\ \A i \in DOMAIN attributes : f[i] \in Texts
    BY <2>1, AttributeTyped
  <2>3. f = [i \in DOMAIN attributes |-> f[i]]
    OBVIOUS
  <2> HIDE DEF f
  <2> QED
    BY <2>2, <2>3, EachTyped
<1>3. EntryContents(form, attributes) =
        Element(form, 4, <<>>) \o Element(form, 48, ElementsOf(form, 48, f))
  BY DEF EntryContents
<1> HIDE DEF f
<1>4. EntryContents(form, attributes) \in Texts
  BY <1>1, <1>2, <1>3, ElementTyped, ElementsOfTyped, Joined
<1> QED
  BY <1>2, <1>4 DEF f

LEMMA SortCodeTyped ==
  ASSUME NEW v \in [1..1 -> 0..127]
  PROVE  v \in Texts /\ v = <<v[1]>> /\ v[1] \in Octets
<1>1. v \in [1..1 -> Octets]
  BY DEF Octets
<1>2. v \in Seq(Octets) /\ Len(v) = 1
  BY <1>1, IsSequence
<1> QED
  BY <1>1, <1>2, ShortSequence DEF Texts

LEMMA ControlValueTyped ==
  ASSUME NEW form \in 0..4, NEW c, SendableControl(c)
  PROVE  ControlValue(form, c) \in Texts
<1>1. {2, 4, 10, 48, 100} \subseteq Tags /\ <<0>> \in Texts
  BY TagsAreOctets, Octetwise DEF Tags
<1>2. CASE c.holds = "octets" /\ c.value \in Texts
  BY <1>2 DEF ControlValue
<1>3. CASE c.holds = "cookie" /\ c.value \in Texts
  <2>1. ControlValue(form, c) =
          Element(form, 48, Element(form, 2, <<0>>) \o Element(form, 4, c.value))
    BY <1>3 DEF ControlValue
  <2> QED
    BY <1>1, <1>3, <2>1, ElementTyped, Joined
<1>4. CASE c.holds = "sortCode" /\ c.value \in [1..1 -> 0..127]
  <2>1. ControlValue(form, c) = Element(form, 48, Element(form, 10, c.value))
    BY <1>4 DEF ControlValue
  <2>2. c.value \in Texts
    BY <1>4, SortCodeTyped, Zenon
  <2> QED
    BY <1>1, <2>1, <2>2, ElementTyped
<1>5. CASE c.holds = "entry" /\ c.value \in Seq(Attributes)
  <2>1. ControlValue(form, c) = Element(form, 100, EntryContents(form, c.value))
    BY <1>5 DEF ControlValue
  <2>2. EntryContents(form, c.value) \in Texts
    BY <1>5, EntryTyped, Zenon
  <2> QED
    BY <1>1, <2>1, <2>2, ElementTyped
<1> QED
  BY <1>2, <1>3, <1>4, <1>5 DEF SendableControl, Entries

LEMMA ControlContentsTyped ==
  ASSUME NEW form \in 0..4, NEW c, SendableControl(c)
  PROVE  ControlContents(form, c) \in Texts
<1> DEFINE part == IF c.criticality THEN Element(form, 1, <<255>>) ELSE <<>>
<1>1. {1, 4} \subseteq Tags /\ <<>> \in Texts /\ <<255>> \in Texts
  BY TagsAreOctets, EmptySeq, Octetwise DEF Tags, Texts
<1>2. part \in Texts
  BY <1>1, ElementTyped
<1>3. c.oid \in Texts
  BY NamesAreTexts DEF SendableControl
<1>4. ControlContents(form, c) =
        Element(form, 4, c.oid) \o (part \o Element(form, 4, ControlValue(form, c)))
  BY DEF ControlContents
<1> HIDE DEF part
<1> QED
  BY <1>1, <1>2, <1>3, <1>4, ControlValueTyped, ElementTyped, Joined

LEMMA ControlsTyped ==
  ASSUME NEW form \in 0..4, NEW cs, SendableControls(cs)
  PROVE  [i \in DOMAIN cs |-> ControlContents(form, cs[i])] \in Seq(Texts)
<1> DEFINE f == [i \in DOMAIN cs |-> ControlContents(form, cs[i])]
<1>1. DOMAIN cs = 1..Len(cs) /\ Len(cs) \in Nat
  BY LenProperties DEF SendableControls
<1>2. f \in [1..Len(cs) -> Texts]
  BY <1>1, ControlContentsTyped DEF SendableControls
<1> HIDE DEF f
<1>3. f \in Seq(Texts)
  BY <1>1, <1>2, IsSequence
<1> QED
  BY <1>3 DEF f

LEMMA TagOfOp ==
  ASSUME NEW m, m.kind \in DOMAIN OpTag
  PROVE  OpTag[m.kind] \in Tags
<1>1. /\ OpTag.bind = 97 /\ OpTag.entry = 100 /\ OpTag.done = 101 /\ OpTag.modify = 103
      /\ OpTag.reference = 115 /\ OpTag.notice = 120 /\ OpTag.intermediate = 121
      /\ DOMAIN OpTag = {"bind", "entry", "done", "modify", "reference", "notice", "intermediate"}
  BY DEF OpTag
<1>2. {97, 100, 101, 103, 115, 120, 121} \subseteq Tags
  BY DEF Tags
<1> QED
  BY <1>1, <1>2

LEMMA PartsOfWireTyped ==
  ASSUME NEW m, SendableMessage(m)
  PROVE  /\ OpContents(m) \in Texts /\ ControlsContents(m) \in Texts
         /\ <<m.id>> \in Texts /\ <<m.code>> \in Texts
<1>1. /\ m.form \in 0..4 /\ m.id \in 0..127 /\ m.code \in 0..127
      /\ m.text \in Texts /\ m.creds \in Seq(Texts) /\ m.attributes \in Seq(Attributes)
      /\ SendableControls(m.controls)
  BY DEF SendableMessage, Entries
<1>2. {2, 4, 10, 48, 135, 160} \subseteq Tags /\ <<>> \in Texts
  BY EmptySeq DEF Tags, Texts
<1>3. <<m.id>> \in Texts /\ <<m.code>> \in Texts
  <2>1. m.id \in Octets /\ m.code \in Octets
    BY <1>1 DEF Octets
  <2> QED
    BY <2>1, Octetwise
<1>4. OpContents(m) \in Texts
  <2> DEFINE coded == Element(m.form, 10, <<m.code>>)
                      \o (Element(m.form, 4, <<>>)
                           \o (Element(m.form, 4, m.text) \o ElementsOf(m.form, 135, m.creds)))
  <2>1. OpContents(m) = IF HasCode(m) THEN coded
                        ELSE IF m.kind = "entry" THEN EntryContents(m.form, m.attributes)
                        ELSE Element(m.form, 4, m.text)
    BY DEF OpContents
  <2>2. coded \in Texts
    BY <1>1, <1>2, <1>3, ElementTyped, ElementsOfTyped, Joined
  <2>3. EntryContents(m.form, m.attributes) \in Texts /\ Element(m.form, 4, m.text) \in Texts
    BY <1>1, <1>2, EntryTyped, ElementTyped
  <2> HIDE DEF coded
  <2> QED
    BY <2>1, <2>2, <2>3
<1>5. ControlsContents(m) \in Texts
  <2> DEFINE f == [i \in DOMAIN m.controls |-> ControlContents(m.form, m.controls[i])]
  <2>1. ControlsContents(m) = IF m.controls = <<>> THEN <<>>
                              ELSE Element(m.form, 160, ElementsOf(m.form, 48, f))
    BY DEF ControlsContents
  <2>2. f \in Seq(Texts)
    BY <1>1, ControlsTyped
  <2> HIDE DEF f
  <2> QED
    BY <1>1, <1>2, <2>1, <2>2, ElementTyped, ElementsOfTyped
<1> QED
  BY <1>3, <1>4, <1>5

LEMMA WireTyped ==
  ASSUME NEW m, SendableMessage(m)
  PROVE  /\ WireContents(m) \in Texts /\ Wire(m) \in Texts
         /\ Wire(m) = Element(m.form, 48, WireContents(m))
<1>1. m.form \in 0..4 /\ {2, 48} \subseteq Tags /\ OpTag[m.kind] \in Tags
  BY TagOfOp DEF SendableMessage, Tags
<1>2. WireContents(m) \in Texts
  BY <1>1, PartsOfWireTyped, ElementTyped, Joined DEF WireContents
<1> QED
  BY <1>1, <1>2, ElementTyped DEF Wire

-----------------------------------------------------------------------------
\* The stream grows at its end, and what the client has read stays its beginning.

LEMMA StreamTyped ==
  ASSUME NEW s \in Seq(Answers), NEW m \in Answers
  PROVE  /\ Each(Wire, s) \in Seq(Texts)
         /\ Concat(Each(Wire, s)) \in Texts
         /\ Each(Wire, Append(s, m)) = Append(Each(Wire, s), Wire(m))
         /\ Concat(Each(Wire, Append(s, m))) = Concat(Each(Wire, s)) \o Wire(m)
<1> DEFINE n == Len(s)
           w == [i \in DOMAIN s |-> Wire(s[i])]
           t == Append(s, m)
<1>1. /\ n \in Nat /\ DOMAIN s = 1..n
      /\ \A i \in 1..n : s[i] \in Answers
  BY LenProperties, ElementOfSeq
<1>2. \A x \in Answers : Wire(x) \in Texts
  BY AnswersAssumption, WireTyped
<1>3. w \in [1..n -> Texts] /\ w \in Seq(Texts) /\ Len(w) = n
  BY <1>1, <1>2, IsSequence
<1>4. /\ t \in Seq(Answers) /\ Len(t) = n + 1 /\ DOMAIN t = 1..(n + 1)
      /\ t[n + 1] = m /\ \A i \in 1..n : t[i] = s[i]
  BY <1>1, AppendProperties, LenProperties
<1>5. Each(Wire, s) = w /\ Each(Wire, t) = [i \in DOMAIN t |-> Wire(t[i])]
  BY DEF Each
<1> HIDE DEF n, t
<1>6. [i \in DOMAIN t |-> Wire(t[i])] = Append(w, Wire(m))
  <2> DEFINE u == [i \in DOMAIN t |-> Wire(t[i])]
             v == Append(w, Wire(m))
  <2>1. v \in Seq(Texts) /\ Len(v) = n + 1 /\ v[n + 1] = Wire(m) /\ \A i \in 1..n : v[i] = w[i]
    BY <1>2, <1>3, AppendProperties
  <2>2. \A i \in 1..n : v[i] = Wire(s[i])
    BY <1>1, <2>1
  <2> HIDE DEF v, w
  <2>3. \A i \in 1..(n + 1) : u[i] = Wire(t[i])
    BY <1>4
  <2>4. \A i \in 1..(n + 1) : i \in 1..n \/ i = n + 1
    BY <1>1
  <2>5. \A i \in 1..(n + 1) : u[i] = v[i]
    BY <1>4, <2>1, <2>2, <2>3, <2>4
  <2>6. u \in [1..(n + 1) -> Texts]
    <3>1. \A i \in 1..(n + 1) : t[i] \in Answers
      BY <1>4, ElementOfSeq
    <3> QED
      BY <1>2, <1>4, <3>1
  <2>7. u \in Seq(Texts) /\ Len(u) = n + 1
    BY <1>1, <2>6, IsSequence
  <2> HIDE DEF u
  <2>8. u = v
    BY <2>1, <2>5, <2>7, SeqEqual
  <2> QED
    BY <2>8 DEF u, v
<1> HIDE DEF w
<1>7. Concat(Append(w, Wire(m))) = Concat(w) \o Wire(m) /\ Concat(w) \in Texts
  BY <1>2, <1>3, FlattenGrows DEF Concat, Texts
<1> QED
  BY <1>3, <1>5, <1>6, <1>7 DEF t

\* A beginning of s is one of s \o t, and one octet more is one too.
LEMMA BeginningStays ==
  ASSUME NEW s \in Texts, NEW t \in Texts, NEW b, b = UpTo(s, Len(b)), Len(b) \in Nat
  PROVE  /\ b \in Texts /\ Len(b) <= Len(s)
         /\ b = UpTo(s \o t, Len(b))
<1>1. /\ s \in Seq(Octets) /\ t \in Seq(Octets) /\ Len(s) \in Nat /\ Len(t) \in Nat
      /\ s \o t \in Seq(Octets) /\ Len(s \o t) = Len(s) + Len(t)
  BY ConcatProperties, LenProperties DEF Texts
<1>2. b \in Texts /\ Len(b) <= Len(s)
  <2>1. UpTo(s, Len(b)) \in Seq(Octets) /\ Len(UpTo(s, Len(b))) <= Len(s)
    BY <1>1, SliceTyped
  <2> QED
    BY <2>1 DEF Texts
<1>3. UpTo(s, Len(b)) = SubSeq(s, 1, Len(b)) /\ UpTo(s \o t, Len(b)) = SubSeq(s \o t, 1, Len(b))
  BY <1>1, <1>2 DEF UpTo
<1>4. CASE Len(b) = 0
  <2>1. SubSeq(s, 1, 0) = <<>> /\ SubSeq(s \o t, 1, 0) = <<>>
    BY SubSeqEmpty
  <2> QED
    BY <1>2, <1>3, <1>4, <2>1
<1>5. CASE Len(b) # 0
  <2>1. 1 \in 1..Len(s) /\ Len(b) \in 1..Len(s)
    BY <1>1, <1>2, <1>5
  <2>2. SubSeq(s \o t, 1, Len(b)) = SubSeq(s, 1, Len(b))
    BY <1>1, <2>1, SubSeqOfConcat1
  <2> QED
    BY <1>2, <1>3, <2>2
<1> QED
  BY <1>4, <1>5

LEMMA OneMore ==
  ASSUME NEW s \in Texts, NEW b, b = UpTo(s, Len(b)), Len(b) \in Nat, Len(b) < Len(s)
  PROVE  LET c == Append(b, s[Len(b) + 1]) IN c = UpTo(s, Len(c)) /\ Len(c) = Len(b) + 1
<1> DEFINE n == Len(b)
           c == Append(b, s[n + 1])
<1>1. s \in Seq(Octets) /\ Len(s) \in Nat
  BY LenProperties DEF Texts
<1>2. b \in Seq(Octets) /\ n \in Nat /\ n + 1 \in 1..Len(s)
  BY <1>1, SliceTyped
<1>3. s[n + 1] \in Octets
  BY <1>1, <1>2, ElementOfSeq
<1>4. c \in Seq(Octets) /\ Len(c) = n + 1 /\ c = b \o <<s[n + 1]>>
  <2>1. Append(b, s[n + 1]) \in Seq(Octets) /\ Len(Append(b, s[n + 1])) = Len(b) + 1
    BY <1>2, <1>3, AppendProperties
  <2>2. Append(b, s[n + 1]) = b \o <<s[n + 1]>>
    BY <1>2, <1>3, AppendIsConcat
  <2> QED
    BY <2>1, <2>2
<1>5. b = SubSeq(s, 1, n)
  BY <1>1, <1>2 DEF UpTo
<1>6. UpTo(s, n + 1) = SubSeq(s, 1, n + 1)
  BY <1>1, <1>2 DEF UpTo
<1>7. SubSeq(s, 1, n + 1) = SubSeq(s, 1, n) \o <<s[n + 1]>>
  <2>1. 1 \in 1..Len(s) /\ n + 1 \in 1..Len(s) /\ (n + 1) - 1 = n
    BY <1>1, <1>2
  <2>2. SubSeq(s, 1, n + 1) = SubSeq(s, 1, (n + 1) - 1) \o <<s[n + 1]>>
    BY <1>1, <1>2, <2>1, SubSeqRecursiveSecond
  <2> QED
    BY <2>1, <2>2, Zenon
<1> HIDE DEF n, c
<1> QED
  BY <1>4, <1>5, <1>6, <1>7 DEF n, c

\* Every octet is one, and the client has read a part of what was sent.
THEOREM PdusAndStreamTyped ==
  Spec => []TypeOK
<1>1. Init => TypeOK
  <2> SUFFICES ASSUME Init PROVE TypeOK
    OBVIOUS
  <2>1. request = Idle /\ pdu = <<>> /\ sent = <<>> /\ buffer = <<>>
    BY DEF Init
  <2>2. <<>> \in Seq(Octets) /\ <<>> \in Seq(Answers) /\ Len(<<>>) = 0
    BY EmptySeq
  <2>3. Stream = <<>>
    <3>1. Each(Wire, <<>>) = <<>>
      BY DEF Each
    <3> QED
      BY <2>1, <3>1 DEF Stream, Concat, FlattenSeq
  <2>4. UpTo(<<>>, 0) = <<>>
    BY <2>2, SubSeqEmpty DEF UpTo
  <2>5. buffer = UpTo(Stream, Len(buffer))
    BY <2>1, <2>2, <2>3, <2>4, Zenon
  <2> QED
    BY <2>1, <2>2, <2>5 DEF TypeOK
<1>2. ASSUME TypeOK, [Next]_vars PROVE TypeOK'
  <2>1. /\ request \in Requests \cup {Idle}
        /\ pdu \in Seq(Octets) /\ (pdu = <<>> <=> request = Idle)
        /\ sent \in Seq(Answers)
        /\ buffer \in Seq(Octets) /\ buffer = UpTo(Stream, Len(buffer))
    BY <1>2 DEF TypeOK
  <2>2. Stream \in Texts
    <3>1. CASE Answers = {}
      <4>1. sent = <<>>
        BY <2>1, <3>1
      <4>2. Stream = <<>>
        BY <4>1 DEF Stream, Each, Concat, FlattenSeq
      <4> QED
        BY <4>2, EmptySeq DEF Texts
    <3>2. CASE Answers # {}
      BY <2>1, <3>2, StreamTyped DEF Stream
    <3> QED
      BY <3>1, <3>2
  <2>3. Len(buffer) \in Nat
    BY <2>1, LenProperties
  <2>4. CASE Ask
    <3>1. PICK r \in Requests : request' = r /\ pdu' = Build(r)
      BY <2>4 DEF Ask
    <3>2. UNCHANGED <<sent, buffer>>
      BY <2>4 DEF Ask
    <3>3. Build(r) \in Seq(Octets) /\ Build(r) # <<>> /\ r # Idle
      BY RequestsAssumption, BuildTyped DEF Texts
    <3>4. Stream' = Stream
      BY <3>2 DEF Stream
    <3> QED
      BY <2>1, <3>1, <3>2, <3>3, <3>4 DEF TypeOK
  <2>5. CASE Answer
    <3>1. PICK m \in Answers : sent' = Append(sent, m)
      BY <2>5 DEF Answer
    <3>2. request' = Idle /\ pdu' = <<>> /\ buffer' = buffer
      BY <2>5 DEF Answer
    <3>3. Stream' = Stream \o Wire(m)
      BY <2>1, <3>1, StreamTyped DEF Stream
    <3>4. Wire(m) \in Texts
      BY AnswersAssumption, WireTyped
    <3>5. buffer = UpTo(Stream \o Wire(m), Len(buffer))
      BY <2>1, <2>2, <2>3, <3>4, BeginningStays
    <3>6. Append(sent, m) \in Seq(Answers) /\ <<>> \in Seq(Octets)
      BY <2>1, AppendProperties, EmptySeq
    <3> QED
      BY <2>1, <3>1, <3>2, <3>3, <3>5, <3>6 DEF TypeOK
  <2>6. CASE Receive
    <3>1. /\ Len(buffer) < Len(Stream)
          /\ buffer' = Append(buffer, Stream[Len(buffer) + 1])
          /\ UNCHANGED <<request, pdu, sent>>
      BY <2>6 DEF Receive
    <3>2. Stream' = Stream
      BY <3>1 DEF Stream
    <3>3. buffer' = UpTo(Stream, Len(buffer'))
      BY <2>1, <2>2, <2>3, <3>1, OneMore
    <3>4. buffer' \in Seq(Octets)
      <4>1. Stream \in Seq(Octets) /\ Len(Stream) \in Nat /\ Len(buffer) + 1 \in 1..Len(Stream)
        BY <2>2, <2>3, <3>1, LenProperties DEF Texts
      <4>2. Stream[Len(buffer) + 1] \in Octets
        BY <4>1, ElementOfSeq
      <4> QED
        BY <2>1, <3>1, <4>2, AppendProperties
    <3> QED
      BY <2>1, <3>1, <3>2, <3>3, <3>4 DEF TypeOK
  <2>7. CASE UNCHANGED vars
    <3>1. Stream' = Stream
      BY <2>7 DEF vars, Stream
    <3> QED
      BY <2>1, <2>7, <3>1 DEF TypeOK, vars
  <2> QED
    BY <1>2, <2>4, <2>5, <2>6, <2>7 DEF Next
<1> QED
  BY <1>1, <1>2, PTL DEF Spec

-----------------------------------------------------------------------------
\* How a server reads a PDU, taken apart: the head of the first element, its
\* contents and what comes after it.

LengthOctets(d) == IF d[2] < 128 THEN 0 ELSE d[2] - 128
SizeAt(d) == IF LengthOctets(d) = 0 THEN d[2] ELSE Unsigned(SubSeq(d, 3, 2 + LengthOctets(d)))
PastHead(d) == Drop(d, 2 + LengthOctets(d))
Inner(d) == UpTo(PastHead(d), SizeAt(d))
AfterElement(d) == Drop(PastHead(d), SizeAt(d))
Broken(d) == d[2] = 128 \/ Len(d) < 2 + LengthOctets(d) \/ Len(PastHead(d)) < SizeAt(d)
Readable(d) == d # <<>> /\ ~(Len(d) < 2) /\ ~Broken(d)
Constructed(tag) == (tag \div 32) % 2 = 1
ReadOne(f, d) ==
  IF Constructed(d[1]) THEN Node(d[1], f[Inner(d)])
  ELSE Leaf(d[1], IF d[1] \in {2, 10, 80} THEN <<Signed(Inner(d))>> ELSE Inner(d))
ElementsBody(f, d) ==
  IF d = <<>> THEN <<>>
  ELSE IF Len(d) < 2 THEN <<Unreadable>>
  ELSE IF Broken(d) THEN <<Unreadable>>
  ELSE <<ReadOne(f, d)>> \o f[AfterElement(d)]

LEMMA HeadTyped ==
  ASSUME NEW d \in Texts, Readable(d)
  PROVE  /\ LengthOctets(d) \in Nat /\ SizeAt(d) \in Nat
         /\ PastHead(d) \in Texts /\ Inner(d) \in Texts /\ AfterElement(d) \in Texts
         /\ Len(Inner(d)) < Len(d) /\ Len(AfterElement(d)) < Len(d)
<1>1. /\ Len(d) \in Nat /\ Len(d) >= 2 /\ d \in Seq(Octets)
      /\ \A i \in 1..Len(d) : d[i] \in Octets
  BY LenProperties, ElementOfSeq DEF Readable, Texts
<1>2. d[2] \in Nat
  BY <1>1, OctetIs
<1>3. LengthOctets(d) \in Nat
  BY <1>2 DEF LengthOctets
<1> DEFINE k == LengthOctets(d)
           n == SizeAt(d)
           p == PastHead(d)
<1>4. Len(d) >= 2 + k
  BY <1>1, <1>3 DEF Readable, Broken
<1> HIDE DEF k
<1>5. n \in Nat
  <2>1. SubSeq(d, 3, 2 + k) \in Seq(Octets)
    <3>1. \A i \in 3..(2 + k) : d[i] \in Octets
      BY <1>1, <1>3, <1>4 DEF k
    <3> QED
      BY <1>1, <1>3, <3>1, SubSeqProperties DEF k
  <2>2. Unsigned(SubSeq(d, 3, 2 + k)) \in Nat
    BY <2>1, UnsignedIsNat
  <2> QED
    BY <1>2, <2>2 DEF SizeAt, k
<1> HIDE DEF n
<1>6. p \in Seq(Octets) /\ Len(p) = IF 2 + k < Len(d) THEN Len(d) - (2 + k) ELSE 0
  <2>1. 2 + k \in Nat
    BY <1>3 DEF k
  <2> QED
    BY <1>1, <2>1, SliceTyped DEF PastHead, k
<1>7. Len(p) \in Nat /\ Len(p) < Len(d)
  BY <1>1, <1>3, <1>4, <1>6 DEF k
<1> HIDE DEF p
<1>8. /\ Drop(p, n) \in Seq(Octets) /\ UpTo(p, n) \in Seq(Octets)
      /\ Len(Drop(p, n)) = IF n < Len(p) THEN Len(p) - n ELSE 0
      /\ Len(UpTo(p, n)) = IF n < Len(p) THEN n ELSE Len(p)
  BY <1>5, <1>6, SliceTyped
<1>9. Len(Drop(p, n)) < Len(d) /\ Len(UpTo(p, n)) < Len(d)
  BY <1>1, <1>5, <1>7, <1>8
<1> QED
  BY <1>3, <1>5, <1>6, <1>8, <1>9 DEF Inner, AfterElement, p, n, Texts

\* What is read of d depends on what is read of shorter sequences only.
AgreeBelow(f, g, d) == \A e \in Texts : Len(e) < Len(d) => f[e] = g[e]
LEMMA BodyIsLocal ==
  ASSUME NEW d \in Texts, NEW f, NEW g, AgreeBelow(f, g, d)
  PROVE  ElementsBody(f, d) = ElementsBody(g, d)
<1>1. CASE Readable(d)
  <2>1. f[Inner(d)] = g[Inner(d)] /\ f[AfterElement(d)] = g[AfterElement(d)]
    BY <1>1, HeadTyped DEF AgreeBelow
  <2>2. ReadOne(f, d) = ReadOne(g, d)
    BY <2>1, Zenon DEF ReadOne
  <2>3. /\ ElementsBody(f, d) = <<ReadOne(f, d)>> \o f[AfterElement(d)]
        /\ ElementsBody(g, d) = <<ReadOne(g, d)>> \o g[AfterElement(d)]
    BY <1>1, Zenon DEF ElementsBody, Readable
  <2> QED
    BY <2>1, <2>2, <2>3, Zenon
<1>2. CASE ~Readable(d)
  BY <1>2, Zenon DEF ElementsBody, Readable
<1> QED
  BY <1>1, <1>2

\* What Elements is on the sequences of less than n octets.
Short(n) == {d \in Texts : Len(d) < n}
Approximates(g, n) == \A d \in Short(n) : g[d] = ElementsBody(g, d)

LEMMA ApproximationsExist ==
  \A n \in Nat : \E g : Approximates(g, n)
<1> DEFINE Some == {n \in Nat : \E g : Approximates(g, n)}
<1>0. \A d \in Texts : Len(d) \in Nat
  BY LenProperties DEF Texts
<1>1. ASSUME NEW n \in Nat, n # 0, NEW g, Approximates(g, n - 1) PROVE \E k : Approximates(k, n)
  <2> DEFINE k == [d \in Short(n) |-> ElementsBody(g, d)]
  <2>1. \A d \in Short(n) : k[d] = ElementsBody(g, d)
    OBVIOUS
  <2> HIDE DEF k
  <2>2. ASSUME NEW d \in Short(n) PROVE k[d] = ElementsBody(k, d)
    <3>1. d \in Texts /\ Len(d) < n
      BY DEF Short
    <3>2. ASSUME NEW e \in Texts, Len(e) < Len(d) PROVE g[e] = k[e]
      <4>1. e \in Short(n) /\ e \in Short(n - 1)
        BY <1>0, <1>1, <3>1, <3>2 DEF Short
      <4> QED
        BY <1>1, <2>1, <4>1, Zenon DEF Approximates
    <3>3. AgreeBelow(g, k, d)
      BY <3>2 DEF AgreeBelow
    <3>4. ElementsBody(g, d) = ElementsBody(k, d)
      BY <3>1, <3>3, BodyIsLocal, Zenon
    <3> QED
      BY <2>1, <3>4, Zenon
  <2> QED
    BY <2>2 DEF Approximates
<1>2. 0 \in Some
  <2>1. Short(0) = {}
    BY <1>0 DEF Short
  <2>2. Approximates(<<>>, 0)
    BY <2>1 DEF Approximates
  <2> QED
    BY <2>2
<1>3. ASSUME NEW n \in Nat, \A m \in Nat : m < n => m \in Some PROVE n \in Some
  <2>1. CASE n = 0
    BY <1>2, <2>1
  <2>2. CASE n # 0
    <3>1. n - 1 \in Nat /\ n - 1 < n
      BY <2>2
    <3>2. PICK g : Approximates(g, n - 1)
      BY <1>3, <3>1
    <3> QED
      BY <1>1, <2>2, <3>2, Zenon
  <2> QED
    BY <2>1, <2>2
<1>4. \A n \in Nat : n \in Some
  <2> HIDE DEF Some
  <2> QED
    BY <1>3, AllBelow
<1> QED
  BY <1>4

LEMMA ApproximationsAgree ==
  ASSUME NEW i \in Nat, NEW j \in Nat, NEW g, NEW k, Approximates(g, i), Approximates(k, j)
  PROVE  \A d \in Texts : d \in Short(i) /\ d \in Short(j) => g[d] = k[d]
<1> DEFINE Agree == {n \in Nat : \A d \in Texts : Len(d) = n /\ n < i /\ n < j => g[d] = k[d]}
<1>0. \A d \in Texts : Len(d) \in Nat
  BY LenProperties DEF Texts
<1>1. ASSUME NEW n \in Nat, \A m \in Nat : m < n => m \in Agree PROVE n \in Agree
  <2>1. ASSUME NEW d \in Texts, Len(d) = n, n < i, n < j PROVE g[d] = k[d]
    <3>1. ASSUME NEW e \in Texts, Len(e) < Len(d) PROVE g[e] = k[e]
      <4>1. Len(e) \in Nat /\ Len(e) < n /\ Len(e) < i /\ Len(e) < j
        BY <1>0, <2>1, <3>1
      <4>2. Len(e) \in Agree
        BY <1>1, <4>1
      <4> QED
        BY <4>1, <4>2
    <3>2. ElementsBody(g, d) = ElementsBody(k, d)
      <4>1. AgreeBelow(g, k, d)
        BY <3>1 DEF AgreeBelow
      <4> QED
        BY <4>1, BodyIsLocal, Zenon
    <3>3. d \in Short(i) /\ d \in Short(j)
      BY <2>1 DEF Short
    <3> QED
      BY <3>2, <3>3, Zenon DEF Approximates
  <2> QED
    BY <2>1
<1>2. \A n \in Nat : n \in Agree
  <2> HIDE DEF Agree
  <2> QED
    BY <1>1, AllBelow
<1> QED
  BY <1>0, <1>2 DEF Short

\* What Elements says of itself.
LEMMA ElementsUnfold ==
  \A d \in Texts : Elements[d] = ElementsBody(Elements, d)
<1> DEFINE G == [n \in Nat |-> CHOOSE g : Approximates(g, n)]
           f == [d \in Texts |-> G[Len(d) + 1][d]]
<1>0. \A d \in Texts : Len(d) \in Nat /\ Len(d) + 1 \in Nat /\ d \in Short(Len(d) + 1)
  BY LenProperties DEF Texts, Short
<1>1. ASSUME NEW n \in Nat PROVE Approximates(G[n], n)
  <2>1. G[n] = CHOOSE g : Approximates(g, n)
    OBVIOUS
  <2>2. \E g : Approximates(g, n)
    BY ApproximationsExist
  <2> HIDE DEF G
  <2> QED
    BY <2>1, <2>2, Zenon
<1>2. \A d \in Texts : f[d] = G[Len(d) + 1][d]
  OBVIOUS
<1> HIDE DEF G, f
<1>3. ASSUME NEW d \in Texts PROVE f[d] = ElementsBody(f, d)
  <2> DEFINE g == G[Len(d) + 1]
  <2>1. ASSUME NEW e \in Texts, Len(e) < Len(d) PROVE g[e] = f[e]
    <3> DEFINE i == Len(d) + 1
               j == Len(e) + 1
               k == G[j]
    <3>1. e \in Short(i) /\ e \in Short(j)
      BY <1>0, <2>1 DEF Short
    <3>2. Approximates(g, i) /\ Approximates(k, j) /\ i \in Nat /\ j \in Nat
      BY <1>0, <1>1
    <3>3. f[e] = k[e]
      BY <1>2
    <3> HIDE DEF g, i, j, k
    <3>4. g[e] = k[e]
      BY <3>1, <3>2, ApproximationsAgree
    <3> QED
      BY <3>3, <3>4, Zenon
  <2>2. g[d] = ElementsBody(g, d)
    BY <1>0, <1>1, Zenon DEF Approximates
  <2> HIDE DEF g
  <2>3. ElementsBody(g, d) = ElementsBody(f, d)
    <3>1. AgreeBelow(g, f, d)
      BY <2>1 DEF AgreeBelow
    <3> QED
      BY <3>1, BodyIsLocal, Zenon
  <2> QED
    BY <1>2, <2>2, <2>3, Zenon DEF g
<1>4. f = [d \in Texts |-> ElementsBody(f, d)]
  <2>1. f = [d \in Texts |-> f[d]]
    BY DEF f
  <2> QED
    BY <1>3, <2>1
<1> DEFINE h == CHOOSE h : h = [d \in Texts |-> ElementsBody(h, d)]
<1>5. h = [d \in Texts |-> ElementsBody(h, d)]
  BY <1>4
<1>6. Elements = h
  BY DEF Elements, Texts, ElementsBody, ReadOne, Constructed, Broken, Inner, AfterElement,
         PastHead, SizeAt, LengthOctets
<1> HIDE DEF h
<1> QED
  BY <1>5, <1>6

-----------------------------------------------------------------------------
\* Sequences of elements, of which there is no set to begin with.
Sequence(r) == \E S : r \in Seq(S)

LEMMA SequencesJoin ==
  /\ Sequence(<<>>)
  /\ \A x : Sequence(<<x>>)
  /\ \A a, b : Sequence(a) /\ Sequence(b) => Sequence(a \o b)
  /\ \A a : Sequence(a) => a \o <<>> = a /\ <<>> \o a = a
<1>1. Sequence(<<>>)
  BY EmptySeq DEF Sequence
<1>2. ASSUME NEW x PROVE Sequence(<<x>>)
  <2>1. <<x>> \in Seq({x})
    OBVIOUS
  <2> QED
    BY <2>1 DEF Sequence
<1>3. ASSUME NEW a, NEW b, Sequence(a), Sequence(b) PROVE Sequence(a \o b)
  <2>1. PICK S : a \in Seq(S)
    BY <1>3 DEF Sequence
  <2>2. PICK T : b \in Seq(T)
    BY <1>3 DEF Sequence
  <2> DEFINE V == S \cup T
  <2>3. a \in Seq(V) /\ b \in Seq(V)
    <3>1. Len(a) \in Nat /\ a \in [1..Len(a) -> S] /\ Len(b) \in Nat /\ b \in [1..Len(b) -> T]
      BY <2>1, <2>2, LenProperties
    <3>2. a \in [1..Len(a) -> V] /\ b \in [1..Len(b) -> V]
      BY <3>1
    <3> QED
      BY <3>1, <3>2, IsSequence
  <2> HIDE DEF V
  <2>4. a \o b \in Seq(V)
    BY <2>3, ConcatProperties
  <2> QED
    BY <2>4 DEF Sequence
<1>4. ASSUME NEW a, Sequence(a) PROVE a \o <<>> = a /\ <<>> \o a = a
  BY <1>4, ConcatEmptySeq DEF Sequence
<1> QED
  BY <1>1, <1>2, <1>3, <1>4

\* Tuples.
OneBefore(v, a, u) ==
  /\ Sequence(v) /\ Len(v) = 1 + Len(u) /\ Len(u) \in Nat
  /\ v[1] = a /\ \A i \in 1..Len(u) : v[1 + i] = u[i]
LEMMA OnePrefixed ==
  ASSUME NEW a, NEW u, Sequence(u)
  PROVE  OneBefore(<<a>> \o u, a, u)
<1> DEFINE w == <<a>>
           v == w \o u
<1>1. PICK S : u \in Seq(S)
  BY DEF Sequence
<1> DEFINE V == S \cup {a}
<1>2. u \in Seq(V)
  <2>1. Len(u) \in Nat /\ u \in [1..Len(u) -> S]
    BY <1>1, LenProperties
  <2>2. u \in [1..Len(u) -> V]
    BY <2>1
  <2> QED
    BY <2>1, <2>2, IsSequence
<1>3. w \in Seq(V) /\ Len(w) = 1 /\ w[1] = a
  OBVIOUS
<1> HIDE DEF w, V
<1>4. /\ w \o u \in Seq(V) /\ Len(w \o u) = Len(w) + Len(u)
      /\ \A i \in 1..Len(w) + Len(u) :
           (w \o u)[i] = IF i <= Len(w) THEN w[i] ELSE u[i - Len(w)]
  BY <1>2, <1>3, ConcatProperties
<1> HIDE DEF w, v
<1>6. Len(u) \in Nat
  BY <1>2, LenProperties
<1>7. /\ v \in Seq(V) /\ Len(v) = 1 + Len(u)
      /\ \A i \in 1..1 + Len(u) : v[i] = IF i <= 1 THEN a ELSE u[i - 1]
  BY <1>3, <1>4 DEF v
<1>8. v[1] = a /\ \A i \in 1..Len(u) : v[1 + i] = u[i]
  BY <1>6, <1>7
<1> QED
  BY <1>6, <1>7, <1>8 DEF Sequence, OneBefore, v, w

\* A sequence of a few elements is a tuple of them.
LEMMA AsTuple ==
  ASSUME NEW u, Sequence(u)
  PROVE  /\ Len(u) = 2 => u = <<u[1], u[2]>>
         /\ Len(u) = 3 => u = <<u[1], u[2], u[3]>>
         /\ Len(u) = 4 => u = <<u[1], u[2], u[3], u[4]>>
         /\ Len(u) = 5 => u = <<u[1], u[2], u[3], u[4], u[5]>>
         /\ Len(u) = 6 => u = <<u[1], u[2], u[3], u[4], u[5], u[6]>>
         /\ Len(u) = 7 => u = <<u[1], u[2], u[3], u[4], u[5], u[6], u[7]>>
         /\ Len(u) = 8 => u = <<u[1], u[2], u[3], u[4], u[5], u[6], u[7], u[8]>>
<1>0. PICK S : u \in Seq(S)
  BY DEF Sequence
<1>1. Len(u) = 2 => u = <<u[1], u[2]>>
  BY <1>0, SMT
<1>2. Len(u) = 3 => u = <<u[1], u[2], u[3]>>
  BY <1>0, SMT
<1>3. Len(u) = 4 => u = <<u[1], u[2], u[3], u[4]>>
  BY <1>0, SMT
<1>4. Len(u) = 5 => u = <<u[1], u[2], u[3], u[4], u[5]>>
  BY <1>0, SMT
<1>5. Len(u) = 6 => u = <<u[1], u[2], u[3], u[4], u[5], u[6]>>
  BY <1>0, SMT
<1>6. Len(u) = 7 => u = <<u[1], u[2], u[3], u[4], u[5], u[6], u[7]>>
  BY <1>0, SMT
<1>7. Len(u) = 8 => u = <<u[1], u[2], u[3], u[4], u[5], u[6], u[7], u[8]>>
  BY <1>0, SMT
<1> QED
  BY <1>1, <1>2, <1>3, <1>4, <1>5, <1>6, <1>7

LEMMA TuplesAreSequences ==
  /\ \A a : Sequence(<<a>>)
  /\ \A a, b : Sequence(<<a, b>>)
  /\ \A a, b, c : Sequence(<<a, b, c>>)
  /\ \A a, b, c, d : Sequence(<<a, b, c, d>>)
  /\ \A a, b, c, d, e : Sequence(<<a, b, c, d, e>>)
  /\ \A a, b, c, d, e, f : Sequence(<<a, b, c, d, e, f>>)
  /\ \A a, b, c, d, e, f, g : Sequence(<<a, b, c, d, e, f, g>>)
  /\ \A a, b, c, d, e, f, g, h : Sequence(<<a, b, c, d, e, f, g, h>>)
<1>1. ASSUME NEW a PROVE Sequence(<<a>>)
  <2>1. <<a>> \in Seq({a})
    OBVIOUS
  <2> QED
    BY <2>1 DEF Sequence
<1>2. ASSUME NEW a, NEW b PROVE Sequence(<<a, b>>)
  <2>1. <<a, b>> \in Seq({a, b})
    OBVIOUS
  <2> QED
    BY <2>1 DEF Sequence
<1>3. ASSUME NEW a, NEW b, NEW c PROVE Sequence(<<a, b, c>>)
  <2>1. <<a, b, c>> \in Seq({a, b, c})
    OBVIOUS
  <2> QED
    BY <2>1 DEF Sequence
<1>4. ASSUME NEW a, NEW b, NEW c, NEW d PROVE Sequence(<<a, b, c, d>>)
  <2>1. <<a, b, c, d>> \in Seq({a, b, c, d})
    OBVIOUS
  <2> QED
    BY <2>1 DEF Sequence
<1>5. ASSUME NEW a, NEW b, NEW c, NEW d, NEW e PROVE Sequence(<<a, b, c, d, e>>)
  <2>1. <<a, b, c, d, e>> \in Seq({a, b, c, d, e})
    OBVIOUS
  <2> QED
    BY <2>1 DEF Sequence
<1>6. ASSUME NEW a, NEW b, NEW c, NEW d, NEW e, NEW f PROVE Sequence(<<a, b, c, d, e, f>>)
  <2>1. <<a, b, c, d, e, f>> \in Seq({a, b, c, d, e, f})
    OBVIOUS
  <2> QED
    BY <2>1 DEF Sequence
<1>7. ASSUME NEW a, NEW b, NEW c, NEW d, NEW e, NEW f, NEW g PROVE Sequence(<<a, b, c, d, e, f, g>>)
  <2>1. <<a, b, c, d, e, f, g>> \in Seq({a, b, c, d, e, f, g})
    OBVIOUS
  <2> QED
    BY <2>1 DEF Sequence
<1>8. ASSUME NEW a, NEW b, NEW c, NEW d, NEW e, NEW f, NEW g, NEW h
      PROVE  Sequence(<<a, b, c, d, e, f, g, h>>)
  <2>1. <<a, b, c, d, e, f, g, h>> \in Seq({a, b, c, d, e, f, g, h})
    OBVIOUS
  <2> QED
    BY <2>1 DEF Sequence
<1> QED
  BY <1>1, <1>2, <1>3, <1>4, <1>5, <1>6, <1>7, <1>8

LEMMA Prefixed ==
  /\ \A a, b : <<a>> \o <<b>> = <<a, b>>
  /\ \A a, b, c : <<a>> \o <<b, c>> = <<a, b, c>>
  /\ \A a, b, c, d : <<a>> \o <<b, c, d>> = <<a, b, c, d>>
  /\ \A a, b, c, d, e : <<a>> \o <<b, c, d, e>> = <<a, b, c, d, e>>
  /\ \A a, b, c, d, e, f : <<a>> \o <<b, c, d, e, f>> = <<a, b, c, d, e, f>>
  /\ \A a, b, c, d, e, f, g : <<a>> \o <<b, c, d, e, f, g>> = <<a, b, c, d, e, f, g>>
  /\ \A a, b, c, d, e, f, g, h : <<a>> \o <<b, c, d, e, f, g, h>> = <<a, b, c, d, e, f, g, h>>
<1>1. ASSUME NEW a, NEW b
      PROVE  <<a>> \o <<b>> = <<a, b>>
  <2> DEFINE u == <<b>>
             w == <<a>> \o u
  <2>0. Sequence(u)
    BY TuplesAreSequences, Zenon
  <2>1. Len(u) = 1 /\ u[1] = b
    OBVIOUS
  <2> HIDE DEF u
  <2>2. OneBefore(w, a, u)
    BY <2>0, OnePrefixed, Zenon
  <2> HIDE DEF w
  <2>3. /\ Sequence(w) /\ Len(w) = 1 + Len(u)
        /\ w[1] = a /\ \A i \in 1..Len(u) : w[1 + i] = u[i]
    BY <2>2 DEF OneBefore
  <2>4. Len(w) = 2 /\ w[1] = a /\ w[2] = b
    BY <2>1, <2>3
  <2>5. w = <<w[1], w[2]>>
    BY <2>3, <2>4, AsTuple
  <2> QED
    BY <2>4, <2>5, Zenon DEF u, w
<1>2. ASSUME NEW a, NEW b, NEW c
      PROVE  <<a>> \o <<b, c>> = <<a, b, c>>
  <2> DEFINE u == <<b, c>>
             w == <<a>> \o u
  <2>0. Sequence(u)
    BY TuplesAreSequences, Zenon
  <2>1. Len(u) = 2 /\ u[1] = b /\ u[2] = c
    OBVIOUS
  <2> HIDE DEF u
  <2>2. OneBefore(w, a, u)
    BY <2>0, OnePrefixed, Zenon
  <2> HIDE DEF w
  <2>3. /\ Sequence(w) /\ Len(w) = 1 + Len(u)
        /\ w[1] = a /\ \A i \in 1..Len(u) : w[1 + i] = u[i]
    BY <2>2 DEF OneBefore
  <2>4. Len(w) = 3 /\ w[1] = a /\ w[2] = b /\ w[3] = c
    BY <2>1, <2>3
  <2>5. w = <<w[1], w[2], w[3]>>
    BY <2>3, <2>4, AsTuple
  <2> QED
    BY <2>4, <2>5, Zenon DEF u, w
<1>3. ASSUME NEW a, NEW b, NEW c, NEW d
      PROVE  <<a>> \o <<b, c, d>> = <<a, b, c, d>>
  <2> DEFINE u == <<b, c, d>>
             w == <<a>> \o u
  <2>0. Sequence(u)
    BY TuplesAreSequences, Zenon
  <2>1. Len(u) = 3 /\ u[1] = b /\ u[2] = c /\ u[3] = d
    OBVIOUS
  <2> HIDE DEF u
  <2>2. OneBefore(w, a, u)
    BY <2>0, OnePrefixed, Zenon
  <2> HIDE DEF w
  <2>3. /\ Sequence(w) /\ Len(w) = 1 + Len(u)
        /\ w[1] = a /\ \A i \in 1..Len(u) : w[1 + i] = u[i]
    BY <2>2 DEF OneBefore
  <2>4. Len(w) = 4 /\ w[1] = a /\ w[2] = b /\ w[3] = c /\ w[4] = d
    BY <2>1, <2>3
  <2>5. w = <<w[1], w[2], w[3], w[4]>>
    BY <2>3, <2>4, AsTuple
  <2> QED
    BY <2>4, <2>5, Zenon DEF u, w
<1>4. ASSUME NEW a, NEW b, NEW c, NEW d, NEW e
      PROVE  <<a>> \o <<b, c, d, e>> = <<a, b, c, d, e>>
  <2> DEFINE u == <<b, c, d, e>>
             w == <<a>> \o u
  <2>0. Sequence(u)
    BY TuplesAreSequences, Zenon
  <2>1. Len(u) = 4 /\ u[1] = b /\ u[2] = c /\ u[3] = d /\ u[4] = e
    OBVIOUS
  <2> HIDE DEF u
  <2>2. OneBefore(w, a, u)
    BY <2>0, OnePrefixed, Zenon
  <2> HIDE DEF w
  <2>3. /\ Sequence(w) /\ Len(w) = 1 + Len(u)
        /\ w[1] = a /\ \A i \in 1..Len(u) : w[1 + i] = u[i]
    BY <2>2 DEF OneBefore
  <2>4. Len(w) = 5 /\ w[1] = a /\ w[2] = b /\ w[3] = c /\ w[4] = d /\ w[5] = e
    BY <2>1, <2>3
  <2>5. w = <<w[1], w[2], w[3], w[4], w[5]>>
    BY <2>3, <2>4, AsTuple
  <2> QED
    BY <2>4, <2>5, Zenon DEF u, w
<1>5. ASSUME NEW a, NEW b, NEW c, NEW d, NEW e, NEW f
      PROVE  <<a>> \o <<b, c, d, e, f>> = <<a, b, c, d, e, f>>
  <2> DEFINE u == <<b, c, d, e, f>>
             w == <<a>> \o u
  <2>0. Sequence(u)
    BY TuplesAreSequences, Zenon
  <2>1. Len(u) = 5 /\ u[1] = b /\ u[2] = c /\ u[3] = d /\ u[4] = e /\ u[5] = f
    OBVIOUS
  <2> HIDE DEF u
  <2>2. OneBefore(w, a, u)
    BY <2>0, OnePrefixed, Zenon
  <2> HIDE DEF w
  <2>3. /\ Sequence(w) /\ Len(w) = 1 + Len(u)
        /\ w[1] = a /\ \A i \in 1..Len(u) : w[1 + i] = u[i]
    BY <2>2 DEF OneBefore
  <2>4. Len(w) = 6 /\ w[1] = a /\ w[2] = b /\ w[3] = c /\ w[4] = d /\ w[5] = e /\ w[6] = f
    BY <2>1, <2>3
  <2>5. w = <<w[1], w[2], w[3], w[4], w[5], w[6]>>
    BY <2>3, <2>4, AsTuple
  <2> QED
    BY <2>4, <2>5, Zenon DEF u, w
<1>6. ASSUME NEW a, NEW b, NEW c, NEW d, NEW e, NEW f, NEW g
      PROVE  <<a>> \o <<b, c, d, e, f, g>> = <<a, b, c, d, e, f, g>>
  <2> DEFINE u == <<b, c, d, e, f, g>>
             w == <<a>> \o u
  <2>0. Sequence(u)
    BY TuplesAreSequences, Zenon
  <2>1. Len(u) = 6 /\ u[1] = b /\ u[2] = c /\ u[3] = d /\ u[4] = e /\ u[5] = f /\ u[6] = g
    OBVIOUS
  <2> HIDE DEF u
  <2>2. OneBefore(w, a, u)
    BY <2>0, OnePrefixed, Zenon
  <2> HIDE DEF w
  <2>3. /\ Sequence(w) /\ Len(w) = 1 + Len(u)
        /\ w[1] = a /\ \A i \in 1..Len(u) : w[1 + i] = u[i]
    BY <2>2 DEF OneBefore
  <2>4. Len(w) = 7 /\ w[1] = a /\ w[2] = b /\ w[3] = c /\ w[4] = d /\ w[5] = e /\ w[6] = f /\ w[7] = g
    BY <2>1, <2>3
  <2>5. w = <<w[1], w[2], w[3], w[4], w[5], w[6], w[7]>>
    BY <2>3, <2>4, AsTuple
  <2> QED
    BY <2>4, <2>5, Zenon DEF u, w
<1>7. ASSUME NEW a, NEW b, NEW c, NEW d, NEW e, NEW f, NEW g, NEW h
      PROVE  <<a>> \o <<b, c, d, e, f, g, h>> = <<a, b, c, d, e, f, g, h>>
  <2> DEFINE u == <<b, c, d, e, f, g, h>>
             w == <<a>> \o u
  <2>0. Sequence(u)
    BY TuplesAreSequences, Zenon
  <2>1. Len(u) = 7 /\ u[1] = b /\ u[2] = c /\ u[3] = d /\ u[4] = e /\ u[5] = f /\ u[6] = g /\ u[7] = h
    OBVIOUS
  <2> HIDE DEF u
  <2>2. OneBefore(w, a, u)
    BY <2>0, OnePrefixed, Zenon
  <2> HIDE DEF w
  <2>3. /\ Sequence(w) /\ Len(w) = 1 + Len(u)
        /\ w[1] = a /\ \A i \in 1..Len(u) : w[1 + i] = u[i]
    BY <2>2 DEF OneBefore
  <2>4. /\ Len(w) = 8 /\ w[1] = a /\ w[2] = b /\ w[3] = c /\ w[4] = d /\ w[5] = e
         /\ w[6] = f /\ w[7] = g /\ w[8] = h
    BY <2>1, <2>3
  <2>5. w = <<w[1], w[2], w[3], w[4], w[5], w[6], w[7], w[8]>>
    BY <2>3, <2>4, AsTuple
  <2> QED
    BY <2>4, <2>5, Zenon DEF u, w
<1> QED
  BY <1>1, <1>2, <1>3, <1>4, <1>5, <1>6, <1>7

Associates(a, b, c) == a \o (b \o c) = (a \o b) \o c
LEMMA SequencesAssociate ==
  ASSUME NEW a, NEW b, NEW c, Sequence(a), Sequence(b), Sequence(c)
  PROVE  Associates(a, b, c)
<1>1. PICK S : a \in Seq(S)
  BY DEF Sequence
<1>2. PICK T : b \in Seq(T)
  BY DEF Sequence
<1>3. PICK U : c \in Seq(U)
  BY DEF Sequence
<1> DEFINE V == S \cup T \cup U
<1>4. a \in Seq(V) /\ b \in Seq(V) /\ c \in Seq(V)
  <2>1. /\ Len(a) \in Nat /\ a \in [1..Len(a) -> S] /\ Len(b) \in Nat /\ b \in [1..Len(b) -> T]
        /\ Len(c) \in Nat /\ c \in [1..Len(c) -> U]
    BY <1>1, <1>2, <1>3, LenProperties
  <2>2. a \in [1..Len(a) -> V] /\ b \in [1..Len(b) -> V] /\ c \in [1..Len(c) -> V]
    BY <2>1
  <2> QED
    BY <2>1, <2>2, IsSequence
<1> HIDE DEF V
<1> QED
  BY <1>4, Associative DEF Associates

LEMMA ElementsAreSequences ==
  \A d \in Texts : Sequence(Elements[d])
<1> DEFINE Typed == {n \in Nat : \A d \in Texts : Len(d) = n => Sequence(Elements[d])}
<1>0. \A d \in Texts : Len(d) \in Nat
  BY LenProperties DEF Texts
<1>1. ASSUME NEW n \in Nat, \A m \in Nat : m < n => m \in Typed PROVE n \in Typed
  <2>1. ASSUME NEW d \in Texts, Len(d) = n PROVE Sequence(Elements[d])
    <3>0. Elements[d] = ElementsBody(Elements, d)
      BY ElementsUnfold
    <3>1. CASE Readable(d)
      <4> DEFINE e == AfterElement(d)
      <4>1. e \in Texts /\ Len(e) \in Nat /\ Len(e) < n
        BY <1>0, <2>1, <3>1, HeadTyped
      <4>2. Sequence(Elements[e])
        BY <1>1, <4>1
      <4>3. Elements[d] = <<ReadOne(Elements, d)>> \o Elements[e]
        BY <3>0, <3>1, Zenon DEF ElementsBody, Readable
      <4> HIDE DEF e
      <4> QED
        BY <4>2, <4>3, SequencesJoin, Zenon
    <3>2. CASE ~Readable(d)
      <4>1. Elements[d] = <<>> \/ Elements[d] = <<Unreadable>>
        BY <3>0, <3>2, Zenon DEF ElementsBody, Readable
      <4> QED
        BY <4>1, SequencesJoin, Zenon
    <3> QED
      BY <3>1, <3>2
  <2> QED
    BY <2>1
<1>2. \A n \in Nat : n \in Typed
  <2> HIDE DEF Typed
  <2> QED
    BY <1>1, AllBelow
<1> QED
  BY <1>0, <1>2

-----------------------------------------------------------------------------
\* A server reads x as the elements es, whatever comes after it.
ReadOn(x, es) == \A rest \in Texts : Elements[x \o rest] = es \o Elements[rest]
ReadAs(x, es) == x \in Texts /\ Sequence(es) /\ ReadOn(x, es)

LEMMA NothingIsReadAsNothing ==
  <<>> \in Texts /\ Elements[<<>>] = <<>> /\ ReadAs(<<>>, <<>>)
<1>1. <<>> \in Texts
  BY EmptySeq DEF Texts
<1>2. Elements[<<>>] = <<>>
  BY <1>1, ElementsUnfold, Zenon DEF ElementsBody
<1>3. ASSUME NEW rest \in Texts PROVE Elements[<<>> \o rest] = <<>> \o Elements[rest]
  <2>1. <<>> \o rest = rest
    BY ConcatEmptySeq DEF Texts
  <2>2. <<>> \o Elements[rest] = Elements[rest]
    BY ElementsAreSequences, SequencesJoin, Zenon
  <2> QED
    BY <2>1, <2>2, Zenon
<1> QED
  BY <1>1, <1>2, <1>3, SequencesJoin DEF ReadAs, ReadOn

LEMMA ReadAlone ==
  ASSUME NEW x, NEW es, ReadAs(x, es)
  PROVE  Elements[x] = es
<1>1. <<>> \in Texts /\ Elements[<<>>] = <<>>
  BY NothingIsReadAsNothing
<1>2. Elements[x \o <<>>] = es \o Elements[<<>>]
  BY <1>1, Zenon DEF ReadAs, ReadOn
<1>3. x \o <<>> = x
  BY ConcatEmptySeq DEF ReadAs, Texts
<1>4. es \o <<>> = es
  BY SequencesJoin, Zenon DEF ReadAs
<1> QED
  BY <1>1, <1>2, <1>3, <1>4, Zenon

LEMMA TextsAssociate ==
  \A a, b, c \in Texts : a \o (b \o c) = (a \o b) \o c
BY Associative DEF Texts

LEMMA ReadJoined ==
  ASSUME NEW x, NEW y, NEW a, NEW b, ReadAs(x, a), ReadAs(y, b)
  PROVE  ReadAs(x \o y, a \o b)
<1>1. x \in Texts /\ y \in Texts /\ Sequence(a) /\ Sequence(b)
  BY DEF ReadAs
<1>2. ASSUME NEW rest \in Texts PROVE Elements[(x \o y) \o rest] = (a \o b) \o Elements[rest]
  <2>1. (x \o y) \o rest = x \o (y \o rest)
    BY <1>1, TextsAssociate, Zenon
  <2>2. y \o rest \in Texts
    BY <1>1, Joined
  <2>3. Elements[x \o (y \o rest)] = a \o Elements[y \o rest]
    BY <2>2, Zenon DEF ReadAs, ReadOn
  <2>4. Elements[y \o rest] = b \o Elements[rest]
    BY Zenon DEF ReadAs, ReadOn
  <2>5. Sequence(Elements[rest])
    BY ElementsAreSequences
  <2>6. a \o (b \o Elements[rest]) = (a \o b) \o Elements[rest]
    <3> DEFINE c == Elements[rest]
    <3> HIDE DEF c
    <3>1. Sequence(c)
      BY <2>5 DEF c
    <3>2. Associates(a, b, c)
      BY <1>1, <3>1, SequencesAssociate, Zenon
    <3> QED
      BY <3>2, Zenon DEF Associates, c
  <2> QED
    BY <2>1, <2>3, <2>4, <2>6, Zenon
<1>3. x \o y \in Texts /\ Sequence(a \o b)
  BY <1>1, Joined, SequencesJoin, Zenon
<1> QED
  BY <1>2, <1>3, Zenon DEF ReadAs, ReadOn

-----------------------------------------------------------------------------
\* The head that _tlv writes, as the server takes it.
EncodedHead(h, tag, n) ==
  /\ h \in Texts /\ Len(h) >= 2 /\ h[1] = tag /\ h[2] # 128
  /\ LengthOctets(h) = Len(h) - 2
  /\ h[2] >= 128 => Unsigned(SubSeq(h, 3, Len(h))) = n /\ Len(h) > 2
  /\ h[2] < 128 => h[2] = n

LEMMA OneFrom ==
  ASSUME NEW s \in Texts
  PROVE  /\ Len(s) = 3 => SubSeq(s, 3, Len(s)) = <<s[3]>>
         /\ Len(s) = 4 => SubSeq(s, 3, Len(s)) = <<s[3], s[4]>>
<1>0. s \in Seq(Octets)
  BY DEF Texts
<1>1. ASSUME Len(s) = 3 PROVE SubSeq(s, 3, 3) = <<s[3]>>
  <2> DEFINE t == SubSeq(s, 3, 3)
  <2>1. s[3] \in Octets
    <3>1. 3 \in 1..Len(s)
      BY <1>1
    <3> QED
      BY <1>0, <3>1, ElementOfSeq
  <2>2. t \in Seq(Octets) /\ Len(t) = 1 /\ t[1] = s[3]
    BY <1>0, <1>1, <2>1, SMT
  <2> HIDE DEF t
  <2>3. t = <<t[1]>>
    BY <2>2, ShortSequence
  <2> QED
    BY <2>2, <2>3 DEF t
<1>2. ASSUME Len(s) = 4 PROVE SubSeq(s, 3, 4) = <<s[3], s[4]>>
  <2> DEFINE t == SubSeq(s, 3, 4)
  <2>1. s[3] \in Octets /\ s[4] \in Octets
    <3>1. 3 \in 1..Len(s) /\ 4 \in 1..Len(s)
      BY <1>2
    <3> QED
      BY <1>0, <3>1, ElementOfSeq
  <2>2. t \in Seq(Octets) /\ Len(t) = 2 /\ t[1] = s[3] /\ t[2] = s[4]
    BY <1>0, <1>2, <2>1, SMT
  <2> HIDE DEF t
  <2>3. t = <<t[1], t[2]>>
    BY <2>2, ShortSequence
  <2> QED
    BY <2>2, <2>3 DEF t
<1> QED
  BY <1>1, <1>2

LEMMA HeadWritten ==
  ASSUME NEW tag \in Octets, NEW n \in Nat, n < Room
  PROVE  EncodedHead(<<tag>> \o EncodeLength(n), tag, n)
<1>1. CASE n < 128
  <2> DEFINE h == <<tag, n>>
  <2>1. EncodeLength(n) = <<n>> /\ n \in Octets
    BY <1>1, LengthShape, OctetIs, SMT
  <2>6. <<tag>> \o <<n>> = h
    BY Prefixed, Zenon
  <2>2. Len(h) = 2 /\ h[1] = tag /\ h[2] = n
    BY SMT
  <2>3. h \in Texts
    BY <2>1, Octetwise
  <2> HIDE DEF h
  <2>4. EncodedHead(h, tag, n)
    BY <1>1, <2>2, <2>3 DEF EncodedHead, LengthOctets
  <2> QED
    BY <2>1, <2>6, <2>4, Zenon
<1>2. CASE n >= 128 /\ n < 256
  <2> DEFINE h == <<tag, 129, n>>
  <2>1. EncodeLength(n) = <<129, n>> /\ n \in Octets /\ 129 \in Octets
    BY <1>2, LengthShape, OctetIs, SMT
  <2>6. <<tag>> \o <<129, n>> = h
    BY Prefixed, Zenon
  <2>2. /\ Len(h) = 3 /\ h[1] = tag /\ h[2] = 129
        /\ h[3] = n
    BY SMT
  <2>3. h \in Texts
    BY <2>1, Octetwise
  <2> HIDE DEF h
  <2>4. Unsigned(SubSeq(h, 3, Len(h))) = n
    <3>1. SubSeq(h, 3, Len(h)) = <<n>>
      BY <2>2, <2>3, OneFrom
    <3> QED
      BY <3>1, OneOctet
  <2>5. EncodedHead(h, tag, n)
    BY <2>2, <2>3, <2>4 DEF EncodedHead, LengthOctets
  <2> QED
    BY <2>1, <2>6, <2>5, Zenon
<1>3. CASE n >= 256
  <2>1. PICK q \in Octets, r \in Octets :
          EncodeLength(n) = <<130, q, r>> /\ n = (256 * q) + r
    BY <1>3, LengthShape
  <2> DEFINE h == <<tag, 130, q, r>>
  <2>6. <<tag>> \o <<130, q, r>> = h
    <3>1. \A b : <<tag>> \o <<b, q, r>> = <<tag, b, q, r>>
      BY Prefixed
    <3> QED
      BY <3>1
  <2>2. /\ Len(h) = 4 /\ h[1] = tag /\ h[2] = 130
        /\ h[3] = q /\ h[4] = r
    BY SMT
  <2>3. h \in Texts /\ q \in Nat /\ r \in Nat
    <3>1. 130 \in Octets
      BY OctetIs
    <3> QED
      BY <3>1, Octetwise, OctetIs
  <2> HIDE DEF h
  <2>4. Unsigned(SubSeq(h, 3, Len(h))) = n
    <3>1. SubSeq(h, 3, Len(h)) = <<q, r>>
      BY <2>2, <2>3, OneFrom
    <3>2. Unsigned(<<q, r>>) = (256 * q) + r
      BY <2>3, TwoOctets
    <3> QED
      BY <2>1, <3>1, <3>2
  <2>5. EncodedHead(h, tag, n)
    BY <2>2, <2>3, <2>4 DEF EncodedHead, LengthOctets
  <2> QED
    BY <2>1, <2>6, <2>5, Zenon
<1> QED
  BY <1>1, <1>2, <1>3

\* With contents of that length and anything after them.
LEMMA HeadRead ==
  ASSUME NEW h, NEW tag, NEW c \in Texts, EncodedHead(h, tag, Len(c)), NEW rest \in Texts
  PROVE  LET d == h \o (c \o rest)
         IN  d \in Texts /\ Readable(d) /\ d[1] = tag /\ Inner(d) = c /\ AfterElement(d) = rest
<1> DEFINE y == c \o rest
           d == h \o y
           n == Len(c)
           k == Len(h)
<1>1. /\ y \in Texts /\ h \in Texts /\ k \in Nat /\ k >= 2 /\ n \in Nat
      /\ Len(y) = n + Len(rest) /\ Len(rest) \in Nat
  BY LenProperties, ConcatProperties DEF EncodedHead, Texts
<1>2. UpTo(y, n) = c /\ Drop(y, n) = rest
  BY SliceAtBorder DEF Texts
<1> HIDE DEF y
<1>3. /\ d \in Texts /\ Len(d) = k + Len(y) /\ Drop(d, k) = y
      /\ \A i \in 1..k : d[i] = h[i]
  <2>1. h \in Seq(Octets) /\ y \in Seq(Octets) /\ Len(y) \in Nat
    BY <1>1 DEF Texts
  <2>2. /\ d \in Seq(Octets) /\ Len(d) = k + Len(y)
        /\ \A i \in 1..k + Len(y) : d[i] = IF i <= k THEN h[i] ELSE y[i - k]
    BY <2>1, ConcatProperties
  <2>3. Drop(d, k) = y
    BY <2>1, SliceAtBorder
  <2> HIDE DEF d, k
  <2>4. \A i \in 1..k : d[i] = h[i]
    <3>1. k \in Nat
      BY <1>1
    <3> QED
      BY <2>1, <2>2, <3>1
  <2> QED
    BY <2>2, <2>3, <2>4 DEF Texts
<1>4. /\ d[1] = tag /\ d[2] = h[2] /\ h[2] # 128 /\ LengthOctets(d) = k - 2
      /\ h[2] \in Nat
  <2>1. d[1] = h[1] /\ d[2] = h[2] /\ h[2] \in Octets
    BY <1>1, <1>3, ElementOfSeq DEF Texts
  <2>2. LengthOctets(d) = LengthOctets(h)
    BY <2>1, Zenon DEF LengthOctets
  <2> QED
    BY <2>1, <2>2, OctetIs DEF EncodedHead
<1>5. \A i \in 3..k : d[i] = h[i] /\ h[i] \in Octets
  BY <1>1, <1>3, ElementOfSeq DEF Texts
<1>6. SubSeq(d, 3, k) = SubSeq(h, 3, k)
  <2> DEFINE s == SubSeq(d, 3, k)
             t == SubSeq(h, 3, k)
  <2>1. \A i \in 3..k : d[i] \in Octets /\ h[i] \in Octets
    BY <1>5
  <2>2. /\ s \in Seq(Octets) /\ t \in Seq(Octets) /\ Len(s) = IF 3 <= k THEN k - 3 + 1 ELSE 0
        /\ Len(t) = Len(s)
        /\ \A i \in 1..(k - 3 + 1) : s[i] = d[3 + i - 1] /\ t[i] = h[3 + i - 1]
    BY <1>1, <1>3, <2>1, SubSeqProperties DEF Texts
  <2> HIDE DEF s, t, d
  <2>3. \A i \in 1..Len(s) : s[i] = t[i]
    <3>1. ASSUME NEW i \in 1..Len(s) PROVE s[i] = t[i]
      <4>1. i \in 1..(k - 3 + 1) /\ 3 + i - 1 \in 3..k
        BY <1>1, <2>2
      <4> QED
        BY <1>5, <2>2, <4>1
    <3> QED
      BY <3>1
  <2>4. s = t
    BY <2>2, <2>3, SeqEqual
  <2> QED
    BY <2>4 DEF s, t
<1> HIDE DEF d
<1>7. 2 + LengthOctets(d) = k /\ PastHead(d) = y
  <2>1. 2 + LengthOctets(d) = k
    BY <1>1, <1>4
  <2> QED
    BY <1>3, <2>1 DEF PastHead
<1>8. SizeAt(d) = n
  <2>1. CASE h[2] < 128
    <3>1. LengthOctets(d) = 0 /\ h[2] = n
      BY <1>4, <2>1 DEF LengthOctets, EncodedHead
    <3> QED
      BY <1>4, <3>1 DEF SizeAt
  <2>2. CASE h[2] >= 128
    <3>1. Unsigned(SubSeq(h, 3, k)) = n /\ k > 2
      BY <2>2 DEF EncodedHead
    <3>2. LengthOctets(d) # 0
      <4>1. k > 2 /\ k \in Nat /\ LengthOctets(d) = k - 2
        BY <1>1, <1>4, <3>1
      <4> HIDE DEF k
      <4> QED
        BY <4>1
    <3> QED
      BY <1>6, <1>7, <3>1, <3>2, Zenon DEF SizeAt
  <2> QED
    BY <1>4, <2>1, <2>2
<1>9. Inner(d) = c /\ AfterElement(d) = rest
  BY <1>2, <1>7, <1>8 DEF Inner, AfterElement
<1>10. Readable(d)
  <2>1. Len(d) \in Nat /\ Len(d) >= 2 /\ Len(d) >= 2 + LengthOctets(d)
    BY <1>1, <1>3, <1>7
  <2>2. d # <<>>
    BY <1>3, <2>1, EmptySeq
  <2>3. ~(Len(PastHead(d)) < SizeAt(d))
    BY <1>1, <1>7, <1>8
  <2>4. d[2] # 128
    BY <1>4
  <2>5. ~(Len(d) < 2) /\ ~(Len(d) < 2 + LengthOctets(d))
    <3> DEFINE m == 2 + LengthOctets(d)
    <3>1. m \in Nat
      BY <1>1, <1>7
    <3> HIDE DEF m
    <3>2. ~(Len(d) < m)
      BY <2>1, <3>1 DEF m
    <3> QED
      BY <2>1, <3>2 DEF m
  <2> QED
    BY <2>2, <2>3, <2>4, <2>5, Zenon DEF Readable, Broken
<1> QED
  BY <1>3, <1>4, <1>9, <1>10 DEF d, y

\* An element is read as one, with its contents if it is constructed.
LEMMA ElementRead ==
  ASSUME NEW tag \in Octets, NEW c \in Texts, Len(c) < Room, NEW rest \in Texts
  PROVE  Elements[Tlv(tag, c) \o rest] =
           <<IF Constructed(tag) THEN Node(tag, Elements[c])
             ELSE Leaf(tag, IF tag \in {2, 10, 80} THEN <<Signed(c)>> ELSE c)>>
           \o Elements[rest]
<1> DEFINE h == <<tag>> \o EncodeLength(Len(c))
           y == c \o rest
           d == h \o y
<1>1. Len(c) \in Nat
  BY LenProperties DEF Texts
<1>2. EncodedHead(h, tag, Len(c))
  BY <1>1, HeadWritten
<1> HIDE DEF h
<1>3. d \in Texts /\ Readable(d) /\ d[1] = tag /\ Inner(d) = c /\ AfterElement(d) = rest
  BY <1>2, HeadRead
<1>4. Tlv(tag, c) \o rest = d
  <2>1. h \in Texts
    BY <1>2 DEF EncodedHead
  <2>2. h \o (c \o rest) = (h \o c) \o rest
    BY <2>1, TextsAssociate, Zenon
  <2>3. Tlv(tag, c) = h \o c
    BY DEF Tlv, h
  <2> QED
    BY <2>2, <2>3, Zenon
<1> HIDE DEF d
<1>5. Elements[d] = <<ReadOne(Elements, d)>> \o Elements[AfterElement(d)]
  BY <1>3, ElementsUnfold, Zenon DEF ElementsBody, Readable
<1>6. ReadOne(Elements, d) =
        IF Constructed(tag) THEN Node(tag, Elements[c])
        ELSE Leaf(tag, IF tag \in {2, 10, 80} THEN <<Signed(c)>> ELSE c)
  BY <1>3, Zenon DEF ReadOne
<1> QED
  BY <1>3, <1>4, <1>5, <1>6, Zenon

-----------------------------------------------------------------------------
\* What a server makes of what the encoders write, as long as it is not more than
\* the length of an element has room for.
Decodes(x, es) ==
  /\ x \in Texts /\ Sequence(es)
  /\ Len(x) <= LargestPdu => ReadOn(x, es)

LEMMA NothingDecodes ==
  Decodes(<<>>, <<>>)
BY NothingIsReadAsNothing DEF Decodes, ReadAs

LEMMA DecodesJoined ==
  ASSUME NEW x, NEW y, NEW a, NEW b, Decodes(x, a), Decodes(y, b)
  PROVE  Decodes(x \o y, a \o b)
<1>1. x \in Texts /\ y \in Texts /\ Sequence(a) /\ Sequence(b)
  BY DEF Decodes
<1>2. x \o y \in Texts /\ Sequence(a \o b)
  BY <1>1, Joined, SequencesJoin, Zenon
<1>3. ASSUME Len(x \o y) <= LargestPdu PROVE ReadOn(x \o y, a \o b)
  <2>1. Len(x) <= LargestPdu /\ Len(y) <= LargestPdu
    <3>1. Len(x) \in Nat /\ Len(y) \in Nat /\ Len(x \o y) = Len(x) + Len(y)
      BY <1>1, LenProperties, ConcatProperties DEF Texts
    <3>2. LargestPdu \in Nat
      BY DEF LargestPdu
    <3> QED
      BY <1>3, <3>1, <3>2
  <2>2. ReadAs(x, a) /\ ReadAs(y, b)
    BY <1>1, <2>1 DEF Decodes, ReadAs
  <2> QED
    BY <2>2, ReadJoined DEF ReadAs
<1> QED
  BY <1>2, <1>3 DEF Decodes

\* An element that fits leaves room for its length.
LEMMA RoomWithin ==
  ASSUME NEW t \in Octets, NEW c \in Texts, Len(Tlv(t, c)) <= LargestPdu
  PROVE  Len(c) \in Nat /\ Len(c) < Room /\ Len(c) <= LargestPdu
<1> DEFINE n == Len(c)
           l == EncodeLength(n)
           h == <<t>> \o l
<1>1. n \in Nat /\ l \in Texts /\ Len(l) \in Nat
  <2>1. n \in Nat
    BY LenProperties DEF Texts
  <2>2. l \in Texts
    BY <2>1, LengthAlwaysOctets
  <2> HIDE DEF l
  <2> QED
    BY <2>1, <2>2, LenProperties DEF Texts
<1>2. n >= Room => Len(l) = 3
  <2>1. ASSUME n >= Room PROVE l = <<130, (n \div 256) % 256, n % 256>>
    <3> HIDE DEF n
    <3> QED
      BY <1>1, <2>1, SMT DEF EncodeLength, Room
  <2>2. Len(<<130, (n \div 256) % 256, n % 256>>) = 3
    OBVIOUS
  <2> HIDE DEF l, n
  <2> QED
    BY <2>1, <2>2, Zenon
<1>3. Len(Tlv(t, c)) = 1 + Len(l) + n
  <2> HIDE DEF l
  <2>1. <<t>> \in Texts /\ Len(<<t>>) = 1
    BY Octetwise
  <2>2. h \in Texts /\ Len(h) = 1 + Len(l)
    BY <1>1, <2>1, ConcatProperties DEF Texts
  <2>3. Tlv(t, c) = h \o c
    BY DEF Tlv, l
  <2> HIDE DEF h
  <2>4. Len(h \o c) = Len(h) + n
    BY <2>2, ConcatProperties DEF Texts
  <2> QED
    BY <2>2, <2>3, <2>4
<1> DEFINE k == Len(l)
<1> HIDE DEF n, l
<1>4. n < Room /\ n <= LargestPdu
  <2>1. k \in Nat /\ n \in Nat /\ 1 + k + n <= LargestPdu /\ (n >= Room => k = 3)
    BY <1>1, <1>2, <1>3
  <2> HIDE DEF k
  <2> QED
    BY <2>1, SMT DEF Room, LargestPdu
<1> QED
  BY <1>1, <1>4 DEF n

\* The tags of the requests, with and without bit 6.
Constructors == {48, 49, 96, 99, 102, 104, 119, 160, 163, 169}
Primitives == {1, 2, 4, 10, 80, 128, 129, 130, 131, 135}
LEMMA WhichAreConstructed ==
  /\ \A t \in Constructors : t \in Tags /\ t \in Octets /\ Constructed(t)
  /\ \A t \in Primitives : t \in Tags /\ t \in Octets /\ ~Constructed(t)
<1>1. \A t \in Constructors : t \in Tags /\ t \in Octets /\ Constructed(t)
  BY TagsAreOctets, SMT DEF Constructors, Constructed, Tags
<1>2. \A t \in Primitives : t \in Tags /\ t \in Octets /\ ~Constructed(t)
  BY TagsAreOctets, SMT DEF Primitives, Constructed, Tags
<1> QED
  BY <1>1, <1>2

LEMMA NodeDecodes ==
  ASSUME NEW t \in Constructors, NEW c, NEW es, Decodes(c, es)
  PROVE  Decodes(Tlv(t, c), <<Node(t, es)>>)
<1>1. t \in Tags /\ t \in Octets /\ Constructed(t)
  BY WhichAreConstructed
<1>2. c \in Texts /\ Tlv(t, c) \in Texts
  BY <1>1, Tagged DEF Decodes
<1>3. Sequence(<<Node(t, es)>>)
  BY SequencesJoin, Zenon
<1>4. ASSUME Len(Tlv(t, c)) <= LargestPdu, NEW rest \in Texts
      PROVE  Elements[Tlv(t, c) \o rest] = <<Node(t, es)>> \o Elements[rest]
  <2>1. Len(c) < Room /\ Len(c) <= LargestPdu
    BY <1>1, <1>2, <1>4, RoomWithin
  <2>2. Elements[c] = es
    <3>1. ReadAs(c, es)
      BY <1>2, <2>1 DEF Decodes, ReadAs
    <3> QED
      BY <3>1, ReadAlone
  <2>3. Elements[Tlv(t, c) \o rest] =
          <<IF Constructed(t) THEN Node(t, Elements[c])
            ELSE Leaf(t, IF t \in {2, 10, 80} THEN <<Signed(c)>> ELSE c)>> \o Elements[rest]
    BY <1>1, <1>2, <2>1, ElementRead
  <2> QED
    BY <1>1, <2>2, <2>3, Zenon
<1> QED
  BY <1>2, <1>3, <1>4 DEF Decodes, ReadOn

\* A primitive one, of which v is made.
LEMMA LeafDecodes ==
  ASSUME NEW t \in Primitives, NEW c \in Texts, NEW v,
         v = IF t \in {2, 10, 80} THEN <<Signed(c)>> ELSE c
  PROVE  Decodes(Tlv(t, c), <<Leaf(t, v)>>)
<1>1. t \in Tags /\ t \in Octets /\ ~Constructed(t)
  BY WhichAreConstructed
<1>2. Tlv(t, c) \in Texts
  BY <1>1, Tagged
<1>3. Sequence(<<Leaf(t, v)>>)
  BY SequencesJoin, Zenon
<1>4. ASSUME Len(Tlv(t, c)) <= LargestPdu, NEW rest \in Texts
      PROVE  Elements[Tlv(t, c) \o rest] = <<Leaf(t, v)>> \o Elements[rest]
  <2>1. Len(c) < Room
    BY <1>1, <1>4, RoomWithin
  <2>2. Elements[Tlv(t, c) \o rest] =
          <<IF Constructed(t) THEN Node(t, Elements[c])
            ELSE Leaf(t, IF t \in {2, 10, 80} THEN <<Signed(c)>> ELSE c)>> \o Elements[rest]
    BY <1>1, <2>1, ElementRead
  <2> QED
    BY <1>1, <2>2, Zenon
<1> QED
  BY <1>2, <1>3, <1>4 DEF Decodes, ReadOn

\* Octet strings, and what is tagged as other primitive elements.
LEMMA StringDecodes ==
  /\ \A t \in {1, 4, 128, 129, 130, 131, 135} : \A c \in Texts : Decodes(Tlv(t, c), <<Leaf(t, c)>>)
  /\ \A c \in Texts : Decodes(EncodeOctetString(c), <<Str(c)>>)
<1> DEFINE Plain == {1, 4, 128, 129, 130, 131, 135}
<1>0. Plain \subseteq Primitives /\ \A t \in Plain : t \notin {2, 10, 80}
  <2>1. Plain \subseteq Primitives
    BY DEF Primitives
  <2>2. \A t \in Plain : t \notin {2, 10, 80}
    BY SMT
  <2> QED
    BY <2>1, <2>2
<1> HIDE DEF Plain
<1>1. ASSUME NEW t \in Plain, NEW c \in Texts PROVE Decodes(Tlv(t, c), <<Leaf(t, c)>>)
  <2>1. t \in Primitives
    BY <1>0
  <2>2. c = IF t \in {2, 10, 80} THEN <<Signed(c)>> ELSE c
    BY <1>0, Zenon
  <2> QED
    BY <2>1, <2>2, LeafDecodes
<1>2. ASSUME NEW c \in Texts PROVE Decodes(EncodeOctetString(c), <<Str(c)>>)
  <2>1. Decodes(Tlv(4, c), <<Leaf(4, c)>>)
    BY <1>1 DEF Plain
  <2> QED
    BY <2>1, Zenon DEF EncodeOctetString, Str
<1> QED
  BY <1>1, <1>2 DEF Plain

LEMMA SignedIs ==
  ASSUME NEW c \in Texts, c # <<>>, c[1] < 128
  PROVE  Signed(c) = Unsigned(c)
<1>1. Unsigned(c) \in Nat
  BY UnsignedIsNat DEF Texts
<1>2. c[1] \in Nat
  <2>1. 1 \in 1..Len(c)
    BY EmptySeq DEF Texts
  <2> QED
    BY <2>1, ElementOfSeq, OctetIs DEF Texts
<1>3. ~(c[1] > 127)
  BY <1>2
<1>4. Signed(c) = Unsigned(c) - 0
  BY <1>3, Zenon DEF Signed
<1> QED
  BY <1>1, <1>4

\* Numbers: never taken for negative ones.
LEMMA NumberDecodes ==
  ASSUME NEW n \in Numbers
  PROVE  Decodes(EncodeInteger(n), <<Num(n)>>)
<1> DEFINE c == IntegerOctets(n)
<1>1. n \in Nat /\ n < Large
  BY SMT DEF Numbers, Large
<1>2. c \in Texts /\ Len(c) \in 1..4 /\ c[1] < 128 /\ Unsigned(c) = n
  BY <1>1, NumbersReadBack DEF Texts
<1> HIDE DEF c
<1>3. c # <<>>
  BY <1>2, EmptySeq
<1>4. Signed(c) = n
  BY <1>2, <1>3, SignedIs
<1>5. 2 \in Primitives
  BY DEF Primitives
<1>6. <<n>> = IF 2 \in {2, 10, 80} THEN <<Signed(c)>> ELSE c
  BY <1>4
<1>7. Decodes(Tlv(2, c), <<Leaf(2, <<n>>)>>)
  BY <1>2, <1>5, <1>6, LeafDecodes, Zenon
<1> QED
  BY <1>7, Zenon DEF EncodeInteger, Num, c

\* An element of one octet, as it is written out in some places.
LEMMA OneOctetElement ==
  ASSUME NEW t, NEW a
  PROVE  <<t, 1, a>> = Tlv(t, <<a>>)
<1>1. Len(<<a>>) = 1
  OBVIOUS
<1>2. EncodeLength(1) = <<1>>
  BY SMT DEF EncodeLength
<1>3. Tlv(t, <<a>>) = (<<t>> \o <<1>>) \o <<a>>
  BY <1>1, <1>2, Zenon DEF Tlv
<1>4. Sequence(<<t>>) /\ Sequence(<<1>>) /\ Sequence(<<a>>)
  BY SequencesJoin, Zenon
<1>5. Associates(<<t>>, <<1>>, <<a>>)
  BY <1>4, SequencesAssociate, Zenon
<1>6. <<t>> \o (<<1>> \o <<a>>) = (<<t>> \o <<1>>) \o <<a>>
  BY <1>5, Zenon DEF Associates
<1>7. <<1>> \o <<a>> = <<1, a>>
  BY Prefixed, Zenon
<1>8. <<t>> \o <<1, a>> = <<t, 1, a>>
  <2>1. \A b : <<t>> \o <<b, a>> = <<t, b, a>>
    BY Prefixed, Zenon
  <2> QED
    BY <2>1, Zenon
<1> QED
  BY <1>3, <1>6, <1>7, <1>8, Zenon

LEMMA OneOctetDecodes ==
  /\ \A n \in 0..127 : Decodes(EncodeEnumerated(n), <<Enum(n)>>)
  /\ \A a \in Octets : Decodes(<<1, 1, a>>, <<Leaf(1, <<a>>)>>)
<1>1. ASSUME NEW n \in 0..127 PROVE Decodes(EncodeEnumerated(n), <<Enum(n)>>)
  <2> DEFINE c == <<n>>
  <2>1. n \in Octets /\ n \in Nat
    BY DEF Octets
  <2>2. c \in Texts /\ c # <<>> /\ c[1] < 128
    BY <2>1, Octetwise
  <2>3. Unsigned(c) = n
    BY <2>1, OneOctet
  <2> HIDE DEF c
  <2>4. Signed(c) = n
    BY <2>2, <2>3, SignedIs
  <2>5. 10 \in Primitives
    BY DEF Primitives
  <2>6. <<n>> = IF 10 \in {2, 10, 80} THEN <<Signed(c)>> ELSE c
    BY <2>4
  <2>7. Decodes(Tlv(10, c), <<Leaf(10, <<n>>)>>)
    BY <2>2, <2>5, <2>6, LeafDecodes, Zenon
  <2>8. <<10, 1, n>> = Tlv(10, c)
    BY OneOctetElement DEF c
  <2> QED
    BY <2>7, <2>8, Zenon DEF EncodeEnumerated, Enum
<1>2. ASSUME NEW a \in Octets PROVE Decodes(<<1, 1, a>>, <<Leaf(1, <<a>>)>>)
  <2>1. <<a>> \in Texts
    BY Octetwise
  <2>2. Decodes(Tlv(1, <<a>>), <<Leaf(1, <<a>>)>>)
    BY <2>1, StringDecodes
  <2>3. <<1, 1, a>> = Tlv(1, <<a>>)
    BY OneOctetElement
  <2> QED
    BY <2>2, <2>3, Zenon
<1> QED
  BY <1>1, <1>2

-----------------------------------------------------------------------------
\* Lists: each member is written as g says and read as e says.
LEMMA ListDecodes ==
  ASSUME NEW S, NEW g \in [S -> Texts], NEW V, NEW e \in [S -> V],
         \A s \in S : Decodes(g[s], <<e[s]>>)
  PROVE  \A ss \in Seq(S) : Decodes(Concat(Map(g, ss)), Map(e, ss))
<1> DEFINE T == {ss \in Seq(S) : Decodes(Concat(Map(g, ss)), Map(e, ss))}
<1>1. <<>> \in T
  <2>1. <<>> \in Seq(S) /\ <<>> \in Seq(Texts)
    BY EmptySeq
  <2>2. Map(g, <<>>) = <<>> /\ Map(e, <<>>) = <<>>
    <3>1. MapsInto(g, S, Texts) /\ MapsInto(e, S, V)
      BY MapTyped
    <3>2. /\ Map(g, <<>>) \in Seq(Texts) /\ Len(Map(g, <<>>)) = Len(<<>>)
          /\ Map(e, <<>>) \in Seq(V) /\ Len(Map(e, <<>>)) = Len(<<>>)
      BY <2>1, <3>1, Zenon DEF MapsInto
    <3> DEFINE x == Map(g, <<>>)
               y == Map(e, <<>>)
    <3> HIDE DEF x, y
    <3>3. x = <<>> /\ y = <<>>
      BY <3>2, EmptySeq DEF x, y
    <3> QED
      BY <3>3, Zenon DEF x, y
  <2>3. Concat(<<>>) = <<>>
    BY DEF Concat, FlattenSeq
  <2> QED
    BY <2>1, <2>2, <2>3, NothingDecodes, Zenon
<1>2. ASSUME NEW ss \in Seq(S), NEW s \in S, ss \in T PROVE Append(ss, s) \in T
  <2> DEFINE x == Map(g, ss)
             y == Map(e, ss)
             a == g[s]
             b == e[s]
             tt == Append(ss, s)
  <2>1. x \in Seq(Texts) /\ y \in Seq(V) /\ a \in Texts /\ b \in V
    <3>1. MapsInto(g, S, Texts) /\ MapsInto(e, S, V)
      BY MapTyped
    <3> QED
      BY <3>1 DEF MapsInto
  <2>2. Map(g, tt) = Append(x, a) /\ Map(e, tt) = Append(y, b)
    <3>1. Map(g, tt) = Append(x, a)
      BY MapGrows, ZenonT(40)
    <3>2. Map(e, tt) = Append(y, b)
      BY MapGrows, ZenonT(40)
    <3> QED
      BY <3>1, <3>2, Zenon
  <2>3. Decodes(Concat(x), y) /\ Decodes(a, <<b>>)
    BY <1>2
  <2>4. tt \in Seq(S)
    BY AppendProperties
  <2> HIDE DEF x, y, a, b, tt
  <2>5. Concat(Append(x, a)) = Concat(x) \o a
    BY <2>1, FlattenGrows DEF Concat, Texts
  <2>6. Append(y, b) = y \o <<b>>
    BY <2>1, AppendIsConcat
  <2>7. Decodes(Concat(x) \o a, y \o <<b>>)
    BY <2>3, DecodesJoined, Zenon
  <2> QED
    BY <2>2, <2>4, <2>5, <2>6, <2>7, Zenon DEF tt
<1>3. \A ss \in Seq(S) : ss \in T
  <2> HIDE DEF T
  <2> QED
    BY <1>1, <1>2, Sequences
<1> QED
  BY <1>3

-----------------------------------------------------------------------------
\* Octets that are elements themselves: the controls and the filter that a caller
\* gives.

LEMMA SplitAt ==
  ASSUME NEW a \in Texts, NEW n \in Nat, n <= Len(a)
  PROVE  /\ UpTo(a, n) \in Texts /\ Drop(a, n) \in Texts /\ Len(UpTo(a, n)) = n
         /\ UpTo(a, n) = SubSeq(a, 1, n)
         /\ a = UpTo(a, n) \o Drop(a, n)
<1> DEFINE x == UpTo(a, n)
           y == Drop(a, n)
           k == Len(a)
<1>1. a \in Seq(Octets) /\ k \in Nat /\ n <= k
  BY LenProperties DEF Texts
<1>2. x = SubSeq(a, 1, n) /\ y = SubSeq(a, n + 1, k)
  <2>1. (IF n < k THEN n ELSE k) = n
    BY <1>1
  <2> QED
    BY <2>1, Zenon DEF UpTo, Drop
<1>3. \A i \in 1..n : a[i] \in Octets
  BY <1>1, ElementOfSeq
<1>4. \A i \in (n + 1)..k : a[i] \in Octets
  BY <1>1, ElementOfSeq
<1>5. x \in Seq(Octets) /\ Len(x) = n /\ \A i \in 1..n : x[i] = a[i]
  <2>1. /\ SubSeq(a, 1, n) \in Seq(Octets)
        /\ Len(SubSeq(a, 1, n)) = IF 1 <= n THEN n - 1 + 1 ELSE 0
        /\ \A i \in 1..n - 1 + 1 : SubSeq(a, 1, n)[i] = a[1 + i - 1]
    BY <1>1, <1>3, SubSeqProperties
  <2> HIDE DEF x
  <2> QED
    BY <1>2, <2>1
<1>6. y \in Seq(Octets) /\ Len(y) = k - n /\ \A i \in 1..(k - n) : y[i] = a[n + i]
  <2>1. /\ SubSeq(a, n + 1, k) \in Seq(Octets)
        /\ Len(SubSeq(a, n + 1, k)) = IF n + 1 <= k THEN k - (n + 1) + 1 ELSE 0
        /\ \A i \in 1..k - (n + 1) + 1 : SubSeq(a, n + 1, k)[i] = a[(n + 1) + i - 1]
    BY <1>1, <1>4, SubSeqProperties
  <2> HIDE DEF y, k
  <2>2. /\ y \in Seq(Octets) /\ Len(y) = IF n + 1 <= k THEN k - (n + 1) + 1 ELSE 0
        /\ \A i \in 1..k - (n + 1) + 1 : y[i] = a[(n + 1) + i - 1]
    BY <1>2, <2>1
  <2>3. \A i \in 1..(k - n) : i \in 1..k - (n + 1) + 1 /\ (n + 1) + i - 1 = n + i
    BY <1>1
  <2> QED
    BY <1>1, <2>2, <2>3
<1> HIDE DEF x, y
<1>7. x \o y \in Seq(Octets) /\ Len(x \o y) = k
      /\ \A i \in 1..k : (x \o y)[i] = IF i <= n THEN x[i] ELSE y[i - n]
  <2>1. /\ x \o y \in Seq(Octets) /\ Len(x \o y) = Len(x) + Len(y)
        /\ \A i \in 1..Len(x) + Len(y) : (x \o y)[i] = IF i <= Len(x) THEN x[i] ELSE y[i - Len(x)]
    BY <1>5, <1>6, ConcatProperties
  <2> HIDE DEF k
  <2>2. Len(x) = n /\ Len(y) = k - n /\ n + (k - n) = k
    BY <1>1, <1>5, <1>6
  <2> QED
    BY <2>1, <2>2
<1> DEFINE z == x \o y
<1> HIDE DEF z, k
<1>8. \A i \in 1..k : z[i] = a[i]
  <2>1. ASSUME NEW i \in 1..k PROVE z[i] = a[i]
    <3>1. CASE i <= n
      BY <1>5, <1>7, <3>1 DEF z
    <3>2. CASE ~(i <= n)
      <4>1. i - n \in 1..(k - n) /\ n + (i - n) = i
        BY <1>1, <3>2
      <4>2. z[i] = y[i - n]
        BY <1>7, <3>2 DEF z
      <4> QED
        BY <1>6, <4>1, <4>2
    <3> QED
      BY <3>1, <3>2
  <2> QED
    BY <2>1
<1>9. a = z
  BY <1>1, <1>7, <1>8, SeqEqual DEF z, k
<1> QED
  BY <1>2, <1>5, <1>6, <1>9, Zenon DEF x, y, z, Texts

\* An element that can be read is a head, its contents and what follows.
LEMMA HeadSplit ==
  ASSUME NEW d \in Texts, Readable(d)
  PROVE  \E h : EncodedHead(h, d[1], Len(Inner(d))) /\ d = h \o (Inner(d) \o AfterElement(d))
<1> DEFINE k == 2 + LengthOctets(d)
           h == UpTo(d, k)
           p == PastHead(d)
           n == SizeAt(d)
<1>1. /\ LengthOctets(d) \in Nat /\ n \in Nat /\ p \in Texts
      /\ Len(d) \in Nat /\ Len(d) >= k /\ Len(p) \in Nat /\ Len(p) >= n
  <2>1. LengthOctets(d) \in Nat /\ n \in Nat /\ p \in Texts
    BY HeadTyped
  <2>2. Len(d) \in Nat /\ Len(p) \in Nat
    BY <2>1, LenProperties DEF Texts
  <2>3. ~(Len(d) < k) /\ ~(Len(p) < n)
    BY Zenon DEF Readable, Broken
  <2> HIDE DEF p, n
  <2> QED
    BY <2>1, <2>2, <2>3
<1>2. k \in Nat /\ k >= 2 /\ k <= Len(d)
  BY <1>1
<1>3. h \in Texts /\ Len(h) = k /\ h = SubSeq(d, 1, k) /\ d = h \o p
  <2> HIDE DEF k, p
  <2> QED
    BY <1>2, SplitAt DEF p, k, PastHead
<1>4. p = Inner(d) \o AfterElement(d) /\ Len(Inner(d)) = n
  <2> HIDE DEF p, n
  <2>1. n <= Len(p)
    BY <1>1
  <2>2. UpTo(p, n) \o Drop(p, n) = p /\ Len(UpTo(p, n)) = n
    BY <1>1, <2>1, SplitAt
  <2> QED
    BY <2>2, Zenon DEF p, n, Inner, AfterElement
<1>5. \A i \in 1..k : h[i] = d[i]
  <2>1. \A i \in 1..k : d[i] \in Octets
    BY <1>1, <1>2, ElementOfSeq DEF Texts
  <2> HIDE DEF k, h
  <2>2. \A i \in 1..k - 1 + 1 : h[i] = d[1 + i - 1]
    BY <1>2, <1>3, <2>1, SubSeqProperties DEF Texts
  <2> QED
    BY <1>2, <2>2
<1>6. h[1] = d[1] /\ h[2] = d[2] /\ d[2] \in Nat /\ d[2] # 128
  <2>1. 1 \in 1..k /\ 2 \in 1..k /\ 2 \in 1..Len(d)
    BY <1>1, <1>2
  <2>2. d[2] \in Octets
    BY <2>1, ElementOfSeq DEF Texts
  <2> HIDE DEF h, k
  <2> QED
    BY <1>5, <2>1, <2>2, OctetIs DEF Readable, Broken
<1> HIDE DEF h
<1>7. LengthOctets(h) = Len(h) - 2
  <2>1. LengthOctets(h) = LengthOctets(d)
    BY <1>6, Zenon DEF LengthOctets
  <2> QED
    BY <1>1, <1>3, <2>1
<1>8. h[2] < 128 => h[2] = n
  <2>1. ASSUME h[2] < 128 PROVE h[2] = n
    <3>1. LengthOctets(d) = 0
      BY <1>6, <2>1 DEF LengthOctets
    <3> QED
      BY <1>6, <3>1 DEF SizeAt
  <2> QED
    BY <2>1
<1>9. h[2] >= 128 => Unsigned(SubSeq(h, 3, Len(h))) = n /\ Len(h) > 2
  <2>1. ASSUME h[2] >= 128 PROVE Unsigned(SubSeq(h, 3, Len(h))) = n /\ Len(h) > 2
    <3>1. LengthOctets(d) = d[2] - 128 /\ d[2] > 128
      BY <1>6, <2>1 DEF LengthOctets
    <3>2. LengthOctets(d) # 0 /\ k > 2
      BY <1>6, <3>1
    <3>3. SubSeq(h, 3, k) = SubSeq(d, 3, k)
      <4> DEFINE s == SubSeq(d, 3, k)
                 t == SubSeq(h, 3, k)
      <4> HIDE DEF k
      <4>0. \A i \in 3..k : i \in 1..k /\ i \in 1..Len(d) /\ i \in 1..Len(h)
        BY <1>1, <1>2, <1>3
      <4>1. \A i \in 3..k : d[i] \in Octets /\ h[i] \in Octets
        BY <1>3, <4>0, ElementOfSeq DEF Texts
      <4>2. /\ s \in Seq(Octets) /\ t \in Seq(Octets) /\ Len(s) = IF 3 <= k THEN k - 3 + 1 ELSE 0
            /\ Len(t) = Len(s)
            /\ \A i \in 1..(k - 3 + 1) : s[i] = d[3 + i - 1] /\ t[i] = h[3 + i - 1]
        BY <1>2, <1>3, <4>1, SubSeqProperties DEF Texts
      <4> HIDE DEF s, t
      <4>3. \A i \in 1..Len(s) : s[i] = t[i]
        <5>1. ASSUME NEW i \in 1..Len(s) PROVE s[i] = t[i]
          <6>1. i \in 1..(k - 3 + 1) /\ 3 + i - 1 \in 1..k
            BY <1>2, <4>2
          <6> QED
            BY <1>5, <4>2, <6>1
        <5> QED
          BY <5>1
      <4>4. s = t
        BY <4>2, <4>3, SeqEqual
      <4> QED
        BY <4>4 DEF s, t
    <3>4. Unsigned(SubSeq(d, 3, k)) = n
      BY <3>2, Zenon DEF SizeAt
    <3> HIDE DEF n
    <3> QED
      BY <1>3, <3>2, <3>3, <3>4
  <2> QED
    BY <2>1
<1>10. EncodedHead(h, d[1], n)
  <2> HIDE DEF n
  <2> QED
    BY <1>2, <1>3, <1>6, <1>7, <1>8, <1>9 DEF EncodedHead
<1>11. EncodedHead(h, d[1], Len(Inner(d))) /\ d = h \o (Inner(d) \o AfterElement(d))
  BY <1>3, <1>4, <1>10, Zenon
<1> QED
  BY <1>11

Regroups(h, c, y, r) == (h \o (c \o y)) \o r = h \o (c \o (y \o r))
LEMMA Regrouped ==
  ASSUME NEW h \in Texts, NEW c \in Texts, NEW y \in Texts, NEW r \in Texts
  PROVE  Regroups(h, c, y, r)
<1> DEFINE w == c \o y
<1>1. w \in Texts
  BY Joined
<1>2. w \o r = c \o (y \o r)
  BY TextsAssociate
<1> HIDE DEF w
<1>3. Associates(h, w, r)
  BY <1>1, TextsAssociate DEF Associates
<1>4. (h \o w) \o r = h \o (w \o r)
  BY <1>3, Zenon DEF Associates
<1> QED
  BY <1>2, <1>4, Zenon DEF w, Regroups

\* What comes after it is no part of it.
LEMMA HeadStays ==
  ASSUME NEW d \in Texts, Readable(d), NEW rest \in Texts
  PROVE  LET z == d \o rest
         IN  /\ z \in Texts /\ Readable(z) /\ z[1] = d[1] /\ Inner(z) = Inner(d)
             /\ AfterElement(z) = AfterElement(d) \o rest
<1> DEFINE c == Inner(d)
           y == AfterElement(d)
           t == y \o rest
           z == d \o rest
           Is(v, k) == /\ v \in Texts /\ Readable(v) /\ v[1] = d[1] /\ Inner(v) = c
                       /\ AfterElement(v) = k
<1>1. PICK h : EncodedHead(h, d[1], Len(c)) /\ d = h \o (c \o y)
  BY HeadSplit
<1>2. h \in Texts /\ c \in Texts /\ y \in Texts
  BY <1>1, HeadTyped DEF EncodedHead
<1> HIDE DEF c, y
<1>3. t \in Texts
  BY <1>2, Joined
<1>4. z = h \o (c \o t)
  <2>1. Regroups(h, c, y, rest)
    BY <1>2, Regrouped
  <2> QED
    BY <1>1, <2>1, Zenon DEF Regroups
<1> HIDE DEF t, z
<1>5. Is(h \o (c \o t), t)
  <2>1. EncodedHead(h, d[1], Len(c)) /\ c \in Texts /\ t \in Texts
    BY <1>1, <1>2, <1>3
  <2> QED
    BY <2>1, HeadRead, ZenonT(40)
<1> HIDE DEF Is
<1>6. Is(z, t)
  BY <1>4, <1>5, Zenon
<1> QED
  BY <1>6, Zenon DEF c, t, y, z, Is

LEMMA ReadableUnfolds ==
  ASSUME NEW d \in Texts, Readable(d)
  PROVE  Elements[d] = <<ReadOne(Elements, d)>> \o Elements[AfterElement(d)]
<1>1. Elements[d] = ElementsBody(Elements, d)
  BY ElementsUnfold
<1>2. ElementsBody(Elements, d) = <<ReadOne(Elements, d)>> \o Elements[AfterElement(d)]
  BY Zenon DEF Readable, ElementsBody
<1> QED
  BY <1>1, <1>2

LEMMA NothingUnreadable ==
  ASSUME NEW d \in Texts, d # <<>>, ReadableElements(d)
  PROVE  Readable(d) /\ ReadableElements(AfterElement(d))
<1> DEFINE es == Elements[d]
<1>1. Readable(d)
  <2> SUFFICES ASSUME ~Readable(d) PROVE FALSE
    OBVIOUS
  <2>1. Elements[d] = ElementsBody(Elements, d)
    BY ElementsUnfold
  <2>2. Len(d) < 2 \/ Broken(d)
    BY DEF Readable
  <2>3. Elements[d] = <<Unreadable>>
    BY <2>1, <2>2, Zenon DEF ElementsBody
  <2>4. 1 \in DOMAIN <<Unreadable>> /\ <<Unreadable>>[1] = Unreadable
    OBVIOUS
  <2> QED
    BY <2>3, <2>4, Zenon DEF ReadableElements
<1> DEFINE a == ReadOne(Elements, d)
           y == AfterElement(d)
           u == Elements[y]
<1>2. es = <<a>> \o u /\ y \in Texts
  BY <1>1, ReadableUnfolds, HeadTyped
<1>3. Sequence(u)
  BY <1>2, ElementsAreSequences
<1> HIDE DEF a, u, y
<1>4. OneBefore(es, a, u)
  <2>1. OneBefore(<<a>> \o u, a, u)
    BY <1>3, OnePrefixed
  <2> HIDE DEF es
  <2> QED
    BY <1>2, <2>1, Zenon
<1>5. \A e : Sequence(e) => Len(e) \in Nat /\ DOMAIN e = 1..Len(e)
  BY LenProperties DEF Sequence
<1>6. ASSUME NEW i \in DOMAIN u PROVE u[i] # Unreadable
  <2> HIDE DEF es
  <2>1. Len(u) \in Nat /\ i \in 1..Len(u)
    BY <1>3, <1>5
  <2>2. DOMAIN es = 1..Len(es) /\ Len(es) = 1 + Len(u) /\ es[1 + i] = u[i]
    BY <1>4, <1>5, <2>1 DEF OneBefore
  <2>3. 1 + i \in DOMAIN es
    BY <2>1, <2>2
  <2>4. es[1 + i] # Unreadable
    BY <2>3 DEF ReadableElements, es
  <2> QED
    BY <2>2, <2>4, Zenon
<1> QED
  BY <1>1, <1>6 DEF ReadableElements, u, y

LEMMA ReadableTexts ==
  \A d \in Texts : ReadableElements(d) => Decodes(d, Elements[d])
<1> DEFINE Well == {n \in Nat : \A d \in Texts :
                      Len(d) = n /\ ReadableElements(d) => ReadOn(d, Elements[d])}
<1>0. \A d \in Texts : Len(d) \in Nat
  BY LenProperties DEF Texts
<1>1. ASSUME NEW n \in Nat, \A m \in Nat : m < n => m \in Well PROVE n \in Well
  <2>1. ASSUME NEW d \in Texts, Len(d) = n, ReadableElements(d) PROVE ReadOn(d, Elements[d])
    <3>1. CASE d = <<>>
      BY <3>1, NothingIsReadAsNothing, Zenon DEF ReadAs
    <3>2. CASE d # <<>>
      <4> DEFINE y == AfterElement(d)
                 u == Elements[y]
                 a == ReadOne(Elements, d)
      <4>1. Readable(d) /\ ReadableElements(y)
        BY <2>1, <3>2, NothingUnreadable
      <4>2. y \in Texts /\ Len(y) \in Nat /\ Len(y) < n
        BY <1>0, <2>1, <4>1, HeadTyped
      <4>3. ReadOn(y, u)
        BY <1>1, <4>1, <4>2
      <4>4. Elements[d] = <<a>> \o u
        BY <4>1, ReadableUnfolds
      <4>5. ASSUME NEW rest \in Texts PROVE Elements[d \o rest] = Elements[d] \o Elements[rest]
        <5> DEFINE z == d \o rest
                   r == Elements[rest]
        <5>1. /\ z \in Texts /\ Readable(z) /\ z[1] = d[1] /\ Inner(z) = Inner(d)
              /\ AfterElement(z) = y \o rest
          BY <4>1, HeadStays
        <5>2. ReadOne(Elements, z) = a
          <6> HIDE DEF z
          <6> QED
            BY <5>1, Zenon DEF ReadOne
        <5>3. Elements[z] = <<a>> \o Elements[y \o rest]
          <6> HIDE DEF z, a, y
          <6>1. Elements[z] = <<ReadOne(Elements, z)>> \o Elements[AfterElement(z)]
            BY <5>1, ReadableUnfolds
          <6> QED
            BY <5>1, <5>2, <6>1, Zenon
        <5>4. Elements[y \o rest] = u \o r
          BY <4>3, Zenon DEF ReadOn
        <5>5. Associates(<<a>>, u, r)
          <6>1. Sequence(u) /\ Sequence(r)
            BY <4>2, ElementsAreSequences
          <6> HIDE DEF a, u, r
          <6>2. Sequence(<<a>>)
            BY SequencesJoin, Zenon
          <6> QED
            BY <6>1, <6>2, SequencesAssociate, Zenon
        <5> HIDE DEF z, r, a, u, y
        <5>6. <<a>> \o (u \o r) = (<<a>> \o u) \o r
          BY <5>5, Zenon DEF Associates
        <5>7. Elements[z] = Elements[d] \o r
          BY <4>4, <5>3, <5>4, <5>6, Zenon
        <5> QED
          BY <5>7, Zenon DEF z, r
      <4> QED
        BY <4>5, Zenon DEF ReadOn
    <3> QED
      BY <3>1, <3>2
  <2> QED
    BY <2>1
<1>2. \A n \in Nat : n \in Well
  <2> HIDE DEF Well
  <2> QED
    BY <1>1, AllBelow
<1> QED
  BY <1>0, <1>2, ElementsAreSequences DEF Decodes

-----------------------------------------------------------------------------
\* One text after another.
LEMMA ConcatOfOne ==
  \A x \in Texts : \A ss \in Seq(Texts) :
    Concat(<<x>> \o ss) = x \o Concat(ss) /\ Concat(<<x>>) = x
<1> SUFFICES ASSUME NEW x \in Texts
             PROVE  \A ss \in Seq(Texts) : Concat(<<x>> \o ss) = x \o Concat(ss) /\ Concat(<<x>>) = x
  OBVIOUS
<1> DEFINE One == <<x>>
           T == {ss \in Seq(Texts) : Concat(One \o ss) = x \o Concat(ss)}
<1>1. Concat(<<>>) = <<>> /\ <<>> \in Seq(Texts) /\ One \in Seq(Texts)
  BY EmptySeq DEF Concat, FlattenSeq
<1>2. \A ss \in Seq(Texts) : \A s \in Texts : Concat(Append(ss, s)) = Concat(ss) \o s
  BY FlattenGrows DEF Concat, Texts
<1>3. Concat(One) = x
  <2>1. Append(<<>>, x) = <<x>>
    OBVIOUS
  <2>2. Concat(Append(<<>>, x)) = Concat(<<>>) \o x
    BY <1>1, <1>2
  <2>3. <<>> \o x = x
    BY ConcatEmptySeq DEF Texts
  <2> QED
    BY <1>1, <2>1, <2>2, <2>3, Zenon
<1> HIDE DEF One
<1>4. <<>> \in T
  <2>1. One \o <<>> = One /\ x \o <<>> = x
    BY <1>1, ConcatEmptySeq DEF Texts
  <2> QED
    BY <1>1, <1>3, <2>1, Zenon
<1>5. ASSUME NEW ss \in Seq(Texts), NEW s \in Texts, ss \in T PROVE Append(ss, s) \in T
  <2> DEFINE r == One \o ss
             y == Concat(ss)
  <2>1. Concat(r) = x \o y
    BY <1>5
  <2>2. r \in Seq(Texts) /\ Append(ss, s) \in Seq(Texts)
    BY <1>1, ConcatProperties, AppendProperties
  <2>3. One \o Append(ss, s) = Append(r, s)
    <3> DEFINE w == <<s>>
    <3>1. w \in Seq(Texts) /\ Append(ss, s) = ss \o w /\ Append(r, s) = r \o w
      BY <2>2, AppendIsConcat
    <3> HIDE DEF w
    <3>2. One \o (ss \o w) = (One \o ss) \o w
      BY <1>1, <3>1, Associative
    <3> QED
      BY <3>1, <3>2, Zenon
  <2>4. Concat(Append(r, s)) = Concat(r) \o s
    <3> HIDE DEF r
    <3> QED
      BY <1>2, <2>2
  <2>5. Concat(Append(ss, s)) = y \o s
    BY <1>2
  <2>6. x \o (y \o s) = (x \o y) \o s
    <3>1. y \in Texts
      BY JoinedAll
    <3> HIDE DEF y
    <3> QED
      BY <3>1, TextsAssociate, Zenon
  <2> HIDE DEF r, y
  <2>7. Concat(One \o Append(ss, s)) = x \o Concat(Append(ss, s))
    BY <2>1, <2>3, <2>4, <2>5, <2>6, Zenon
  <2> QED
    BY <2>2, <2>7
<1>6. \A ss \in Seq(Texts) : ss \in T
  <2> HIDE DEF T
  <2> QED
    BY <1>4, <1>5, Sequences
<1> QED
  BY <1>3, <1>6, Zenon DEF One

\* What one more text adds, before the elements of others.
LEMMA OnceMore ==
  ASSUME NEW x \in Texts, NEW a, NEW ss \in Seq(Texts), NEW t, NEW y, Sequence(t), Sequence(y),
         Decodes(x, <<a>>), Decodes(Concat(ss), t \o y)
  PROVE  Sequence(<<a>> \o t) /\ Decodes(Concat(<<x>> \o ss), (<<a>> \o t) \o y)
<1> DEFINE w == <<a>>
           z == t \o y
           c == Concat(ss)
<1>1. Sequence(w)
  BY SequencesJoin, Zenon
<1> HIDE DEF w
<1>2. Sequence(w \o t)
  BY <1>1, SequencesJoin, Zenon
<1>3. Associates(w, t, y)
  BY <1>1, SequencesAssociate, Zenon
<1>4. Decodes(x, w) /\ Decodes(c, z)
  BY Zenon DEF w
<1>5. Concat(<<x>> \o ss) = x \o c
  BY ConcatOfOne, Zenon
<1> HIDE DEF z, c
<1>6. Decodes(x \o c, w \o z)
  BY <1>4, DecodesJoined, Zenon
<1>7. w \o z = (w \o t) \o y
  BY <1>3, Zenon DEF Associates, z
<1> QED
  BY <1>2, <1>5, <1>6, <1>7, Zenon DEF w

-----------------------------------------------------------------------------
\* The parts of the requests.

LEMMA StringsDecode ==
  \A ss \in Seq(Texts) : Decodes(Strings(ss), Strs(ss))
<1> DEFINE V == {Str(s) : s \in Texts}
           g == [s \in Texts |-> EncodeOctetString(s)]
           e == [s \in Texts |-> Str(s)]
<1>1. g \in [Texts -> Texts] /\ e \in [Texts -> V]
  BY PartsTyped
<1>2. \A s \in Texts : g[s] = EncodeOctetString(s) /\ e[s] = Str(s)
  OBVIOUS
<1>3. ASSUME NEW ss \in Seq(Texts)
      PROVE  Strings(ss) = Concat(Map(g, ss)) /\ Strs(ss) = Map(e, ss)
  <2>1. \A i \in DOMAIN ss : ss[i] \in Texts
    BY LenProperties, ElementOfSeq
  <2>2. [i \in DOMAIN ss |-> EncodeOctetString(ss[i])] = [i \in DOMAIN ss |-> g[ss[i]]]
    BY <2>1
  <2>3. [i \in DOMAIN ss |-> Str(ss[i])] = [i \in DOMAIN ss |-> e[ss[i]]]
    BY <2>1
  <2> HIDE DEF g, e
  <2> QED
    BY <2>2, <2>3, Zenon DEF Strings, Strs, Each, Map
<1> HIDE DEF g, e, V
<1>4. \A s \in Texts : Decodes(g[s], <<e[s]>>)
  BY <1>2, StringDecodes, Zenon
<1>5. \A ss \in Seq(Texts) : Decodes(Concat(Map(g, ss)), Map(e, ss))
  BY <1>1, <1>4, ListDecodes
<1> QED
  BY <1>3, <1>5, Zenon

\* Two elements side by side, and one before others.
LEMMA PairDecodes ==
  ASSUME NEW x, NEW y, NEW a, NEW b, Decodes(x, <<a>>), Decodes(y, <<b>>)
  PROVE  Decodes(x \o y, <<a, b>>)
<1>1. Decodes(x \o y, <<a>> \o <<b>>)
  BY DecodesJoined, Zenon
<1>2. <<a>> \o <<b>> = <<a, b>>
  BY Prefixed, Zenon
<1> QED
  BY <1>1, <1>2, Zenon

LEMMA NodesDecode ==
  ASSUME NEW c, NEW es, Decodes(c, es)
  PROVE  /\ Decodes(EncodeSequence(c), <<Node(48, es)>>)
         /\ \A t \in Constructors : Decodes(Tlv(t, c), <<Node(t, es)>>)
<1>1. \A t \in Constructors : Decodes(Tlv(t, c), <<Node(t, es)>>)
  BY NodeDecodes
<1>2. 48 \in Constructors
  BY DEF Constructors
<1> QED
  BY <1>1, <1>2, Zenon DEF EncodeSequence

\* The controls that a caller gives, one after the other.
Given(cs) == [i \in DOMAIN cs |-> Elements[cs[i]]]
LEMMA ControlsDecode ==
  ASSUME NEW cs \in Seq(Texts), \A i \in DOMAIN cs : ReadableElements(cs[i])
  PROVE  Decodes(Concat(cs), Concat(Given(cs)))
<1> DEFINE Good == {c \in Texts : ReadableElements(c)}
           Trees == UNION {{Elements[d][i] : i \in DOMAIN Elements[d]} : d \in Texts}
           e == [c \in Good |-> Elements[c]]
           T == {ss \in Seq(Good) : Decodes(Concat(ss), Concat(Map(e, ss)))}
<1>1. cs \in Seq(Good)
  <2>1. Len(cs) \in Nat /\ DOMAIN cs = 1..Len(cs) /\ \A i \in DOMAIN cs : cs[i] \in Good
    BY LenProperties, ElementOfSeq
  <2>2. cs \in [1..Len(cs) -> Good]
    <3>1. cs = [i \in 1..Len(cs) |-> cs[i]]
      BY LenProperties
    <3> HIDE DEF Good
    <3> QED
      BY <2>1, <3>1
  <2> QED
    BY <2>1, <2>2, IsSequence
<1>2. ASSUME NEW c \in Texts PROVE Elements[c] \in Seq(Trees)
  <2> DEFINE es == Elements[c]
  <2>1. Sequence(es)
    BY ElementsAreSequences
  <2>2. \A i \in DOMAIN es : es[i] \in Trees
    OBVIOUS
  <2> HIDE DEF es, Trees
  <2>3. Len(es) \in Nat /\ DOMAIN es = 1..Len(es) /\ es = [i \in 1..Len(es) |-> es[i]]
    BY <2>1, LenProperties DEF Sequence
  <2>4. es \in [1..Len(es) -> Trees]
    BY <2>2, <2>3
  <2> QED
    BY <2>3, <2>4, IsSequence DEF es
<1>3. e \in [Good -> Seq(Trees)]
  <2> HIDE DEF Trees
  <2> QED
    BY <1>2
<1>4. Given(cs) = Map(e, cs)
  <2>1. \A i \in DOMAIN cs : cs[i] \in Good
    BY ElementOfSeq, LenProperties
  <2>2. \A i \in DOMAIN cs : e[cs[i]] = Elements[cs[i]]
    BY <2>1
  <2> HIDE DEF e
  <2> QED
    BY <2>2 DEF Given, Map
<1>5. \A c \in Good : c \in Texts /\ Decodes(c, e[c])
  BY ReadableTexts
<1> HIDE DEF Trees
<1>6. Concat(<<>>) = <<>>
  BY DEF Concat, FlattenSeq
<1>7. <<>> \in T
  <2>1. <<>> \in Seq(Good)
    BY EmptySeq
  <2>2. Map(e, <<>>) = <<>>
    <3> DEFINE z == Map(e, <<>>)
    <3>0. MapsInto(e, Good, Seq(Trees))
      <4> HIDE DEF e, Good
      <4> QED
        BY <1>3, MapTyped
    <3>1. z \in Seq(Seq(Trees)) /\ Len(z) = Len(<<>>)
      <4> HIDE DEF e, Good
      <4> QED
        BY <2>1, <3>0, Zenon DEF MapsInto
    <3> HIDE DEF z
    <3>2. z = <<>>
      BY <3>1, EmptySeq
    <3> QED
      BY <3>2 DEF z
  <2> HIDE DEF e
  <2> QED
    BY <1>6, <2>1, <2>2, NothingDecodes, Zenon
<1> HIDE DEF e
<1>8. ASSUME NEW ss \in Seq(Good), NEW s \in Good, ss \in T PROVE Append(ss, s) \in T
  <2> DEFINE x == Concat(ss)
             m == Map(e, ss)
             y == Concat(m)
             tt == Append(ss, s)
             es == e[s]
  <2>1. ss \in Seq(Texts) /\ s \in Texts /\ tt \in Seq(Good)
    <3>1. Good \subseteq Texts
      OBVIOUS
    <3>2. ss \in Seq(Texts)
      <4>1. Len(ss) \in Nat /\ ss \in [1..Len(ss) -> Good]
        BY LenProperties
      <4> HIDE DEF Good
      <4>2. ss \in [1..Len(ss) -> Texts]
        BY <3>1, <4>1
      <4> QED
        BY <4>1, <4>2, IsSequence
    <3> QED
      BY <3>2, AppendProperties
  <2>2. Decodes(x, y) /\ Decodes(s, es)
    BY <1>5, <1>8
  <2>3. Concat(tt) = x \o s
    BY <2>1, FlattenGrows DEF Concat, Texts
  <2>4. Map(e, tt) = Append(m, es)
    BY <1>3, MapGrows, ZenonT(40)
  <2>5. m \in Seq(Seq(Trees)) /\ es \in Seq(Trees)
    BY <1>3, MapTyped DEF MapsInto
  <2> HIDE DEF m, es, tt
  <2>6. Concat(Append(m, es)) = y \o es
    BY <2>5, FlattenGrows DEF Concat
  <2> HIDE DEF x, y
  <2>7. Decodes(x \o s, y \o es)
    BY <2>2, DecodesJoined, Zenon
  <2>8. Decodes(Concat(tt), Concat(Map(e, tt)))
    BY <2>3, <2>4, <2>6, <2>7, Zenon
  <2> QED
    BY <2>1, <2>8 DEF tt
<1>9. \A ss \in Seq(Good) : ss \in T
  <2> HIDE DEF T, Good
  <2> QED
    BY <1>7, <1>8, Sequences
<1> QED
  BY <1>1, <1>4, <1>9

\* What every message has around its operation.
LEMMA MessageDecodes ==
  ASSUME NEW id \in Numbers, NEW op, NEW o, Decodes(op, <<o>>)
  PROVE  Decodes(LDAPMessage(id, op), <<Message(id, o, <<>>)>>)
<1> DEFINE a == Num(id)
           x == EncodeInteger(id)
<1>1. Decodes(x, <<a>>)
  BY NumberDecodes
<1> HIDE DEF a, x
<1>2. Decodes(x \o op, <<a, o>>)
  BY <1>1, PairDecodes, Zenon
<1>3. Decodes(EncodeSequence(x \o op), <<Node(48, <<a, o>>)>>)
  BY <1>2, NodesDecode, Zenon
<1>4. <<a, o>> \o <<>> = <<a, o>>
  <2> DEFINE two == <<a, o>>
  <2>1. Sequence(two)
    BY TuplesAreSequences
  <2> HIDE DEF two
  <2>2. two \o <<>> = two
    BY <2>1, SequencesJoin
  <2> QED
    BY <2>2 DEF two
<1>5. Message(id, o, <<>>) = Node(48, <<a, o>> \o <<>>)
  BY Zenon DEF Message, a
<1> QED
  BY <1>3, <1>4, <1>5, Zenon DEF LDAPMessage, x

LEMMA ControlledDecodes ==
  ASSUME NEW id \in Numbers, NEW op, NEW o, Decodes(op, <<o>>),
         NEW cs \in Seq(Texts), \A i \in DOMAIN cs : ReadableElements(cs[i])
  PROVE  Decodes(WithControls(id, op, cs), <<Message(id, o, cs)>>)
<1>1. CASE cs = <<>>
  <2>1. WithControls(id, op, cs) = LDAPMessage(id, op \o <<>>)
    BY <1>1, Zenon DEF WithControls
  <2>2. op \o <<>> = op
    BY ConcatEmptySeq DEF Decodes, Texts
  <2>3. Decodes(LDAPMessage(id, op), <<Message(id, o, <<>>)>>)
    BY MessageDecodes
  <2> QED
    BY <1>1, <2>1, <2>2, <2>3, Zenon
<1>2. CASE cs # <<>>
  <2> DEFINE a == Num(id)
             x == EncodeInteger(id)
             n == Node(160, Concat(Given(cs)))
             k == Tlv(160, Concat(cs))
             both == <<a, o>>
  <2>1. Decodes(x, <<a>>)
    BY NumberDecodes
  <2>2. Decodes(k, <<n>>)
    <3>1. Decodes(Concat(cs), Concat(Given(cs)))
      BY ControlsDecode
    <3>2. 160 \in Constructors
      BY DEF Constructors
    <3> QED
      BY <3>1, <3>2, NodesDecode
  <2>3. WithControls(id, op, cs) = EncodeSequence(x \o (op \o k))
    BY <1>2, Zenon DEF WithControls, LDAPMessage
  <2>4. Message(id, o, cs) = Node(48, both \o <<n>>)
    BY <1>2, Zenon DEF Message, Given
  <2> HIDE DEF a, x, n, k
  <2>5. Decodes(op \o k, <<o>> \o <<n>>)
    BY <2>2, DecodesJoined, Zenon
  <2>6. Decodes(x \o (op \o k), <<a>> \o (<<o>> \o <<n>>))
    <3> DEFINE u == op \o k
               v == <<o>> \o <<n>>
    <3> HIDE DEF u, v
    <3>1. Decodes(u, v)
      BY <2>5 DEF u, v
    <3>2. Decodes(x \o u, <<a>> \o v)
      BY <2>1, <3>1, DecodesJoined, Zenon
    <3> QED
      BY <3>2 DEF u, v
  <2>7. <<a>> \o (<<o>> \o <<n>>) = both \o <<n>>
    <3>1. Sequence(<<a>>) /\ Sequence(<<o>>) /\ Sequence(<<n>>)
      BY SequencesJoin, Zenon
    <3>2. Associates(<<a>>, <<o>>, <<n>>)
      BY <3>1, SequencesAssociate, Zenon
    <3>3. <<a>> \o <<o>> = both
      BY Prefixed, Zenon
    <3> HIDE DEF both
    <3> QED
      BY <3>2, <3>3, Zenon DEF Associates
  <2> HIDE DEF both
  <2>8. Decodes(x \o (op \o k), both \o <<n>>)
    BY <2>6, <2>7, Zenon
  <2>9. Decodes(EncodeSequence(x \o (op \o k)), <<Node(48, both \o <<n>>)>>)
    BY <2>8, NodesDecode, Zenon
  <2> QED
    BY <2>3, <2>4, <2>9, Zenon
<1> QED
  BY <1>1, <1>2

LEMMA TripleDecodes ==
  ASSUME NEW x, NEW y, NEW z, NEW a, NEW b, NEW c,
         Decodes(x, <<a>>), Decodes(y, <<b>>), Decodes(z, <<c>>)
  PROVE  Decodes((x \o y) \o z, <<a, b, c>>)
<1> DEFINE d == <<c>>
           two == <<a, b>>
<1>1. Decodes(x \o y, two) /\ Decodes(z, d)
  BY PairDecodes, Zenon
<1>2. Associates(<<a>>, <<b>>, d)
  <2>1. Sequence(<<a>>) /\ Sequence(<<b>>) /\ Sequence(d)
    BY SequencesJoin, Zenon
  <2> HIDE DEF d
  <2> QED
    BY <2>1, SequencesAssociate, Zenon
<1>3. <<a>> \o <<b>> = two /\ <<b>> \o d = <<b, c>> /\ <<a>> \o <<b, c>> = <<a, b, c>>
  BY Prefixed, Zenon
<1> HIDE DEF d, two
<1>4. Decodes((x \o y) \o z, two \o d)
  BY <1>1, DecodesJoined, Zenon
<1>5. two \o d = <<a, b, c>>
  BY <1>2, <1>3, Zenon DEF Associates
<1> QED
  BY <1>4, <1>5, Zenon

LEMMA BindDecodes ==
  ASSUME NEW id \in Numbers, NEW version \in Numbers, NEW dn \in Texts
  PROVE  /\ \A password \in Texts :
              Decodes(BuildBindRequest(id, version, dn, password),
                      <<Message(id, Node(96, <<Num(version), Str(dn), Leaf(128, password)>>),
                                <<>>)>>)
         /\ \A mechanism \in Texts : \A credentials \in Seq(Texts) :
              Decodes(BuildSaslBindRequest(id, version, dn, mechanism, credentials),
                      <<Message(id, Node(96, <<Num(version), Str(dn),
                                  Node(163, <<Str(mechanism)>> \o Strs(credentials))>>), <<>>)>>)
<1>1. ASSUME NEW auth, NEW a, Decodes(auth, <<a>>)
      PROVE  Decodes(BuildBindRequestAuth(id, version, dn, auth),
                     <<Message(id, Node(96, <<Num(version), Str(dn), a>>), <<>>)>>)
  <2> DEFINE x == EncodeInteger(version)
             y == EncodeOctetString(dn)
             n == Num(version)
             s == Str(dn)
             node == Node(96, <<n, s, a>>)
             op == Tlv(96, (x \o y) \o auth)
  <2>1. Decodes(x, <<n>>) /\ Decodes(y, <<s>>)
    BY NumberDecodes, StringDecodes
  <2> HIDE DEF x, y, n, s
  <2>2. Decodes((x \o y) \o auth, <<n, s, a>>)
    BY <1>1, <2>1, TripleDecodes, Zenon
  <2>3. 96 \in Constructors
    BY DEF Constructors
  <2>4. Decodes(op, <<node>>)
    BY <2>2, <2>3, NodesDecode, Zenon
  <2>5. BuildBindRequestAuth(id, version, dn, auth) = LDAPMessage(id, op)
    BY Zenon DEF BuildBindRequestAuth, x, y
  <2> HIDE DEF op, node
  <2>6. Decodes(LDAPMessage(id, op), <<Message(id, node, <<>>)>>)
    BY <2>4, MessageDecodes
  <2> QED
    BY <2>5, <2>6, Zenon DEF node, n, s
<1>2. ASSUME NEW password \in Texts
      PROVE  Decodes(BuildBindRequest(id, version, dn, password),
                     <<Message(id, Node(96, <<Num(version), Str(dn), Leaf(128, password)>>),
                               <<>>)>>)
  <2>1. Decodes(Tlv(128, password), <<Leaf(128, password)>>)
    BY StringDecodes
  <2> QED
    BY <1>1, <2>1, Zenon DEF BuildBindRequest
<1>3. ASSUME NEW mechanism \in Texts, NEW credentials \in Seq(Texts)
      PROVE  Decodes(BuildSaslBindRequest(id, version, dn, mechanism, credentials),
                     <<Message(id, Node(96, <<Num(version), Str(dn),
                                 Node(163, <<Str(mechanism)>> \o Strs(credentials))>>), <<>>)>>)
  <2> DEFINE x == EncodeOctetString(mechanism)
             y == Strings(credentials)
             es == <<Str(mechanism)>> \o Strs(credentials)
  <2>1. Decodes(x, <<Str(mechanism)>>) /\ Decodes(y, Strs(credentials))
    BY StringDecodes, StringsDecode
  <2> HIDE DEF x, y
  <2>2. Decodes(x \o y, es)
    BY <2>1, DecodesJoined, Zenon
  <2>3. 163 \in Constructors
    BY DEF Constructors
  <2> HIDE DEF es
  <2>4. Decodes(Tlv(163, x \o y), <<Node(163, es)>>)
    BY <2>2, <2>3, NodesDecode, Zenon
  <2>5. BuildSaslBindRequest(id, version, dn, mechanism, credentials) =
          BuildBindRequestAuth(id, version, dn, Tlv(163, x \o y))
    BY Zenon DEF BuildSaslBindRequest, x, y
  <2> QED
    BY <1>1, <2>4, <2>5, Zenon DEF es
<1> QED
  BY <1>2, <1>3

\* An attribute and its values.
LEMMA AttributeDecodes ==
  ASSUME NEW type \in Texts, NEW vals \in Seq(Texts)
  PROVE  Decodes(EncodeSequence(EncodeOctetString(type) \o Tlv(49, Strings(vals))),
                 <<Attribute(type, vals)>>)
<1> DEFINE x == EncodeOctetString(type)
           y == Tlv(49, Strings(vals))
           s == Str(type)
           n == Node(49, Strs(vals))
<1>1. Decodes(x, <<s>>)
  BY StringDecodes
<1>2. Decodes(y, <<n>>)
  <2>1. 49 \in Constructors
    BY DEF Constructors
  <2>2. Decodes(Strings(vals), Strs(vals))
    BY StringsDecode
  <2> QED
    BY <2>1, <2>2, NodesDecode, Zenon
<1> HIDE DEF x, y, s, n
<1>3. Decodes(x \o y, <<s, n>>)
  BY <1>1, <1>2, PairDecodes, Zenon
<1>4. Decodes(EncodeSequence(x \o y), <<Node(48, <<s, n>>)>>)
  BY <1>3, NodesDecode, Zenon
<1> QED
  BY <1>4, Zenon DEF Attribute, x, y, s, n

AskedModify(id, dn, attribute, values, operation) ==
  Message(id, Node(102, <<Str(dn), Change(operation, attribute, values)>>), <<>>)
LEMMA ModifyDecodes ==
  ASSUME NEW id \in Numbers, NEW dn \in Texts, NEW attribute \in Texts,
         NEW values \in Seq(Texts), NEW operation \in 0..3
  PROVE  Decodes(BuildModifyRequest(id, dn, attribute, values, operation),
                 <<AskedModify(id, dn, attribute, values, operation)>>)
<1> DEFINE partial == EncodeSequence(EncodeOctetString(attribute) \o Tlv(49, Strings(values)))
           a == Attribute(attribute, values)
           k == EncodeEnumerated(operation)
           n == Enum(operation)
           change == EncodeSequence(k \o partial)
           c == Node(48, <<n, a>>)
           list == Node(48, <<c>>)
           x == EncodeOctetString(dn)
           s == Str(dn)
           op == Tlv(102, x \o EncodeSequence(change))
           o == Node(102, <<s, list>>)
<1>1. Decodes(partial, <<a>>)
  BY AttributeDecodes
<1>2. Decodes(k, <<n>>)
  <2>1. operation \in 0..127
    BY SMT
  <2> QED
    BY <2>1, OneOctetDecodes
<1>3. Decodes(x, <<s>>)
  BY StringDecodes
<1>4. BuildModifyRequest(id, dn, attribute, values, operation) = LDAPMessage(id, op)
  BY DEF BuildModifyRequest
<1>5. Change(operation, attribute, values) = list
  BY DEF Change
<1> HIDE DEF partial, a, k, n, x, s
<1>6. Decodes(change, <<c>>)
  <2>1. Decodes(k \o partial, <<n, a>>)
    BY <1>1, <1>2, PairDecodes, Zenon
  <2> QED
    BY <2>1, NodesDecode, Zenon
<1> HIDE DEF change, c
<1>7. Decodes(EncodeSequence(change), <<list>>)
  BY <1>6, NodesDecode, Zenon
<1> HIDE DEF list
<1>8. Decodes(op, <<o>>)
  <2>1. Decodes(x \o EncodeSequence(change), <<s, list>>)
    BY <1>3, <1>7, PairDecodes, Zenon
  <2>2. 102 \in Constructors
    BY DEF Constructors
  <2> QED
    BY <2>1, <2>2, NodesDecode, Zenon
<1> HIDE DEF op, o
<1>9. Decodes(LDAPMessage(id, op), <<Message(id, o, <<>>)>>)
  BY <1>8, MessageDecodes
<1> QED
  BY <1>4, <1>5, <1>9, Zenon DEF AskedModify, o, s

LEMMA AddDecodes ==
  ASSUME NEW id \in Numbers, NEW dn \in Texts, NEW attributes \in Seq(Attributes)
  PROVE  Decodes(BuildAddRequest(id, dn, attributes),
                 <<Message(id, Node(104, <<Str(dn),
                     Node(48, Each(LAMBDA a : Attribute(a.type, a.vals), attributes))>>), <<>>)>>)
<1> DEFINE Partial(a) == EncodeSequence(EncodeOctetString(a.type) \o Tlv(49, Strings(a.vals)))
           Read(a) == Attribute(a.type, a.vals)
           V == {Read(a) : a \in Attributes}
           g == [a \in Attributes |-> Partial(a)]
           e == [a \in Attributes |-> Read(a)]
           x == EncodeOctetString(dn)
           s == Str(dn)
           list == Concat(Map(g, attributes))
           es == Map(e, attributes)
           n == Node(48, es)
           op == Tlv(104, x \o EncodeSequence(list))
           o == Node(104, <<s, n>>)
<1>1. \A i \in DOMAIN attributes : attributes[i] \in Attributes
  BY LenProperties, ElementOfSeq
<1>2. BuildAddRequest(id, dn, attributes) = LDAPMessage(id, op)
  <2>1. [i \in DOMAIN attributes |-> Partial(attributes[i])] = Map(g, attributes)
    <3> HIDE DEF Partial
    <3> QED
      BY <1>1 DEF Map
  <2>2. BuildAddRequest(id, dn, attributes) =
          LDAPMessage(id, Tlv(104, x \o EncodeSequence(
            Concat([i \in DOMAIN attributes |-> Partial(attributes[i])]))))
    BY DEF BuildAddRequest, Each
  <2> HIDE DEF g, Partial, x
  <2> QED
    BY <2>1, <2>2, Zenon
<1>3. Each(LAMBDA a : Attribute(a.type, a.vals), attributes) = es
  <2>1. Each(LAMBDA a : Attribute(a.type, a.vals), attributes) =
          [i \in DOMAIN attributes |-> Read(attributes[i])]
    BY DEF Each
  <2> HIDE DEF Read
  <2>2. [i \in DOMAIN attributes |-> Read(attributes[i])] = Map(e, attributes)
    BY <1>1 DEF Map
  <2> HIDE DEF e
  <2> QED
    BY <2>1, <2>2, Zenon
<1>4. \A a \in Attributes : Partial(a) \in Texts /\ Decodes(Partial(a), <<Read(a)>>)
  <2> SUFFICES ASSUME NEW a \in Attributes
               PROVE  Partial(a) \in Texts /\ Decodes(Partial(a), <<Read(a)>>)
    OBVIOUS
  <2>1. a.type \in Texts /\ a.vals \in Seq(Texts)
    BY NamesAreTexts DEF Attributes
  <2>2. Decodes(Partial(a), <<Read(a)>>)
    BY <2>1, AttributeDecodes
  <2> HIDE DEF Partial, Read
  <2> QED
    BY <2>2 DEF Decodes
<1> HIDE DEF Partial, Read
<1>5. Decodes(list, es)
  <2>1. g \in [Attributes -> Texts] /\ e \in [Attributes -> V]
    BY <1>4
  <2>2. \A a \in Attributes : Decodes(g[a], <<e[a]>>)
    <3>1. \A a \in Attributes : g[a] = Partial(a) /\ e[a] = Read(a)
      OBVIOUS
    <3> HIDE DEF g, e
    <3> QED
      BY <1>4, <3>1, Zenon
  <2> HIDE DEF g, e, V
  <2> QED
    BY <2>1, <2>2, ListDecodes
<1>6. Decodes(x, <<s>>)
  BY StringDecodes
<1> HIDE DEF list, es, x, s
<1>7. Decodes(EncodeSequence(list), <<n>>)
  BY <1>5, NodesDecode, Zenon
<1> HIDE DEF n
<1>8. Decodes(op, <<o>>)
  <2>1. Decodes(x \o EncodeSequence(list), <<s, n>>)
    BY <1>6, <1>7, PairDecodes, Zenon
  <2>2. 104 \in Constructors
    BY DEF Constructors
  <2> QED
    BY <2>1, <2>2, NodesDecode, Zenon
<1> HIDE DEF op, o
<1>9. Decodes(LDAPMessage(id, op), <<Message(id, o, <<>>)>>)
  BY <1>8, MessageDecodes
<1> QED
  BY <1>2, <1>3, <1>9, Zenon DEF o, n, s

\* The texts that the code has itself.
LEMMA OwnTexts ==
  ObjectClass \in Texts /\ CancelOid \in Texts
<1>1. ObjectClass \in [1..11 -> Octets]
  BY SMT DEF ObjectClass, Octets
<1>2. CancelOid \in [1..11 -> Octets]
  <2>1. CancelOid \in [1..11 -> {46, 49, 50, 51, 54, 56}]
    BY SMT DEF CancelOid
  <2>2. {46, 49, 50, 51, 54, 56} \subseteq Octets
    BY SMT DEF Octets
  <2> QED
    BY <2>1, <2>2
<1> QED
  BY <1>1, <1>2, IsSequence DEF Texts

AskedExtended(id, name, value, controls) ==
  Message(id, Node(119, <<Leaf(128, name)>> \o Each(LAMBDA v : Leaf(129, v), value)), controls)
LEMMA ExtendedDecodes ==
  ASSUME NEW id \in Numbers, NEW name \in Texts, NEW value \in Seq(Texts),
         NEW controls \in Seq(Texts), \A i \in DOMAIN controls : ReadableElements(controls[i])
  PROVE  Decodes(BuildExtendedRequest(id, name, value, controls),
                 <<AskedExtended(id, name, value, controls)>>)
<1> DEFINE V == {Leaf(129, s) : s \in Texts}
           g == [s \in Texts |-> Tlv(129, s)]
           e == [s \in Texts |-> Leaf(129, s)]
           x == Tlv(128, name)
           s == Leaf(128, name)
           list == Concat(Map(g, value))
           es == Map(e, value)
           both == <<s>> \o es
           op == Tlv(119, x \o list)
           o == Node(119, both)
<1>1. \A i \in DOMAIN value : value[i] \in Texts
  BY LenProperties, ElementOfSeq
<1>2. BuildExtendedRequest(id, name, value, controls) = WithControls(id, op, controls)
  <2>1. [i \in DOMAIN value |-> Tlv(129, value[i])] = Map(g, value)
    BY <1>1 DEF Map
  <2>2. BuildExtendedRequest(id, name, value, controls) =
          WithControls(id, Tlv(119, x \o Concat([i \in DOMAIN value |-> Tlv(129, value[i])])),
                       controls)
    BY DEF BuildExtendedRequest, Each
  <2> HIDE DEF g, x
  <2> QED
    BY <2>1, <2>2, Zenon
<1>3. Each(LAMBDA v : Leaf(129, v), value) = es
  <2>1. Each(LAMBDA v : Leaf(129, v), value) = [i \in DOMAIN value |-> Leaf(129, value[i])]
    BY DEF Each
  <2>2. [i \in DOMAIN value |-> Leaf(129, value[i])] = Map(e, value)
    BY <1>1 DEF Map
  <2> HIDE DEF e
  <2> QED
    BY <2>1, <2>2, Zenon
<1>4. \A t \in Texts : Tlv(129, t) \in Texts /\ Decodes(Tlv(129, t), <<Leaf(129, t)>>)
  BY StringDecodes DEF Decodes
<1>5. Decodes(list, es)
  <2>1. g \in [Texts -> Texts] /\ e \in [Texts -> V]
    BY <1>4
  <2>2. \A t \in Texts : Decodes(g[t], <<e[t]>>)
    <3>1. \A t \in Texts : g[t] = Tlv(129, t) /\ e[t] = Leaf(129, t)
      OBVIOUS
    <3> HIDE DEF g, e
    <3> QED
      BY <1>4, <3>1, SMT
  <2> HIDE DEF g, e, V
  <2> QED
    BY <2>1, <2>2, ListDecodes
<1>6. Decodes(x, <<s>>)
  BY StringDecodes
<1> HIDE DEF list, es, x, s
<1>7. Decodes(op, <<o>>)
  <2>1. Decodes(x \o list, both)
    BY <1>5, <1>6, DecodesJoined, Zenon
  <2>2. 119 \in Constructors
    BY DEF Constructors
  <2> HIDE DEF both
  <2> QED
    BY <2>1, <2>2, NodesDecode, Zenon
<1> HIDE DEF op, o
<1>8. Decodes(WithControls(id, op, controls), <<Message(id, o, controls)>>)
  BY <1>7, ControlledDecodes
<1> QED
  BY <1>2, <1>3, <1>8, Zenon DEF AskedExtended, o, both, s

LEMMA CancelDecodes ==
  ASSUME NEW id \in Numbers, NEW target \in Numbers
  PROVE  Decodes(BuildCancelRequest(id, target),
                 <<Message(id, Node(119, <<Leaf(128, CancelOid), Leaf(129, CancelValue(target))>>),
                           <<>>)>>)
<1> DEFINE c == CancelValue(target)
           value == <<c>>
           none == <<>>
           a == Leaf(128, CancelOid)
           b == Leaf(129, c)
<1>1. c \in Texts /\ value \in Seq(Texts) /\ none \in Seq(Texts) /\ CancelOid \in Texts
  BY ValuesTyped, OwnTexts, EmptySeq
<1>2. \A i \in DOMAIN none : ReadableElements(none[i])
  OBVIOUS
<1> HIDE DEF c, none
<1>3. Each(LAMBDA v : Leaf(129, v), value) = <<b>>
  <2>1. Each(LAMBDA v : Leaf(129, v), value) = [i \in 1..1 |-> Leaf(129, value[i])]
    BY DEF Each
  <2>2. [i \in 1..1 |-> Leaf(129, value[i])] = <<b>>
    OBVIOUS
  <2> QED
    BY <2>1, <2>2, Zenon
<1> HIDE DEF value
<1>4. Decodes(BuildExtendedRequest(id, CancelOid, value, none),
              <<AskedExtended(id, CancelOid, value, none)>>)
  BY <1>1, <1>2, ExtendedDecodes
<1>7. AskedExtended(id, CancelOid, value, none) =
        Message(id, Node(119, <<a>> \o Each(LAMBDA v : Leaf(129, v), value)), none)
  BY Zenon DEF AskedExtended
<1> HIDE DEF a, b
<1>5. <<a>> \o <<b>> = <<a, b>>
  BY Prefixed, Zenon
<1>6. BuildCancelRequest(id, target) = BuildExtendedRequest(id, CancelOid, value, none)
  BY Zenon DEF BuildCancelRequest, value, none, c
<1> QED
  BY <1>3, <1>4, <1>5, <1>6, <1>7, Zenon DEF a, b, c, none

AskedSearch(id, base, attributes, scope, filter, controls) ==
  Message(id, Node(99, <<Str(base), Enum(scope), Enum(0), Num(0), Num(0), Leaf(1, <<0>>)>>
    \o (IF filter = <<>> THEN <<Leaf(135, ObjectClass)>> ELSE Elements[filter[1]])
    \o <<Node(48, Strs(attributes))>>), controls)
LEMMA SearchDecodes ==
  ASSUME NEW id \in Numbers, NEW base \in Texts, NEW attributes \in Seq(Texts),
         NEW scope \in 0..3, NEW filter \in Seq(Texts), NEW controls \in Seq(Texts),
         \A i \in DOMAIN filter : ReadableElements(filter[i]),
         \A i \in DOMAIN controls : ReadableElements(controls[i])
  PROVE  Decodes(BuildSearchRequest(id, base, attributes, scope, filter, controls),
                 <<AskedSearch(id, base, attributes, scope, filter, controls)>>)
<1> DEFINE p1 == EncodeOctetString(base)
           p2 == EncodeEnumerated(scope)
           p3 == EncodeEnumerated(0)
           p4 == EncodeInteger(0)
           p6 == <<1, 1, 0>>
           p7 == IF filter = <<>> THEN PresentFilter ELSE filter[1]
           p8 == EncodeSequence(Strings(attributes))
           e1 == Str(base)
           e2 == Enum(scope)
           e3 == Enum(0)
           e4 == Num(0)
           e6 == Leaf(1, <<0>>)
           f == IF filter = <<>> THEN <<Leaf(135, ObjectClass)>> ELSE Elements[filter[1]]
           e8 == Node(48, Strs(attributes))
           parts == Concat(<<p1, p2, p3, p4, p4, p6, p7, p8>>)
           es == <<e1, e2, e3, e4, e4, e6>> \o f \o <<e8>>
           op == Tlv(99, parts)
           o == Node(99, es)
<1>1. BuildSearchRequest(id, base, attributes, scope, filter, controls) =
        WithControls(id, op, controls)
  BY Zenon DEF BuildSearchRequest
<1>2. Decodes(p1, <<e1>>)
  BY StringDecodes
<1>3. Decodes(p2, <<e2>>) /\ Decodes(p3, <<e3>>)
  <2>1. scope \in 0..127 /\ 0 \in 0..127
    BY SMT
  <2> QED
    BY <2>1, OneOctetDecodes
<1>4. Decodes(p4, <<e4>>)
  <2>1. 0 \in Numbers
    BY SMT DEF Numbers
  <2> QED
    BY <2>1, NumberDecodes
<1>5. Decodes(p6, <<e6>>)
  <2>1. 0 \in Octets
    BY SMT DEF Octets
  <2> QED
    BY <2>1, OneOctetDecodes
<1>6. Decodes(p7, f)
  <2>1. CASE filter = <<>>
    <3>1. Decodes(PresentFilter, <<Leaf(135, ObjectClass)>>)
      BY OwnTexts, StringDecodes DEF PresentFilter
    <3> QED
      BY <2>1, <3>1, Zenon
  <2>2. CASE filter # <<>>
    <3>1. 1 \in DOMAIN filter /\ filter[1] \in Texts
      BY <2>2, EmptySeq, ElementOfSeq, LenProperties
    <3>2. Decodes(filter[1], Elements[filter[1]])
      BY <3>1, ReadableTexts
    <3> QED
      BY <2>2, <3>2, Zenon
  <2> QED
    BY <2>1, <2>2
<1>7. Decodes(p8, <<e8>>)
  <2>1. Decodes(Strings(attributes), Strs(attributes))
    BY StringsDecode
  <2> QED
    BY <2>1, NodesDecode, Zenon
<1> HIDE DEF p1, p2, p3, p4, p6, p7, p8, e1, e2, e3, e4, e6, f, e8
<1>8. /\ p1 \in Texts /\ p2 \in Texts /\ p3 \in Texts /\ p4 \in Texts
      /\ p6 \in Texts /\ p7 \in Texts /\ p8 \in Texts
  BY <1>2, <1>3, <1>4, <1>5, <1>6, <1>7 DEF Decodes
<1>9. Decodes(parts, es)
  <2>14. \A a, b, c, d : <<a>> \o <<b, c, d>> = <<a, b, c, d>>
    BY Prefixed
  <2>15. \A a, b, c, d, i : <<a>> \o <<b, c, d, i>> = <<a, b, c, d, i>>
    BY Prefixed
  <2>16. \A a, b, c, d, i, j : <<a>> \o <<b, c, d, i, j>> = <<a, b, c, d, i, j>>
    BY Prefixed
  <2>17. \A a, b, c, d, i, j, k : <<a>> \o <<b, c, d, i, j, k>> = <<a, b, c, d, i, j, k>>
    BY Prefixed
  <2>18. \A a, b, c, d, i, j, k, l : <<a>> \o <<b, c, d, i, j, k, l>> = <<a, b, c, d, i, j, k, l>>
    BY Prefixed
  <2> DEFINE y == f \o <<e8>>
  <2>1. Sequence(f) /\ Sequence(y) /\ Sequence(<<>>) /\ Sequence(<<e8>>)
    BY <1>6, SequencesJoin, Zenon DEF Decodes
  <2>2. Decodes(Concat(<<p7, p8>>), y)
    <3>1. <<p8>> \in Seq(Texts)
      BY <1>8
    <3>2. Concat(<<p7>> \o <<p8>>) = p7 \o Concat(<<p8>>) /\ Concat(<<p8>>) = p8
      BY <1>8, <3>1, ConcatOfOne, Zenon
    <3>3. Decodes(p7 \o p8, y)
      BY <1>6, <1>7, DecodesJoined, Zenon
    <3>4. <<p7>> \o <<p8>> = <<p7, p8>>
      BY Prefixed, Zenon
    <3> HIDE DEF y
    <3> QED
      BY <3>2, <3>3, <3>4, Zenon
  <2>3. Decodes(Concat(<<p7, p8>>), <<>> \o y)
    BY <2>1, <2>2, SequencesJoin, Zenon
  <2> HIDE DEF y
  <2>4. Sequence(<<e6>>) /\ Decodes(Concat(<<p6, p7, p8>>), <<e6>> \o y)
    <3>1. <<p7, p8>> \in Seq(Texts)
      BY <1>8
    <3>2. Sequence(<<e6>> \o <<>>) /\ Decodes(Concat(<<p6>> \o <<p7, p8>>), (<<e6>> \o <<>>) \o y)
      BY <1>5, <1>8, <2>1, <2>3, <3>1, OnceMore
    <3>3. <<p6>> \o <<p7, p8>> = <<p6, p7, p8>>
      BY Prefixed, Zenon
    <3>4. Sequence(<<e6>>) /\ <<e6>> \o <<>> = <<e6>>
      BY SequencesJoin, Zenon
    <3> QED
      BY <3>2, <3>3, <3>4, Zenon
  <2>5. Sequence(<<e4, e6>>) /\ Decodes(Concat(<<p4, p6, p7, p8>>), <<e4, e6>> \o y)
    <3>1. <<p6, p7, p8>> \in Seq(Texts)
      BY <1>8
    <3>2. Sequence(<<e4>> \o <<e6>>)
          /\ Decodes(Concat(<<p4>> \o <<p6, p7, p8>>), (<<e4>> \o <<e6>>) \o y)
      BY <1>4, <1>8, <2>1, <2>4, <3>1, OnceMore
    <3>3. <<p4>> \o <<p6, p7, p8>> = <<p4, p6, p7, p8>>
      BY <2>14, Zenon
    <3>4. <<e4>> \o <<e6>> = <<e4, e6>>
      BY Prefixed, Zenon
    <3> QED
      BY <3>2, <3>3, <3>4, Zenon
  <2>6. Sequence(<<e4, e4, e6>>) /\ Decodes(Concat(<<p4, p4, p6, p7, p8>>), <<e4, e4, e6>> \o y)
    <3>1. <<p4, p6, p7, p8>> \in Seq(Texts)
      BY <1>8
    <3>2. Sequence(<<e4>> \o <<e4, e6>>)
          /\ Decodes(Concat(<<p4>> \o <<p4, p6, p7, p8>>), (<<e4>> \o <<e4, e6>>) \o y)
      BY <1>4, <1>8, <2>1, <2>5, <3>1, OnceMore
    <3>3. <<p4>> \o <<p4, p6, p7, p8>> = <<p4, p4, p6, p7, p8>>
      BY <2>15
    <3>4. <<e4>> \o <<e4, e6>> = <<e4, e4, e6>>
      BY Prefixed, Zenon
    <3> QED
      BY <3>2, <3>3, <3>4, Zenon
  <2>7. /\ Sequence(<<e3, e4, e4, e6>>)
        /\ Decodes(Concat(<<p3, p4, p4, p6, p7, p8>>), <<e3, e4, e4, e6>> \o y)
    <3>1. <<p4, p4, p6, p7, p8>> \in Seq(Texts)
      BY <1>8
    <3>2. Sequence(<<e3>> \o <<e4, e4, e6>>)
          /\ Decodes(Concat(<<p3>> \o <<p4, p4, p6, p7, p8>>), (<<e3>> \o <<e4, e4, e6>>) \o y)
      BY <1>3, <1>8, <2>1, <2>6, <3>1, OnceMore
    <3>3. <<p3>> \o <<p4, p4, p6, p7, p8>> = <<p3, p4, p4, p6, p7, p8>>
      BY <2>16
    <3>4. <<e3>> \o <<e4, e4, e6>> = <<e3, e4, e4, e6>>
      BY <2>14, Zenon
    <3> QED
      BY <3>2, <3>3, <3>4, Zenon
  <2>8. /\ Sequence(<<e2, e3, e4, e4, e6>>)
        /\ Decodes(Concat(<<p2, p3, p4, p4, p6, p7, p8>>), <<e2, e3, e4, e4, e6>> \o y)
    <3>1. <<p3, p4, p4, p6, p7, p8>> \in Seq(Texts)
      BY <1>8
    <3>2. Sequence(<<e2>> \o <<e3, e4, e4, e6>>)
          /\ Decodes(Concat(<<p2>> \o <<p3, p4, p4, p6, p7, p8>>), (<<e2>> \o <<e3, e4, e4, e6>>) \o y)
      BY <1>3, <1>8, <2>1, <2>7, <3>1, OnceMore
    <3>3. <<p2>> \o <<p3, p4, p4, p6, p7, p8>> = <<p2, p3, p4, p4, p6, p7, p8>>
      BY <2>17
    <3>4. <<e2>> \o <<e3, e4, e4, e6>> = <<e2, e3, e4, e4, e6>>
      BY <2>15
    <3> QED
      BY <3>2, <3>3, <3>4, Zenon
  <2> DEFINE six == <<e1, e2, e3, e4, e4, e6>>
  <2>9. Sequence(six) /\ Decodes(Concat(<<p1, p2, p3, p4, p4, p6, p7, p8>>), six \o y)
    <3>1. <<p2, p3, p4, p4, p6, p7, p8>> \in Seq(Texts)
      BY <1>8
    <3>2. Sequence(<<e1>> \o <<e2, e3, e4, e4, e6>>)
          /\ Decodes(Concat(<<p1>> \o <<p2, p3, p4, p4, p6, p7, p8>>),
                     (<<e1>> \o <<e2, e3, e4, e4, e6>>) \o y)
      BY <1>2, <1>8, <2>1, <2>8, <3>1, OnceMore
    <3>3. <<p1>> \o <<p2, p3, p4, p4, p6, p7, p8>> = <<p1, p2, p3, p4, p4, p6, p7, p8>>
      BY <2>18
    <3>4. <<e1>> \o <<e2, e3, e4, e4, e6>> = six
      BY <2>16
    <3> QED
      BY <3>2, <3>3, <3>4, Zenon
  <2> HIDE DEF six
  <2>10. Associates(six, f, <<e8>>)
    BY <2>1, <2>9, SequencesAssociate
  <2>11. six \o y = (six \o f) \o <<e8>>
    BY <2>10, Zenon DEF Associates, y
  <2> QED
    BY <2>9, <2>11, Zenon DEF six
<1> HIDE DEF parts, es
<1>10. Decodes(op, <<o>>)
  <2>1. 99 \in Constructors
    BY DEF Constructors
  <2> QED
    BY <1>9, <2>1, NodesDecode, Zenon
<1> HIDE DEF op, o
<1>11. Decodes(WithControls(id, op, controls), <<Message(id, o, controls)>>)
  BY <1>10, ControlledDecodes
<1> QED
  BY <1>1, <1>11, Zenon DEF AskedSearch, o, es, e1, e2, e3, e4, e6, f, e8

\* The values of controls and of extended requests.
LEMMA PagedDecodes ==
  ASSUME NEW size \in Numbers, NEW cookie \in Texts
  PROVE  Decodes(PagedResultsControlValue(size, cookie), <<Node(48, <<Num(size), Str(cookie)>>)>>)
<1>1. Decodes(EncodeInteger(size), <<Num(size)>>)
  BY NumberDecodes
<1>2. Decodes(EncodeOctetString(cookie), <<Str(cookie)>>)
  BY StringDecodes
<1>3. Decodes(EncodeInteger(size) \o EncodeOctetString(cookie), <<Num(size), Str(cookie)>>)
  BY <1>1, <1>2, PairDecodes, Zenon
<1> QED
  BY <1>3, NodesDecode, Zenon DEF PagedResultsControlValue

LEMMA SortDecodes ==
  ASSUME NEW attributes \in Seq(Texts)
  PROVE  Decodes(SortControlValue(attributes),
                 <<Node(48, Each(LAMBDA a : Node(48, <<Str(a)>>), attributes))>>)
<1> DEFINE Key(a) == EncodeSequence(EncodeOctetString(a))
           Read(a) == Node(48, <<Str(a)>>)
           V == {Read(a) : a \in Texts}
           g == [a \in Texts |-> Key(a)]
           e == [a \in Texts |-> Read(a)]
           list == Concat(Map(g, attributes))
           es == Map(e, attributes)
<1>1. \A i \in DOMAIN attributes : attributes[i] \in Texts
  BY LenProperties, ElementOfSeq
<1>2. SortControlValue(attributes) = EncodeSequence(list)
  <2>1. [i \in DOMAIN attributes |-> Key(attributes[i])] = Map(g, attributes)
    <3> HIDE DEF Key
    <3> QED
      BY <1>1 DEF Map
  <2>2. SortControlValue(attributes) =
          EncodeSequence(Concat([i \in DOMAIN attributes |-> Key(attributes[i])]))
    BY DEF SortControlValue, Each
  <2> HIDE DEF g, Key
  <2> QED
    BY <2>1, <2>2, Zenon
<1>3. Each(LAMBDA a : Node(48, <<Str(a)>>), attributes) = es
  <2>1. Each(LAMBDA a : Node(48, <<Str(a)>>), attributes) =
          [i \in DOMAIN attributes |-> Read(attributes[i])]
    BY DEF Each
  <2> HIDE DEF Read
  <2>2. [i \in DOMAIN attributes |-> Read(attributes[i])] = Map(e, attributes)
    BY <1>1 DEF Map
  <2> HIDE DEF e
  <2> QED
    BY <2>1, <2>2, Zenon
<1>4. \A a \in Texts : Key(a) \in Texts /\ Decodes(Key(a), <<Read(a)>>)
  <2> SUFFICES ASSUME NEW a \in Texts
               PROVE  Key(a) \in Texts /\ Decodes(Key(a), <<Read(a)>>)
    OBVIOUS
  <2>1. Decodes(EncodeOctetString(a), <<Str(a)>>)
    BY StringDecodes
  <2>2. Decodes(Key(a), <<Read(a)>>)
    BY <2>1, NodesDecode, Zenon
  <2> HIDE DEF Key, Read
  <2> QED
    BY <2>2 DEF Decodes
<1> HIDE DEF Key, Read
<1>5. Decodes(list, es)
  <2>1. g \in [Texts -> Texts] /\ e \in [Texts -> V]
    BY <1>4
  <2>2. \A a \in Texts : Decodes(g[a], <<e[a]>>)
    <3>1. \A a \in Texts : g[a] = Key(a) /\ e[a] = Read(a)
      OBVIOUS
    <3> HIDE DEF g, e
    <3> QED
      BY <1>4, <3>1, Zenon
  <2> HIDE DEF g, e, V
  <2> QED
    BY <2>1, <2>2, ListDecodes
<1> HIDE DEF list, es
<1>6. Decodes(EncodeSequence(list), <<Node(48, es)>>)
  BY <1>5, NodesDecode, Zenon
<1> QED
  BY <1>2, <1>3, <1>6, Zenon

LEMMA PasswordDecodes ==
  ASSUME NEW new \in Texts, NEW user \in Texts, NEW old \in Texts
  PROVE  Decodes(PasswordModifyRequestValue(new, user, old),
                 <<Node(48, (IF user = <<>> THEN <<>> ELSE <<Leaf(128, user)>>)
                            \o (IF old = <<>> THEN <<>> ELSE <<Leaf(129, old)>>)
                            \o <<Leaf(130, new)>>)>>)
<1> DEFINE x == IF user = <<>> THEN <<>> ELSE Tlv(128, user)
           y == IF old = <<>> THEN <<>> ELSE Tlv(129, old)
           z == Tlv(130, new)
           a == IF user = <<>> THEN <<>> ELSE <<Leaf(128, user)>>
           b == IF old = <<>> THEN <<>> ELSE <<Leaf(129, old)>>
           c == <<Leaf(130, new)>>
<1>1. Decodes(x, a)
  <2>1. Decodes(Tlv(128, user), <<Leaf(128, user)>>)
    BY StringDecodes
  <2> QED
    BY <2>1, NothingDecodes, Zenon
<1>2. Decodes(y, b)
  <2>1. Decodes(Tlv(129, old), <<Leaf(129, old)>>)
    BY StringDecodes
  <2> QED
    BY <2>1, NothingDecodes, Zenon
<1>3. Decodes(z, c)
  BY StringDecodes
<1>4. PasswordModifyRequestValue(new, user, old) = EncodeSequence(Concat(<<x, y, z>>))
  BY Zenon DEF PasswordModifyRequestValue
<1> HIDE DEF x, y, z, a, b, c
<1>5. x \in Texts /\ y \in Texts /\ z \in Texts /\ Sequence(a) /\ Sequence(b) /\ Sequence(c)
  BY <1>1, <1>2, <1>3, Zenon DEF Decodes
<1>6. Concat(<<x, y, z>>) = x \o (y \o z)
  <2>1. <<z>> \in Seq(Texts) /\ <<y, z>> \in Seq(Texts)
    BY <1>5
  <2>2. <<y>> \o <<z>> = <<y, z>> /\ <<x>> \o <<y, z>> = <<x, y, z>>
    BY Prefixed, Zenon
  <2>3. Concat(<<z>>) = z
    BY <1>5, <2>1, ConcatOfOne
  <2>4. Concat(<<y, z>>) = y \o z
    <3>1. Concat(<<y>> \o <<z>>) = y \o Concat(<<z>>)
      BY <1>5, <2>1, ConcatOfOne, Zenon
    <3> QED
      BY <2>2, <2>3, <3>1, Zenon
  <2>5. Concat(<<x>> \o <<y, z>>) = x \o Concat(<<y, z>>)
    BY <1>5, <2>1, ConcatOfOne, Zenon
  <2> QED
    BY <2>2, <2>4, <2>5, Zenon
<1>7. Decodes(x \o (y \o z), a \o (b \o c))
  <2> DEFINE u == y \o z
             v == b \o c
  <2>1. Decodes(u, v)
    BY <1>2, <1>3, DecodesJoined, Zenon
  <2> HIDE DEF u, v
  <2>2. Decodes(x \o u, a \o v)
    BY <1>1, <2>1, DecodesJoined, Zenon
  <2> QED
    BY <2>2, Zenon DEF u, v
<1>8. Associates(a, b, c)
  BY <1>5, SequencesAssociate
<1> DEFINE es == (a \o b) \o c
<1>9. Decodes(Concat(<<x, y, z>>), es)
  BY <1>6, <1>7, <1>8, Zenon DEF Associates
<1> HIDE DEF es
<1>10. Decodes(EncodeSequence(Concat(<<x, y, z>>)), <<Node(48, es)>>)
  BY <1>9, NodesDecode, Zenon
<1> QED
  BY <1>4, <1>10, Zenon DEF es, a, b, c

LEMMA CancelValueDecodes ==
  ASSUME NEW target \in Numbers
  PROVE  Decodes(CancelValue(target), <<Node(48, <<Num(target)>>)>>)
<1>1. Decodes(EncodeInteger(target), <<Num(target)>>)
  BY NumberDecodes
<1> QED
  BY <1>1, NodesDecode, Zenon DEF CancelValue

LEMMA ControlDecodes ==
  ASSUME NEW oid \in Texts, NEW criticality \in BOOLEAN, NEW value \in Seq(Texts)
  PROVE  Decodes(BuildControl(oid, criticality, value),
                 <<Node(48, <<Str(oid)>>
                            \o (IF criticality THEN <<Leaf(1, <<255>>)>> ELSE <<>>)
                            \o Strs(value))>>)
<1> DEFINE x == EncodeOctetString(oid)
           y == IF criticality THEN <<1, 1, 255>> ELSE <<>>
           z == Strings(value)
           a == <<Str(oid)>>
           b == IF criticality THEN <<Leaf(1, <<255>>)>> ELSE <<>>
           c == Strs(value)
           es == (a \o b) \o c
<1>1. Decodes(x, a)
  BY StringDecodes
<1>2. Decodes(y, b)
  <2>1. 255 \in Octets
    BY SMT DEF Octets
  <2>2. Decodes(<<1, 1, 255>>, <<Leaf(1, <<255>>)>>)
    BY <2>1, OneOctetDecodes
  <2> QED
    BY <2>2, NothingDecodes, Zenon
<1>3. Decodes(z, c)
  BY StringsDecode
<1>4. BuildControl(oid, criticality, value) = EncodeSequence((x \o y) \o z)
  BY Zenon DEF BuildControl
<1> HIDE DEF x, y, z, a, b, c
<1>5. Decodes((x \o y) \o z, es)
  <2> DEFINE u == x \o y
             v == a \o b
  <2>1. Decodes(u, v)
    BY <1>1, <1>2, DecodesJoined, Zenon
  <2> HIDE DEF u, v
  <2>2. Decodes(u \o z, v \o c)
    BY <1>3, <2>1, DecodesJoined, Zenon
  <2> QED
    BY <2>2, Zenon DEF u, v
<1> HIDE DEF es
<1>6. Decodes(EncodeSequence((x \o y) \o z), <<Node(48, es)>>)
  BY <1>5, NodesDecode, Zenon
<1> QED
  BY <1>4, <1>6, Zenon DEF es, a, b, c

\* Of ASCII, the characters are the octets.
LEMMA AsciiCharacters ==
  ASSUME NEW s \in Names
  PROVE  Characters(s) = Len(s)
<1>1. Len(s) \in Nat /\ DOMAIN s = 1..Len(s) /\ \A i \in 1..Len(s) : s[i] \in 0..127
  BY LenProperties, ElementOfSeq DEF Names
<1>2. \A i \in 1..Len(s) : s[i] \notin 128..191
  <2>1. \A x \in 0..127 : x \notin 128..191
    BY SMT
  <2> SUFFICES ASSUME NEW i \in 1..Len(s) PROVE s[i] \notin 128..191
    OBVIOUS
  <2>2. s[i] \in 0..127
    BY <1>1, Zenon
  <2> QED
    BY <2>1, <2>2, ZenonT(40)
<1> DEFINE n == Len(s)
<1> HIDE DEF n
<1>3. {i \in DOMAIN s : s[i] \notin 128..191} = 1..n
  <2>1. DOMAIN s = 1..n /\ \A i \in 1..n : s[i] \notin 128..191
    BY <1>1, <1>2 DEF n
  <2> QED
    BY <2>1, Zenon
<1>4. Cardinality(1..n) = n
  <2>1. n \in Int /\ 1 \in Int /\ n \in Nat
    BY <1>1 DEF n
  <2>2. Cardinality(1..n) = IF 1 > n THEN 0 ELSE n - 1 + 1
    BY <2>1, FS_Interval
  <2> QED
    BY <2>1, <2>2
<1> QED
  BY <1>3, <1>4, Zenon DEF Characters, n

LEMMA FilterDecodes ==
  ASSUME NEW attribute \in Names, NEW rule \in Names, NEW value \in Names
  PROVE  Decodes(BuildExtensibleMatchFilter(attribute, rule, value),
                 <<Node(169, <<Leaf(129, rule), Leaf(130, attribute), Leaf(131, value)>>)>>)
<1> DEFINE Part(t, s) == <<t>> \o EncodeLength(Characters(s)) \o s
           x == Tlv(129, rule)
           y == Tlv(130, attribute)
           z == Tlv(131, value)
           es == <<Leaf(129, rule), Leaf(130, attribute), Leaf(131, value)>>
<1>1. \A s \in Names : \A t : Part(t, s) = Tlv(t, s)
  BY AsciiCharacters, Zenon DEF Tlv
<1>2. BuildExtensibleMatchFilter(attribute, rule, value) =
        Tlv(169, (Part(129, rule) \o Part(130, attribute)) \o Part(131, value))
  BY DEF BuildExtensibleMatchFilter
<1> HIDE DEF Part
<1>3. /\ Decodes(x, <<Leaf(129, rule)>>) /\ Decodes(y, <<Leaf(130, attribute)>>)
      /\ Decodes(z, <<Leaf(131, value)>>)
  BY NamesAreTexts, StringDecodes
<1>4. Part(129, rule) = x /\ Part(130, attribute) = y /\ Part(131, value) = z
  BY <1>1, Zenon
<1> HIDE DEF x, y, z
<1>8. BuildExtensibleMatchFilter(attribute, rule, value) = Tlv(169, (x \o y) \o z)
  BY <1>2, <1>4, Zenon
<1>5. Decodes((x \o y) \o z, es)
  <2> DEFINE a == Leaf(129, rule)
             b == Leaf(130, attribute)
             c == Leaf(131, value)
  <2>1. Decodes(x, <<a>>) /\ Decodes(y, <<b>>) /\ Decodes(z, <<c>>)
    BY <1>3
  <2> HIDE DEF a, b, c
  <2>2. Decodes((x \o y) \o z, <<a, b, c>>)
    BY <2>1, TripleDecodes, Zenon
  <2> QED
    BY <2>2, Zenon DEF a, b, c
<1>6. 169 \in Constructors
  BY DEF Constructors
<1> HIDE DEF es
<1>7. Decodes(Tlv(169, (x \o y) \o z), <<Node(169, es)>>)
  BY <1>5, <1>6, NodesDecode, Zenon
<1> QED
  BY <1>8, <1>7, Zenon DEF es

\* What every method builds is read as what its caller asked for.
LEMMA BuildDecodes ==
  ASSUME NEW r, Askable(r), Encodable(r), r.kind # "abandon"
  PROVE  Decodes(Build(r), <<Meant(r)>>)
<1>0. r.kind \in {"bind", "sasl", "modify", "increment", "add", "cancel", "extended"}
      \/ r.kind \in {"search", "pagedValue", "sortValue", "passwordValue", "cancelValue",
                       "control", "extensibleFilter"}
  BY SMT DEF Askable
<1>1. CASE r.kind = "bind"
  <2>1. /\ r.id \in Numbers /\ r.version \in Numbers /\ r.dn \in Texts /\ r.password \in Texts
    BY <1>1, SMT DEF Askable
  <2>2. Build(r) = BuildBindRequest(r.id, r.version, r.dn, r.password)
    BY <1>1, SMT DEF Build
  <2>3. Meant(r) =
          Message(r.id, Node(96, <<Num(r.version), Str(r.dn), Leaf(128, r.password)>>), <<>>)
    BY <1>1, SMT DEF Meant
  <2>6. Decodes(BuildBindRequest(r.id, r.version, r.dn, r.password),
                <<Message(r.id, Node(96, <<Num(r.version), Str(r.dn), Leaf(128, r.password)>>), <<>>)>>)
    BY <2>1, BindDecodes
  <2> QED
    BY <2>2, <2>3, <2>6, Zenon
<1>2. CASE r.kind = "sasl"
  <2>1. /\ r.id \in Numbers /\ r.version \in Numbers /\ r.dn \in Texts /\ r.mechanism \in Texts
        /\ r.credentials \in Seq(Texts)
    BY <1>2, SMT DEF Askable
  <2>2. Build(r) = BuildSaslBindRequest(r.id, r.version, r.dn, r.mechanism, r.credentials)
    BY <1>2, SMT DEF Build
  <2>3. Meant(r) =
          Message(r.id, Node(96, <<Num(r.version), Str(r.dn),
            Node(163, <<Str(r.mechanism)>> \o Strs(r.credentials))>>), <<>>)
    BY <1>2, SMT DEF Meant
  <2>6. Decodes(BuildSaslBindRequest(r.id, r.version, r.dn, r.mechanism, r.credentials),
                <<Message(r.id, Node(96, <<Num(r.version), Str(r.dn),
            Node(163, <<Str(r.mechanism)>> \o Strs(r.credentials))>>), <<>>)>>)
    BY <2>1, BindDecodes
  <2> QED
    BY <2>2, <2>3, <2>6, Zenon
<1>3. CASE r.kind = "modify"
  <2>1. /\ r.id \in Numbers /\ r.dn \in Texts /\ r.attribute \in Texts /\ r.values \in Seq(Texts)
        /\ r.operation \in 0..3
    BY <1>3, SMT DEF Askable
  <2>2. Build(r) = BuildModifyRequest(r.id, r.dn, r.attribute, r.values, r.operation)
    BY <1>3, SMT DEF Build
  <2>3. Meant(r) =
          AskedModify(r.id, r.dn, r.attribute, r.values, r.operation)
    BY <1>3, SMT DEF Meant, AskedModify
  <2>6. Decodes(BuildModifyRequest(r.id, r.dn, r.attribute, r.values, r.operation),
                <<AskedModify(r.id, r.dn, r.attribute, r.values, r.operation)>>)
    BY <2>1, ModifyDecodes
  <2> QED
    BY <2>2, <2>3, <2>6, Zenon
<1>4. CASE r.kind = "increment"
  <2> DEFINE values == <<r.by>>
  <2>1. /\ r.id \in Numbers /\ r.dn \in Texts /\ r.attribute \in Texts /\ values \in Seq(Texts)
        /\ 3 \in 0..3
    BY <1>4, SMT DEF Askable
  <2>2. Build(r) = BuildModifyRequest(r.id, r.dn, r.attribute, values, 3)
    <3>1. Build(r) = BuildModifyIncrement(r.id, r.dn, r.attribute, r.by)
      BY <1>4, SMT DEF Build
    <3> QED
      BY <3>1 DEF BuildModifyIncrement
  <2>3. Meant(r) = AskedModify(r.id, r.dn, r.attribute, values, 3)
    BY <1>4, SMT DEF Meant, AskedModify
  <2> HIDE DEF values
  <2>4. Decodes(BuildModifyRequest(r.id, r.dn, r.attribute, values, 3),
                <<AskedModify(r.id, r.dn, r.attribute, values, 3)>>)
    BY <2>1, ModifyDecodes
  <2> QED
    BY <2>2, <2>3, <2>4, Zenon
<1>5. CASE r.kind = "add"
  <2>1. /\ r.id \in Numbers /\ r.dn \in Texts /\ r.attributes \in Seq(Attributes)
    BY <1>5, SMT DEF Askable, Entries
  <2>2. Build(r) = BuildAddRequest(r.id, r.dn, r.attributes)
    BY <1>5, SMT DEF Build
  <2>3. Meant(r) =
          Message(r.id, Node(104, <<Str(r.dn),
            Node(48, Each(LAMBDA a : Attribute(a.type, a.vals), r.attributes))>>), <<>>)
    BY <1>5, SMT DEF Meant
  <2>6. Decodes(BuildAddRequest(r.id, r.dn, r.attributes),
                <<Message(r.id, Node(104, <<Str(r.dn),
            Node(48, Each(LAMBDA a : Attribute(a.type, a.vals), r.attributes))>>), <<>>)>>)
    BY <2>1, AddDecodes
  <2> QED
    BY <2>2, <2>3, <2>6, Zenon
<1>6. CASE r.kind = "cancel"
  <2>1. /\ r.id \in Numbers /\ r.target \in Numbers
    BY <1>6, SMT DEF Askable
  <2>2. Build(r) = BuildCancelRequest(r.id, r.target)
    BY <1>6, SMT DEF Build
  <2>3. Meant(r) =
          Message(r.id, Node(119, <<Leaf(128, CancelOid), Leaf(129, CancelValue(r.target))>>), <<>>)
    BY <1>6, SMT DEF Meant
  <2>6. Decodes(BuildCancelRequest(r.id, r.target),
                <<Message(r.id, Node(119, <<Leaf(128, CancelOid), Leaf(129, CancelValue(r.target))>>),
                           <<>>)>>)
    BY <2>1, CancelDecodes
  <2> QED
    BY <2>2, <2>3, <2>6, Zenon
<1>7. CASE r.kind = "extended"
  <2>1. /\ r.id \in Numbers /\ r.name \in Texts
        /\ r.value \in Seq(Texts) /\ r.controls \in Seq(Texts)
    BY <1>7, SMT DEF Askable
  <2>2. Build(r) = BuildExtendedRequest(r.id, r.name, r.value, r.controls)
    BY <1>7, SMT DEF Build
  <2>3. Meant(r) =
          AskedExtended(r.id, r.name, r.value, r.controls)
    BY <1>7, SMT DEF Meant, AskedExtended
  <2>4. \A i \in DOMAIN r.controls : ReadableElements(r.controls[i])
    BY <1>7 DEF Encodable
  <2>6. Decodes(BuildExtendedRequest(r.id, r.name, r.value, r.controls),
                <<AskedExtended(r.id, r.name, r.value, r.controls)>>)
    BY <2>1, <2>4, ExtendedDecodes
  <2> QED
    BY <2>2, <2>3, <2>6, Zenon
<1>8. CASE r.kind = "search"
  <2>1. /\ r.id \in Numbers /\ r.base \in Texts /\ r.attributes \in Seq(Texts) /\ r.scope \in 0..3
        /\ r.filter \in Seq(Texts) /\ r.controls \in Seq(Texts)
    BY <1>8, SMT DEF Askable
  <2>2. Build(r) = BuildSearchRequest(r.id, r.base, r.attributes, r.scope, r.filter, r.controls)
    BY <1>8, SMT DEF Build
  <2>3. Meant(r) =
          AskedSearch(r.id, r.base, r.attributes, r.scope, r.filter, r.controls)
    BY <1>8, SMT DEF Meant, AskedSearch
  <2>4. \A i \in DOMAIN r.controls : ReadableElements(r.controls[i])
    BY <1>8 DEF Encodable
  <2>5. \A i \in DOMAIN r.filter : ReadableElements(r.filter[i])
    BY <1>8 DEF Encodable
  <2>6. Decodes(BuildSearchRequest(r.id, r.base, r.attributes, r.scope, r.filter, r.controls),
                <<AskedSearch(r.id, r.base, r.attributes, r.scope, r.filter, r.controls)>>)
    BY <2>1, <2>4, <2>5, SearchDecodes
  <2> QED
    BY <2>2, <2>3, <2>6, Zenon
<1>9. CASE r.kind = "pagedValue"
  <2>1. /\ r.size \in Numbers /\ r.cookie \in Texts
    BY <1>9, SMT DEF Askable
  <2>2. Build(r) = PagedResultsControlValue(r.size, r.cookie)
    BY <1>9, SMT DEF Build
  <2>3. Meant(r) =
          Node(48, <<Num(r.size), Str(r.cookie)>>)
    BY <1>9, SMT DEF Meant
  <2>6. Decodes(PagedResultsControlValue(r.size, r.cookie),
                <<Node(48, <<Num(r.size), Str(r.cookie)>>)>>)
    BY <2>1, PagedDecodes
  <2> QED
    BY <2>2, <2>3, <2>6, Zenon
<1>10. CASE r.kind = "sortValue"
  <2>1. /\ r.attributes \in Seq(Texts)
    BY <1>10, SMT DEF Askable
  <2>2. Build(r) = SortControlValue(r.attributes)
    BY <1>10, SMT DEF Build
  <2>3. Meant(r) =
          Node(48, Each(LAMBDA a : Node(48, <<Str(a)>>), r.attributes))
    BY <1>10, SMT DEF Meant
  <2>6. Decodes(SortControlValue(r.attributes),
                <<Node(48, Each(LAMBDA a : Node(48, <<Str(a)>>), r.attributes))>>)
    BY <2>1, SortDecodes
  <2> QED
    BY <2>2, <2>3, <2>6, Zenon
<1>11. CASE r.kind = "passwordValue"
  <2>1. /\ r.new \in Texts /\ r.user \in Texts /\ r.old \in Texts
    BY <1>11, SMT DEF Askable
  <2>2. Build(r) = PasswordModifyRequestValue(r.new, r.user, r.old)
    BY <1>11, SMT DEF Build
  <2>3. Meant(r) =
          Node(48, (IF r.user = <<>> THEN <<>> ELSE <<Leaf(128, r.user)>>)
            \o (IF r.old = <<>> THEN <<>> ELSE <<Leaf(129, r.old)>>)
            \o <<Leaf(130, r.new)>>)
    BY <1>11, SMT DEF Meant
  <2>6. Decodes(PasswordModifyRequestValue(r.new, r.user, r.old),
                <<Node(48, (IF r.user = <<>> THEN <<>> ELSE <<Leaf(128, r.user)>>)
            \o (IF r.old = <<>> THEN <<>> ELSE <<Leaf(129, r.old)>>)
            \o <<Leaf(130, r.new)>>)>>)
    BY <2>1, PasswordDecodes
  <2> QED
    BY <2>2, <2>3, <2>6, Zenon
<1>12. CASE r.kind = "cancelValue"
  <2>1. /\ r.target \in Numbers
    BY <1>12, SMT DEF Askable
  <2>2. Build(r) = CancelValue(r.target)
    BY <1>12, SMT DEF Build
  <2>3. Meant(r) =
          Node(48, <<Num(r.target)>>)
    BY <1>12, SMT DEF Meant
  <2>6. Decodes(CancelValue(r.target),
                <<Node(48, <<Num(r.target)>>)>>)
    BY <2>1, CancelValueDecodes
  <2> QED
    BY <2>2, <2>3, <2>6, Zenon
<1>13. CASE r.kind = "control"
  <2>1. /\ r.oid \in Texts /\ r.criticality \in BOOLEAN /\ r.value \in Seq(Texts)
    BY <1>13, SMT DEF Askable
  <2>2. Build(r) = BuildControl(r.oid, r.criticality, r.value)
    BY <1>13, SMT DEF Build
  <2>3. Meant(r) =
          Node(48, <<Str(r.oid)>> \o (IF r.criticality THEN <<Leaf(1, <<255>>)>> ELSE <<>>)
            \o Strs(r.value))
    BY <1>13, SMT DEF Meant
  <2>6. Decodes(BuildControl(r.oid, r.criticality, r.value),
                <<Node(48, <<Str(r.oid)>> \o (IF r.criticality THEN <<Leaf(1, <<255>>)>> ELSE <<>>)
            \o Strs(r.value))>>)
    BY <2>1, ControlDecodes
  <2> QED
    BY <2>2, <2>3, <2>6, Zenon
<1>14. CASE r.kind = "extensibleFilter"
  <2>1. /\ r.attribute \in Names /\ r.rule \in Names /\ r.value \in Names
    <3>1. {r.attribute, r.rule, r.value} \subseteq Names
      BY <1>14, Zenon DEF Encodable
    <3> QED
      BY <3>1
  <2>2. Build(r) = BuildExtensibleMatchFilter(r.attribute, r.rule, r.value)
    BY <1>14, SMT DEF Build
  <2>3. Meant(r) =
          Node(169, <<Leaf(129, r.rule), Leaf(130, r.attribute), Leaf(131, r.value)>>)
    BY <1>14, SMT DEF Meant
  <2>6. Decodes(BuildExtensibleMatchFilter(r.attribute, r.rule, r.value),
                <<Node(169, <<Leaf(129, r.rule), Leaf(130, r.attribute), Leaf(131, r.value)>>)>>)
    BY <2>1, FilterDecodes
  <2> QED
    BY <2>2, <2>3, <2>6, Zenon
<1> QED
  BY <1>0, <1>1, <1>2, <1>3, <1>4, <1>5, <1>6, <1>7, <1>8, <1>9, <1>10, <1>11, <1>12, <1>13, <1>14

\* What the client has sent is what the method returned.
Sending == request # Idle => request \in Requests /\ pdu = Build(request)
LEMMA SentIsBuilt ==
  Spec => []Sending
<1>1. Init => Sending
  BY DEF Init, Sending
<1>2. Sending /\ [Next]_vars => Sending'
  <2> SUFFICES ASSUME Sending, [Next]_vars PROVE Sending'
    OBVIOUS
  <2>1. CASE Ask
    BY <2>1 DEF Ask, Sending
  <2>2. CASE Answer
    BY <2>2 DEF Answer, Sending
  <2>3. CASE Receive
    BY <2>3 DEF Receive, Sending
  <2>4. CASE UNCHANGED vars
    BY <2>4 DEF vars, Sending
  <2> QED
    BY <2>1, <2>2, <2>3, <2>4 DEF Next
<1> QED
  BY <1>1, <1>2, PTL DEF Spec

\* What raw.py sends is what was asked for: for every method that builds a request
\* or a value of one, whatever it is given, a server that reads the PDU by the rules
\* of BER finds one element in it, with the parts the caller named, in their
\* order, with their tags and their lengths.
THEOREM RequestsAreUnderstood ==
  Spec => []RequestsDecode
<1>1. Sending => RequestsDecode
  <2> SUFFICES ASSUME Sending, request # Idle, request.kind # "abandon", Encodable(request)
               PROVE  Elements[pdu] = <<Meant(request)>>
    BY DEF RequestsDecode
  <2>1. request \in Requests /\ pdu = Build(request)
    BY DEF Sending
  <2>2. Askable(request)
    BY <2>1, RequestsAssumption
  <2>3. Decodes(Build(request), <<Meant(request)>>)
    BY <2>2, BuildDecodes
  <2>4. Len(Build(request)) <= LargestPdu
    BY DEF Encodable
  <2>5. ReadAs(Build(request), <<Meant(request)>>)
    BY <2>3, <2>4, Zenon DEF Decodes, ReadAs
  <2>6. Elements[Build(request)] = <<Meant(request)>>
    BY <2>5, ReadAlone, Zenon
  <2> QED
    BY <2>1, <2>6, Zenon
<1> QED
  BY <1>1, SentIsBuilt, PTL

=============================================================================
