-------------------------- MODULE BerAnswerProofs ---------------------------
(***************************************************************************)
(* For everything a server may send, in every form of length: what a search *)
(* is told is what was in the messages that have come whole, and what the  *)
(* parsers of one response make of a read that stops anywhere is the first *)
(* message's or nothing.                                                   *)
(***************************************************************************)
EXTENDS BerStreamProofs

-----------------------------------------------------------------------------
\* Past the tag and the length of an element, whatever comes after them.

\* The cursor within an element of n octets of which after has come.
Within(after, n) == [left |-> after, size |-> n, state |-> "ok", cut |-> n > Len(after)]

LEMMA HeadTaken ==
  ASSUME NEW t \in Octets, NEW tags, t \in tags, NEW n \in Nat, NEW l, Reads(l, n),
         NEW after \in Texts
  PROVE  Enter(Start((<<t>> \o l) \o after), tags) = Within(after, n)
<1> DEFINE h == <<t>>
           x == h \o l
           y == l \o after
           d == x \o after
<1>1. /\ h \in Seq(Octets) /\ Len(h) = 1 /\ l \in Seq(Octets) /\ after \in Seq(Octets)
      /\ Len(l) \in Nat /\ Len(l) >= 1 /\ Len(after) \in Nat
  <2>1. l \in Seq(Octets) /\ l # <<>>
    BY DEF Reads, Texts
  <2> QED
    BY <2>1, LenProperties, EmptySeq DEF Texts
<1>2. x \in Seq(Octets) /\ Len(x) = 1 + Len(l) /\ y \in Seq(Octets) /\ Len(y) = Len(l) + Len(after)
  <2> HIDE DEF h
  <2> QED
    BY <1>1, ConcatProperties
<1>3. d = h \o y
  <2> HIDE DEF h
  <2> QED
    BY <1>1, SMTT(30)
<1> HIDE DEF x, y
<1>4. Head(d) = t /\ Tail(d) = y /\ Len(d) = 1 + Len(y) /\ d # <<>>
  <2> HIDE DEF d
  <2>1. d = <<t>> \o y
    BY <1>3 DEF h
  <2> QED
    BY <1>2, <2>1, TagFirst, Zenon
<1>5. Drop(d, 1 + Len(l)) = after
  <2>1. Drop(x \o after, Len(x)) = after
    BY <1>1, <1>2, SliceAtBorder, Zenon
  <2> QED
    BY <1>2, <2>1, Zenon
<1>6. ParseLength(y) = <<n, Len(l)>>
  BY DEF Reads, y
<1>7. Len(d) = 1 + (Len(l) + Len(after))
  BY <1>2, <1>4, Zenon
<1> HIDE DEF d, h
<1>8. Start(d).state = "ok" /\ Start(d).left = d
  BY DEF Start, Cursor
<1>9. ParseLength(y)[1] = n /\ ParseLength(y)[2] = Len(l)
  <2> DEFINE k == Len(l)
             z == ParseLength(y)
  <2>1. z = <<n, k>>
    BY <1>6
  <2> HIDE DEF k, z
  <2>2. z[1] = n /\ z[2] = k
    BY <2>1
  <2> QED
    BY <2>2 DEF k, z
<1>10. Len(d) # 1
  BY <1>1, <1>7
<1>11. Enter(Start(d), tags) =
         [left |-> Drop(d, 1 + ParseLength(y)[2]), size |-> ParseLength(y)[1], state |-> "ok",
          cut |-> BeyondEnd(d, 1 + ParseLength(y)[2] + ParseLength(y)[1])]
  BY <1>4, <1>8, <1>10, Zenon DEF Enter
<1>12. BeyondEnd(d, 1 + Len(l) + n) = (n > Len(after))
  <2> DEFINE a == Len(l)
             b == Len(after)
             e == Len(d)
  <2>1. a \in Nat /\ b \in Nat /\ e = 1 + (a + b)
    BY <1>1, <1>7
  <2> HIDE DEF a, b, e
  <2>2. (1 + a + n > e) = (n > b)
    BY <2>1
  <2> QED
    BY <2>2, Zenon DEF BeyondEnd, a, b, e
<1>13. Enter(Start(d), tags) = Within(after, n)
  BY <1>5, <1>9, <1>11, <1>12, Zenon DEF Within
<1> QED
  BY <1>13 DEF d, x, h

\* What is read within an element that has come whole.
Took(e, c, rest) ==
  /\ e.state = "ok" /\ ~e.cut /\ e.left = c \o rest /\ Contents(e) = c
  /\ Over(e).state = "ok" /\ Over(e).left = rest

LEMMA WithinWhole ==
  ASSUME NEW c \in Texts, NEW rest \in Texts
  PROVE  Took(Within(c \o rest, Len(c)), c, rest)
<1> DEFINE e == Within(c \o rest, Len(c))
           s == c \o rest
<1>1. c \in Seq(Octets) /\ rest \in Seq(Octets) /\ Len(c) \in Nat /\ Len(rest) \in Nat
  BY LenProperties DEF Texts
<1>2. Drop(s, Len(c)) = rest /\ UpTo(s, Len(c)) = c
  BY <1>1, SliceAtBorder, Zenon
<1>3. Len(s) = Len(c) + Len(rest)
  BY <1>1, ConcatProperties
<1> HIDE DEF s
<1>4. e = [left |-> s, size |-> Len(c), state |-> "ok", cut |-> Len(c) > Len(s)]
  BY DEF Within, s
<1> HIDE DEF e
<1>5. e.left = s /\ e.size = Len(c) /\ e.state = "ok" /\ e.cut = (Len(c) > Len(s))
  BY <1>4, Zenon
<1>6. ~e.cut
  <2>1. ~(Len(c) > Len(s))
    BY <1>1, <1>3
  <2> QED
    BY <1>5, <2>1, Zenon
<1>7. Over(e).state = "ok" /\ Over(e).left = rest
  <2>1. Over(e) = [e EXCEPT !.left = rest]
    BY <1>2, <1>5, Zenon DEF Over
  <2> QED
    BY <1>4, <2>1
<1>8. Contents(e) = c
  BY <1>2, <1>5, Zenon DEF Contents
<1> QED
  BY <1>5, <1>6, <1>7, <1>8 DEF Took, e, s

\* c has room in a length of that form.
Fits(form, c) == c \in Texts /\ Len(c) < Capacity(form)

LEMMA ElementTaken ==
  ASSUME NEW form \in 0..4, NEW t \in Tags, NEW tags, t \in tags, NEW c, Fits(form, c),
         NEW rest \in Texts
  PROVE  Took(Enter(Start(Element(form, t, c) \o rest), tags), c, rest)
<1> DEFINE l == ServerLength(form, Len(c))
<1>1. c \in Texts /\ Len(c) \in Nat /\ Len(c) < Capacity(form) /\ t \in Octets
  BY TagsAreOctets, LenProperties DEF Fits, Texts
<1>2. Reads(l, Len(c))
  BY <1>1, ServerLengthReads
<1>3. l \in Texts /\ <<t>> \in Texts
  BY <1>1, <1>2, Octetwise DEF Reads
<1>4. Element(form, t, c) = (<<t>> \o l) \o c
  BY DEF Element
<1> HIDE DEF l
<1>5. c \o rest \in Texts /\ <<t>> \o l \in Texts
  BY <1>1, <1>3, Joined
<1>6. Element(form, t, c) \o rest = (<<t>> \o l) \o (c \o rest)
  <2> DEFINE x == <<t>> \o l
  <2>1. x \in Seq(Octets) /\ c \in Seq(Octets) /\ rest \in Seq(Octets)
    BY <1>1, <1>5 DEF Texts
  <2> HIDE DEF x
  <2>2. x \o (c \o rest) = (x \o c) \o rest
    BY <2>1, SMTT(30)
  <2> QED
    BY <1>4, <2>2, Zenon DEF x
<1>7. Enter(Start(Element(form, t, c) \o rest), tags) = Within(c \o rest, Len(c))
  <2> DEFINE n == Len(c)
             after == c \o rest
             d == (<<t>> \o l) \o after
  <2>1. n \in Nat /\ Reads(l, n) /\ after \in Texts /\ t \in Octets
    BY <1>1, <1>2, <1>5
  <2> HIDE DEF n, after
  <2>2. Enter(Start(d), tags) = Within(after, n)
    BY <2>1, HeadTaken, SMT DEF d
  <2> QED
    BY <1>6, <2>2, Zenon DEF d, after, n
<1> QED
  BY <1>1, <1>7, WithinWhole, Zenon

-----------------------------------------------------------------------------
\* What has room as a whole has it in its parts.
LEMMA PartsFit ==
  ASSUME NEW form \in 0..4, NEW a \in Texts, NEW b \in Texts, Fits(form, a \o b)
  PROVE  Fits(form, a) /\ Fits(form, b)
<1>1. /\ Len(a \o b) = Len(a) + Len(b) /\ Len(a) \in Nat /\ Len(b) \in Nat
      /\ Len(a \o b) < Capacity(form)
  BY ConcatProperties, LenProperties DEF Texts, Fits
<1>2. Capacity(form) \in Nat
  BY DEF Capacity
<1> QED
  BY <1>1, <1>2 DEF Fits

LEMMA InsideFits ==
  ASSUME NEW form \in 0..4, NEW t \in Tags, NEW c \in Texts, Fits(form, Element(form, t, c))
  PROVE  Fits(form, c)
<1> DEFINE l == ServerLength(form, Len(c))
<1>1. <<t>> \in Texts /\ l \in Texts
  BY TagsAreOctets, Octetwise, ServerLengthTyped, LenProperties DEF Texts
<1>2. Element(form, t, c) = (<<t>> \o l) \o c
  BY DEF Element
<1>3. <<t>> \o l \in Texts
  BY <1>1, Joined
<1> QED
  BY <1>2, <1>3, PartsFit

\* One element more.
LEMMA ElementsGrow ==
  ASSUME NEW form \in 0..4, NEW t \in Tags
  PROVE  /\ ElementsOf(form, t, <<>>) = <<>>
         /\ \A ss \in Seq(Texts) : \A s \in Texts :
              ElementsOf(form, t, Append(ss, s)) = ElementsOf(form, t, ss) \o Element(form, t, s)
<1> DEFINE g == [x \in Texts |-> Element(form, t, x)]
<1>1. g \in [Texts -> Texts]
  BY ElementTyped
<1>2. ASSUME NEW ss \in Seq(Texts) PROVE ElementsOf(form, t, ss) = Concat(Map(g, ss))
  <2>1. \A i \in DOMAIN ss : ss[i] \in Texts
    BY LenProperties, ElementOfSeq
  <2>2. Map(g, ss) = [i \in DOMAIN ss |-> Element(form, t, ss[i])]
    BY <2>1 DEF Map
  <2> QED
    BY <2>2 DEF ElementsOf
<1>3. \A x \in Texts : g[x] = Element(form, t, x)
  OBVIOUS
<1> HIDE DEF g
<1>4. <<>> \in Seq(Texts) /\ <<>> \in Texts
  BY EmptySeq DEF Texts
<1>5. ElementsOf(form, t, <<>>) = <<>>
  <2>1. Map(g, <<>>) = <<>>
    BY <1>1, <1>4, MapGrows
  <2>2. FlattenSeq(<<>>) = <<>>
    BY DEF FlattenSeq
  <2> QED
    BY <1>2, <1>4, <2>1, <2>2, Zenon DEF Concat
<1>6. ASSUME NEW ss \in Seq(Texts), NEW s \in Texts
      PROVE  ElementsOf(form, t, Append(ss, s)) = ElementsOf(form, t, ss) \o Element(form, t, s)
  <2> DEFINE u == Map(g, ss)
             e == g[s]
             ts == Append(ss, s)
  <2>1. u \in Seq(Seq(Octets)) /\ e \in Seq(Octets)
    BY <1>1, MapTyped DEF Texts, MapsInto
  <2>2. ts \in Seq(Texts)
    BY AppendProperties
  <2>3. Map(g, ts) = Append(u, e)
    BY <1>1, MapGrows
  <2> HIDE DEF u, e, ts
  <2>4. FlattenSeq(Append(u, e)) = FlattenSeq(u) \o e
    BY <2>1, FlattenGrows
  <2>5. ElementsOf(form, t, ts) = FlattenSeq(Append(u, e))
    BY <1>2, <2>2, <2>3, Zenon DEF Concat
  <2>6. ElementsOf(form, t, ss) = FlattenSeq(u)
    BY <1>2, Zenon DEF Concat, u
  <2>7. e = Element(form, t, s)
    BY <1>3, Zenon DEF e
  <2> QED
    BY <2>4, <2>5, <2>6, <2>7, Zenon DEF ts
<1> QED
  BY <1>5, <1>6

-----------------------------------------------------------------------------
\* The loop that reads elements of one kind, and what it finds.

ListBody(f, d, tags) ==
  LET e == Enter(Start(d), tags)
  IN  IF e.state # "ok" THEN <<>> ELSE <<Contents(e)>> \o f[Over(e).left]

LEMMA ListUnfolds ==
  ASSUME NEW tags, NEW d \in Texts
  PROVE  /\ List(d, tags) \in Seq(Texts)
         /\ LET e == Enter(Start(d), tags)
            IN  List(d, tags) = IF e.state # "ok" THEN <<>>
                                ELSE <<Contents(e)>> \o List(Over(e).left, tags)
<1> DEFINE D == Seq(Octets)
           V == Seq(Texts)
           Here(x) == Enter(Start(x), tags)
           Next1(x) == Over(Here(x)).left
           Goes(x) == Here(x).state = "ok"
           stop == {x \in D : ~Goes(x)}
           m == [x \in D |-> Len(x)]
           p == [x \in D |-> Next1(x)]
           base == [x \in D |-> <<>>]
           h == [y \in D \X V |-> <<Contents(Here(y[1]))>> \o y[2]]
<1>1. ASSUME NEW x \in D
      PROVE  /\ Len(x) \in Nat /\ Next1(x) \in D /\ Contents(Here(x)) \in Texts
             /\ Goes(x) => Len(Next1(x)) < Len(x)
  <2> DEFINE e == Here(x)
  <2>1. /\ e.left \in D /\ e.size \in Nat /\ Next1(x) \in D
        /\ Goes(x) => Len(e.left) < Len(x)
        /\ Len(Next1(x)) <= Len(e.left)
    BY EnterTyped
  <2> HIDE DEF e
  <2>2. UpTo(e.left, e.size) \in D
    BY <2>1, SliceTyped
  <2>3. Contents(e) \in Texts
    BY <2>2 DEF Contents, Texts
  <2>4. Len(x) \in Nat /\ Len(e.left) \in Nat /\ Len(Next1(x)) \in Nat
    BY <2>1, LenProperties
  <2>5. Goes(x) => Len(Next1(x)) < Len(x)
    <3> HIDE DEF Next1, Goes
    <3> QED
      BY <2>1, <2>4
  <2> QED
    BY <2>1, <2>3, <2>4, <2>5 DEF e
<1> HIDE DEF Here, Next1, Goes
<1>2. ASSUME NEW x \in D, NEW r \in V
      PROVE  <<Contents(Here(x))>> \o r \in V
  <2>1. <<Contents(Here(x))>> \in V
    BY <1>1
  <2> QED
    BY <2>1, ConcatProperties
<1>3. m \in [D -> Nat] /\ p \in [D -> D]
  BY <1>1
<1>4. base \in [D -> V]
  BY EmptySeq
<1>5. h \in [D \X V -> V]
  BY <1>2
<1>6. \A x \in D : x \notin stop => m[p[x]] < m[x]
  BY <1>1
<1>7. \A x \in D : /\ x \in stop <=> ~Goes(x)
                   /\ p[x] = Next1(x) /\ base[x] = <<>>
                   /\ \A r \in V : h[<<x, r>>] = <<Contents(Here(x))>> \o r
  OBVIOUS
<1> HIDE DEF m, base, p, h, stop, D, V
<1>8. PICK f \in [D -> V] : \A x \in D : Obeys(f, x, stop, base, p, h)
  BY <1>3, <1>4, <1>5, <1>6, RecursiveFunction
<1>9. f = [x \in D |-> ListBody(f, x, tags)]
  <2>1. ASSUME NEW x \in D, x \in stop PROVE f[x] = ListBody(f, x, tags)
    <3>1. f[x] = <<>> /\ ~Goes(x)
      BY <1>7, <1>8, <2>1, Zenon DEF Obeys
    <3> QED
      BY <3>1, Zenon DEF ListBody, Goes, Here
  <2>2. ASSUME NEW x \in D, x \notin stop PROVE f[x] = ListBody(f, x, tags)
    <3>1. p[x] \in D /\ f[p[x]] \in V /\ p[x] = Next1(x)
      BY <1>3, <1>7
    <3>2. f[x] = <<Contents(Here(x))>> \o f[Next1(x)]
      BY <1>7, <1>8, <2>2, <3>1, ZenonT(40) DEF Obeys
    <3>3. Goes(x)
      BY <1>7, <2>2, Zenon
    <3> QED
      BY <3>2, <3>3, Zenon DEF ListBody, Goes, Here, Next1
  <2>3. \A x \in D : f[x] = ListBody(f, x, tags)
    BY <2>1, <2>2, Zenon
  <2> QED
    BY <2>3
<1> DEFINE g == CHOOSE g : g = [x \in D |-> ListBody(g, x, tags)]
<1>10. g = [x \in D |-> ListBody(g, x, tags)]
  BY <1>9
<1>11. \A x \in D : List(x, tags) = g[x]
  BY DEF List, ListBody, D
<1> HIDE DEF g
<1>12. \A x \in D : g[x] = ListBody(g, x, tags)
  BY <1>10
<1> DEFINE Typed == {n \in Nat : \A x \in D : Len(x) = n => g[x] \in V}
<1>13. ASSUME NEW n \in Nat, \A k \in Nat : k < n => k \in Typed PROVE n \in Typed
  <2>1. ASSUME NEW x \in D, Len(x) = n PROVE g[x] \in V
    <3>1. CASE Goes(x)
      <4>1. Next1(x) \in D /\ Len(Next1(x)) \in Nat /\ Len(Next1(x)) < n
        BY <1>1, <2>1, <3>1
      <4>2. g[Next1(x)] \in V
        BY <1>13, <4>1
      <4>3. g[x] = <<Contents(Here(x))>> \o g[Next1(x)]
        BY <1>12, <3>1, Zenon DEF ListBody, Goes, Here, Next1
      <4> QED
        BY <1>2, <4>2, <4>3
    <3>2. CASE ~Goes(x)
      <4>1. g[x] = <<>>
        BY <1>12, <3>2, Zenon DEF ListBody, Goes, Here
      <4> QED
        BY <4>1, EmptySeq DEF V
    <3> QED
      BY <3>1, <3>2
  <2> QED
    BY <2>1
<1>14. \A n \in Nat : n \in Typed
  <2> HIDE DEF Typed
  <2> QED
    BY <1>13, AllBelow
<1>15. d \in D /\ Len(d) \in Nat
  BY LenProperties DEF D, Texts
<1>16. g[d] \in V /\ g[d] = ListBody(g, d, tags)
  BY <1>12, <1>14, <1>15
<1>17. Next1(d) \in D
  BY <1>1, <1>15
<1>18. List(d, tags) = g[d] /\ List(Next1(d), tags) = g[Next1(d)]
  BY <1>11, <1>15, <1>17, Zenon
<1> QED
  BY <1>16, <1>18, Zenon DEF ListBody, Here, Next1, V

\* A set of sequences on whose elements, followed by anything, the loop stops
\* only after them.
ReadsAll(form, t) ==
  {ss \in Seq(Texts) :
     Fits(form, ElementsOf(form, t, ss)) =>
       \A d \in Texts : List(ElementsOf(form, t, ss) \o d, {t}) = ss \o List(d, {t})}

LEMMA ListReads ==
  ASSUME NEW form \in 0..4, NEW t \in Tags, NEW ss \in Seq(Texts),
         Fits(form, ElementsOf(form, t, ss))
  PROVE  List(ElementsOf(form, t, ss), {t}) = ss
<1> DEFINE E(x) == ElementsOf(form, t, x)
           T == ReadsAll(form, t)
           V == Seq(Texts)
           L(d) == List(d, {t})
<1>1. \A d \in Texts : L(d) \in V
  BY ListUnfolds
<1>2. <<>> \in T
  <2>1. E(<<>>) = <<>> /\ <<>> \in V
    BY ElementsGrow, EmptySeq
  <2>2. ASSUME NEW d \in Texts PROVE L(<<>> \o d) = <<>> \o L(d)
    <3>1. <<>> \o d = d
      BY ConcatEmptySeq DEF Texts
    <3> DEFINE r == L(d)
    <3>2. r \in V
      BY <1>1
    <3> HIDE DEF r
    <3>3. <<>> \o r = r
      BY <3>2, ConcatEmptySeq
    <3> QED
      BY <3>1, <3>3, Zenon DEF r
  <2> QED
    BY <2>1, <2>2 DEF ReadsAll
<1>3. ASSUME NEW us \in V, NEW s \in Texts, us \in T PROVE Append(us, s) \in T
  <2> DEFINE a == E(us)
             b == Element(form, t, s)
             vs == Append(us, s)
  <2>1. vs \in V
    BY AppendProperties
  <2>2. a \in Texts /\ b \in Texts /\ E(vs) = a \o b
    BY ElementsOfTyped, ElementTyped, ElementsGrow
  <2>3. ASSUME Fits(form, E(vs)), NEW d \in Texts PROVE L(E(vs) \o d) = vs \o L(d)
    <3>1. Fits(form, a) /\ Fits(form, b)
      <4>1. Fits(form, a \o b)
        BY <2>2, <2>3, Zenon
      <4> HIDE DEF a, b
      <4> QED
        BY <2>2, <4>1, PartsFit
    <3>2. Fits(form, s)
      BY <3>1, InsideFits
    <3> DEFINE e == Enter(Start(b \o d), {t})
    <3>3. Took(e, s, d)
      BY <3>2, ElementTaken
    <3>4. b \o d \in Texts /\ E(vs) \o d = a \o (b \o d)
      <4> HIDE DEF a, b
      <4> QED
        <5>1. b \o d \in Texts
          BY <2>2, Joined, Zenon
        <5>2. (a \o b) \o d = a \o (b \o d)
          BY <2>2, Assoc, SMTT(30)
        <5>3. E(vs) \o d = (a \o b) \o d
          BY <2>2, Zenon
        <5> QED
          BY <5>1, <5>2, <5>3, Zenon
    <3>5. L(a \o (b \o d)) = us \o L(b \o d)
      BY <1>3, <3>1, <3>4 DEF ReadsAll
    <3>6. L(b \o d) = <<s>> \o L(d)
      <4>1. L(b \o d) = IF e.state # "ok" THEN <<>>
                        ELSE <<Contents(e)>> \o L(Over(e).left)
        BY <3>4, ListUnfolds
      <4> QED
        BY <3>3, <4>1, Zenon DEF Took
    <3> DEFINE r == L(d)
    <3>7. r \in V
      BY <1>1
    <3> HIDE DEF r
    <3>8. us \o (<<s>> \o r) = vs \o r
      <4> DEFINE one == <<s>>
      <4>1. one \in V
        OBVIOUS
      <4>2. vs = us \o one
        BY AppendIsConcat
      <4> HIDE DEF one, vs, V
      <4>3. us \o (one \o r) = (us \o one) \o r
        BY <3>7, <4>1, Associative, SMTT(40) DEF V
      <4> QED
        BY <4>2, <4>3, Zenon DEF one
    <3> QED
      BY <3>4, <3>5, <3>6, <3>8, Zenon DEF r
  <2> HIDE DEF vs
  <2> QED
    BY <2>1, <2>3, Zenon DEF ReadsAll, vs
<1>4. ss \in T
  <2> HIDE DEF T
  <2> QED
    BY <1>2, <1>3, Sequences
<1>5. E(ss) \in Texts /\ <<>> \in Texts
  BY ElementsOfTyped, EmptySeq DEF Texts
<1>6. L(E(ss) \o <<>>) = ss \o L(<<>>)
  BY <1>4, <1>5 DEF ReadsAll
<1>7. E(ss) \o <<>> = E(ss)
  BY <1>5, ConcatEmptySeq DEF Texts
<1>8. L(<<>>) = <<>>
  <2> DEFINE e == Enter(Start(<<>>), {t})
  <2>1. e.state = "None"
    BY EmptySeq, EnterTyped
  <2>2. L(<<>>) = IF e.state # "ok" THEN <<>> ELSE <<Contents(e)>> \o L(Over(e).left)
    BY <1>5, ListUnfolds
  <2>3. "None" # "ok"
    OBVIOUS
  <2> QED
    BY <2>1, <2>2, <2>3, Zenon
<1>9. ss \o <<>> = ss
  BY ConcatEmptySeq
<1> QED
  BY <1>6, <1>7, <1>8, <1>9, Zenon

-----------------------------------------------------------------------------
\* Reading on: a parser that is at an element takes it, is refused it, or
\* passes it over.

At(c, d) == c.state = "ok" /\ c.left = d

LEMMA Started ==
  \A d : At(Start(d), d)
BY DEF At, Start, Cursor

LEMMA Taken ==
  ASSUME NEW form \in 0..4, NEW t \in Tags, NEW tags, t \in tags, NEW x, Fits(form, x),
         NEW rest \in Texts, NEW c, At(c, Element(form, t, x) \o rest)
  PROVE  Took(Enter(c, tags), x, rest)
<1>1. Enter(c, tags) = Enter(Start(Element(form, t, x) \o rest), tags)
  BY ReadsOn, Zenon DEF At
<1>2. Took(Enter(Start(Element(form, t, x) \o rest), tags), x, rest)
  BY ElementTaken
<1> QED
  BY <1>1, <1>2, Zenon

\* The last one.
LEMMA TakenAlone ==
  ASSUME NEW form \in 0..4, NEW t \in Tags, NEW tags, t \in tags, NEW x, Fits(form, x),
         NEW c, At(c, Element(form, t, x))
  PROVE  Took(Enter(c, tags), x, <<>>)
<1> DEFINE d == Element(form, t, x)
<1>1. d \in Texts /\ <<>> \in Texts
  BY ElementTyped, EmptySeq DEF Fits, Texts
<1> HIDE DEF d
<1>2. d \o <<>> = d
  BY <1>1, ConcatEmptySeq DEF Texts
<1>3. At(c, d \o <<>>)
  BY <1>2, Zenon DEF d
<1> QED
  BY <1>1, <1>3, Taken DEF d

LEMMA TookLeaves ==
  ASSUME NEW e, NEW x \in Texts, NEW rest \in Texts, Took(e, x, rest)
  PROVE  At(e, x \o rest) /\ At(Over(e), rest) /\ (rest = <<>> => At(e, x))
<1>1. x \o <<>> = x
  BY ConcatEmptySeq DEF Texts
<1> QED
  BY <1>1, Zenon DEF Took, At

LEMMA TagAtHead ==
  ASSUME NEW form \in 0..4, NEW t \in Tags, NEW x \in Texts, NEW rest \in Texts
  PROVE  LET d == Element(form, t, x) \o rest IN d # <<>> /\ Head(d) = t
<1> DEFINE l == ServerLength(form, Len(x))
           h == <<t>>
           u == l \o x
           v == u \o rest
           d == Element(form, t, x) \o rest
<1>1. l \in Texts /\ h \in Texts /\ t \in Octets
  BY ServerLengthTyped, LenProperties, TagsAreOctets, Octetwise DEF Texts
<1> HIDE DEF h, l
<1>2. u \in Texts /\ v \in Texts
  BY <1>1, Joined
<1>3. Element(form, t, x) = h \o u
  BY <1>1, Assoc DEF Element, h, l
<1>4. (h \o u) \o rest = h \o v
  <2> HIDE DEF u
  <2> QED
    BY <1>1, <1>2, Assoc, SMTT(30)
<1> HIDE DEF v
<1>5. d = <<t>> \o v
  BY <1>3, <1>4, Zenon DEF h
<1>6. <<t>> \o v # <<>> /\ Head(<<t>> \o v) = t
  BY <1>1, <1>2, TagFirst DEF Texts
<1> QED
  BY <1>5, <1>6, Zenon

\* What begins with that octet.
Leads(t, d) == d # <<>> /\ Head(d) = t

LEMMA StartsWithTag ==
  ASSUME NEW form \in 0..4, NEW t \in Tags, NEW x \in Texts, NEW rest \in Texts
  PROVE  Leads(t, Element(form, t, x) \o rest)
BY TagAtHead DEF Leads

LEMMA Refused ==
  ASSUME NEW form \in 0..4, NEW t \in Tags, NEW tags, t \notin tags, NEW x \in Texts,
         NEW rest \in Texts, NEW c, At(c, Element(form, t, x) \o rest)
  PROVE  Enter(c, tags).state = "None"
<1>1. Element(form, t, x) \o rest # <<>> /\ Head(Element(form, t, x) \o rest) = t
  BY TagAtHead
<1>2. Enter(c, tags) = Cursor(<<>>, "None")
  BY <1>1, Zenon DEF Enter, At
<1> QED
  BY <1>2 DEF Cursor

LEMMA NothingThere ==
  ASSUME NEW tags, NEW c, At(c, <<>>)
  PROVE  Enter(c, tags).state = "None"
<1>1. Enter(c, tags) = Cursor(<<>>, "None")
  BY Zenon DEF Enter, At
<1> QED
  BY <1>1 DEF Cursor

\* What is not there at all, or not this tag, is left alone.
LEMMA PassedOver ==
  ASSUME NEW form \in 0..4, NEW t \in Tags, NEW x, Fits(form, x),
         NEW rest \in Texts, NEW c, At(c, Element(form, t, x) \o rest)
  PROVE  /\ At(Optional(c, t), rest)
         /\ \A tag : tag # t => Optional(c, tag) = c
<1>1. Element(form, t, x) \o rest # <<>> /\ Head(Element(form, t, x) \o rest) = t
  BY TagAtHead DEF Fits
<1>2. c.state = "ok" /\ c.left # <<>> /\ Head(c.left) = t
  BY <1>1, Zenon DEF At
<1>3. Optional(c, t) = Over(Enter(c, {t}))
  BY <1>2, Zenon DEF Optional, Skip
<1> DEFINE tags == {t}
<1>4. t \in tags
  OBVIOUS
<1> HIDE DEF tags
<1>5. Took(Enter(c, tags), x, rest)
  BY <1>4, Taken
<1>6. At(Over(Enter(c, tags)), rest)
  BY <1>5, TookLeaves DEF Fits
<1>7. \A tag : tag # t => Optional(c, tag) = c
  BY <1>2, Zenon DEF Optional
<1> QED
  BY <1>3, <1>6, <1>7, Zenon DEF tags

LEMMA GivenUp ==
  ASSUME NEW c, c.state # "ok"
  PROVE  /\ \A tags : Enter(c, tags) = c
         /\ \A tag : Optional(c, tag) = c
BY Zenon DEF Enter, Optional

\* Each element of a list that fits fits.
FitsEach(form, t) ==
  {ss \in Seq(Texts) : Fits(form, ElementsOf(form, t, ss)) =>
                         \A i \in 1..Len(ss) : Fits(form, ss[i])}

LEMMA EachFits ==
  ASSUME NEW form \in 0..4, NEW t \in Tags, NEW ss \in Seq(Texts),
         Fits(form, ElementsOf(form, t, ss))
  PROVE  \A i \in 1..Len(ss) : Fits(form, ss[i])
<1> DEFINE T == FitsEach(form, t)
           V == Seq(Texts)
<1>1. <<>> \in T
  <2>1. <<>> \in V /\ \A i \in 1..Len(<<>>) : FALSE
    BY EmptySeq
  <2> QED
    BY <2>1 DEF FitsEach
<1>2. ASSUME NEW us \in V, NEW s \in Texts, us \in T PROVE Append(us, s) \in T
  <2> DEFINE a == ElementsOf(form, t, us)
             b == Element(form, t, s)
             vs == Append(us, s)
             n == Len(us)
  <2>1. /\ vs \in V /\ Len(vs) = n + 1 /\ vs[n + 1] = s /\ n \in Nat
        /\ \A i \in 1..n : vs[i] = us[i]
    BY AppendProperties, LenProperties
  <2>2. a \in Texts /\ b \in Texts /\ ElementsOf(form, t, vs) = a \o b
    BY ElementsOfTyped, ElementTyped, ElementsGrow
  <2>3. ASSUME Fits(form, a \o b) PROVE \A i \in 1..Len(vs) : Fits(form, vs[i])
    <3>1. Fits(form, a) /\ Fits(form, b)
      <4> HIDE DEF a, b
      <4> QED
        BY <2>2, <2>3, PartsFit
    <3>2. Fits(form, s)
      BY <3>1, InsideFits
    <3>3. \A i \in 1..n : Fits(form, us[i])
      BY <1>2, <3>1 DEF FitsEach
    <3> HIDE DEF vs, n
    <3>4. \A i \in 1..(n + 1) : i \in 1..n \/ i = n + 1
      BY <2>1
    <3> QED
      BY <2>1, <3>2, <3>3, <3>4, Zenon
  <2> HIDE DEF a, b, vs
  <2> QED
    BY <2>1, <2>2, <2>3 DEF FitsEach, vs
<1>3. ss \in T
  <2> HIDE DEF T
  <2> QED
    BY <1>1, <1>2, Sequences
<1> QED
  BY <1>3 DEF FitsEach

-----------------------------------------------------------------------------
\* An entry is read back as it was written.

LEMMA TagsUsed ==
  {1, 2, 4, 10, 48, 49, 97, 100, 101, 103, 115, 120, 121, 135, 160} \subseteq Tags
BY SMT DEF Tags

LEMMA AttributeReads ==
  ASSUME NEW form \in 0..4, NEW a \in Attributes, Fits(form, AttributeContents(form, a))
  PROVE  ParseAttribute(AttributeContents(form, a)) = a
<1> DEFINE vs == ElementsOf(form, 4, a.vals)
           x == Element(form, 4, a.type)
           y == Element(form, 49, vs)
           type == Enter(Start(x \o y), {4})
           vals == Enter(Over(type), {49})
<1>1. /\ a.type \in Texts /\ a.vals \in Seq(Texts) /\ 4 \in Tags /\ 49 \in Tags
      /\ a = [type |-> a.type, vals |-> a.vals]
  BY TagsUsed, NamesAreTexts DEF Attributes
<1>2. AttributeContents(form, a) = x \o y
  BY DEF AttributeContents
<1>3. vs \in Texts
  BY <1>1, ElementsOfTyped
<1>4. x \in Texts /\ y \in Texts
  <2> HIDE DEF vs
  <2> QED
    BY <1>1, <1>3, ElementTyped
<1>5. Fits(form, x) /\ Fits(form, y)
  <2> HIDE DEF x, y
  <2> QED
    BY <1>2, <1>4, PartsFit
<1>6. Fits(form, a.type) /\ Fits(form, vs)
  <2> HIDE DEF vs
  <2> QED
    BY <1>1, <1>3, <1>5, InsideFits
<1>7. Took(type, a.type, y)
  <2> HIDE DEF y
  <2>1. At(Start(x \o y), x \o y) /\ 4 \in {4}
    BY Started
  <2> QED
    BY <1>1, <1>4, <1>6, <2>1, Taken
<1>8. At(Over(type), y)
  <2> HIDE DEF y, type
  <2> QED
    BY <1>1, <1>4, <1>7, TookLeaves
<1>9. Took(vals, vs, <<>>)
  <2> HIDE DEF type, vs
  <2>1. 49 \in {49}
    OBVIOUS
  <2> QED
    BY <1>1, <1>6, <1>8, <2>1, TakenAlone
<1>10. List(vs, {4}) = a.vals
  BY <1>1, <1>6, ListReads
<1> HIDE DEF type, vals, vs
<1>11. Contents(type) = a.type /\ vals.state = "ok" /\ Contents(vals) = vs
  BY <1>7, <1>9, Zenon DEF Took
<1>12. ParseAttribute(x \o y) =
         [type |-> Contents(type),
          vals |-> IF vals.state = "ok" THEN List(Contents(vals), {4}) ELSE <<>>]
  BY DEF ParseAttribute, type, vals
<1>13. ParseAttribute(x \o y) = [type |-> a.type, vals |-> a.vals]
  BY <1>10, <1>11, <1>12, Zenon
<1> QED
  BY <1>1, <1>2, <1>13, Zenon

\* e is a parser's cursor within an entry, at its objectName.
LEMMA EntryReads ==
  ASSUME NEW form \in 0..4, NEW attributes \in Seq(Attributes),
         Fits(form, EntryContents(form, attributes)),
         NEW e, Contents(e) = EntryContents(form, attributes)
  PROVE  ParseAttributes(e) = attributes
<1> DEFINE f == [i \in DOMAIN attributes |-> AttributeContents(form, attributes[i])]
           es == ElementsOf(form, 48, f)
           x == Element(form, 4, <<>>)
           y == Element(form, 48, es)
           name == Enter(Start(x \o y), {4})
           list == Enter(Over(name), {48})
           n == Len(attributes)
<1>1. /\ 4 \in Tags /\ 48 \in Tags /\ <<>> \in Texts /\ f \in Seq(Texts)
      /\ n \in Nat /\ DOMAIN attributes = 1..n /\ DOMAIN f = 1..n
      /\ \A i \in 1..n : attributes[i] \in Attributes /\ f[i] = AttributeContents(form, attributes[i])
  <2>1. 4 \in Tags /\ 48 \in Tags
    BY TagsUsed
  <2>2. <<>> \in Texts
    BY EmptySeq DEF Texts
  <2>3. f \in Seq(Texts)
    BY EntryTyped
  <2>4. n \in Nat /\ DOMAIN attributes = 1..n /\ \A i \in 1..n : attributes[i] \in Attributes
    BY LenProperties, ElementOfSeq
  <2>5. DOMAIN f = 1..n /\ \A i \in 1..n : f[i] = AttributeContents(form, attributes[i])
    BY <2>4
  <2> QED
    BY <2>1, <2>2, <2>3, <2>4, <2>5
<1>2. EntryContents(form, attributes) = x \o y
  BY DEF EntryContents
<1> HIDE DEF f
<1>3. es \in Texts
  BY <1>1, ElementsOfTyped
<1>4. x \in Texts /\ y \in Texts
  <2> HIDE DEF es
  <2> QED
    BY <1>1, <1>3, ElementTyped
<1>5. Fits(form, x) /\ Fits(form, y)
  <2> HIDE DEF x, y
  <2> QED
    BY <1>2, <1>4, PartsFit
<1>6. Fits(form, <<>>) /\ Fits(form, es)
  <2> HIDE DEF es
  <2> QED
    BY <1>1, <1>3, <1>5, InsideFits
<1>7. Took(name, <<>>, y)
  <2> HIDE DEF y
  <2>1. At(Start(x \o y), x \o y) /\ 4 \in {4}
    BY Started
  <2> QED
    BY <1>1, <1>4, <1>6, <2>1, Taken
<1>8. At(Over(name), y)
  <2> HIDE DEF y, name
  <2> QED
    BY <1>1, <1>4, <1>7, TookLeaves
<1>9. Took(list, es, <<>>)
  <2> HIDE DEF name, es
  <2>1. 48 \in {48}
    OBVIOUS
  <2> QED
    BY <1>1, <1>6, <1>8, <2>1, TakenAlone
<1>10. List(es, {48}) = f
  BY <1>1, <1>6, ListReads
<1>11. \A i \in 1..n : ParseAttribute(f[i]) = attributes[i]
  <2>1. Len(f) = n
    BY <1>1, LenProperties
  <2>2. \A i \in 1..n : Fits(form, f[i])
    BY <1>1, <1>6, <2>1, EachFits, Zenon
  <2> QED
    BY <1>1, <2>2, AttributeReads
<1> HIDE DEF name, list, es
<1>12. Contents(list) = es
  BY <1>9, Zenon DEF Took
<1>13. ParseAttributes(e) = Each(ParseAttribute, List(Contents(list), {48}))
  BY <1>2 DEF ParseAttributes, Skip, name, list
<1>14. ParseAttributes(e) = Each(ParseAttribute, f)
  BY <1>10, <1>12, <1>13, Zenon
<1>15. Each(ParseAttribute, f) = [i \in 1..n |-> ParseAttribute(f[i])]
  BY <1>1 DEF Each
<1>16. [i \in 1..n |-> ParseAttribute(f[i])] = [i \in 1..n |-> attributes[i]]
  BY <1>11, Zenon
<1>17. attributes = [i \in 1..n |-> attributes[i]]
  BY <1>1
<1> QED
  BY <1>14, <1>15, <1>16, <1>17, Zenon

-----------------------------------------------------------------------------
\* A control says what the server put into it.

\* The value of a paged results control in a response.
PagedValue(form, s) == Element(form, 48, Element(form, 2, <<0>>) \o Element(form, 4, s))

LEMMA CookieReads ==
  ASSUME NEW form \in 0..4, NEW s \in Texts, Fits(form, PagedValue(form, s))
  PROVE  ParsePagedCookie(PagedValue(form, s)) = s
<1> DEFINE x == Element(form, 2, <<0>>)
           y == Element(form, 4, s)
           xy == x \o y
           d == Element(form, 48, xy)
           e == Enter(Start(d), {48})
           size == Enter(e, {2})
           cookie == Enter(Over(size), {4})
<1>1. 2 \in Tags /\ 4 \in Tags /\ 48 \in Tags /\ <<0>> \in Texts /\ <<>> \in Texts
  <2>1. 0 \in Octets
    BY SMT DEF Octets
  <2> QED
    BY <2>1, TagsUsed, Octetwise, EmptySeq DEF Texts
<1>2. x \in Texts /\ y \in Texts
  BY <1>1, ElementTyped
<1>3. xy \in Texts
  <2> HIDE DEF x, y
  <2> QED
    BY <1>2, Joined
<1>4. Fits(form, xy)
  <2>1. Fits(form, Element(form, 48, xy))
    BY DEF PagedValue
  <2> HIDE DEF xy
  <2> QED
    BY <1>1, <1>3, <2>1, InsideFits
<1>5. Fits(form, x) /\ Fits(form, y)
  <2> HIDE DEF x, y
  <2> QED
    BY <1>2, <1>4, PartsFit
<1>6. Fits(form, <<0>>) /\ Fits(form, s)
  BY <1>1, <1>5, InsideFits
<1>7. At(e, xy)
  <2> HIDE DEF xy, e
  <2>1. At(Start(d), d) /\ 48 \in {48}
    BY Started
  <2> HIDE DEF d
  <2>2. Took(e, xy, <<>>)
    BY <1>1, <1>4, <2>1, TakenAlone DEF d, e
  <2> QED
    BY <1>1, <1>3, <2>2, TookLeaves
<1>8. At(Over(size), y)
  <2> HIDE DEF y, e, size
  <2>1. At(e, Element(form, 2, <<0>>) \o y)
    BY <1>7
  <2>2. 2 \in {2}
    OBVIOUS
  <2>3. Took(size, <<0>>, y)
    BY <1>1, <1>2, <1>6, <2>1, <2>2, Taken DEF size
  <2> QED
    BY <1>1, <1>2, <2>3, TookLeaves
<1>9. Took(cookie, s, <<>>)
  <2> HIDE DEF size
  <2>1. 4 \in {4}
    OBVIOUS
  <2> QED
    BY <1>1, <1>6, <1>8, <2>1, TakenAlone
<1>10. ParsePagedCookie(d) = IF cookie.state = "ok" THEN Contents(cookie) ELSE <<>>
  BY DEF ParsePagedCookie, Skip
<1> HIDE DEF cookie, d
<1>11. ParsePagedCookie(d) = s
  BY <1>9, <1>10, Zenon DEF Took
<1> QED
  BY <1>11 DEF d, PagedValue

LEMMA SortReads ==
  ASSUME NEW form \in 0..4, NEW v \in [1..1 -> 0..127],
         Fits(form, Element(form, 48, Element(form, 10, v)))
  PROVE  ParseSortResult(Element(form, 48, Element(form, 10, v))) = v[1]
<1> DEFINE x == Element(form, 10, v)
           d == Element(form, 48, x)
           e == Enter(Start(d), {48})
           code == Enter(e, {10})
<1>1. 10 \in Tags /\ 48 \in Tags /\ <<>> \in Texts /\ v \in Texts
  BY TagsUsed, EmptySeq, SortCodeTyped DEF Texts
<1>2. x \in Texts
  BY <1>1, ElementTyped
<1>3. Fits(form, x) /\ Fits(form, v)
  <2>1. Fits(form, x)
    <3>1. Fits(form, Element(form, 48, x))
      OBVIOUS
    <3> HIDE DEF x
    <3> QED
      BY <1>1, <1>2, <3>1, InsideFits
  <2> QED
    BY <1>1, <2>1, InsideFits
<1>4. At(e, x)
  <2> HIDE DEF x, e
  <2>1. At(Start(d), d) /\ 48 \in {48}
    BY Started
  <2>2. Took(e, x, <<>>)
    BY <1>1, <1>3, <2>1, TakenAlone DEF d, e
  <2> QED
    BY <1>1, <1>2, <2>2, TookLeaves
<1>5. Took(code, v, <<>>)
  <2> HIDE DEF e
  <2>1. 10 \in {10}
    OBVIOUS
  <2> QED
    BY <1>1, <1>3, <1>4, <2>1, TakenAlone
<1>6. ParseSortResult(d) = IF code.state = "ok" THEN Unsigned(Contents(code)) ELSE -1
  BY DEF ParseSortResult
<1> HIDE DEF code, d
<1>7. ParseSortResult(d) = Unsigned(v)
  BY <1>5, <1>6, Zenon DEF Took
<1>8. Unsigned(v) = v[1]
  <2>1. v = <<v[1]>> /\ v[1] \in Nat
    BY SortCodeTyped, OctetIs
  <2> QED
    BY <2>1, OneOctet, Zenon
<1> QED
  BY <1>7, <1>8 DEF d

LEMMA BareEntryReads ==
  ASSUME NEW form \in 0..4, NEW attributes \in Seq(Attributes),
         Fits(form, Element(form, 100, EntryContents(form, attributes)))
  PROVE  ParseSearchResultEntry(Element(form, 100, EntryContents(form, attributes))) = attributes
<1> DEFINE x == EntryContents(form, attributes)
           d == Element(form, 100, x)
           e == Enter(Start(d), {100})
<1>1. 100 \in Tags /\ x \in Texts /\ 100 \in {100}
  BY TagsUsed, EntryTyped
<1>2. Fits(form, x)
  <2>1. Fits(form, Element(form, 100, x))
    OBVIOUS
  <2> HIDE DEF x
  <2> QED
    BY <1>1, <2>1, InsideFits
<1>3. Took(e, x, <<>>)
  <2> HIDE DEF x, e
  <2>1. At(Start(d), d)
    BY Started
  <2> QED
    BY <1>1, <1>2, <2>1, TakenAlone DEF d, e
<1>4. e.state = "ok" /\ Contents(e) = x
  BY <1>3, Zenon DEF Took
<1>5. ParseSearchResultEntry(d) = IF e.state = "ok" THEN ParseAttributes(e) ELSE <<>>
  BY DEF ParseSearchResultEntry
<1> HIDE DEF e, d
<1>6. ParseAttributes(e) = attributes
  BY <1>2, <1>4, EntryReads
<1>7. ParseSearchResultEntry(d) = attributes
  BY <1>4, <1>5, <1>6, Zenon
<1> QED
  BY <1>7 DEF d

LEMMA ControlReads ==
  ASSUME NEW form \in 0..4, NEW c, SendableControl(c), Fits(form, ControlContents(form, c))
  PROVE  SaysTheSame(c, ParseControl(ControlContents(form, c)))
<1> DEFINE value == ControlValue(form, c)
           critical == IF c.criticality THEN Element(form, 1, <<255>>) ELSE <<>>
           x == Element(form, 4, c.oid)
           y == Element(form, 4, value)
           z == critical \o y
           s == x \o z
           type == Enter(Start(s), {4})
           after == Optional(Over(type), 1)
           val == Enter(after, {4})
<1>1. /\ 1 \in Tags /\ 4 \in Tags /\ <<>> \in Texts /\ <<255>> \in Texts
      /\ c.oid \in Texts /\ c.criticality \in BOOLEAN /\ value \in Texts
  <2>1. 255 \in Octets
    BY SMT DEF Octets
  <2>2. 1 \in Tags /\ 4 \in Tags /\ <<>> \in Texts /\ <<255>> \in Texts
    BY <2>1, TagsUsed, Octetwise, EmptySeq DEF Texts
  <2>3. c.oid \in Texts /\ c.criticality \in BOOLEAN /\ value \in Texts
    BY NamesAreTexts, ControlValueTyped DEF SendableControl
  <2> QED
    BY <2>2, <2>3, Zenon
<1>2. ControlContents(form, c) = s
  BY DEF ControlContents
<1> HIDE DEF value
<1>3. x \in Texts /\ y \in Texts /\ critical \in Texts
  BY <1>1, ElementTyped
<1>4. z \in Texts
  <2> HIDE DEF critical, y
  <2> QED
    BY <1>3, Joined
<1>5. Fits(form, x) /\ Fits(form, critical) /\ Fits(form, y)
  <2>1. Fits(form, x) /\ Fits(form, z)
    <3> HIDE DEF x, z
    <3> QED
      BY <1>2, <1>3, <1>4, PartsFit
  <2> HIDE DEF critical, y
  <2> QED
    BY <1>3, <2>1, PartsFit
<1>6. Fits(form, c.oid) /\ Fits(form, value)
  BY <1>1, <1>5, InsideFits
<1>7. Took(type, c.oid, z)
  <2> HIDE DEF z
  <2>1. At(Start(s), s) /\ 4 \in {4}
    BY Started
  <2> QED
    BY <1>1, <1>4, <1>6, <2>1, Taken
<1>8. At(Over(type), z)
  <2> HIDE DEF z, type
  <2> QED
    BY <1>1, <1>4, <1>7, TookLeaves
<1>9. At(after, y)
  <2>1. CASE c.criticality
    <3>1. critical = Element(form, 1, <<255>>)
      BY <2>1
    <3> HIDE DEF critical, y, type
    <3>2. Fits(form, <<255>>)
      BY <1>1, <1>5, <3>1, InsideFits
    <3>3. At(Over(type), Element(form, 1, <<255>>) \o y)
      BY <1>8, <3>1, Zenon
    <3> DEFINE n == 1
               u == <<255>>
               o == Over(type)
    <3>4. n \in Tags /\ Fits(form, u) /\ At(o, Element(form, n, u) \o y) /\ y \in Texts
      BY <1>1, <1>3, <3>2, <3>3
    <3> HIDE DEF n, u, o
    <3>5. At(Optional(o, n), y)
      BY <3>4, PassedOver, Zenon
    <3> QED
      BY <3>5 DEF n, o
  <2>2. CASE ~c.criticality
    <3>1. z = y \o <<>> /\ z = y
      <4>1. critical = <<>>
        BY <2>2
      <4> HIDE DEF critical, y
      <4>2. <<>> \o y = y /\ y \o <<>> = y
        BY <1>3, ConcatEmptySeq DEF Texts
      <4> QED
        BY <4>1, <4>2, Zenon
    <3> HIDE DEF z, type
    <3>2. At(Over(type), Element(form, 4, value) \o <<>>)
      BY <1>8, <3>1, Zenon
    <3>3. 1 # 4
      OBVIOUS
    <3> DEFINE o == Over(type)
               n == 1
               k == 4
               r == <<>>
    <3>4. after = Over(type)
      <4>1. k \in Tags /\ Fits(form, value) /\ r \in Texts /\ n # k /\ At(o, Element(form, k, value) \o r)
        BY <1>1, <1>6, <3>2, <3>3
      <4> HIDE DEF n, k, r, o
      <4>2. Optional(o, n) = o
        BY <4>1, PassedOver
      <4> QED
        BY <4>2 DEF n, o
    <3> QED
      BY <1>8, <3>1, <3>4, Zenon
  <2> QED
    BY <1>1, <2>1, <2>2
<1>10. Took(val, value, <<>>)
  <2> HIDE DEF after
  <2>1. 4 \in {4}
    OBVIOUS
  <2> QED
    BY <1>1, <1>6, <1>9, <2>1, TakenAlone
<1> DEFINE parsed == ParseControl(s)
<1>11. parsed = [oid |-> Contents(type), value |-> IF val.state = "ok" THEN Contents(val) ELSE <<>>]
  BY DEF ParseControl, type, val, after
<1> HIDE DEF type, val, s
<1>12. parsed = [oid |-> c.oid, value |-> value]
  BY <1>7, <1>10, <1>11, Zenon DEF Took
<1> HIDE DEF parsed
<1>13. parsed.oid = c.oid /\ parsed.value = value
  BY <1>12
<1>14. CASE c.holds = "octets"
  <2>1. value = c.value
    BY <1>14 DEF value, ControlValue
  <2> QED
    BY <1>2, <1>13, <1>14, <2>1 DEF SaysTheSame, parsed
<1>15. CASE c.holds = "cookie" /\ c.value \in Texts
  <2>1. value = PagedValue(form, c.value)
    BY <1>15 DEF value, ControlValue, PagedValue
  <2>2. ParsePagedCookie(value) = c.value
    BY <1>6, <1>15, <2>1, CookieReads
  <2> QED
    BY <1>2, <1>13, <1>15, <2>2 DEF SaysTheSame, parsed
<1>16. CASE c.holds = "sortCode" /\ c.value \in [1..1 -> 0..127]
  <2>1. value = Element(form, 48, Element(form, 10, c.value))
    BY <1>16 DEF value, ControlValue
  <2>2. ParseSortResult(value) = c.value[1]
    BY <1>6, <1>16, <2>1, SortReads
  <2> QED
    BY <1>2, <1>13, <1>16, <2>2 DEF SaysTheSame, parsed
<1>17. CASE c.holds = "entry" /\ c.value \in Seq(Attributes)
  <2>1. value = Element(form, 100, EntryContents(form, c.value))
    BY <1>17 DEF value, ControlValue
  <2>2. ParseSearchResultEntry(value) = c.value
    BY <1>6, <1>17, <2>1, BareEntryReads
  <2> QED
    BY <1>2, <1>13, <1>17, <2>2 DEF SaysTheSame, parsed
<1> QED
  BY <1>14, <1>15, <1>16, <1>17 DEF SendableControl, Entries

-----------------------------------------------------------------------------
\* What each parser makes of a message that has come whole.

Tag(m) == OpTag[m.kind]

LEMMA InMessage ==
  ASSUME NEW m \in Answers
  PROVE  /\ SendableMessage(m) /\ m.form \in 0..4 /\ Tag(m) \in Tags
         /\ Fits(m.form, WireContents(m)) /\ Fits(m.form, <<m.id>>)
         /\ Fits(m.form, OpContents(m)) /\ Fits(m.form, ControlsContents(m))
<1> DEFINE x == Element(m.form, 2, <<m.id>>)
           y == Element(m.form, Tag(m), OpContents(m))
           z == ControlsContents(m)
           yz == y \o z
<1>1. /\ SendableMessage(m) /\ Len(WireContents(m)) < Capacity(m.form) /\ m.form \in 0..4
      /\ m.kind \in DOMAIN OpTag
  BY AnswersAssumption DEF SendableMessage
<1>2. Tag(m) \in Tags /\ 2 \in Tags
  BY <1>1, TagOfOp, TagsUsed DEF Tag
<1>3. WireContents(m) \in Texts /\ OpContents(m) \in Texts /\ z \in Texts /\ <<m.id>> \in Texts
  BY <1>1, WireTyped, PartsOfWireTyped
<1>4. Fits(m.form, WireContents(m))
  BY <1>1, <1>3 DEF Fits
<1>5. WireContents(m) = x \o yz
  BY DEF WireContents, Tag
<1> HIDE DEF z
<1>6. x \in Texts /\ y \in Texts
  BY <1>1, <1>2, <1>3, ElementTyped
<1>7. yz \in Texts
  <2> HIDE DEF y
  <2> QED
    BY <1>3, <1>6, Joined
<1>8. Fits(m.form, x) /\ Fits(m.form, yz)
  <2> HIDE DEF x, yz
  <2> QED
    BY <1>1, <1>4, <1>5, <1>6, <1>7, PartsFit
<1>9. Fits(m.form, y) /\ Fits(m.form, z)
  <2> HIDE DEF y
  <2> QED
    BY <1>1, <1>3, <1>6, <1>8, PartsFit
<1>10. Fits(m.form, <<m.id>>) /\ Fits(m.form, OpContents(m))
  <2>1. Fits(m.form, <<m.id>>)
    <3> DEFINE u == <<m.id>>
               n == 2
    <3>1. u \in Texts /\ n \in Tags /\ Fits(m.form, Element(m.form, n, u))
      BY <1>2, <1>3, <1>8
    <3> HIDE DEF u, n
    <3> QED
      BY <1>1, <3>1, InsideFits DEF u
  <2> QED
    BY <1>1, <1>2, <1>3, <1>9, <2>1, InsideFits
<1> QED
  BY <1>1, <1>2, <1>4, <1>9, <1>10 DEF z

\* After the messageID: at the operation, and then at the controls.
Operation(m) == Element(m.form, Tag(m), OpContents(m)) \o ControlsContents(m)

LEMMA AtOperation ==
  ASSUME NEW m \in Answers
  PROVE  /\ At(AfterMessageID(Wire(m)), Operation(m))
         /\ Operation(m) \in Texts
<1> DEFINE form == m.form
           u == <<m.id>>
           two == 2
           seq == 48
           yz == Operation(m)
           wc == WireContents(m)
           d == Wire(m)
           e == Enter(Start(d), {seq})
           id == Enter(e, {two})
<1>1. /\ SendableMessage(m) /\ form \in 0..4 /\ Fits(form, wc) /\ Fits(form, u)
      /\ Tag(m) \in Tags /\ Fits(form, OpContents(m)) /\ Fits(form, ControlsContents(m))
  BY InMessage
<1>2. two \in Tags /\ seq \in Tags /\ <<>> \in Texts
  BY TagsUsed, EmptySeq DEF Texts
<1>3. yz \in Texts
  <2>1. Element(form, Tag(m), OpContents(m)) \in Texts /\ ControlsContents(m) \in Texts
    BY <1>1, ElementTyped DEF Fits
  <2> QED
    BY <2>1, Joined DEF Operation
<1>4. d = Element(form, seq, wc) /\ wc = Element(form, two, u) \o yz
  BY <1>1, WireTyped DEF WireContents, Operation, Tag
<1>5. AfterMessageID(d) = Over(id)
  BY DEF AfterMessageID, Skip
<1> HIDE DEF two, seq, u, form, yz, wc, d
<1>6. Took(e, wc, <<>>)
  <2>1. At(Start(d), d) /\ seq \in {seq}
    BY Started
  <2>2. At(Start(d), Element(form, seq, wc))
    BY <1>4, <2>1, Zenon
  <2> QED
    BY <1>1, <1>2, <2>1, <2>2, TakenAlone
<1>7. At(e, wc)
  <2> HIDE DEF e
  <2> QED
    BY <1>1, <1>2, <1>6, TookLeaves DEF Fits
<1> HIDE DEF e
<1>8. Took(id, u, yz)
  <2>1. At(e, Element(form, two, u) \o yz)
    BY <1>4, <1>7, Zenon
  <2>2. two \in {two}
    OBVIOUS
  <2> QED
    BY <1>1, <1>2, <1>3, <2>1, <2>2, Taken
<1> HIDE DEF id
<1>9. At(Over(id), yz)
  BY <1>1, <1>3, <1>8, TookLeaves DEF Fits
<1> QED
  BY <1>3, <1>5, <1>9, Zenon DEF d, yz

LEMMA KindOfOp ==
  ASSUME NEW m, SendableMessage(m)
  PROVE  /\ HasCode(m) => Tag(m) \in {97, 101, 103, 120}
         /\ m.kind = "entry" <=> Tag(m) = 100
         /\ Tag(m) \in 96..127 /\ Tag(m) \in Octets
         /\ Tag(m) = 97 <=> m.kind = "bind"
         /\ m.kind = "entry" => ~HasCode(m)
<1>1. m.kind \in {"bind", "entry", "done", "modify", "reference", "notice", "intermediate"}
  BY DEF SendableMessage, OpTag
<1>2. /\ OpTag.bind = 97 /\ OpTag.entry = 100 /\ OpTag.done = 101 /\ OpTag.modify = 103
      /\ OpTag.reference = 115 /\ OpTag.notice = 120 /\ OpTag.intermediate = 121
  BY DEF OpTag
<1>3. Tag(m) \in 96..127 /\ Tag(m) \in Octets
  BY <1>1, <1>2, SMT DEF Tag, Octets
<1>4. HasCode(m) => Tag(m) \in {97, 101, 103, 120}
  BY <1>2 DEF Tag, HasCode
<1>5. (m.kind = "entry" <=> Tag(m) = 100) /\ (Tag(m) = 97 <=> m.kind = "bind")
  BY <1>1, <1>2, SMT DEF Tag
<1>6. m.kind = "entry" => ~HasCode(m)
  BY DEF HasCode
<1> QED
  BY <1>3, <1>4, <1>5, <1>6

LEMMA EntryOfMessageReads ==
  ASSUME NEW m \in Answers
  PROVE  EntryOfMessage(Wire(m)) = IF m.kind = "entry" THEN <<m.attributes>> ELSE <<>>
<1> DEFINE form == m.form
           t == Tag(m)
           x == OpContents(m)
           cs == ControlsContents(m)
           c == AfterMessageID(Wire(m))
           tags == {100}
           e == Enter(c, tags)
<1>1. /\ SendableMessage(m) /\ form \in 0..4 /\ t \in Tags /\ Fits(form, x) /\ cs \in Texts
      /\ x \in Texts
  BY InMessage DEF Fits
<1>2. At(c, Element(form, t, x) \o cs)
  BY AtOperation DEF Operation
<1>3. EntryOfMessage(Wire(m)) = IF e.state = "ok" THEN <<ParseAttributes(e)>> ELSE <<>>
  BY DEF EntryOfMessage
<1>4. m.kind = "entry" <=> t \in tags
  BY <1>1, KindOfOp
<1>5. ASSUME m.kind = "entry" PROVE x = EntryContents(form, m.attributes) /\ m.attributes \in Seq(Attributes)
  <2>1. ~HasCode(m)
    BY <1>1, <1>5, KindOfOp
  <2> QED
    BY <1>1, <1>5, <2>1 DEF OpContents, SendableMessage, Entries
<1> HIDE DEF t, x, cs, c, tags, form
<1>6. CASE m.kind = "entry"
  <2>1. Took(e, x, cs)
    BY <1>1, <1>2, <1>4, <1>6, Taken
  <2>2. e.state = "ok" /\ Contents(e) = x
    BY <2>1, Zenon DEF Took
  <2> HIDE DEF e
  <2>3. ParseAttributes(e) = m.attributes
    BY <1>1, <1>5, <1>6, <2>2, EntryReads
  <2> QED
    BY <1>3, <1>6, <2>2, <2>3, Zenon
<1>7. CASE m.kind # "entry"
  <2>1. e.state = "None"
    BY <1>1, <1>2, <1>4, <1>7, Refused
  <2>2. "None" # "ok"
    OBVIOUS
  <2> QED
    BY <1>3, <1>7, <2>1, <2>2, Zenon
<1> QED
  BY <1>6, <1>7

Parsed == {ParseControl(s) : s \in Texts}

LEMMA ControlsOfMessageRead ==
  ASSUME NEW m \in Answers
  PROVE  /\ AllSayTheSame(m.controls, ControlsOfMessage(Wire(m)))
         /\ ControlsOfMessage(Wire(m)) \in Seq(Parsed)
<1> DEFINE form == m.form
           t == Tag(m)
           x == OpContents(m)
           cs == ControlsContents(m)
           c == AfterMessageID(Wire(m))
           op == Enter(c, Octets)
           tag == 160
           e == Enter(Over(op), {tag})
           n == Len(m.controls)
           f == [i \in DOMAIN m.controls |-> ControlContents(form, m.controls[i])]
           seq == 48
           es == ElementsOf(form, seq, f)
<1>1. /\ SendableMessage(m) /\ form \in 0..4 /\ t \in Tags /\ Fits(form, x) /\ Fits(form, cs)
      /\ x \in Texts /\ cs \in Texts /\ t \in Octets /\ tag \in Tags /\ seq \in Tags
  <2>1. tag \in Tags /\ seq \in Tags
    BY TagsUsed
  <2>2. /\ SendableMessage(m) /\ form \in 0..4 /\ t \in Tags /\ Fits(form, x) /\ Fits(form, cs)
        /\ x \in Texts /\ cs \in Texts
    BY InMessage DEF Fits
  <2>3. t \in Octets
    BY <2>2, KindOfOp
  <2> HIDE DEF tag, seq, t, x, cs
  <2> QED
    BY <2>1, <2>2, <2>3
<1>2. At(c, Element(form, t, x) \o cs)
  BY AtOperation DEF Operation
<1>3. ControlsOfMessage(Wire(m)) =
        IF e.state # "ok" THEN <<>> ELSE Each(ParseControl, List(Contents(e), {seq}))
  BY DEF ControlsOfMessage, Skip
<1>4. cs = IF m.controls = <<>> THEN <<>> ELSE Element(form, tag, es)
  BY DEF ControlsContents
<1>5. SendableControls(m.controls)
  BY <1>1 DEF SendableMessage
<1>6. /\ n \in Nat /\ DOMAIN m.controls = 1..n /\ DOMAIN f = 1..n /\ f \in Seq(Texts)
      /\ \A i \in 1..n : SendableControl(m.controls[i]) /\ f[i] = ControlContents(form, m.controls[i])
  BY <1>1, <1>5, ControlsTyped, LenProperties DEF SendableControls
<1> HIDE DEF f, seq, tag, form, t, x, cs, c
<1>7. At(Over(op), cs)
  <2>1. Took(op, x, cs)
    BY <1>1, <1>2, Taken
  <2> HIDE DEF op
  <2> QED
    BY <1>1, <2>1, TookLeaves
<1> HIDE DEF op
<1>8. CASE m.controls = <<>>
  <2>1. At(Over(op), <<>>)
    BY <1>4, <1>7, <1>8, Zenon
  <2>2. e.state = "None"
    BY <2>1, NothingThere
  <2>3. "None" # "ok"
    OBVIOUS
  <2>4. ControlsOfMessage(Wire(m)) = <<>>
    BY <1>3, <2>2, <2>3, Zenon
  <2>5. /\ Len(m.controls) = Len(<<>>) /\ \A i \in DOMAIN m.controls : FALSE
        /\ <<>> \in Seq(Parsed)
    BY <1>8, EmptySeq
  <2> QED
    BY <2>4, <2>5, Zenon DEF AllSayTheSame
<1>9. CASE m.controls # <<>>
  <2>1. cs = Element(form, tag, es)
    BY <1>4, <1>9, Zenon
  <2>2. es \in Texts
    BY <1>1, <1>6, ElementsOfTyped
  <2> HIDE DEF es
  <2>3. Fits(form, es)
    BY <1>1, <2>1, <2>2, InsideFits
  <2>4. Took(e, es, <<>>)
    <3>1. At(Over(op), Element(form, tag, es)) /\ tag \in {tag}
      BY <1>7, <2>1, Zenon
    <3> QED
      BY <1>1, <2>3, <3>1, TakenAlone
  <2> HIDE DEF e
  <2>5. e.state = "ok" /\ Contents(e) = es
    BY <2>4, Zenon DEF Took
  <2>6. List(es, {seq}) = f
    BY <1>1, <1>6, <2>3, ListReads DEF es
  <2>7. ControlsOfMessage(Wire(m)) = Each(ParseControl, f)
    BY <1>3, <2>5, <2>6, Zenon
  <2> DEFINE g == [i \in 1..n |-> ParseControl(f[i])]
  <2>8. Each(ParseControl, f) = g
    BY <1>6 DEF Each
  <2>9. Len(g) = n /\ g \in Seq(Parsed)
    <3>1. \A i \in 1..n : f[i] \in Texts
      BY <1>6, LenProperties, ElementOfSeq
    <3>2. g \in [1..n -> Parsed]
      BY <3>1 DEF Parsed
    <3> HIDE DEF g
    <3> QED
      BY <1>6, <3>2, IsSequence
  <2>10. ASSUME NEW i \in 1..n PROVE SaysTheSame(m.controls[i], g[i])
    <3>1. Len(f) = n
      BY <1>6, LenProperties
    <3>2. Fits(form, f[i])
      BY <1>1, <1>6, <2>3, <3>1, EachFits DEF es
    <3>3. SaysTheSame(m.controls[i], ParseControl(f[i]))
      BY <1>1, <1>6, <3>2, ControlReads
    <3> QED
      BY <3>3
  <2> HIDE DEF g
  <2> QED
    BY <1>6, <2>7, <2>8, <2>9, <2>10, Zenon DEF AllSayTheSame
<1> QED
  BY <1>8, <1>9

LEMMA StateStays ==
  ASSUME NEW c, NEW d \in Texts, At(c, d), NEW tags
  PROVE  /\ Over(Enter(c, tags)).state = Enter(c, tags).state
         /\ Enter(c, tags).state # "ok" =>
              Optional(Optional(Over(Enter(c, tags)), 4), 4).state # "ok"
<1> DEFINE e == Enter(c, tags)
           o == Over(e)
<1>1. e = Enter(Start(d), tags)
  BY ReadsOn, Zenon DEF At
<1>2. o.state = e.state
  BY <1>1, EnterTyped DEF Texts
<1>3. ASSUME e.state # "ok" PROVE Optional(Optional(o, 4), 4).state # "ok"
  <2>1. o.state # "ok"
    BY <1>2, <1>3
  <2> HIDE DEF o
  <2> DEFINE n == 4
  <2> HIDE DEF n
  <2>2. Optional(o, n) = o
    BY <2>1, GivenUp, Zenon
  <2>3. Optional(Optional(o, n), n).state # "ok"
    BY <2>1, <2>2, Zenon
  <2> QED
    BY <2>3 DEF n
<1> QED
  BY <1>2, <1>3

\* How the contents of an operation begin.
LEMMA OpBegins ==
  ASSUME NEW m \in Answers
  PROVE  /\ HasCode(m) =>
              OpContents(m) = Element(m.form, 10, <<m.code>>)
                              \o (Element(m.form, 4, <<>>)
                                   \o (Element(m.form, 4, m.text) \o ElementsOf(m.form, 135, m.creds)))
         /\ ~HasCode(m) => \E y \in Texts : \E r \in Texts :
                             Fits(m.form, y) /\ OpContents(m) = Element(m.form, 4, y) \o r
<1>1. /\ SendableMessage(m) /\ m.form \in 0..4 /\ Fits(m.form, OpContents(m))
      /\ m.text \in Texts /\ m.attributes \in Seq(Attributes)
  BY InMessage DEF SendableMessage, Entries
<1>2. 4 \in Tags /\ 48 \in Tags /\ <<>> \in Texts
  BY TagsUsed, EmptySeq DEF Texts
<1>3. ASSUME HasCode(m)
      PROVE  OpContents(m) = Element(m.form, 10, <<m.code>>)
                             \o (Element(m.form, 4, <<>>)
                                  \o (Element(m.form, 4, m.text) \o ElementsOf(m.form, 135, m.creds)))
  BY <1>3, Zenon DEF OpContents
<1>4. ASSUME ~HasCode(m)
      PROVE  \E y \in Texts : \E r \in Texts :
               Fits(m.form, y) /\ OpContents(m) = Element(m.form, 4, y) \o r
  <2>1. ASSUME NEW y \in Texts, NEW r \in Texts, OpContents(m) = Element(m.form, 4, y) \o r
        PROVE  Fits(m.form, y)
    <3> DEFINE x == Element(m.form, 4, y)
    <3>1. x \in Texts
      BY <1>1, <1>2, ElementTyped
    <3>2. Fits(m.form, x)
      <4>1. Fits(m.form, x \o r)
        BY <1>1, <2>1, Zenon
      <4> HIDE DEF x
      <4> QED
        BY <1>1, <3>1, <4>1, PartsFit
    <3> QED
      BY <1>1, <1>2, <3>2, InsideFits
  <2>2. CASE m.kind = "entry"
    <3> DEFINE f == [i \in DOMAIN m.attributes |-> AttributeContents(m.form, m.attributes[i])]
               r == Element(m.form, 48, ElementsOf(m.form, 48, f))
    <3>1. f \in Seq(Texts)
      BY <1>1, EntryTyped
    <3>2. OpContents(m) = Element(m.form, 4, <<>>) \o r
      BY <1>4, <2>2 DEF OpContents, EntryContents
    <3> HIDE DEF f
    <3>3. r \in Texts
      BY <1>1, <1>2, <3>1, ElementsOfTyped, ElementTyped
    <3> HIDE DEF r
    <3> QED
      BY <1>2, <2>1, <3>2, <3>3
  <2>3. CASE m.kind # "entry"
    <3> DEFINE x == Element(m.form, 4, m.text)
    <3>1. OpContents(m) = x
      BY <1>4, <2>3, Zenon DEF OpContents
    <3>2. x \o <<>> = x
      <4>1. x \in Texts
        BY <1>1, <1>2, ElementTyped
      <4> HIDE DEF x
      <4> QED
        BY <4>1, ConcatEmptySeq DEF Texts
    <3>3. OpContents(m) = Element(m.form, 4, m.text) \o <<>>
      BY <3>1, <3>2, Zenon
    <3> QED
      BY <1>1, <1>2, <2>1, <3>3
  <2> QED
    BY <2>2, <2>3
<1> QED
  BY <1>3, <1>4

LEMMA CodeReads ==
  ASSUME NEW m \in Answers
  PROVE  /\ ParseLdapResult(Wire(m)).state = "ok" <=> HasCode(m)
         /\ HasCode(m) => ParseLdapResult(Wire(m)).value = m.code
<1> DEFINE form == m.form
           t == Tag(m)
           x == OpContents(m)
           cs == ControlsContents(m)
           c == AfterMessageID(Wire(m))
           tags == 96..127
           str == 4
           enum == 10
           e == Enter(c, tags)
           only == {enum}
           code == Enter(e, only)
           texts == Optional(Optional(Over(code), str), str)
<1>1. /\ form \in 0..4 /\ t \in Tags /\ t \in tags /\ Fits(form, x) /\ cs \in Texts /\ x \in Texts
      /\ str \in Tags /\ enum \in Tags /\ str \notin only /\ enum \in only
      /\ SendableMessage(m)
  <2>1. /\ SendableMessage(m) /\ form \in 0..4 /\ t \in Tags /\ Fits(form, x) /\ Fits(form, cs)
        /\ x \in Texts /\ cs \in Texts
    BY InMessage DEF Fits
  <2>2. t \in tags
    BY <2>1, KindOfOp
  <2>3. str \in Tags /\ enum \in Tags /\ str \notin only /\ enum \in only
    BY TagsUsed
  <2> HIDE DEF str, enum, only, t, x, cs, tags
  <2> QED
    BY <2>1, <2>2, <2>3
<1>2. At(c, Element(form, t, x) \o cs)
  BY AtOperation DEF Operation
<1>3. ParseLdapResult(Wire(m)) = Result(texts.state, Unsigned(Contents(code)))
  BY DEF ParseLdapResult, ParseResult
<1>4. ParseLdapResult(Wire(m)).state = texts.state /\ ParseLdapResult(Wire(m)).value = Unsigned(Contents(code))
  <2> HIDE DEF texts, code
  <2> QED
    BY <1>3 DEF Result
<1>5. At(e, x \o cs)
  <2> HIDE DEF t, x, cs, c, tags
  <2>1. Took(e, x, cs)
    BY <1>1, <1>2, Taken
  <2> HIDE DEF e
  <2> QED
    BY <1>1, <2>1, TookLeaves
<1>6. CASE HasCode(m)
  <2> DEFINE v == <<m.code>>
             empty == <<>>
             text == m.text
             y == ElementsOf(form, 135, m.creds)
             w == Element(form, str, text) \o y
             z == Element(form, str, empty) \o w
  <2>1. x = Element(form, enum, v) \o z
    BY <1>6, OpBegins
  <2>2. /\ v \in Texts /\ empty \in Texts /\ text \in Texts /\ y \in Texts
        /\ m.code \in Nat
    <3>1. m.creds \in Seq(Texts) /\ m.text \in Texts /\ m.code \in 0..127
      BY <1>1 DEF SendableMessage
    <3>2. y \in Texts
      BY <1>1, <3>1, TagsUsed, ElementsOfTyped
    <3>3. v \in Texts /\ empty \in Texts
      BY <1>1, PartsOfWireTyped, EmptySeq DEF Texts
    <3>4. m.code \in Nat
      <4> DEFINE k == m.code
      <4>1. k \in 0..127
        BY <3>1
      <4> HIDE DEF k
      <4>2. k \in Nat
        BY <4>1
      <4> QED
        BY <4>2 DEF k
    <3> HIDE DEF v, empty, y
    <3> QED
      BY <3>1, <3>2, <3>3, <3>4
  <2> HIDE DEF v, empty, text, y, str, enum, only, t, x, cs, c, tags, e
  <2>3. /\ Element(form, enum, v) \in Texts /\ Element(form, str, empty) \in Texts
        /\ Element(form, str, text) \in Texts
    BY <1>1, <2>2, ElementTyped
  <2>4. w \in Texts /\ z \in Texts
    BY <2>2, <2>3, Joined
  <2> HIDE DEF w, z
  <2>5. Fits(form, v) /\ Fits(form, empty) /\ Fits(form, text)
    <3>1. Fits(form, Element(form, enum, v)) /\ Fits(form, z)
      BY <1>1, <2>1, <2>3, <2>4, PartsFit
    <3>2. Fits(form, Element(form, str, empty)) /\ Fits(form, w)
      BY <1>1, <2>3, <2>4, <3>1, PartsFit DEF z
    <3>3. Fits(form, Element(form, str, text))
      BY <1>1, <2>2, <2>3, <3>2, PartsFit DEF w
    <3> QED
      BY <1>1, <2>2, <3>1, <3>2, <3>3, InsideFits
  <2>6. /\ x \o cs = Element(form, enum, v) \o (z \o cs)
        /\ z \o cs = Element(form, str, empty) \o (w \o cs)
        /\ w \o cs = Element(form, str, text) \o (y \o cs)
        /\ z \o cs \in Texts /\ w \o cs \in Texts /\ y \o cs \in Texts
    <3>1. ASSUME NEW a \in Texts, NEW b \in Texts PROVE (a \o b) \o cs = a \o (b \o cs)
      BY <1>1, Assoc
    <3>2. x \o cs = Element(form, enum, v) \o (z \o cs)
      BY <2>1, <2>3, <2>4, <3>1, Zenon
    <3>3. z \o cs = Element(form, str, empty) \o (w \o cs)
      BY <2>3, <2>4, <3>1, Zenon DEF z
    <3>4. w \o cs = Element(form, str, text) \o (y \o cs)
      BY <2>2, <2>3, <3>1, Zenon DEF w
    <3> QED
      BY <1>1, <2>2, <2>4, <3>2, <3>3, <3>4, Joined
  <2>7. Took(code, v, z \o cs)
    <3>1. At(e, Element(form, enum, v) \o (z \o cs))
      BY <1>5, <2>6, Zenon
    <3> QED
      BY <1>1, <2>5, <2>6, <3>1, Taken
  <2> DEFINE o == Over(code)
  <2>8. At(o, Element(form, str, empty) \o (w \o cs))
    <3> HIDE DEF code
    <3>1. At(o, z \o cs)
      BY <2>2, <2>6, <2>7, TookLeaves
    <3> QED
      BY <2>6, <3>1, Zenon
  <2> HIDE DEF o
  <2>9. At(Optional(o, str), w \o cs)
    BY <1>1, <2>5, <2>6, <2>8, PassedOver
  <2>10. At(Optional(Optional(o, str), str), y \o cs)
    <3> DEFINE p == Optional(o, str)
    <3>1. At(p, Element(form, str, text) \o (y \o cs))
      BY <2>6, <2>9, Zenon
    <3> HIDE DEF p
    <3>2. At(Optional(p, str), y \o cs)
      BY <1>1, <2>5, <2>6, <3>1, PassedOver
    <3> QED
      BY <3>2 DEF p
  <2>11. texts.state = "ok"
    BY <2>10, Zenon DEF At, o
  <2>12. Contents(code) = v
    BY <2>7, Zenon DEF Took
  <2>13. Unsigned(v) = m.code
    BY <2>2, OneOctet DEF v
  <2> HIDE DEF code, texts
  <2> QED
    BY <1>4, <1>6, <2>11, <2>12, <2>13, Zenon
<1>7. CASE ~HasCode(m)
  <2>1. PICK y \in Texts, r \in Texts : Fits(form, y) /\ x = Element(form, str, y) \o r
    BY <1>7, OpBegins
  <2> HIDE DEF str, enum, only, t, x, cs, c, tags, e
  <2>2. r \o cs \in Texts /\ x \o cs = Element(form, str, y) \o (r \o cs)
    <3>1. Element(form, str, y) \in Texts
      BY <1>1, ElementTyped
    <3> QED
      BY <1>1, <2>1, <3>1, Assoc, Joined, SMTT(40)
  <2>3. At(e, Element(form, str, y) \o (r \o cs))
    BY <1>5, <2>2, Zenon
  <2>4. code.state = "None"
    BY <1>1, <2>2, <2>3, Refused
  <2>5. "None" # "ok"
    OBVIOUS
  <2>6. x \o cs \in Texts
    BY <1>1, Joined
  <2>7. texts.state # "ok"
    BY <1>5, <2>4, <2>5, <2>6, StateStays, Zenon DEF str
  <2> HIDE DEF code, texts
  <2> QED
    BY <1>4, <1>7, <2>7, Zenon
<1> QED
  BY <1>6, <1>7

-----------------------------------------------------------------------------
\* And of a stream of them.

LEMMA WholeTyped ==
  TypeOK => Whole \in Seq(Answers)
<1> SUFFICES ASSUME TypeOK PROVE Whole \in Seq(Answers)
  OBVIOUS
<1> DEFINE N == Len(sent)
           T == {k \in 0..N : Len(Concat(Each(Wire, SubSeq(sent, 1, k)))) <= Len(buffer)}
           K == Max(T)
<1>1. sent \in Seq(Answers) /\ buffer \in Seq(Octets) /\ N \in Nat /\ Len(buffer) \in Nat
  BY LenProperties DEF TypeOK
<1>2. 0 \in T
  <2>1. OctetsOf(sent, 0) = <<>>
    BY <1>1, NothingFirst
  <2>2. Concat(Each(Wire, SubSeq(sent, 1, 0))) = <<>>
    BY <2>1, Zenon DEF OctetsOf, FirstOf
  <2>3. Len(Concat(Each(Wire, SubSeq(sent, 1, 0)))) <= Len(buffer)
    BY <1>1, <2>2, EmptySeq
  <2> QED
    BY <1>1, <2>3
<1>3. T \in SUBSET (0..N) /\ T # {}
  BY <1>2
<1> HIDE DEF T, N
<1>4. K \in 0..N
  BY <1>1, <1>3, MostWhole
<1>5. Whole = SubSeq(sent, 1, K)
  BY DEF Whole, K, T, N
<1> HIDE DEF K
<1>6. \A i \in 1..K : sent[i] \in Answers
  BY <1>1, <1>4, ElementOfSeq DEF N
<1>7. SubSeq(sent, 1, K) \in Seq(Answers)
  <2>1. 1 \in Int /\ K \in Int
    BY <1>1, <1>4
  <2> QED
    BY <1>6, <2>1, SubSeqProperties
<1> QED
  BY <1>5, <1>7

\* What the loop over the messages visits.
LEMMA MessagesFound ==
  TypeOK =>
    /\ Whole \in Seq(Answers) /\ Len(Whole) \in Nat /\ DOMAIN Whole = 1..Len(Whole)
    /\ \A i \in 1..Len(Whole) : Whole[i] \in Answers
    /\ DOMAIN SplitMessages[buffer].value = 1..Len(Whole)
    /\ \A i \in 1..Len(Whole) : SplitMessages[buffer].value[i] = Wire(Whole[i])
    /\ LastCompleteMessage[buffer] = IF Whole = <<>> THEN <<>> ELSE Wire(Last(Whole))
<1> HAVE TypeOK
<1> DEFINE w == Each(Wire, Whole)
<1>1. /\ Whole \in Seq(Answers) /\ Len(Whole) \in Nat /\ DOMAIN Whole = 1..Len(Whole)
      /\ \A i \in 1..Len(Whole) : Whole[i] \in Answers
  BY WholeTyped, LenProperties, ElementOfSeq
<1>2. SplitIsExact
  BY SplittingIsExact
<1>3. SplitMessages[buffer].value = w
  <2> DEFINE r == IF Begun = 1 THEN "IndexError" ELSE "ok"
  <2>1. SplitMessages[buffer] = Result(r, w)
    BY <1>2 DEF SplitIsExact
  <2> HIDE DEF r, w
  <2> QED
    BY <2>1 DEF Result
<1>4. DOMAIN w = DOMAIN Whole /\ \A i \in DOMAIN Whole : w[i] = Wire(Whole[i])
  BY DEF Each
<1> HIDE DEF w
<1>5. /\ DOMAIN SplitMessages[buffer].value = 1..Len(Whole)
      /\ \A i \in 1..Len(Whole) : SplitMessages[buffer].value[i] = Wire(Whole[i])
  BY <1>1, <1>3, <1>4, Zenon
<1> QED
  BY <1>1, <1>2, <1>5 DEF SplitIsExact

LEMMA CodeOfStream ==
  TypeOK =>
    LET coded == {i \in DOMAIN Whole : HasCode(Whole[i])}
    IN  ParseSearchCode(buffer) = IF coded = {} THEN -1 ELSE Whole[Max(coded)].code
<1> HAVE TypeOK
<1> DEFINE n == Len(Whole)
           v == SplitMessages[buffer].value
           results == Each(ParseLdapResult, v)
           coded == {i \in DOMAIN Whole : HasCode(Whole[i])}
<1>1. /\ n \in Nat /\ DOMAIN Whole = 1..n /\ \A i \in 1..n : Whole[i] \in Answers
      /\ DOMAIN v = 1..n /\ \A i \in 1..n : v[i] = Wire(Whole[i])
  BY MessagesFound
<1>2. DOMAIN results = DOMAIN v /\ \A i \in DOMAIN v : results[i] = ParseLdapResult(v[i])
  BY DEF Each
<1>3. ParseSearchCode(buffer) =
        IF {i \in DOMAIN results : results[i].state = "ok"} = {} THEN -1
        ELSE results[Max({i \in DOMAIN results : results[i].state = "ok"})].value
  BY DEF ParseSearchCode
<1> HIDE DEF results, v
<1>4. ASSUME NEW i \in 1..n
      PROVE  /\ results[i].state = "ok" <=> HasCode(Whole[i])
             /\ HasCode(Whole[i]) => results[i].value = Whole[i].code
  <2>1. Whole[i] \in Answers /\ results[i] = ParseLdapResult(Wire(Whole[i]))
    BY <1>1, <1>2, Zenon
  <2> QED
    BY <2>1, CodeReads, Zenon
<1>5. {i \in DOMAIN results : results[i].state = "ok"} = coded
  BY <1>1, <1>2, <1>4
<1>6. ASSUME coded # {} PROVE results[Max(coded)].value = Whole[Max(coded)].code
  <2>1. coded \in SUBSET (0..n)
    BY <1>1
  <2>2. Max(coded) \in coded
    <3> HIDE DEF coded, n
    <3> QED
      BY <1>1, <1>6, <2>1, MostWhole
  <2>3. Max(coded) \in 1..n /\ HasCode(Whole[Max(coded)])
    BY <1>1, <2>2
  <2> HIDE DEF coded, n
  <2> QED
    BY <1>4, <2>3
<1> HIDE DEF coded
<1>7. ParseSearchCode(buffer) = IF coded = {} THEN -1 ELSE Whole[Max(coded)].code
  BY <1>3, <1>5, <1>6, Zenon
<1> QED
  BY <1>7 DEF coded

LEMMA EntriesOfStream ==
  TypeOK =>
    LET EntryIn(m) == IF m.kind = "entry" THEN <<m.attributes>> ELSE <<>>
    IN  ParseSearchEntries(buffer) = Concat(Each(EntryIn, Whole))
<1> HAVE TypeOK
<1> DEFINE n == Len(Whole)
           v == SplitMessages[buffer].value
           EntryIn(m) == IF m.kind = "entry" THEN <<m.attributes>> ELSE <<>>
<1>1. /\ DOMAIN Whole = 1..n /\ \A i \in 1..n : Whole[i] \in Answers
      /\ DOMAIN v = 1..n /\ \A i \in 1..n : v[i] = Wire(Whole[i])
  BY MessagesFound
<1>2. ParseSearchEntries(buffer) = Concat([i \in DOMAIN v |-> EntryOfMessage(v[i])])
  BY DEF ParseSearchEntries, Each
<1>3. Each(EntryIn, Whole) = [i \in DOMAIN Whole |-> EntryIn(Whole[i])]
  BY DEF Each
<1> HIDE DEF v
<1>4. \A i \in 1..n : EntryOfMessage(v[i]) = EntryIn(Whole[i])
  BY <1>1, EntryOfMessageReads
<1>5. [i \in DOMAIN v |-> EntryOfMessage(v[i])] = [i \in DOMAIN Whole |-> EntryIn(Whole[i])]
  <2> HIDE DEF EntryIn
  <2>1. [i \in 1..n |-> EntryOfMessage(v[i])] = [i \in 1..n |-> EntryIn(Whole[i])]
    BY <1>4
  <2> QED
    BY <1>1, <2>1, Zenon
<1> QED
  BY <1>2, <1>3, <1>5, Zenon

LEMMA SameJoined ==
  ASSUME NEW S, NEW P, NEW a \in Seq(S), NEW b \in Seq(S), NEW p \in Seq(P), NEW q \in Seq(P),
         AllSayTheSame(a, p), AllSayTheSame(b, q)
  PROVE  AllSayTheSame(a \o b, p \o q)
<1> DEFINE k == Len(a)
           n == Len(b)
           c == a \o b
           r == p \o q
<1>1. /\ k \in Nat /\ n \in Nat /\ Len(p) = k /\ Len(q) = n
      /\ \A i \in 1..k : SaysTheSame(a[i], p[i])
      /\ \A i \in 1..n : SaysTheSame(b[i], q[i])
  BY LenProperties DEF AllSayTheSame
<1>2. /\ c \in Seq(S) /\ Len(c) = k + n /\ DOMAIN c = 1..(k + n)
      /\ \A i \in 1..(k + n) : c[i] = IF i <= k THEN a[i] ELSE b[i - k]
  BY ConcatProperties, LenProperties
<1>3. /\ Len(r) = k + n
      /\ \A i \in 1..(k + n) : r[i] = IF i <= k THEN p[i] ELSE q[i - k]
  <2>1. /\ Len(r) = Len(p) + Len(q)
        /\ \A i \in 1..(Len(p) + Len(q)) : r[i] = IF i <= Len(p) THEN p[i] ELSE q[i - Len(p)]
    BY ConcatProperties
  <2> HIDE DEF r
  <2> QED
    BY <1>1, <2>1, Zenon
<1> HIDE DEF c, r, k, n
<1>4. ASSUME NEW i \in 1..(k + n) PROVE SaysTheSame(c[i], r[i])
  <2>1. CASE i <= k
    <3>1. i \in 1..k
      BY <1>1, <2>1
    <3> QED
      BY <1>1, <1>2, <1>3, <2>1, <3>1, Zenon
  <2>2. CASE ~(i <= k)
    <3>1. i - k \in 1..n
      BY <1>1, <2>2
    <3> QED
      BY <1>1, <1>2, <1>3, <2>2, <3>1, Zenon
  <2> QED
    BY <2>1, <2>2
<1>5. Len(c) = Len(r)
  BY <1>2, <1>3
<1> QED
  BY <1>2, <1>4, <1>5, Zenon DEF AllSayTheSame, c, r

\* The controls of all of the messages, and those that are parsed.
LEMMA ControlsOfStream ==
  ASSUME NEW s \in Seq(Answers)
  PROVE  AllSayTheSame(Concat(Each(LAMBDA m : m.controls, s)),
                       Concat([i \in DOMAIN s |-> ControlsOfMessage(Wire(s[i]))]))
<1> DEFINE S == UNION {{m.controls[i] : i \in DOMAIN m.controls} : m \in Answers}
           g == [m \in Answers |-> m.controls]
           h == [m \in Answers |-> ControlsOfMessage(Wire(m))]
           T == {u \in Seq(Answers) : AllSayTheSame(Concat(Map(g, u)), Concat(Map(h, u)))}
<1>1. g \in [Answers -> Seq(S)]
  <2>1. ASSUME NEW m \in Answers PROVE m.controls \in Seq(S)
    <3> DEFINE cs == m.controls
               C == {cs[i] : i \in DOMAIN cs}
    <3>1. cs \in Seq(C)
      BY InMessage DEF SendableMessage, SendableControls
    <3>2. C \subseteq S
      OBVIOUS
    <3> HIDE DEF cs, C, S
    <3>3. Len(cs) \in Nat /\ cs = [i \in 1..Len(cs) |-> cs[i]] /\ \A i \in 1..Len(cs) : cs[i] \in S
      BY <3>1, <3>2, LenProperties, ElementOfSeq
    <3>4. cs \in [1..Len(cs) -> S]
      BY <3>3
    <3> QED
      BY <3>3, <3>4, IsSequence DEF cs
  <2> QED
    BY <2>1
<1>2. h \in [Answers -> Seq(Parsed)]
  BY ControlsOfMessageRead
<1>3. \A m \in Answers : AllSayTheSame(g[m], h[m])
  BY ControlsOfMessageRead
<1> HIDE DEF g, h, S
<1>4. <<>> \in T
  <2>1. <<>> \in Seq(Answers)
    BY EmptySeq
  <2>2. Concat(<<>>) = <<>>
    BY DEF Concat, FlattenSeq
  <2>3. Map(g, <<>>) = <<>> /\ Map(h, <<>>) = <<>>
    BY DEF Map
  <2>4. AllSayTheSame(<<>>, <<>>)
    BY DEF AllSayTheSame
  <2> QED
    BY <2>1, <2>2, <2>3, <2>4
<1>5. ASSUME NEW u \in Seq(Answers), NEW m \in Answers, u \in T PROVE Append(u, m) \in T
  <2> DEFINE a == Map(g, u)
             p == Map(h, u)
             b == g[m]
             q == h[m]
             w == Append(u, m)
  <2>1. /\ a \in Seq(Seq(S)) /\ p \in Seq(Seq(Parsed)) /\ b \in Seq(S) /\ q \in Seq(Parsed)
    BY <1>1, <1>2, MapTyped DEF MapsInto
  <2>2. Map(g, w) = Append(a, b) /\ Map(h, w) = Append(p, q)
    <3>1. Map(g, w) = Append(a, b)
      BY <1>1, MapGrows
    <3> QED
      BY <1>2, <3>1, MapGrows
  <2>3. AllSayTheSame(Concat(a), Concat(p)) /\ AllSayTheSame(b, q)
    BY <1>3, <1>5
  <2>4. w \in Seq(Answers)
    BY AppendProperties
  <2> HIDE DEF a, p, b, q, w
  <2>5. Concat(Append(a, b)) = Concat(a) \o b /\ Concat(a) \in Seq(S)
    BY <2>1, FlattenGrows DEF Concat
  <2>6. Concat(Append(p, q)) = Concat(p) \o q /\ Concat(p) \in Seq(Parsed)
    BY <2>1, FlattenGrows DEF Concat
  <2>7. AllSayTheSame(Concat(a) \o b, Concat(p) \o q)
    <3> DEFINE x == Concat(a)
               y == Concat(p)
    <3>1. x \in Seq(S) /\ y \in Seq(Parsed) /\ AllSayTheSame(x, y)
      BY <2>3, <2>5, <2>6
    <3> HIDE DEF x, y
    <3>2. AllSayTheSame(x \o b, y \o q)
      BY <2>1, <2>3, <3>1, SameJoined
    <3> QED
      BY <3>2 DEF x, y
  <2>8. AllSayTheSame(Concat(Map(g, w)), Concat(Map(h, w)))
    BY <2>2, <2>5, <2>6, <2>7, Zenon
  <2> QED
    BY <2>4, <2>8 DEF w
<1>6. s \in T
  <2> HIDE DEF T
  <2> QED
    BY <1>4, <1>5, Sequences
<1>7. DOMAIN s = 1..Len(s) /\ \A i \in 1..Len(s) : s[i] \in Answers
  BY LenProperties, ElementOfSeq
<1>8. Map(g, s) = Each(LAMBDA m : m.controls, s)
  BY <1>7 DEF Map, Each, g
<1>9. Map(h, s) = [i \in DOMAIN s |-> ControlsOfMessage(Wire(s[i]))]
  BY <1>7 DEF Map, h
<1> QED
  BY <1>6, <1>8, <1>9

LEMMA ReadingBackIsExact ==
  TypeOK => StreamIsReadBack
<1> SUFFICES ASSUME TypeOK PROVE StreamIsReadBack
  OBVIOUS
<1> DEFINE n == Len(Whole)
           v == SplitMessages[buffer].value
           l == LastCompleteMessage[buffer]
<1>1. /\ Whole \in Seq(Answers) /\ n \in Nat /\ DOMAIN Whole = 1..n
      /\ DOMAIN v = 1..n /\ \A i \in 1..n : v[i] = Wire(Whole[i])
      /\ l = IF Whole = <<>> THEN <<>> ELSE Wire(Last(Whole))
  BY MessagesFound
<1>2. AllSayTheSame(Concat(Each(LAMBDA m : m.controls, Whole)), ParseAllResponseControls(buffer))
  <2>1. ParseAllResponseControls(buffer) = Concat([i \in DOMAIN v |-> ControlsOfMessage(v[i])])
    BY DEF ParseAllResponseControls, Each
  <2> HIDE DEF v
  <2>2. [i \in DOMAIN v |-> ControlsOfMessage(v[i])] =
          [i \in DOMAIN Whole |-> ControlsOfMessage(Wire(Whole[i]))]
    BY <1>1
  <2>3. ParseAllResponseControls(buffer) =
          Concat([i \in DOMAIN Whole |-> ControlsOfMessage(Wire(Whole[i]))])
    BY <2>1, <2>2, Zenon
  <2> QED
    BY <1>1, <2>3, ControlsOfStream
<1>3. AllSayTheSame(IF Whole = <<>> THEN <<>> ELSE Last(Whole).controls, ParseResponseControls(buffer))
  <2>1. ParseResponseControls(buffer) = IF l = <<>> THEN <<>> ELSE ControlsOfMessage(l)
    BY DEF ParseResponseControls
  <2> HIDE DEF l
  <2>2. CASE Whole = <<>>
    <3>1. ParseResponseControls(buffer) = <<>>
      BY <1>1, <2>1, <2>2, Zenon
    <3>2. AllSayTheSame(<<>>, <<>>)
      BY DEF AllSayTheSame
    <3> QED
      BY <2>2, <3>1, <3>2, Zenon
  <2>3. CASE Whole # <<>>
    <3> DEFINE m == Last(Whole)
    <3>1. m \in Answers
      <4>1. n \in 1..n
        BY <1>1, <2>3, EmptySeq
      <4> QED
        BY <1>1, <4>1, ElementOfSeq DEF Last
    <3> HIDE DEF m
    <3>2. l = Wire(m)
      BY <1>1, <2>3, Zenon DEF m
    <3>3. Wire(m) # <<>>
      <4>1. Framed(Wire(m))
        BY <3>1, WireFramed
      <4> QED
        BY <4>1, AtLeastTwo DEF Framed
    <3>4. ParseResponseControls(buffer) = ControlsOfMessage(Wire(m))
      BY <2>1, <3>2, <3>3, Zenon
    <3>5. AllSayTheSame(m.controls, ControlsOfMessage(Wire(m)))
      BY <3>1, ControlsOfMessageRead
    <3> QED
      BY <2>3, <3>4, <3>5, Zenon DEF m
  <2> QED
    BY <2>2, <2>3
<1> QED
  BY <1>2, <1>3, CodeOfStream, EntriesOfStream DEF StreamIsReadBack

\* The entries and the controls that a search's caller is given (raw.py:
\* parse_search_entries, parse_all_response_controls, parse_response_controls) are
\* those of the messages that have come whole, and so is the code (of
\* parse_search_response) where the search's result is the last that has one.
THEOREM AnswersAreReadBack ==
  Spec => []StreamIsReadBack
BY PdusAndStreamTyped, ReadingBackIsExact, PTL

-----------------------------------------------------------------------------
\* What the parsers of one response make of a part of the stream.

\* Of two beginnings of the same text the longer goes on from the shorter.
GoesOn(a, d, b, z, p) ==
  p \in Texts /\ b = a \o p /\ d = p \o z /\ Len(b) = Len(a) + Len(p)

LEMMA LongerGoesOn ==
  ASSUME NEW a \in Texts, NEW d \in Texts, NEW b \in Texts, NEW z \in Texts,
         a \o d = b \o z, Len(a) <= Len(b)
  PROVE  GoesOn(a, d, b, z, Drop(b, Len(a)))
<1> DEFINE p == SubSeq(d, 1, Len(b) - Len(a))
           s == a \o d
<1>1. /\ a \in Seq(Octets) /\ b \in Seq(Octets) /\ d \in Seq(Octets) /\ z \in Seq(Octets)
      /\ Len(a) \in Nat /\ Len(b) \in Nat /\ Len(d) \in Nat /\ Len(z) \in Nat
  BY LenProperties DEF Texts
<1>2. Len(b) <= Len(a) + Len(d)
  <2>1. Len(a \o d) = Len(a) + Len(d) /\ Len(b \o z) = Len(b) + Len(z)
    BY <1>1, ConcatProperties
  <2>2. Len(a) + Len(d) = Len(b) + Len(z)
    BY <2>1, Zenon
  <2> QED
    BY <1>1, <2>2
<1>3. SubSeq(s, 1, Len(b)) = a \o p /\ p \in Texts /\ Len(p) = Len(b) - Len(a)
  BY <1>1, <1>2, PrefixThrough
<1>4. b = a \o p
  <2>1. UpTo(b \o z, Len(b)) = b
    BY <1>1, SliceAtBorder
  <2>2. UpTo(s, Len(b)) = b
    BY <2>1, Zenon
  <2>3. UpTo(s, Len(b)) = SubSeq(s, 1, Len(b))
    <3>1. s \in Seq(Octets) /\ Len(s) = Len(a) + Len(d)
      BY <1>1, ConcatProperties
    <3> HIDE DEF s
    <3>2. Len(b) < Len(s) \/ Len(b) = Len(s)
      BY <1>1, <1>2, <3>1
    <3> QED
      BY <3>2, Zenon DEF UpTo
  <2> QED
    BY <1>3, <2>2, <2>3, Zenon
<1> HIDE DEF p
<1>5. d = p \o z
  <2> DEFINE y == p \o z
  <2>1. y \in Seq(Octets) /\ a \o y = (a \o p) \o z
    <3>1. p \in Seq(Octets)
      BY <1>3 DEF Texts
    <3> QED
      BY <1>1, <3>1, SMTT(30)
  <2> HIDE DEF y
  <2>2. Drop(a \o y, Len(a)) = y /\ Drop(a \o d, Len(a)) = d
    BY <1>1, <2>1, SliceAtBorder
  <2>3. a \o y = a \o d
    BY <1>4, <2>1, Zenon
  <2> QED
    BY <2>2, <2>3, Zenon DEF y
<1>6. Len(b) = Len(a) + Len(p)
  BY <1>1, <1>3
<1>7. Drop(b, Len(a)) = p
  <2>1. Drop(a \o p, Len(a)) = p
    BY <1>1, <1>3, SliceAtBorder DEF Texts
  <2> QED
    BY <1>4, <2>1, Zenon
<1> QED
  BY <1>3, <1>4, <1>5, <1>6, <1>7, Zenon DEF GoesOn

\* What has been stepped over (a) and what is to follow it (d) are what has been
\* read (b) and what is still to come (z).
Same(a, d, b, z) == a \o d = b \o z

\* The cursor c is behind pre, or at the end of what has been read: d is next.
Midway(c, b, z, pre, d) ==
  /\ c.state = "ok" /\ c.left = Drop(b, Len(pre))
  /\ pre \in Texts /\ d \in Texts /\ b \in Texts /\ z \in Texts /\ Same(pre, d, b, z)

LEMMA MidwayLeft ==
  ASSUME NEW pre \in Texts, NEW b \in Texts
  PROVE  /\ Len(b) <= Len(pre) => Drop(b, Len(pre)) = <<>>
         /\ \A p \in Texts : b = pre \o p => Drop(b, Len(pre)) = p
<1>1. /\ pre \in Seq(Octets) /\ b \in Seq(Octets) /\ Len(pre) \in Nat /\ Len(b) \in Nat
  BY LenProperties DEF Texts
<1>2. ASSUME Len(b) <= Len(pre) PROVE Drop(b, Len(pre)) = <<>>
  <2> DEFINE n == Len(pre)
             r == Drop(b, n)
  <2>1. r \in Seq(Octets) /\ Len(r) = IF n < Len(b) THEN Len(b) - n ELSE 0
    BY <1>1, SliceTyped
  <2>2. Len(r) = 0
    <3> HIDE DEF n, r
    <3>1. ~(n < Len(b))
      BY <1>1, <1>2 DEF n
    <3> QED
      BY <2>1, <3>1
  <2> HIDE DEF r
  <2> QED
    BY <2>1, <2>2, EmptySeq DEF r
<1>3. ASSUME NEW p \in Texts, b = pre \o p PROVE Drop(b, Len(pre)) = p
  <2>1. Drop(pre \o p, Len(pre)) = p
    BY <1>1, SliceAtBorder DEF Texts
  <2> QED
    BY <1>3, <2>1, Zenon
<1> QED
  BY <1>2, <1>3

Header(form, t, x) == <<t>> \o ServerLength(form, Len(x))

\* A length that is cut itself: nothing is left, and the element is cut.
LEMMA LengthCut ==
  ASSUME NEW t \in Octets, NEW l, NEW n \in Nat, Reads(l, n), NEW p \in Texts, NEW y \in Texts,
         <<t>> \o l = p \o y, Len(p) >= 2, Len(p) < 1 + Len(l), NEW tags, t \in tags
  PROVE  LET e == Enter(Start(p), tags)
         IN  e.state = "ok" /\ e.left = <<>> /\ e.cut /\ e.size \in Nat
<1> DEFINE h == <<t>>
           e == Enter(Start(p), tags)
<1>1. /\ h \in Texts /\ Len(h) = 1 /\ l \in Texts /\ Len(l) \in Nat /\ Len(p) \in Nat
      /\ p \in Seq(Octets)
  BY Octetwise, LenProperties DEF Reads, Texts
<1> DEFINE q == Drop(p, Len(h))
<1>2. q \in Texts /\ p = h \o q /\ l = q \o y /\ Len(p) = Len(h) + Len(q)
  <2> HIDE DEF h
  <2>1. h \o l = p \o y
    BY DEF h
  <2>2. Len(h) <= Len(p)
    BY <1>1
  <2>3. h \in Texts /\ l \in Texts
    BY <1>1
  <2>4. GoesOn(h, l, p, y, q)
    BY <2>1, <2>2, <2>3, LongerGoesOn
  <2> QED
    BY <2>4 DEF GoesOn
<1> HIDE DEF q
<1>3. q \in Seq(Octets) /\ Len(q) \in Nat /\ Len(q) >= 1 /\ Len(q) < Len(l) /\ q # <<>>
  <2>1. q \in Seq(Octets) /\ Len(q) \in Nat
    BY <1>2, LenProperties DEF Texts
  <2>2. Len(q) >= 1 /\ Len(q) < Len(l)
    BY <1>1, <1>2, <2>1
  <2> QED
    BY <2>1, <2>2, EmptySeq
<1>4. q[1] = 127 + Len(l) /\ Len(l) >= 2
  <2>1. Len(l) # 1 /\ Len(l) >= 2
    BY <1>1, <1>3
  <2>2. l[1] = 127 + Len(l)
    BY <2>1 DEF Reads
  <2>3. (q \o y)[1] = q[1]
    <3>1. y \in Seq(Octets) /\ Len(y) \in Nat
      BY LenProperties DEF Texts
    <3>2. \A i \in 1..Len(q) + Len(y) : (q \o y)[i] = IF i <= Len(q) THEN q[i] ELSE y[i - Len(q)]
      BY <1>3, <3>1, ConcatProperties
    <3>3. 1 \in 1..Len(q) + Len(y) /\ 1 <= Len(q)
      BY <1>3, <3>1
    <3> QED
      BY <3>2, <3>3, Zenon
  <2> QED
    BY <1>2, <2>1, <2>2, <2>3, Zenon
<1>5. Head(p) = t /\ Tail(p) = q /\ p # <<>>
  <2>1. Head(<<t>> \o q) = t /\ Tail(<<t>> \o q) = q /\ <<t>> \o q # <<>>
    BY <1>3, TagFirst
  <2> QED
    BY <1>2, <2>1, Zenon
<1> DEFINE k == 1 + Len(l)
           size == ParseLength(q)[1]
<1>6. ParseLength(q)[2] = Len(l) /\ size \in Nat
  <2>1. size \in Nat
    BY <1>3, ParseLengthTyped
  <2> DEFINE u == Unsigned(UpTo(Tail(q), q[1] - 128))
             v == 1 + q[1] - 128
  <2>2. ~(q[1] < 128) /\ v = Len(l)
    BY <1>1, <1>4
  <2>3. ParseLength(q) = <<u, v>>
    BY <2>2, Zenon DEF ParseLength
  <2> HIDE DEF u, v, size
  <2>4. ParseLength(q)[2] = v
    BY <2>3
  <2> QED
    BY <2>1, <2>2, <2>4
<1>7. Drop(p, k) = <<>>
  <2> DEFINE r == Drop(p, k)
  <2>1. k \in Nat /\ ~(k < Len(p))
    BY <1>1
  <2> HIDE DEF k
  <2>2. r \in Seq(Octets) /\ Len(r) = 0
    BY <1>1, <2>1, SliceTyped
  <2> HIDE DEF r
  <2> QED
    BY <2>2, EmptySeq DEF r
<1>8. e = [left |-> Drop(p, 1 + ParseLength(q)[2]), size |-> ParseLength(q)[1], state |-> "ok",
           cut |-> BeyondEnd(p, 1 + ParseLength(q)[2] + ParseLength(q)[1])]
  <2>1. Len(p) # 1
    BY <1>1
  <2>2. Start(p).state = "ok" /\ Start(p).left = p
    BY DEF Start, Cursor
  <2> HIDE DEF e, h
  <2> QED
    BY <1>5, <2>1, <2>2, Zenon DEF Enter, e
<1>9. BeyondEnd(p, k + size)
  <2> HIDE DEF size
  <2>1. k + size > Len(p)
    BY <1>1, <1>6
  <2> QED
    BY <2>1, Zenon DEF BeyondEnd
<1>10. e = [left |-> <<>>, size |-> size, state |-> "ok", cut |-> BeyondEnd(p, k + size)]
  BY <1>6, <1>7, <1>8, Zenon
<1> HIDE DEF e, size, k
<1>11. e.state = "ok" /\ e.left = <<>> /\ e.size = size /\ e.cut = BeyondEnd(p, k + size)
  BY <1>10, Zenon
<1> QED
  BY <1>6, <1>9, <1>11, Zenon DEF e

LEMMA MidwayAhead ==
  ASSUME NEW c, NEW b, NEW z, NEW pre, NEW d, Midway(c, b, z, pre, d), Len(pre) <= Len(b)
  PROVE  GoesOn(pre, d, b, z, c.left)
<1>1. /\ pre \in Texts /\ d \in Texts /\ b \in Texts /\ z \in Texts /\ pre \o d = b \o z
      /\ c.left = Drop(b, Len(pre))
  BY Zenon DEF Midway, Same
<1>2. GoesOn(pre, d, b, z, Drop(b, Len(pre)))
  BY <1>1, LongerGoesOn
<1> QED
  BY <1>1, <1>2, Zenon

LEMMA TagSeen ==
  ASSUME NEW u \in Texts, NEW p \in Texts, NEW z \in Texts, u = p \o z, p # <<>>, u # <<>>
  PROVE  Head(p) = Head(u)
<1>1. p \in Seq(Octets) /\ z \in Seq(Octets) /\ u \in Seq(Octets)
  BY DEF Texts
<1>2. Head(p) = p[1] /\ Head(u) = u[1]
  BY <1>1, HeadTailProperties
<1>3. Len(p) \in Nat /\ Len(p) >= 1 /\ Len(z) \in Nat
  BY <1>1, LenProperties, EmptySeq
<1>4. \A i \in 1..Len(p) + Len(z) : (p \o z)[i] = IF i <= Len(p) THEN p[i] ELSE z[i - Len(p)]
  BY <1>1, ConcatProperties
<1>5. 1 \in 1..Len(p) + Len(z) /\ 1 <= Len(p)
  BY <1>3
<1>6. (p \o z)[1] = p[1]
  BY <1>4, <1>5, Zenon
<1> QED
  BY <1>2, <1>6, Zenon

\* A parser that gets into what is next has read its tag and one octet more.
LEMMA TagHasCome ==
  ASSUME NEW b \in Texts, NEW z \in Texts, NEW pre \in Texts, NEW u \in Texts, u # <<>>,
         NEW c, Midway(c, b, z, pre, u), NEW tags, Enter(c, tags).state = "ok"
  PROVE  Head(u) \in tags /\ Len(b) >= Len(pre) + 2
<1> DEFINE p == Drop(b, Len(pre))
<1>1. c.state = "ok" /\ c.left = p
  BY Zenon DEF Midway
<1>2. Len(b) \in Nat /\ Len(pre) \in Nat /\ b \in Seq(Octets) /\ pre \in Seq(Octets)
  BY LenProperties DEF Texts
<1>3. p \in Seq(Octets) /\ Len(p) = IF Len(pre) < Len(b) THEN Len(b) - Len(pre) ELSE 0
  BY <1>2, SliceTyped
<1> HIDE DEF p
<1>5. Len(p) >= 2 /\ Head(p) \in tags
  <2>1. Enter(c, tags) = Enter(Start(p), tags)
    BY <1>1, ReadsOn, Zenon
  <2>2. Enter(Start(p), tags).state = "ok"
    BY <2>1, Zenon
  <2> QED
    BY <1>3, <2>2, EnterTyped
<1>6. Len(b) >= Len(pre) + 2
  BY <1>2, <1>3, <1>5
<1>7. GoesOn(pre, u, b, z, p)
  <2>1. Len(pre) <= Len(b)
    BY <1>2, <1>6
  <2>2. GoesOn(pre, u, b, z, c.left)
    BY <2>1, MidwayAhead
  <2> QED
    BY <1>1, <2>2, Zenon
<1>8. p \in Texts /\ u = p \o z
  BY <1>7, Zenon DEF GoesOn
<1>9. p # <<>>
  BY <1>3, <1>5, EmptySeq
<1>10. Head(p) = Head(u)
  BY <1>1, <1>8, <1>9, TagSeen
<1> QED
  BY <1>5, <1>6, <1>10, Zenon

\* The tag t and the length l of an element of n octets.
HeadOf(h, t, l, n) ==
  /\ t \in Octets /\ h \in Texts /\ Len(h) \in Nat /\ Len(h) >= 2
  /\ h = <<t>> \o l /\ Len(h) = 1 + Len(l) /\ Reads(l, n)

LEMMA ElementSplit ==
  ASSUME NEW form \in 0..4, NEW t \in Tags, NEW x, Fits(form, x), NEW rest \in Texts
  PROVE  /\ HeadOf(Header(form, t, x), t, ServerLength(form, Len(x)), Len(x))
         /\ x \in Texts /\ x \o rest \in Texts
         /\ \A c, b, z, pre : Midway(c, b, z, pre, Element(form, t, x) \o rest) =>
                              Midway(c, b, z, pre, Header(form, t, x) \o (x \o rest))
<1> DEFINE l == ServerLength(form, Len(x))
           h == <<t>> \o l
<1>1. x \in Texts /\ Len(x) \in Nat /\ Len(x) < Capacity(form) /\ t \in Octets
  BY TagsAreOctets, LenProperties DEF Fits, Texts
<1>2. Reads(l, Len(x))
  BY <1>1, ServerLengthReads
<1>3. l \in Texts /\ <<t>> \in Texts /\ l # <<>>
  BY <1>1, <1>2, Octetwise DEF Reads
<1>4. Len(l) \in Nat /\ Len(l) >= 1
  BY <1>3, LenProperties, EmptySeq DEF Texts
<1>5. h \in Texts /\ Len(h) = 1 + Len(l)
  <2>1. Len(<<t>> \o l) = 1 + Len(l)
    BY <1>1, <1>3, TagFirst DEF Texts
  <2> QED
    BY <1>3, <2>1, Joined
<1>6. Element(form, t, x) = h \o x
  BY DEF Element
<1>7. Header(form, t, x) = h
  BY DEF Header
<1> HIDE DEF l, h
<1>8. x \o rest \in Texts
  BY <1>1, Joined
<1>9. (h \o x) \o rest = h \o (x \o rest)
  BY <1>1, <1>5, Assoc
<1>10. Len(h) \in Nat /\ Len(h) >= 2
  BY <1>4, <1>5
<1>11. h = <<t>> \o l
  BY DEF h
<1>12. Element(form, t, x) \o rest = h \o (x \o rest)
  BY <1>6, <1>9, Zenon
<1> QED
  <2>1. HeadOf(h, t, l, Len(x))
    BY <1>1, <1>2, <1>5, <1>10, <1>11, Zenon DEF HeadOf
  <2> QED
    BY <1>1, <1>7, <1>8, <1>12, <2>1, Zenon DEF l

\* What stands at the border of two texts.
LEMMA BeyondMidway ==
  ASSUME NEW pre \in Texts, NEW x \in Texts, NEW b \in Texts, Len(b) <= Len(pre)
  PROVE  Drop(b, Len(pre \o x)) = <<>>
<1>1. /\ pre \o x \in Texts /\ Len(pre \o x) = Len(pre) + Len(x) /\ Len(pre) \in Nat
      /\ Len(x) \in Nat /\ Len(b) \in Nat
  BY Joined, ConcatProperties, LenProperties DEF Texts
<1> DEFINE y == pre \o x
<1> HIDE DEF y
<1>2. y \in Texts /\ Len(b) <= Len(y)
  BY <1>1 DEF y
<1>3. Drop(b, Len(y)) = <<>>
  BY <1>2, MidwayLeft
<1> QED
  BY <1>3 DEF y

\* The tag and the length have come.
LEMMA HeadWhole ==
  ASSUME NEW x \in Texts, NEW t, NEW l, NEW h, HeadOf(h, t, l, Len(x)), NEW d \in Texts,
         NEW b \in Texts, NEW z \in Texts, NEW pre \in Texts,
         NEW c, Midway(c, b, z, pre, h \o d), NEW tags, t \in tags,
         Len(pre) + Len(h) <= Len(b)
  PROVE  LET after == Drop(b, Len(pre \o h))
         IN  /\ Enter(c, tags) = Within(after, Len(x))
             /\ pre \o h \in Texts /\ GoesOn(pre \o h, d, b, z, after)
<1>10. h \in Texts /\ t \in Octets /\ h = <<t>> \o l /\ Reads(l, Len(x))
  BY Zenon DEF HeadOf
<1>11. h \in Texts
  BY <1>10
<1> DEFINE y == pre \o h
           after == Drop(b, Len(y))
<1>1. /\ y \in Texts /\ Len(y) = Len(pre) + Len(h) /\ Len(pre) \in Nat /\ Len(h) \in Nat
      /\ Len(b) \in Nat
  BY <1>11, Joined, ConcatProperties, LenProperties DEF Texts
<1>9. ASSUME NEW w \in Texts PROVE pre \o (h \o w) = y \o w
  BY <1>11, SMTT(30) DEF Texts
<1>2. y \o d = b \o z
  <2>1. pre \o (h \o d) = b \o z
    BY Zenon DEF Midway, Same
  <2> QED
    BY <1>9, <2>1, Zenon
<1> HIDE DEF y
<1>3. GoesOn(y, d, b, z, after)
  <2>1. Len(y) <= Len(b)
    BY <1>1
  <2> QED
    BY <1>1, <1>2, <2>1, LongerGoesOn
<1>4. after \in Texts /\ b = y \o after
  BY <1>3, Zenon DEF GoesOn
<1> HIDE DEF after
<1>5. b = pre \o (h \o after) /\ h \o after \in Texts
  <2>1. h \o after \in Texts
    BY <1>4, <1>11, Joined, Zenon
  <2>2. pre \o (h \o after) = y \o after
    BY <1>4, <1>9, Zenon
  <2> QED
    BY <1>4, <2>1, <2>2, Zenon
<1>6. c.left = h \o after
  <2> DEFINE p == h \o after
  <2>1. p \in Texts /\ b = pre \o p
    BY <1>5
  <2> HIDE DEF p
  <2>2. Drop(b, Len(pre)) = p
    BY <2>1, MidwayLeft
  <2>3. c.left = Drop(b, Len(pre))
    BY Zenon DEF Midway
  <2> QED
    BY <2>2, <2>3, Zenon DEF p
<1>7. Enter(c, tags) = Enter(Start(h \o after), tags)
  <2>1. c.state = "ok"
    BY Zenon DEF Midway
  <2> QED
    BY <1>6, <2>1, ReadsOn, Zenon
<1>8. Enter(Start(h \o after), tags) = Within(after, Len(x))
  <2> DEFINE n == Len(x)
  <2>1. n \in Nat /\ Reads(l, n)
    BY <1>10, LenProperties DEF Texts
  <2> HIDE DEF n
  <2>2. Enter(Start((<<t>> \o l) \o after), tags) = Within(after, n)
    BY <1>4, <1>10, <2>1, HeadTaken
  <2> QED
    BY <1>10, <2>2, Zenon DEF n
<1> QED
  BY <1>1, <1>3, <1>7, <1>8, Zenon DEF after, y

\* They have not.
LEMMA HeadCut ==
  ASSUME NEW n \in Nat, NEW t, NEW l, NEW h, HeadOf(h, t, l, n), NEW d \in Texts,
         NEW b \in Texts, NEW z \in Texts, NEW pre \in Texts,
         NEW c, Midway(c, b, z, pre, h \o d), NEW tags, t \in tags,
         Len(pre) + 2 <= Len(b), Len(b) < Len(pre) + Len(h)
  PROVE  LET e == Enter(c, tags)
         IN  e.state = "ok" /\ e.left = <<>> /\ e.cut /\ e.size \in Nat
<1> DEFINE p == c.left
<1>10. /\ h \in Texts /\ t \in Octets /\ h = <<t>> \o l /\ Len(h) = 1 + Len(l) /\ Reads(l, n)
       /\ Len(h) \in Nat
  BY Zenon DEF HeadOf
<1>1. Len(pre) \in Nat /\ Len(h) \in Nat /\ Len(b) \in Nat /\ Len(pre) <= Len(b)
  BY <1>10, LenProperties DEF Texts
<1>2. GoesOn(pre, h \o d, b, z, p)
  BY <1>1, MidwayAhead
<1>3. p \in Texts /\ h \o d = p \o z /\ Len(b) = Len(pre) + Len(p)
  BY <1>2, Zenon DEF GoesOn
<1>4. Enter(c, tags) = Enter(Start(p), tags)
  <2>1. c.state = "ok"
    BY Zenon DEF Midway
  <2> QED
    BY <2>1, ReadsOn, Zenon
<1> HIDE DEF p
<1>5. Len(p) \in Nat /\ Len(p) >= 2 /\ Len(p) < Len(h)
  <2>1. Len(p) \in Nat
    BY <1>3, LenProperties DEF Texts
  <2> QED
    BY <1>1, <1>3, <2>1
<1> DEFINE y == Drop(h, Len(p))
<1>6. GoesOn(p, z, h, d, y)
  <2>1. Len(p) <= Len(h)
    BY <1>1, <1>5
  <2>2. p \o z = h \o d
    BY <1>3, Zenon
  <2> QED
    BY <1>3, <1>10, <2>1, <2>2, LongerGoesOn
<1>7. y \in Texts /\ <<t>> \o l = p \o y
  BY <1>6, <1>10, Zenon DEF GoesOn
<1> HIDE DEF y
<1>8. Len(p) < 1 + Len(l)
  BY <1>5, <1>10
<1> DEFINE e == Enter(Start(p), tags)
<1>9. e.state = "ok" /\ e.left = <<>> /\ e.cut /\ e.size \in Nat
  BY <1>3, <1>5, <1>7, <1>8, <1>10, LengthCut
<1> HIDE DEF e
<1> QED
  BY <1>4, <1>9, Zenon DEF e

\* The parser has got into an element: its tag has come and one octet more;
\* what it takes for the contents are the element's, when they have come, or
\* nothing, when its length has not or has only just.
Reached(e, b, z, pre, h, x, rest) ==
  /\ Len(b) >= Len(pre) + 2
  /\ Midway(e, b, z, pre \o h, x \o rest)
  /\ Midway(Over(e), b, z, (pre \o h) \o x, rest)
  /\ Len(b) <= Len(pre) + Len(h) => Contents(e) = <<>>
  /\ Len(b) >= Len(pre) + Len(h) + Len(x) => Contents(e) = x
  /\ ~e.cut => Len(b) >= Len(pre) + Len(h) + Len(x)

LEMMA OverMidway ==
  ASSUME NEW c, NEW b, NEW z, NEW pre, NEW d, Midway(c, b, z, pre, d), NEW tags
  PROVE  LET e == Enter(c, tags)
         IN  Over(e).state = e.state /\ Over(e).left = Drop(e.left, e.size)
<1>1. c.state = "ok" /\ c.left = Drop(b, Len(pre)) /\ b \in Texts /\ pre \in Texts
  BY Zenon DEF Midway
<1>2. c.left \in Seq(Octets)
  <2>1. b \in Seq(Octets) /\ Len(pre) \in Nat
    BY <1>1, LenProperties DEF Texts
  <2> QED
    BY <1>1, <2>1, SliceTyped
<1>3. Enter(c, tags) = Enter(Start(c.left), tags)
  BY <1>1, ReadsOn, Zenon
<1> DEFINE s == c.left
           e == Enter(Start(s), tags)
<1>4. Over(e).state = e.state /\ Over(e).left = Drop(e.left, e.size)
  BY <1>2, EnterTyped
<1> HIDE DEF e
<1> QED
  BY <1>3, <1>4, Zenon DEF e

LEMMA NothingLeft ==
  ASSUME NEW n \in Nat
  PROVE  Drop(<<>>, n) = <<>> /\ UpTo(<<>>, n) = <<>>
<1> DEFINE u == <<>>
<1>1. u \in Seq(Octets) /\ Len(u) = 0
  BY EmptySeq
<1> DEFINE p == Drop(u, n)
           q == UpTo(u, n)
<1>2. p \in Seq(Octets) /\ q \in Seq(Octets) /\ Len(p) = 0 /\ Len(q) = 0
  <2> HIDE DEF u
  <2>1. p \in Seq(Octets) /\ q \in Seq(Octets)
    BY <1>1, SliceTyped
  <2>2. Len(p) = IF n < Len(u) THEN Len(u) - n ELSE 0
    BY <1>1, SliceTyped
  <2>3. Len(q) = IF n < Len(u) THEN n ELSE Len(u)
    BY <1>1, SliceTyped
  <2> HIDE DEF p, q
  <2> QED
    BY <1>1, <2>1, <2>2, <2>3
<1> HIDE DEF p, q
<1>3. p = <<>> /\ q = <<>>
  BY <1>2, EmptySeq
<1> QED
  BY <1>3 DEF p, q

\* What is read within an element of contents x of which after has come, and
\* more than all of it or less.
ReadSoFar(e, x, after) ==
  /\ e.state = "ok" /\ e.left = after /\ e.size = Len(x)
  /\ after = <<>> => Contents(e) = <<>>
  /\ Len(after) >= Len(x) => /\ Contents(e) = x /\ Drop(after, Len(x)) \in Texts
                             /\ after = x \o Drop(after, Len(x))
  /\ Len(after) < Len(x) => e.cut /\ Drop(after, Len(x)) = <<>>

LEMMA WithinRead ==
  ASSUME NEW x \in Texts, NEW rest \in Texts, NEW after \in Texts, NEW z \in Texts,
         x \o rest = after \o z
  PROVE  ReadSoFar(Within(after, Len(x)), x, after)
<1> DEFINE n == Len(x)
           e == Within(after, n)
           q == Drop(after, n)
<1>1. n \in Nat /\ Len(after) \in Nat /\ x \in Seq(Octets) /\ after \in Seq(Octets)
  BY LenProperties DEF Texts
<1>2. e.state = "ok" /\ e.left = after /\ e.size = n /\ e.cut = (n > Len(after))
  BY Zenon DEF Within
<1>3. Contents(e) = UpTo(after, n)
  <2> HIDE DEF e
  <2> QED
    BY <1>2, Zenon DEF Contents
<1> HIDE DEF e
<1>4. ASSUME after = <<>> PROVE Contents(e) = <<>>
  <2> HIDE DEF n
  <2>1. UpTo(<<>>, n) = <<>>
    BY <1>1, NothingLeft
  <2> QED
    BY <1>3, <1>4, <2>1, Zenon
<1>5. ASSUME Len(after) >= n PROVE Contents(e) = x /\ q \in Texts /\ after = x \o q
  <2>1. GoesOn(x, rest, after, z, q)
    BY <1>1, <1>5, LongerGoesOn
  <2>2. q \in Texts /\ after = x \o q
    BY <2>1, Zenon DEF GoesOn
  <2> HIDE DEF q
  <2>3. UpTo(x \o q, Len(x)) = x
    BY <1>1, <2>2, SliceAtBorder DEF Texts
  <2> QED
    BY <1>3, <2>2, <2>3, Zenon
<1>6. ASSUME Len(after) < n PROVE e.cut /\ q = <<>>
  <2>1. n > Len(after)
    BY <1>1, <1>6
  <2>2. q = <<>>
    <3>1. Len(after) <= Len(x)
      BY <1>1, <1>6
    <3> QED
      BY <3>1, MidwayLeft
  <2> QED
    BY <1>2, <2>1, <2>2, Zenon
<1> HIDE DEF n, q
<1> QED
  BY <1>2, <1>4, <1>5, <1>6, Zenon DEF ReadSoFar, e, n, q

\* Going on, and on from there.
LEMMA SameText ==
  ASSUME NEW a \in Texts, NEW d, NEW b, NEW z \in Texts, NEW p, GoesOn(a, d, b, z, p)
  PROVE  Same(a, d, b, z)
<1>1. p \in Texts /\ b = a \o p /\ d = p \o z
  BY Zenon DEF GoesOn
<1>2. (a \o p) \o z = a \o (p \o z)
  BY <1>1, SMTT(30) DEF Texts
<1> QED
  BY <1>1, <1>2, Zenon DEF Same

LEMMA SameFurther ==
  ASSUME NEW a \in Texts, NEW x \in Texts, NEW d \in Texts, NEW b, NEW z,
         Same(a, x \o d, b, z)
  PROVE  Same(a \o x, d, b, z)
<1>1. (a \o x) \o d = a \o (x \o d)
  BY SMTT(30) DEF Texts
<1> QED
  BY <1>1, Zenon DEF Same

LEMMA LeftOver ==
  ASSUME NEW a \in Texts, NEW d, NEW b, NEW z, NEW p, GoesOn(a, d, b, z, p),
         NEW x \in Texts, NEW e, ReadSoFar(e, x, p), Len(p) >= Len(x)
  PROVE  Drop(b, Len(a \o x)) = Drop(p, Len(x))
<1> DEFINE w == a \o x
           q == Drop(p, Len(x))
<1>1. q \in Texts /\ p = x \o q
  BY Zenon DEF ReadSoFar
<1>2. b = a \o p
  BY Zenon DEF GoesOn
<1> HIDE DEF q
<1>3. a \o (x \o q) = w \o q
  BY <1>1, SMTT(30) DEF Texts
<1>4. w \in Seq(Octets) /\ q \in Seq(Octets)
  BY <1>1, ConcatProperties DEF Texts
<1>5. b = w \o q
  BY <1>1, <1>2, <1>3, Zenon
<1> HIDE DEF w
<1>6. Drop(w \o q, Len(w)) = q
  BY <1>4, SliceAtBorder
<1> QED
  BY <1>5, <1>6, Zenon DEF w, q

LEMMA ReachedWhole ==
  ASSUME NEW h \in Texts, Len(h) >= 2, NEW x \in Texts, NEW rest \in Texts,
         NEW b \in Texts, NEW z \in Texts, NEW pre \in Texts,
         NEW c, Midway(c, b, z, pre, h \o (x \o rest)), NEW tags,
         Enter(c, tags) = Within(Drop(b, Len(pre \o h)), Len(x)),
         GoesOn(pre \o h, x \o rest, b, z, Drop(b, Len(pre \o h))),
         Len(pre) + Len(h) <= Len(b)
  PROVE  Reached(Enter(c, tags), b, z, pre, h, x, rest)
<1> DEFINE e == Enter(c, tags)
           y == pre \o h
           d == x \o rest
           w == y \o x
           after == Drop(b, Len(y))
<1>1. /\ y \in Texts /\ d \in Texts /\ w \in Texts /\ Len(y) = Len(pre) + Len(h)
      /\ Len(w) = Len(y) + Len(x)
      /\ Len(pre) \in Nat /\ Len(h) \in Nat /\ Len(x) \in Nat /\ Len(b) \in Nat
  <2>1. y \in Texts /\ d \in Texts /\ w \in Texts
    BY Joined
  <2>2. Len(y) = Len(pre) + Len(h)
    BY ConcatProperties DEF Texts
  <2>3. Len(w) = Len(y) + Len(x)
    <3> HIDE DEF y
    <3> QED
      BY <2>1, ConcatProperties DEF Texts
  <2> HIDE DEF y, d, w
  <2> QED
    BY <2>1, <2>2, <2>3, LenProperties DEF Texts
<1>14. y \in Texts /\ d \in Texts /\ w \in Texts
  BY <1>1
<1>2. Over(e).state = e.state /\ Over(e).left = Drop(e.left, e.size)
  BY OverMidway
<1>4. after \in Texts /\ b = y \o after /\ d = after \o z /\ Len(b) = Len(y) + Len(after)
  BY Zenon DEF GoesOn
<1>5. Same(y, d, b, z) /\ Same(w, rest, b, z)
  <2>1. GoesOn(y, d, b, z, after)
    OBVIOUS
  <2> HIDE DEF y, after
  <2>2. Same(y, d, b, z)
    BY <1>14, <2>1, SameText, Zenon
  <2>3. Same(w, rest, b, z)
    BY <1>14, <2>2, SameFurther, Zenon
  <2> QED
    BY <2>2, <2>3
<1>6. ReadSoFar(e, x, after)
  <2> DEFINE f == Within(after, Len(x))
  <2>1. e = f
    OBVIOUS
  <2> HIDE DEF after, e, y
  <2>2. x \o rest = after \o z
    BY <1>4
  <2>3. ReadSoFar(f, x, after)
    BY <1>4, <2>2, WithinRead
  <2> HIDE DEF f
  <2> QED
    BY <2>1, <2>3, Zenon
<1>7. Len(after) \in Nat
  BY <1>4, LenProperties DEF Texts
<1> HIDE DEF e, y, d, w, after
<1>8. Midway(e, b, z, y, d)
  BY <1>5, <1>6, <1>14, Zenon DEF Midway, ReadSoFar, after
<1>9. Over(e).left = Drop(b, Len(w))
  <2>1. CASE Len(after) >= Len(x)
    <3>1. GoesOn(y, d, b, z, after)
      BY Zenon DEF y, d, after
    <3>2. Drop(b, Len(w)) = Drop(after, Len(x))
      BY <1>6, <1>14, <2>1, <3>1, LeftOver DEF w
    <3> QED
      BY <1>2, <1>6, <3>2, Zenon DEF ReadSoFar
  <2>2. CASE Len(after) < Len(x)
    <3>1. Len(b) <= Len(w)
      BY <1>1, <1>4, <1>7, <2>2
    <3>2. Drop(b, Len(w)) = <<>>
      BY <1>1, <3>1, MidwayLeft
    <3> QED
      BY <1>2, <1>6, <2>2, <3>2, Zenon DEF ReadSoFar
  <2> QED
    BY <1>1, <1>7, <2>1, <2>2
<1>10. Midway(Over(e), b, z, w, rest)
  BY <1>2, <1>5, <1>6, <1>9, <1>14, Zenon DEF Midway, ReadSoFar
<1>11. Len(b) >= Len(pre) + 2
  BY <1>1
<1>12. Len(b) <= Len(pre) + Len(h) => Contents(e) = <<>>
  <2> SUFFICES ASSUME Len(b) <= Len(pre) + Len(h) PROVE Contents(e) = <<>>
    OBVIOUS
  <2>1. Len(after) = 0
    BY <1>1, <1>4, <1>7
  <2>2. after = <<>>
    BY <1>4, <2>1, EmptySeq DEF Texts
  <2> QED
    BY <1>6, <2>2, Zenon DEF ReadSoFar
<1>13. /\ Len(b) >= Len(pre) + Len(h) + Len(x) => Contents(e) = x
       /\ ~e.cut => Len(b) >= Len(pre) + Len(h) + Len(x)
  <2>1. Len(b) = Len(pre) + Len(h) + Len(after)
    BY <1>1, <1>4, <1>7
  <2>2. Len(after) >= Len(x) <=> Len(b) >= Len(pre) + Len(h) + Len(x)
    BY <1>1, <1>7, <2>1
  <2>3. Len(after) < Len(x) <=> ~(Len(b) >= Len(pre) + Len(h) + Len(x))
    BY <1>1, <1>7, <2>1
  <2> QED
    BY <1>6, <2>2, <2>3, Zenon DEF ReadSoFar
<1> QED
  BY <1>8, <1>10, <1>11, <1>12, <1>13, Zenon DEF Reached, e, y, d, w

LEMMA ReachedCut ==
  ASSUME NEW h \in Texts, NEW x \in Texts, NEW rest \in Texts,
         NEW b \in Texts, NEW z \in Texts, NEW pre \in Texts,
         NEW c, Midway(c, b, z, pre, h \o (x \o rest)), NEW tags,
         LET e == Enter(c, tags)
         IN  e.state = "ok" /\ e.left = <<>> /\ e.cut /\ e.size \in Nat,
         Len(pre) + 2 <= Len(b), Len(b) < Len(pre) + Len(h)
  PROVE  Reached(Enter(c, tags), b, z, pre, h, x, rest)
<1> DEFINE e == Enter(c, tags)
           y == pre \o h
           d == x \o rest
           w == y \o x
<1>1. e.state = "ok" /\ e.left = <<>> /\ e.cut /\ e.size \in Nat
  OBVIOUS
<1>2. Over(e).state = e.state /\ Over(e).left = Drop(e.left, e.size)
  BY OverMidway
<1>3. y \in Texts /\ d \in Texts /\ w \in Texts
  BY Joined
<1>4. Len(y) = Len(pre) + Len(h)
  BY ConcatProperties DEF Texts
<1>5. Drop(b, Len(w)) = <<>>
  <2>1. Len(b) <= Len(y)
    BY <1>4, LenProperties DEF Texts
  <2> HIDE DEF y
  <2> QED
    BY <1>3, <2>1, BeyondMidway
<1>6. Len(b) <= Len(y)
  BY <1>4, LenProperties DEF Texts
<1>7. Same(y, d, b, z)
  <2>1. Same(pre, h \o d, b, z)
    BY Zenon DEF Midway
  <2> HIDE DEF d
  <2> QED
    BY <1>3, <2>1, SameFurther
<1> HIDE DEF e, y
<1>8. Same(w, rest, b, z)
  BY <1>3, <1>7, SameFurther
<1> HIDE DEF d, w
<1>9. Drop(b, Len(y)) = <<>>
  BY <1>3, <1>6, MidwayLeft
<1>10. Midway(e, b, z, y, d)
  BY <1>1, <1>3, <1>7, <1>9, Zenon DEF Midway
<1>11. Over(e).left = <<>>
  <2> DEFINE n == e.size
  <2>1. n \in Nat
    BY <1>1
  <2> HIDE DEF n
  <2>2. Drop(<<>>, n) = <<>>
    BY <2>1, NothingLeft
  <2> QED
    BY <1>1, <1>2, <2>2, Zenon DEF n
<1>12. Midway(Over(e), b, z, w, rest)
  BY <1>1, <1>2, <1>3, <1>5, <1>8, <1>11, Zenon DEF Midway
<1>13. Contents(e) = <<>>
  <2> DEFINE n == e.size
  <2>1. n \in Nat
    BY <1>1
  <2> HIDE DEF n
  <2>2. UpTo(<<>>, n) = <<>>
    BY <2>1, NothingLeft
  <2> QED
    BY <1>1, <2>2, Zenon DEF Contents, n
<1>14. Len(b) >= Len(pre) + 2 /\ ~(Len(b) >= Len(pre) + Len(h) + Len(x))
  BY LenProperties DEF Texts
<1> QED
  BY <1>1, <1>10, <1>12, <1>13, <1>14, Zenon DEF Reached, e, y, d, w

LEMMA ElementReached ==
  ASSUME NEW form \in 0..4, NEW t \in Tags, NEW x, Fits(form, x), NEW rest \in Texts,
         NEW b \in Texts, NEW z \in Texts, NEW pre \in Texts,
         NEW c, Midway(c, b, z, pre, Element(form, t, x) \o rest),
         NEW tags, Enter(c, tags).state = "ok"
  PROVE  t \in tags /\ Reached(Enter(c, tags), b, z, pre, Header(form, t, x), x, rest)
<1> DEFINE l == ServerLength(form, Len(x))
           h == Header(form, t, x)
           d == x \o rest
           e == Enter(c, tags)
<1>1. HeadOf(h, t, l, Len(x)) /\ x \in Texts /\ d \in Texts
  BY ElementSplit, Zenon
<1>2. Midway(c, b, z, pre, h \o d)
  BY ElementSplit, Zenon
<1>3. t \in tags /\ Len(b) >= Len(pre) + 2
  <2> DEFINE u == Element(form, t, x) \o rest
  <2>1. x \in Texts
    BY <1>1
  <2>2. u # <<>> /\ Head(u) = t
    <3>1. Leads(t, u)
      BY <2>1, StartsWithTag, SMTT(30)
    <3> HIDE DEF u
    <3> QED
      BY <3>1, Zenon DEF Leads
  <2>3. Midway(c, b, z, pre, u)
    BY Zenon
  <2>4. e.state = "ok"
    BY Zenon
  <2> HIDE DEF u, e
  <2>5. u \in Texts
    BY <2>3, Zenon DEF Midway
  <2> USE DEF e
  <2> QED
    BY <2>2, <2>3, <2>4, <2>5, TagHasCome
<1>4. h \in Texts /\ Len(h) \in Nat /\ Len(h) >= 2 /\ Len(b) \in Nat /\ Len(pre) \in Nat
  BY <1>1, LenProperties DEF HeadOf, Texts
<1>5. Len(x) \in Nat
  BY <1>1, LenProperties DEF Texts
<1> HIDE DEF l, h, d, e
<1>6. CASE Len(pre) + Len(h) <= Len(b)
  <2> DEFINE y == pre \o h
             after == Drop(b, Len(y))
  <2>1. e = Within(after, Len(x)) /\ GoesOn(y, d, b, z, after)
    BY <1>1, <1>2, <1>3, <1>6, HeadWhole DEF e
  <2> HIDE DEF y, after
  <2> QED
    BY <1>1, <1>2, <1>3, <1>4, <1>6, <2>1, ReachedWhole DEF y, after, d, e, h
<1>7. CASE ~(Len(pre) + Len(h) <= Len(b))
  <2>1. Len(b) < Len(pre) + Len(h) /\ Len(pre) + 2 <= Len(b)
    BY <1>3, <1>4, <1>7
  <2>2. e.state = "ok" /\ e.left = <<>> /\ e.cut /\ e.size \in Nat
    BY <1>1, <1>2, <1>3, <1>5, <2>1, HeadCut DEF e
  <2> QED
    BY <1>1, <1>2, <1>3, <1>4, <2>1, <2>2, ReachedCut DEF d, e, h
<1> QED
  BY <1>6, <1>7

-----------------------------------------------------------------------------
\* A parser that has given up stays so.
Cursors == [left : Seq(Octets), size : Nat, cut : BOOLEAN, state : States]

LEMMA CursorOver ==
  ASSUME NEW c \in Cursors
  PROVE  Over(c) \in Cursors /\ Over(c).state = c.state
<1> DEFINE l == Drop(c.left, c.size)
<1>1. l \in Seq(Octets)
  <2>1. c.left \in Seq(Octets) /\ c.size \in Nat
    BY DEF Cursors
  <2> QED
    BY <2>1, SliceTyped
<1>2. Over(c) = [c EXCEPT !.left = l]
  BY DEF Over
<1> HIDE DEF l
<1> QED
  BY <1>1, <1>2 DEF Cursors

LEMMA CursorEnters ==
  ASSUME NEW c \in Cursors, NEW tags
  PROVE  Enter(c, tags) \in Cursors /\ (Enter(c, tags).state = "ok" => c.state = "ok")
<1> DEFINE e == Enter(c, tags)
           s == c.left
<1>1. s \in Seq(Octets) /\ Len(s) \in Nat
  BY LenProperties DEF Cursors
<1>2. CASE c.state # "ok"
  <2>1. e = c
    BY <1>2, GivenUp, Zenon
  <2> HIDE DEF e
  <2> QED
    BY <1>2, <2>1, Zenon DEF e
<1>3. CASE c.state = "ok" /\ (s = <<>> \/ Head(s) \notin tags)
  <2>1. e = Cursor(<<>>, "None")
    BY <1>3, Zenon DEF Enter
  <2>2. Cursor(<<>>, "None") \in Cursors
    BY EmptySeq DEF Cursors, Cursor, States
  <2> HIDE DEF e
  <2> QED
    BY <1>3, <2>1, <2>2, Zenon DEF e
<1>4. CASE c.state = "ok" /\ ~(s = <<>> \/ Head(s) \notin tags) /\ Len(s) = 1
  <2>1. e = Cursor(<<>>, "IndexError")
    BY <1>4, Zenon DEF Enter
  <2>2. Cursor(<<>>, "IndexError") \in Cursors
    BY EmptySeq DEF Cursors, Cursor, States
  <2> HIDE DEF e
  <2> QED
    BY <1>4, <2>1, <2>2, Zenon DEF e
<1>5. CASE c.state = "ok" /\ ~(s = <<>> \/ Head(s) \notin tags) /\ Len(s) # 1
  <2> DEFINE n == ParseLength(Tail(s))[1]
             k == ParseLength(Tail(s))[2]
             l == Drop(s, 1 + k)
             cut == BeyondEnd(s, 1 + k + n)
  <2>1. Tail(s) \in Seq(Octets) /\ Tail(s) # <<>>
    <3>1. s # <<>>
      BY <1>5
    <3>2. Tail(s) \in Seq(Octets) /\ Len(Tail(s)) = Len(s) - 1
      BY <1>1, <3>1, HeadTailProperties
    <3>3. Len(Tail(s)) # 0
      BY <1>1, <1>5, <3>2
    <3> QED
      BY <3>2, <3>3, EmptySeq
  <2>2. n \in Nat /\ k \in Nat
    BY <2>1, ParseLengthTyped
  <2>3. e = [left |-> l, size |-> n, state |-> "ok", cut |-> cut]
    BY <1>5, Zenon DEF Enter
  <2> HIDE DEF n, k, e
  <2>4. l \in Seq(Octets)
    BY <1>1, <2>2, SliceTyped
  <2>5. cut \in BOOLEAN
    BY DEF BeyondEnd
  <2> HIDE DEF l, cut
  <2>6. [left |-> l, size |-> n, state |-> "ok", cut |-> cut] \in Cursors
    BY <2>2, <2>4, <2>5 DEF Cursors, States
  <2> QED
    BY <1>5, <2>3, <2>6, Zenon DEF e
<1> QED
  BY <1>2, <1>3, <1>4, <1>5

LEMMA CursorPasses ==
  ASSUME NEW c \in Cursors, NEW tag
  PROVE  Optional(c, tag) \in Cursors /\ (Optional(c, tag).state = "ok" => c.state = "ok")
<1>1. CASE Optional(c, tag) = c
  BY <1>1, Zenon
<1>2. CASE Optional(c, tag) = Over(Enter(c, {tag}))
  <2> DEFINE tags == {tag}
             e == Enter(c, tags)
  <2>1. Optional(c, tag) = Over(e)
    BY <1>2
  <2> HIDE DEF tags
  <2>2. e \in Cursors /\ (e.state = "ok" => c.state = "ok")
    BY CursorEnters
  <2> HIDE DEF e
  <2>3. Over(e) \in Cursors /\ Over(e).state = e.state
    BY <2>2, CursorOver
  <2> QED
    BY <2>1, <2>2, <2>3, Zenon
<1> QED
  BY <1>1, <1>2, Zenon DEF Optional, Skip

LEMMA Rejoined ==
  ASSUME NEW c, NEW b, NEW z, NEW pre, NEW a \in Texts, NEW d \in Texts, NEW r \in Texts,
         Midway(c, b, z, pre, (a \o d) \o r)
  PROVE  Midway(c, b, z, pre, a \o (d \o r))
<1>1. (a \o d) \o r = a \o (d \o r)
  BY SMTT(30) DEF Texts
<1> QED
  BY <1>1, Zenon

\* The length of a code is as long as that of nothing.
LEMMA CodeHeader ==
  ASSUME NEW form \in 0..4, NEW v \in Octets
  PROVE  Len(Header(form, 10, <<v>>)) = Len(Element(form, 10, <<>>))
<1> DEFINE l == ServerLength(form, 0)
           k == ServerLength(form, 1)
           h == <<10>>
           empty == <<>>
<1>1. Len(<<v>>) = 1 /\ Len(<<>>) = 0
  OBVIOUS
<1>2. l \in Seq(Octets) /\ k \in Seq(Octets)
  BY ServerLengthTyped DEF Texts
<1>3. Len(l) = Len(k)
  <2>1. CASE form = 0
    BY <2>1 DEF ServerLength
  <2>2. CASE form \in 1..4
    <3> DEFINE y == SubSeq(<<0, 0, 0, 0>>, 5 - form, 4)
               z == SubSeq(<<0, 0, 0, 1>>, 5 - form, 4)
               first == <<128 + form>>
    <3>1. l = first \o y /\ k = first \o z
      <4>1. /\ (0 \div 16777216) % 256 = 0 /\ (0 \div 65536) % 256 = 0 /\ (0 \div 256) % 256 = 0
            /\ 0 % 256 = 0 /\ 1 % 256 = 1
            /\ (1 \div 16777216) % 256 = 0 /\ (1 \div 65536) % 256 = 0 /\ (1 \div 256) % 256 = 0
        OBVIOUS
      <4> QED
        BY <2>2, <4>1 DEF ServerLength
    <3>2. /\ y \in Seq(Octets) /\ Len(y) = form /\ z \in Seq(Octets) /\ Len(z) = form
          /\ first \in Seq(Octets)
      BY <2>2, SMT DEF Octets
    <3> HIDE DEF y, z, first
    <3>3. Len(first \o y) = Len(first) + form /\ Len(first \o z) = Len(first) + form
      BY <3>2, ConcatProperties
    <3> QED
      BY <3>1, <3>3, Zenon
  <2> QED
    BY <2>1, <2>2
<1>4. Header(form, 10, <<v>>) = h \o k /\ Element(form, 10, <<>>) = (h \o l) \o empty
  BY <1>1, Zenon DEF Header, Element
<1>5. h \in Seq(Octets) /\ empty \in Seq(Octets)
  BY EmptySeq DEF Octets
<1> DEFINE x == h \o l
<1> HIDE DEF h, l, k
<1>6. Len(h \o k) = Len(h) + Len(k) /\ Len(x) = Len(h) + Len(l) /\ x \in Seq(Octets)
  BY <1>2, <1>5, ConcatProperties
<1> HIDE DEF x
<1>7. x \o empty = x
  BY <1>6, ConcatEmptySeq
<1> QED
  BY <1>3, <1>4, <1>6, <1>7, Zenon DEF x

\* From the start of a message to its operation.
LEMMA AtTheStart ==
  ASSUME NEW b \in Texts, NEW z \in Texts, NEW d \in Texts, d = b \o z
  PROVE  Midway(Start(b), b, z, <<>>, d) /\ Start(b) \in Cursors
<1> DEFINE empty == <<>>
<1>1. empty \in Texts /\ b \in Seq(Octets) /\ d \in Seq(Octets)
  BY EmptySeq DEF Texts
<1>2. empty \o b = b /\ empty \o d = d
  BY <1>1, ConcatEmptySeq
<1>3. Start(b).state = "ok" /\ Start(b).left = b
  BY DEF Start, Cursor
<1>4. Start(b) \in Cursors
  BY <1>1 DEF Start, Cursor, Cursors, States
<1>5. Start(b).left = Drop(b, Len(empty))
  <2>1. Drop(b, Len(empty)) = b
    <3> HIDE DEF empty
    <3>1. b = empty \o b
      BY <1>2
    <3> QED
      BY <1>1, <3>1, MidwayLeft
  <2> QED
    BY <1>3, <2>1, Zenon
<1> HIDE DEF empty
<1>6. Same(empty, d, b, z)
  BY <1>2, Zenon DEF Same
<1>7. Midway(Start(b), b, z, empty, d)
  BY <1>1, <1>3, <1>5, <1>6, Zenon DEF Midway
<1> QED
  BY <1>4, <1>7 DEF empty

LEMMA ReachedGives ==
  ASSUME NEW e, NEW b, NEW z, NEW pre \in Texts, NEW h \in Texts, NEW x \in Texts, NEW rest,
         Reached(e, b, z, pre, h, x, rest)
  PROVE  /\ \E y \in Texts : Midway(e, b, z, y, x \o rest)
         /\ \E y \in Texts : Midway(Over(e), b, z, y, rest)
         /\ ~e.cut => Contents(e) = x
<1>1. pre \o h \in Texts
  BY Joined, Zenon
<1>2. (pre \o h) \o x \in Texts
  BY <1>1, Joined, Zenon
<1>3. Midway(e, b, z, pre \o h, x \o rest) /\ Midway(Over(e), b, z, (pre \o h) \o x, rest)
  BY Zenon DEF Reached
<1>4. ~e.cut => Contents(e) = x
  BY Zenon DEF Reached
<1> QED
  BY <1>1, <1>2, <1>3, <1>4, Zenon

InMessageOf(m) ==
  Element(m.form, Tag(m), OpContents(m)) \o ControlsContents(m)

LEMMA MessageSplit ==
  ASSUME NEW m \in Answers
  PROVE  /\ Wire(m) = Element(m.form, 48, WireContents(m))
         /\ WireContents(m) = Element(m.form, 2, <<m.id>>) \o InMessageOf(m)
         /\ Element(m.form, 2, <<m.id>>) \in Texts /\ InMessageOf(m) \in Texts
         /\ Element(m.form, Tag(m), OpContents(m)) \in Texts
         /\ OpContents(m) \in Texts /\ ControlsContents(m) \in Texts /\ Wire(m) \in Texts
<1> DEFINE x == OpContents(m)
           cs == ControlsContents(m)
           id == <<m.id>>
           t == Tag(m)
           form == m.form
<1>1. form \in 0..4 /\ t \in Tags /\ SendableMessage(m) /\ 2 \in Tags
  BY InMessage, TagsUsed
<1>2. x \in Texts /\ cs \in Texts /\ id \in Texts
  BY <1>1, PartsOfWireTyped
<1>3. Wire(m) = Element(m.form, 48, WireContents(m)) /\ Wire(m) \in Texts
  BY <1>1, WireTyped
<1>4. WireContents(m) = Element(form, 2, id) \o InMessageOf(m)
  BY Zenon DEF WireContents, InMessageOf, Tag
<1> HIDE DEF x, cs, id, t, form
<1>5. Element(form, 2, id) \in Texts /\ Element(form, t, x) \in Texts
  BY <1>1, <1>2, ElementTyped
<1>6. InMessageOf(m) \in Texts
  <2>1. Element(form, t, x) \o cs \in Texts
    BY <1>2, <1>5, Joined
  <2> QED
    BY <2>1 DEF InMessageOf, form, t, x, cs
<1> QED
  BY <1>2, <1>3, <1>4, <1>5, <1>6 DEF form, t, x, cs, id

LEMMA ToTheOperation ==
  ASSUME NEW m \in Answers, NEW b \in Texts, NEW z \in Texts, NEW more \in Texts,
         Same(Wire(m), more, b, z)
  PROVE  LET id == Enter(Enter(Start(b), {48}), {2})
         IN  /\ id \in Cursors
             /\ id.state = "ok" /\ ~id.cut => Contents(id) = <<m.id>>
             /\ Over(id) \in Cursors /\ Over(id).state = id.state
             /\ id.state = "ok" =>
                  \E y \in Texts : Midway(Over(id), b, z, y, InMessageOf(m) \o more)
<1> DEFINE form == m.form
           W == WireContents(m)
           v == <<m.id>>
           w == InMessageOf(m)
           outer == 48
           int == 2
           first == {outer}
           second == {int}
           e == Enter(Start(b), first)
           id == Enter(e, second)
           el == Element(form, int, v)
           empty == <<>>
<1>1. /\ form \in 0..4 /\ Fits(form, W) /\ Fits(form, v) /\ outer \in Tags /\ int \in Tags
  BY InMessage, TagsUsed
<1>2. Wire(m) = Element(form, outer, W) /\ W = el \o w /\ el \in Texts /\ w \in Texts
      /\ Wire(m) \in Texts
  BY MessageSplit
<1> HIDE DEF form, W, v, w, outer, int, first, second, el
<1>3. Wire(m) \o more \in Texts /\ w \o more \in Texts
  BY <1>2, Joined
<1>4. Midway(Start(b), b, z, empty, Wire(m) \o more) /\ Start(b) \in Cursors /\ empty \in Texts
  <2> DEFINE d == Wire(m) \o more
  <2>1. d = b \o z /\ d \in Texts
    BY <1>3, Zenon DEF Same
  <2> HIDE DEF d
  <2>2. Midway(Start(b), b, z, <<>>, d) /\ Start(b) \in Cursors
    BY <2>1, AtTheStart
  <2>3. empty \in Texts
    BY EmptySeq DEF Texts
  <2> QED
    BY <2>2, <2>3 DEF d
<1> HIDE DEF empty
<1>5. e \in Cursors
  BY <1>4, CursorEnters
<1>6. id \in Cursors /\ (id.state = "ok" => e.state = "ok")
  <2> HIDE DEF e
  <2> QED
    BY <1>5, CursorEnters
<1>7. Over(id) \in Cursors /\ Over(id).state = id.state
  <2> HIDE DEF id
  <2> QED
    BY <1>6, CursorOver
<1>8. ASSUME id.state = "ok"
      PROVE  /\ ~id.cut => Contents(id) = v
             /\ \E y \in Texts : Midway(Over(id), b, z, y, w \o more)
  <2>1. e.state = "ok"
    BY <1>6, <1>8
  <2>2. \E y \in Texts : Midway(e, b, z, y, W \o more)
    <3> DEFINE h == Header(form, outer, W)
    <3>1. Midway(Start(b), b, z, empty, Element(form, outer, W) \o more)
      BY <1>2, <1>4, Zenon
    <3>2. Reached(e, b, z, empty, h, W, more)
      BY <1>1, <1>4, <2>1, <3>1, ElementReached
    <3>3. h \in Texts /\ W \in Texts
      BY <1>1, ElementSplit DEF HeadOf
    <3> HIDE DEF h, e
    <3> QED
      BY <1>4, <3>2, <3>3, ReachedGives
  <2>3. PICK y \in Texts : Midway(e, b, z, y, W \o more)
    BY <2>2
  <2>4. Midway(e, b, z, y, el \o (w \o more))
    <3>1. Midway(e, b, z, y, (el \o w) \o more)
      BY <1>2, <2>3, Zenon
    <3> HIDE DEF e
    <3> QED
      BY <1>2, <3>1, Rejoined
  <2> DEFINE k == Header(form, int, v)
  <2> HIDE DEF e
  <2>5. Reached(id, b, z, y, k, v, w \o more)
    <3>1. Midway(e, b, z, y, Element(form, int, v) \o (w \o more))
      BY <2>4 DEF el
    <3> QED
      BY <1>1, <1>3, <1>8, <2>3, <3>1, ElementReached
  <2>6. k \in Texts /\ v \in Texts
    BY <1>1, <1>3, ElementSplit DEF HeadOf
  <2> HIDE DEF k, id
  <2> QED
    BY <2>3, <2>5, <2>6, ReachedGives
<1> HIDE DEF e, id
<1> QED
  BY <1>6, <1>7, <1>8 DEF id, e, first, second, outer, int, v, w

BeforeOp(m) == Len(Wire(m)) - Len(ControlsContents(m)) - Len(OpContents(m))

LEMMA WhereOpBegins ==
  ASSUME NEW w \in Texts, NEW more \in Texts, NEW x \in Texts, NEW cs \in Texts,
         NEW y \in Texts, NEW b, NEW z, Same(w, more, b, z), Same(y, x \o (cs \o more), b, z)
  PROVE  Len(y) = Len(w) - Len(cs) - Len(x)
<1> DEFINE u == cs \o more
           v == x \o u
<1>1. u \in Texts /\ Len(u) = Len(cs) + Len(more)
  BY Joined, ConcatProperties DEF Texts
<1> HIDE DEF u
<1>2. v \in Texts /\ Len(v) = Len(x) + Len(u)
  BY <1>1, Joined, ConcatProperties, ZenonT(40) DEF Texts
<1>3. y \o v = w \o more
  BY Zenon DEF Same, u
<1> HIDE DEF v
<1>4. Len(y \o v) = Len(y) + Len(v) /\ Len(w \o more) = Len(w) + Len(more)
  BY <1>2, ConcatProperties DEF Texts
<1>5. Len(y) + Len(v) = Len(w) + Len(more)
  BY <1>3, <1>4, Zenon
<1>6. /\ Len(y) \in Nat /\ Len(w) \in Nat /\ Len(more) \in Nat /\ Len(cs) \in Nat
      /\ Len(x) \in Nat
  BY LenProperties DEF Texts
<1> QED
  BY <1>1, <1>2, <1>5, <1>6

\* What is read for the code: the code, or nothing.
CodeOrNothing(code, m, b) ==
  \/ Contents(code) = <<m.code>>
  \/ /\ Contents(code) = <<>>
     /\ Len(b) \in BeforeOp(m) + 2..BeforeOp(m) + Len(Element(m.form, 10, <<>>))

LEMMA AtCode ==
  ASSUME NEW m \in Answers, NEW b \in Texts, NEW z \in Texts, NEW more \in Texts,
         Same(Wire(m), more, b, z), NEW tags,
         NEW a, NEW p \in Texts, Midway(a, b, z, p, InMessageOf(m) \o more),
         NEW op, op = Enter(a, tags), op.state = "ok",
         NEW code, code = Enter(op, {10}), code.state = "ok"
  PROVE  Tag(m) \in tags /\ HasCode(m) /\ CodeOrNothing(code, m, b)
<1> DEFINE form == m.form
           t == Tag(m)
           x == OpContents(m)
           cs == ControlsContents(m)
           rest == cs \o more
           enum == 10
           str == 4
           only == {enum}
           h == Header(form, t, x)
           y == p \o h
           el == Element(form, t, x)
<1>1. /\ form \in 0..4 /\ t \in Tags /\ Fits(form, x) /\ SendableMessage(m)
      /\ enum \in Tags /\ str \in Tags /\ str \notin only /\ enum \in only
  <2>1. form \in 0..4 /\ t \in Tags /\ Fits(form, x) /\ SendableMessage(m)
    BY InMessage
  <2>2. enum \in Tags /\ str \in Tags /\ str \notin only /\ enum \in only
    BY TagsUsed
  <2> HIDE DEF form, t, x, enum, str, only
  <2> QED
    BY <2>1, <2>2
<1>2. x \in Texts /\ cs \in Texts /\ Wire(m) \in Texts /\ el \in Texts /\ InMessageOf(m) = el \o cs
  BY MessageSplit DEF InMessageOf
<1>3. rest \in Texts
  BY <1>2, Joined
<1>4. code = Enter(op, only)
  OBVIOUS
<1> HIDE DEF form, t, x, cs, rest, enum, str, only, h, el
<1>5. Midway(a, b, z, p, el \o rest)
  <2>1. Midway(a, b, z, p, (el \o cs) \o more)
    BY <1>2, Zenon
  <2>2. Midway(a, b, z, p, el \o (cs \o more))
    BY <1>2, <2>1, Rejoined
  <2> QED
    BY <2>2 DEF rest
<1>6. t \in tags /\ Reached(op, b, z, p, h, x, rest)
  BY <1>1, <1>3, <1>5, ElementReached DEF el, h
<1>7. h \in Texts /\ y \in Texts
  <2>1. h \in Texts
    BY <1>1, <1>3, ElementSplit DEF HeadOf, h
  <2> HIDE DEF h
  <2> QED
    BY <2>1, Joined
<1>8. Midway(op, b, z, y, x \o rest)
  BY <1>6, Zenon DEF Reached
<1> HIDE DEF y
<1>9. ASSUME NEW s \in Tags, NEW v, Fits(form, v), NEW r \in Texts, x = Element(form, s, v) \o r
      PROVE  s \in only /\ Reached(code, b, z, y, Header(form, s, v), v, r \o rest)
  <2> DEFINE w == Element(form, s, v)
  <2>1. w \in Texts
    BY <1>1, <1>9, ElementTyped DEF Fits
  <2>2. Midway(op, b, z, y, (w \o r) \o rest)
    BY <1>8, <1>9, Zenon
  <2>3. Midway(op, b, z, y, w \o (r \o rest)) /\ r \o rest \in Texts
    <3> HIDE DEF w
    <3>1. Midway(op, b, z, y, w \o (r \o rest))
      BY <1>3, <2>1, <2>2, Rejoined
    <3>2. r \o rest \in Texts
      BY <1>3, Joined
    <3> QED
      BY <3>1, <3>2
  <2> DEFINE u == r \o rest
             e == Enter(op, only)
  <2>4. Midway(op, b, z, y, Element(form, s, v) \o u) /\ u \in Texts
    BY <2>3
  <2>5. form \in 0..4 /\ Fits(form, v) /\ y \in Texts /\ s \in Tags
    BY <1>1, <1>7, <1>9
  <2>6. e.state = "ok"
    BY <1>4, Zenon
  <2> HIDE DEF u
  <2>7. s \in only /\ Reached(e, b, z, y, Header(form, s, v), v, u)
    BY <2>4, <2>5, <2>6, ElementReached
  <2> QED
    BY <1>4, <2>7, Zenon DEF u, e
<1>10. HasCode(m)
  <2> SUFFICES ASSUME ~HasCode(m) PROVE FALSE
    OBVIOUS
  <2>1. PICK v \in Texts, r \in Texts : Fits(form, v) /\ x = Element(form, str, v) \o r
    BY OpBegins DEF form, x, str
  <2>2. str \in only
    BY <1>1, <1>9, <2>1
  <2> QED
    BY <1>1, <2>2
<1> DEFINE v == <<m.code>>
           k == Header(form, enum, v)
<1>11. Len(b) >= Len(y) + 2 /\ (Len(b) <= Len(y) + Len(k) => Contents(code) = <<>>)
       /\ (Len(b) >= Len(y) + Len(k) + Len(v) => Contents(code) = v)
  <2> DEFINE empty == <<>>
             w == ElementsOf(form, 135, m.creds)
             r == Element(form, str, empty) \o (Element(form, str, m.text) \o w)
  <2>1. x = Element(form, enum, v) \o r
    BY <1>10, OpBegins DEF form, x, enum, str
  <2>2. r \in Texts /\ v \in Texts
    <3>1. m.creds \in Seq(Texts) /\ m.text \in Texts /\ empty \in Texts /\ 135 \in Tags
      BY <1>1, TagsUsed, EmptySeq DEF SendableMessage, Texts
    <3>2. w \in Texts
      BY <1>1, <3>1, ElementsOfTyped
    <3>3. Element(form, str, empty) \in Texts /\ Element(form, str, m.text) \in Texts
      BY <1>1, <3>1, ElementTyped
    <3>4. v \in Texts
      BY <1>1, PartsOfWireTyped
    <3> HIDE DEF w, empty, v
    <3>5. Element(form, str, m.text) \o w \in Texts
      BY <3>2, <3>3, Joined
    <3> QED
      BY <3>3, <3>4, <3>5, Joined
  <2> HIDE DEF r, v
  <2>3. Fits(form, v)
    <3>1. Fits(form, Element(form, enum, v))
      <4> DEFINE q == Element(form, enum, v)
      <4>1. q \in Texts
        BY <1>1, <2>2, ElementTyped
      <4>2. Fits(form, q \o r)
        BY <1>1, <2>1, Zenon
      <4> HIDE DEF q
      <4>3. Fits(form, q)
        BY <1>1, <2>2, <4>1, <4>2, PartsFit
      <4> QED
        BY <4>3 DEF q
    <3> QED
      BY <1>1, <2>2, <3>1, InsideFits
  <2>4. Reached(code, b, z, y, k, v, r \o rest)
    BY <1>1, <1>9, <2>1, <2>2, <2>3
  <2> HIDE DEF k
  <2> QED
    BY <2>4, Zenon DEF Reached
<1>12. Len(k) = Len(Element(form, 10, <<>>)) /\ Len(v) = 1
  <2>1. m.code \in Octets
    <3>1. m.code \in 0..127
      BY <1>1 DEF SendableMessage
    <3> DEFINE n == m.code
    <3>2. n \in 0..127
      BY <3>1
    <3> HIDE DEF n
    <3>3. n \in Octets
      BY <3>2 DEF Octets
    <3> QED
      BY <3>3 DEF n
  <2>2. Len(k) = Len(Element(form, 10, <<>>))
    BY <1>1, <2>1, CodeHeader DEF enum
  <2>3. Len(v) = 1
    OBVIOUS
  <2> QED
    BY <2>2, <2>3
<1>13. Len(y) = BeforeOp(m)
  <2>1. Same(y, x \o (cs \o more), b, z)
    BY <1>8, Zenon DEF Midway, rest
  <2>2. Len(y) = Len(Wire(m)) - Len(cs) - Len(x)
    <3>1. x \in Texts /\ cs \in Texts /\ Wire(m) \in Texts /\ y \in Texts
      BY <1>2, <1>7
    <3> DEFINE w == Wire(m)
    <3>2. Same(w, more, b, z) /\ w \in Texts
      BY <3>1
    <3> HIDE DEF w
    <3>3. Len(y) = Len(w) - Len(cs) - Len(x)
      BY <2>1, <3>1, <3>2, WhereOpBegins, SMTT(30)
    <3> QED
      BY <3>3 DEF w
  <2> QED
    BY <2>2 DEF BeforeOp, cs, x
<1>14. CodeOrNothing(code, m, b)
  <2> DEFINE n == Len(Element(form, 10, <<>>))
             o == BeforeOp(m)
  <2>1. Len(b) \in Nat /\ Len(y) \in Nat /\ o = Len(y) /\ Len(k) = n /\ Len(v) = 1 /\ n \in Nat
    <3>1. Len(b) \in Nat /\ Len(y) \in Nat
      BY <1>7, LenProperties DEF Texts
    <3>2. n \in Nat
      <4>1. <<>> \in Texts
        BY EmptySeq DEF Texts
      <4>2. Element(form, 10, <<>>) \in Texts
        BY <1>1, <4>1, ElementTyped DEF enum
      <4> QED
        BY <4>2, LenProperties DEF Texts
    <3> HIDE DEF n, o, k, v
    <3> QED
      BY <1>12, <1>13, <3>1, <3>2 DEF n, o
  <2> HIDE DEF n, o, k
  <2>2. Contents(code) = v \/ (Contents(code) = <<>> /\ Len(b) \in o + 2..o + n)
    <3> HIDE DEF v
    <3>1. CASE Len(b) <= Len(y) + Len(k)
      <4>1. Len(b) \in o + 2..o + n
        BY <1>11, <2>1, <3>1
      <4> QED
        BY <1>11, <3>1, <4>1
    <3>2. CASE ~(Len(b) <= Len(y) + Len(k))
      <4>1. Len(b) >= Len(y) + Len(k) + Len(v)
        BY <2>1, <3>2
      <4> QED
        BY <1>11, <4>1
    <3> QED
      BY <3>1, <3>2
  <2> QED
    BY <2>2, Zenon DEF CodeOrNothing, o, n, form
<1> QED
  BY <1>6, <1>10, <1>14, Zenon DEF t

CodeAt(b, tags) == Enter(Enter(AfterMessageID(b), tags), {10})
TextsAt(b, tags) == Optional(Optional(Over(CodeAt(b, tags)), 4), 4)

\* A result is read only where there is one, and it is the one, or nothing.
CodeOrZero(value, m, b) ==
  \/ value = m.code
  \/ value = 0 /\ Len(b) \in BeforeOp(m) + 2..BeforeOp(m) + Len(Element(m.form, 10, <<>>))

LEMMA ResultMeans ==
  ASSUME NEW m \in Answers, NEW b \in Texts, NEW z \in Texts, NEW more \in Texts,
         Same(Wire(m), more, b, z), NEW tags, TextsAt(b, tags).state = "ok"
  PROVE  Tag(m) \in tags /\ HasCode(m) /\ CodeOrZero(Unsigned(Contents(CodeAt(b, tags))), m, b)
<1> DEFINE id == Enter(Enter(Start(b), {48}), {2})
           a == AfterMessageID(b)
           op == Enter(a, tags)
           code == CodeAt(b, tags)
           str == 4
<1>1. /\ id \in Cursors /\ Over(id) \in Cursors /\ Over(id).state = id.state
      /\ id.state = "ok" => \E y \in Texts : Midway(Over(id), b, z, y, InMessageOf(m) \o more)
  BY ToTheOperation
<1>2. a = Over(id)
  BY DEF AfterMessageID, Skip
<1>3. a \in Cursors /\ a.state = id.state
  BY <1>1, <1>2, Zenon
<1> HIDE DEF id, a
<1>4. op \in Cursors /\ (op.state = "ok" => a.state = "ok")
  BY <1>3, CursorEnters
<1> DEFINE only == {10}
<1>5. code = Enter(op, only)
  BY DEF CodeAt, a
<1> HIDE DEF op, code, only
<1>6. code \in Cursors /\ (code.state = "ok" => op.state = "ok")
  BY <1>4, <1>5, CursorEnters
<1>7. Over(code) \in Cursors /\ Over(code).state = code.state
  BY <1>6, CursorOver
<1>8. code.state = "ok"
  <2> DEFINE o == Over(code)
             p == Optional(o, str)
             q == Optional(p, str)
  <2>1. q.state = "ok"
    BY DEF TextsAt, code
  <2>2. o \in Cursors /\ o.state = code.state
    BY <1>7
  <2> HIDE DEF o, str
  <2>3. p \in Cursors /\ (p.state = "ok" => o.state = "ok")
    BY <2>2, CursorPasses
  <2> HIDE DEF p
  <2>4. q.state = "ok" => p.state = "ok"
    BY <2>3, CursorPasses
  <2> HIDE DEF q
  <2> QED
    BY <2>1, <2>2, <2>3, <2>4
<1>9. PICK p \in Texts : Midway(a, b, z, p, InMessageOf(m) \o more)
  BY <1>1, <1>2, <1>3, <1>4, <1>6, <1>8, Zenon
<1>10. Tag(m) \in tags /\ HasCode(m) /\ CodeOrNothing(code, m, b)
  <2>1. op = Enter(a, tags) /\ op.state = "ok"
    BY <1>6, <1>8, Zenon DEF op
  <2>2. code = Enter(op, {10})
    BY <1>5 DEF only
  <2> QED
    BY <1>8, <1>9, <2>1, <2>2, AtCode
<1>11. CodeOrZero(Unsigned(Contents(code)), m, b)
  <2>1. CASE Contents(code) = <<m.code>>
    <3>1. m.code \in Nat
      <4> DEFINE n == m.code
      <4>1. n \in 0..127
        BY InMessage DEF SendableMessage
      <4> HIDE DEF n
      <4>2. n \in Nat
        BY <4>1
      <4> QED
        BY <4>2 DEF n
    <3>2. Unsigned(<<m.code>>) = m.code
      BY <3>1, OneOctet
    <3> QED
      BY <2>1, <3>2, Zenon DEF CodeOrZero
  <2>2. CASE Contents(code) = <<>>
    <3>1. Unsigned(<<>>) = 0
      BY SMT DEF Unsigned, Octet
    <3>2. Contents(code) # <<m.code>>
      <4>1. <<>> # <<m.code>>
        OBVIOUS
      <4> QED
        BY <2>2, <4>1, Zenon
    <3> QED
      BY <1>10, <2>2, <3>1, <3>2, Zenon DEF CodeOrZero, CodeOrNothing
  <2> QED
    BY <1>10, <2>1, <2>2, Zenon DEF CodeOrNothing
<1> QED
  BY <1>10, <1>11 DEF code

LEMMA ParsersOfOne ==
  \A b :
    /\ \A tags : /\ ParseResult(b, tags).state = TextsAt(b, tags).state
                 /\ ParseResult(b, tags).value = Unsigned(Contents(CodeAt(b, tags)))
    /\ ParseBindResponse(b).state = Optional(TextsAt(b, {97}), 128).state
    /\ ParseBindResponse(b).value = Unsigned(Contents(CodeAt(b, {97})))
<1> SUFFICES ASSUME NEW b
             PROVE  /\ \A tags : /\ ParseResult(b, tags).state = TextsAt(b, tags).state
                                 /\ ParseResult(b, tags).value = Unsigned(Contents(CodeAt(b, tags)))
                    /\ ParseBindResponse(b).state = Optional(TextsAt(b, {97}), 128).state
                    /\ ParseBindResponse(b).value = Unsigned(Contents(CodeAt(b, {97})))
  OBVIOUS
<1>1. ASSUME NEW tags
      PROVE  /\ ParseResult(b, tags).state = TextsAt(b, tags).state
             /\ ParseResult(b, tags).value = Unsigned(Contents(CodeAt(b, tags)))
  <2> DEFINE x == TextsAt(b, tags).state
             y == Unsigned(Contents(CodeAt(b, tags)))
  <2>1. ParseResult(b, tags) = Result(x, y)
    BY DEF ParseResult, TextsAt, CodeAt
  <2> HIDE DEF x, y
  <2>2. Result(x, y).state = x /\ Result(x, y).value = y
    BY DEF Result
  <2> QED
    BY <2>1, <2>2, Zenon DEF x, y
<1>2. /\ ParseBindResponse(b).state = Optional(TextsAt(b, {97}), 128).state
      /\ ParseBindResponse(b).value = Unsigned(Contents(CodeAt(b, {97})))
  <2> DEFINE x == Optional(TextsAt(b, {97}), 128).state
             y == ParseResult(b, {97}).value
  <2>1. AfterTexts(b) = TextsAt(b, {97})
    BY DEF AfterTexts, TextsAt, CodeAt, Skip
  <2>2. ParseBindResponse(b) = Result(x, y)
    BY <2>1, Zenon DEF ParseBindResponse
  <2> HIDE DEF x, y
  <2>3. Result(x, y).state = x /\ Result(x, y).value = y
    BY DEF Result
  <2> QED
    BY <1>1, <2>2, <2>3, Zenon DEF x, y
<1> QED
  BY <1>1, <1>2, Zenon

LEMMA TextsAtTyped ==
  ASSUME NEW b \in Texts, NEW tags
  PROVE  TextsAt(b, tags) \in Cursors
<1> DEFINE outer == {48}
           int == {2}
           only == {10}
           str == 4
           c == Start(b)
           d == Enter(c, outer)
           e == Enter(d, int)
           a == Over(e)
           op == Enter(a, tags)
           code == Enter(op, only)
           o == Over(code)
           p == Optional(o, str)
           q == Optional(p, str)
<1>1. TextsAt(b, tags) = q
  BY DEF TextsAt, CodeAt, AfterMessageID, Skip
<1> HIDE DEF outer, int, only, str
<1>2. c \in Cursors
  BY DEF Texts, Start, Cursor, Cursors, States
<1> HIDE DEF c
<1>3. d \in Cursors
  BY <1>2, CursorEnters
<1> HIDE DEF d
<1>4. e \in Cursors
  BY <1>3, CursorEnters
<1> HIDE DEF e
<1>5. a \in Cursors
  BY <1>4, CursorOver
<1> HIDE DEF a
<1>6. op \in Cursors
  BY <1>5, CursorEnters
<1> HIDE DEF op
<1>7. code \in Cursors
  BY <1>6, CursorEnters
<1> HIDE DEF code
<1>8. o \in Cursors
  BY <1>7, CursorOver
<1> HIDE DEF o
<1>9. p \in Cursors
  BY <1>8, CursorPasses
<1> HIDE DEF p
<1>10. q \in Cursors
  BY <1>9, CursorPasses
<1> HIDE DEF q
<1> QED
  BY <1>1, <1>10, Zenon

LEMMA Halves ==
  ASSUME NEW s \in Seq(Octets), NEW n \in 0..Len(s)
  PROVE  s = SubSeq(s, 1, n) \o Drop(s, n)
<1> DEFINE a == SubSeq(s, 1, n)
           b == Drop(s, n)
<1>1. Len(s) \in Nat
  BY LenProperties
<1>2. a \in Seq(Octets) /\ Len(a) = n /\ \A i \in 1..n : a[i] = s[i]
  BY <1>1, SMT
<1>3. b \in Seq(Octets) /\ Len(b) = Len(s) - n /\ \A i \in 1..Len(s) - n : b[i] = s[n + i]
  BY <1>1, SMT DEF Drop
<1> HIDE DEF a, b
<1>4. /\ a \o b \in Seq(Octets) /\ Len(a \o b) = Len(s)
      /\ \A i \in 1..Len(s) : (a \o b)[i] = IF i <= n THEN a[i] ELSE b[i - n]
  BY <1>1, <1>2, <1>3, ConcatProperties
<1>5. ASSUME NEW i \in 1..Len(s) PROVE (a \o b)[i] = s[i]
  <2>1. CASE i <= n
    <3>1. i \in 1..n
      BY <2>1
    <3> QED
      BY <1>2, <1>4, <2>1, <3>1, Zenon
  <2>2. CASE ~(i <= n)
    <3>1. i - n \in 1..Len(s) - n /\ n + (i - n) = i
      BY <1>1, <2>2
    <3>2. b[i - n] = s[n + (i - n)]
      BY <1>3, <3>1, Zenon
    <3>3. (a \o b)[i] = b[i - n]
      BY <1>4, <2>2, Zenon
    <3> QED
      BY <3>1, <3>2, <3>3, Zenon
  <2> QED
    BY <2>1, <2>2
<1>6. a \o b = s
  BY <1>4, <1>5, SeqEqual
<1> QED
  BY <1>6, Zenon DEF a, b

\* The stream is what the client has and what it has not; it begins with the
\* first message.
LEMMA StreamParts ==
  TypeOK /\ sent # <<>> =>
    /\ sent[1] \in Answers /\ buffer \in Texts
    /\ \E more \in Texts : \E z \in Texts : Same(Wire(sent[1]), more, buffer, z)
<1> HAVE TypeOK /\ sent # <<>>
<1> DEFINE n == Len(sent)
           s == OctetsOf(sent, n)
           w == Wire(sent[1])
<1>1. /\ sent \in Seq(Answers) /\ buffer \in Seq(Octets) /\ buffer = UpTo(Stream, Len(buffer))
      /\ n \in Nat /\ n >= 1 /\ Len(buffer) \in Nat
  <2>1. sent \in Seq(Answers) /\ buffer \in Seq(Octets) /\ buffer = UpTo(Stream, Len(buffer))
    BY DEF TypeOK
  <2> QED
    BY <2>1, LenProperties, EmptySeq
<1>2. s = Stream
  <2>1. FirstOf(sent, n) = sent
    BY <1>1, OctetsBegin
  <2> QED
    BY <2>1, Zenon DEF OctetsOf, Stream
<1>3. sent[1] \in Answers /\ w \in Texts /\ OctetsOf(sent, 1) = w
  <2>1. 0 \in Nat /\ 0 < n /\ 0 + 1 = 1
    BY <1>1
  <2>2. sent[1] \in Answers
    BY <1>1, <2>1, FirstOfGrows
  <2>3. w \in Texts /\ OctetsOf(sent, 1) = OctetsOf(sent, 0) \o w
    BY <1>1, <2>1, OctetsGrow
  <2>4. OctetsOf(sent, 0) = <<>>
    BY <1>1, NothingFirst
  <2> HIDE DEF w
  <2>5. <<>> \o w = w
    BY <2>3, ConcatEmptySeq DEF Texts
  <2> QED
    BY <2>2, <2>3, <2>4, <2>5, Zenon
<1>4. s \in Texts
  BY <1>1, OctetsTyped
<1>5. PICK more \in Texts : s = w \o more
  <2>1. 1 \in 0..n
    BY <1>1
  <2>2. \E more \in Texts : s = OctetsOf(sent, 1) \o more
    BY <1>1, <2>1, OctetsBegin
  <2> QED
    BY <1>3, <2>2, Zenon
<1> HIDE DEF s, w
<1> DEFINE b == buffer
           k == Len(b)
           z == Drop(s, k)
<1>6. b \in Texts /\ k <= Len(s)
  <2>1. b = UpTo(s, k)
    BY <1>1, <1>2, Zenon
  <2> HIDE DEF b
  <2>2. k \in Nat
    BY <1>1 DEF b
  <2> QED
    BY <1>4, <2>1, <2>2, BeginningStays
<1>7. s = b \o z /\ z \in Texts
  <2>1. k \in 0..Len(s) /\ Len(s) \in Nat /\ s \in Seq(Octets)
    BY <1>1, <1>4, <1>6, LenProperties DEF Texts
  <2>2. b = SubSeq(s, 1, k)
    <3>1. b = UpTo(s, k)
      BY <1>1, <1>2, Zenon
    <3> HIDE DEF b, k
    <3>2. k < Len(s) \/ k = Len(s)
      BY <2>1
    <3> QED
      BY <3>1, <3>2, Zenon DEF UpTo
  <2> HIDE DEF b, k
  <2>3. s = SubSeq(s, 1, k) \o Drop(s, k)
    BY <2>1, Halves
  <2>4. Drop(s, k) \in Seq(Octets)
    <3>1. k \in Nat
      BY <2>1
    <3> QED
      BY <2>1, <3>1, SliceTyped
  <2> QED
    BY <2>2, <2>3, <2>4, Zenon DEF Texts
<1>8. Same(w, more, b, z)
  BY <1>5, <1>7, Zenon DEF Same
<1> HIDE DEF z
<1> QED
  BY <1>3, <1>5, <1>6, <1>7, <1>8, Zenon DEF w

LEMMA MessageIdMeans ==
  ASSUME NEW m \in Answers, NEW b \in Texts, NEW z \in Texts, NEW more \in Texts,
         Same(Wire(m), more, b, z), ParseMessageId(b).state = "ok"
  PROVE  ParseMessageId(b).value = m.id
<1> DEFINE id == Enter(Enter(Start(b), {48}), {2})
           x == Unsigned(Contents(id))
           y == id.state
           r == ParseMessageId(b)
<1>1. id.state = "ok" /\ ~id.cut => Contents(id) = <<m.id>>
  BY ToTheOperation
<1>2. r = IF Len(b) < 2 THEN Result("None", 0)
          ELSE IF id.cut THEN Result("None", 0) ELSE Result(y, x)
  BY DEF ParseMessageId
<1>3. Result("None", 0).state # "ok"
  BY DEF Result
<1>4. Result(y, x).state = y /\ Result(y, x).value = x
  <2> HIDE DEF x, y
  <2> QED
    BY DEF Result
<1> HIDE DEF id, x, r
<1>5. ~id.cut /\ r = Result(y, x)
  BY <1>2, <1>3, Zenon DEF r
<1>6. id.state = "ok"
  BY <1>4, <1>5, Zenon DEF r
<1>7. x = Unsigned(<<m.id>>)
  BY <1>1, <1>5, <1>6, Zenon DEF x
<1>8. Unsigned(<<m.id>>) = m.id
  <2> DEFINE n == m.id
  <2>1. n \in 0..127
    BY InMessage DEF SendableMessage
  <2> HIDE DEF n
  <2>2. n \in Nat
    BY <2>1
  <2>3. Unsigned(<<n>>) = n
    BY <2>2, OneOctet
  <2> QED
    BY <2>3 DEF n
<1> QED
  BY <1>4, <1>5, <1>7, <1>8, Zenon DEF r

LEMMA CutMeansNoOther ==
  TypeOK => CutAnswerIsNoOther
<1> SUFFICES ASSUME TypeOK, sent # <<>> PROVE CutAnswerIsNoOther
  BY Zenon DEF CutAnswerIsNoOther
<1> DEFINE m == sent[1]
           b == buffer
           all == 96..127
           bind == {97}
<1>1. m \in Answers /\ b \in Texts
      /\ \E more \in Texts : \E z \in Texts : Same(Wire(m), more, b, z)
  BY StreamParts
<1>2. PICK more \in Texts, z \in Texts : Same(Wire(m), more, b, z)
  BY <1>1
<1> HIDE DEF m
<1>3. ASSUME NEW r, NEW tags,
             r.state = "ok" => TextsAt(b, tags).state = "ok",
             r.value = Unsigned(Contents(CodeAt(b, tags)))
      PROVE  /\ CodeReadOrRefused(r, m)
             /\ r.state = "ok" => Tag(m) \in tags /\ HasCode(m)
  <2>1. ASSUME r.state = "ok"
        PROVE  Tag(m) \in tags /\ HasCode(m) /\ CodeOrZero(r.value, m, b)
    <3> DEFINE c == b
    <3>1. TextsAt(c, tags).state = "ok" /\ c \in Texts /\ Same(Wire(m), more, c, z)
      BY <1>1, <1>2, <1>3, <2>1
    <3> HIDE DEF c
    <3>2. Tag(m) \in tags /\ HasCode(m) /\ CodeOrZero(Unsigned(Contents(CodeAt(c, tags))), m, c)
      BY <1>1, <3>1, ResultMeans
    <3> QED
      BY <1>3, <3>2, Zenon DEF c
  <2> QED
    BY <2>1, Zenon DEF CodeReadOrRefused, CodeOrZero, BeforeOp
<1>4. /\ CodeReadOrRefused(ParseLdapResult(b), m)
      /\ ParseLdapResult(b).state = "ok" => HasCode(m)
  <2> DEFINE r == ParseLdapResult(b)
  <2>1. r.state = TextsAt(b, all).state /\ r.value = Unsigned(Contents(CodeAt(b, all)))
    <3>1. r = ParseResult(b, all)
      BY DEF ParseLdapResult
    <3> HIDE DEF r, all
    <3>2. /\ ParseResult(b, all).state = TextsAt(b, all).state
          /\ ParseResult(b, all).value = Unsigned(Contents(CodeAt(b, all)))
      BY ParsersOfOne
    <3> QED
      BY <3>1, <3>2, Zenon
  <2> HIDE DEF r, all
  <2> QED
    BY <1>3, <2>1, Zenon DEF r
<1>5. /\ CodeReadOrRefused(ParseBindResponse(b), m)
      /\ ParseBindResponse(b).state = "ok" => m.kind = "bind"
  <2> DEFINE r == ParseBindResponse(b)
             creds == 128
             texts == TextsAt(b, bind)
  <2>1. r.state = Optional(texts, creds).state /\ r.value = Unsigned(Contents(CodeAt(b, bind)))
    BY ParsersOfOne, Zenon
  <2> HIDE DEF r, creds, bind
  <2>2. texts \in Cursors
    BY <1>1, TextsAtTyped
  <2> HIDE DEF texts
  <2>3. Optional(texts, creds).state = "ok" => texts.state = "ok"
    BY <2>2, CursorPasses
  <2>4. /\ CodeReadOrRefused(r, m)
        /\ r.state = "ok" => Tag(m) \in bind /\ HasCode(m)
    BY <1>3, <2>1, <2>3, Zenon DEF texts
  <2>5. Tag(m) \in bind => m.kind = "bind"
    BY <1>1, InMessage, KindOfOp, ZenonT(40) DEF bind
  <2> QED
    BY <2>4, <2>5, Zenon DEF r
<1>6. ParseMessageId(b).state = "ok" => ParseMessageId(b).value = m.id
  <2> DEFINE c == b
  <2>1. c \in Texts /\ Same(Wire(m), more, c, z)
    BY <1>1, <1>2
  <2> HIDE DEF c
  <2>2. ParseMessageId(c).state = "ok" => ParseMessageId(c).value = m.id
    BY <1>1, <2>1, MessageIdMeans
  <2> QED
    BY <2>2 DEF c
<1> QED
  BY <1>4, <1>5, <1>6, Zenon DEF CutAnswerIsNoOther, m

\* What the parsers of one response (raw.py: parse_message_id, _parse_bind_response,
\* _parse_ldap_result) make of a read that stops anywhere is the code and the
\* messageID of the first message sent, a zero where the code itself has not come,
\* or nothing: never the answer to something else.
THEOREM CutAnswersAreNoOther ==
  Spec => []CutAnswerIsNoOther
<1>1. Spec => []TypeOK
  BY PdusAndStreamTyped
<1>2. TypeOK => CutAnswerIsNoOther
  BY CutMeansNoOther
<1> QED
  BY <1>1, <1>2, PTL

=============================================================================
