-------------------------- MODULE BerStreamProofs ---------------------------
(***************************************************************************)
(* For every stream of messages, in every form of length and cut anywhere: *)
(* the parsers' loops find the messages that have come whole, those and no *)
(* others.                                                                 *)
(***************************************************************************)
EXTENDS BerProofs

-----------------------------------------------------------------------------
\* The server's lengths are read back, whatever their form, as long as they
\* have room for the number.

\* l is a length of n: it is taken for n wherever it stands, and its first
\* octet says how many follow.
Reads(l, n) ==
  /\ l \in Texts /\ l # <<>>
  /\ \A t \in Texts : ParseLength(l \o t) = <<n, Len(l)>>
  /\ Len(l) # 1 => l[1] = 127 + Len(l)

LEMMA LongReads ==
  ASSUME NEW k \in 1..4, NEW u \in Texts, Len(u) = k
  PROVE  Reads(<<128 + k>> \o u, Unsigned(u))
<1> DEFINE a == 128 + k
           l == <<a>> \o u
<1>1. /\ u \in Seq(Octets) /\ Len(u) \in Nat
      /\ a \in Octets /\ a \in Nat /\ ~(a < 128) /\ a - 128 = Len(u)
  <2>1. u \in Seq(Octets) /\ Len(u) \in Nat
    BY DEF Texts
  <2>2. a \in Nat /\ a < 256 /\ ~(a < 128) /\ a - 128 = k
    OBVIOUS
  <2> QED
    BY <2>1, <2>2, OctetIs
<1> HIDE DEF a
<1>2. l # <<>> /\ Len(l) = 1 + Len(u) /\ l \in Texts
  BY <1>1, TagFirst, Octetwise, Joined
<1>3. l[1] = a
  <2>1. <<a>> \in Seq(Octets) /\ Len(<<a>>) = 1 /\ <<a>>[1] = a
    BY <1>1
  <2> QED
    BY <1>1, <2>1, ConcatProperties
<1>4. ASSUME NEW t \in Texts PROVE ParseLength(l \o t) = <<Unsigned(u), Len(l)>>
  <2>1. u \o t \in Seq(Octets) /\ t \in Seq(Octets)
    BY <1>1, ConcatProperties DEF Texts
  <2>2. l \o t = <<a>> \o (u \o t)
    <3>1. <<a>> \in Seq(Octets)
      BY <1>1
    <3> QED
      BY <1>1, <2>1, <3>1, ConcatAssociative
  <2>3. Tail(l \o t) = u \o t /\ (l \o t)[1] = a
    <3>1. Tail(<<a>> \o (u \o t)) = u \o t /\ Head(<<a>> \o (u \o t)) = a
      BY <1>1, <2>1, TagFirst
    <3>2. l \o t \in Seq(Octets) /\ Len(l \o t) >= 1
      BY <1>1, <1>2, <2>1, ConcatProperties, LenProperties DEF Texts
    <3>3. Head(l \o t) = (l \o t)[1]
      BY <3>2
    <3> QED
      BY <2>2, <3>1, <3>3, Zenon
  <2>4. UpTo(Tail(l \o t), a - 128) = u
    BY <1>1, <2>1, <2>3, SliceAtBorder
  <2> HIDE DEF l
  <2>5. ParseLength(l \o t) = <<Unsigned(u), 1 + a - 128>>
    BY <1>1, <2>3, <2>4, Zenon DEF ParseLength
  <2>6. 1 + a - 128 = Len(l)
    BY <1>1, <1>2
  <2> QED
    BY <2>5, <2>6
<1>5. Len(l) # 1 => l[1] = 127 + Len(l)
  BY <1>1, <1>2, <1>3 DEF a
<1> QED
  BY <1>2, <1>4, <1>5 DEF Reads, a

LEMMA ShortReads ==
  ASSUME NEW n \in Nat, n < 128
  PROVE  Reads(<<n>>, n)
<1>1. n \in Octets
  BY OctetIs
<1>2. ASSUME NEW t \in Texts PROVE ParseLength(<<n>> \o t) = <<n, 1>>
  <2>1. t \in Seq(Octets)
    BY DEF Texts
  <2>2. (<<n>> \o t)[1] = n
    <3>1. <<n>> \in Seq(Octets) /\ Len(<<n>>) = 1 /\ <<n>>[1] = n /\ Len(t) \in Nat
      BY <1>1, <2>1, LenProperties
    <3> QED
      BY <2>1, <3>1, ConcatProperties
  <2> QED
    BY <2>2, Zenon DEF ParseLength
<1>3. <<n>> \in Texts /\ <<n>> # <<>> /\ Len(<<n>>) = 1
  BY <1>1, Octetwise
<1> QED
  BY <1>2, <1>3 DEF Reads

LEMMA LastOfFour ==
  ASSUME NEW a \in Octets, NEW b \in Octets, NEW c \in Octets, NEW d \in Octets
  PROVE  LET four == <<a, b, c, d>>
         IN  /\ SubSeq(four, 4, 4) = <<d>> /\ SubSeq(four, 3, 4) = <<c, d>>
             /\ SubSeq(four, 2, 4) = <<b, c, d>> /\ SubSeq(four, 1, 4) = four
<1> DEFINE four == <<a, b, c, d>>
<1>1. /\ four \in Seq(Octets) /\ Len(four) = 4 /\ DOMAIN four = 1..4
      /\ four[1] = a /\ four[2] = b /\ four[3] = c /\ four[4] = d
  OBVIOUS
<1> HIDE DEF four
<1>2. ASSUME NEW m \in 1..4
      PROVE  /\ SubSeq(four, m, 4) \in Seq(Octets) /\ Len(SubSeq(four, m, 4)) = 5 - m
             /\ \A i \in 1..(5 - m) : SubSeq(four, m, 4)[i] = four[m + i - 1]
  <2>1. \A i \in m..4 : four[i] \in Octets
    BY <1>1
  <2>2. /\ SubSeq(four, m, 4) \in Seq(Octets)
        /\ Len(SubSeq(four, m, 4)) = IF m <= 4 THEN (4 - m) + 1 ELSE 0
        /\ \A i \in 1..((4 - m) + 1) : SubSeq(four, m, 4)[i] = four[m + i - 1]
    BY <2>1, SubSeqProperties
  <2> QED
    BY <2>2
<1>3. SubSeq(four, 4, 4) = <<d>>
  <2>1. Len(SubSeq(four, 4, 4)) = 1 /\ SubSeq(four, 4, 4)[1] = d /\ SubSeq(four, 4, 4) \in Seq(Octets)
    BY <1>1, <1>2
  <2> QED
    BY <2>1, ShortSequence
<1>4. SubSeq(four, 3, 4) = <<c, d>>
  <2>1. /\ Len(SubSeq(four, 3, 4)) = 2 /\ SubSeq(four, 3, 4) \in Seq(Octets)
        /\ SubSeq(four, 3, 4)[1] = c /\ SubSeq(four, 3, 4)[2] = d
    BY <1>1, <1>2
  <2> QED
    BY <2>1, ShortSequence
<1>5. SubSeq(four, 2, 4) = <<b, c, d>>
  <2> DEFINE s == SubSeq(four, 2, 4)
  <2>1. Len(s) = 3 /\ s \in Seq(Octets) /\ s[1] = b /\ s[2] = c /\ s[3] = d
    BY <1>1, <1>2
  <2> HIDE DEF s
  <2>2. s = <<b, c, d>>
    BY <2>1
  <2> QED
    BY <2>2 DEF s
<1>6. SubSeq(four, 1, 4) = four
  BY <1>1, SubSeqFull
<1> QED
  BY <1>3, <1>4, <1>5, <1>6 DEF four

LEMMA Pair ==
  ASSUME NEW a \in Octets, NEW b \in Octets
  PROVE  <<a>> \o <<b>> = <<a, b>>
<1> DEFINE s == <<a>> \o <<b>>
<1>1. s \in Seq(Octets)
  OBVIOUS
<1>2. Len(s) = 2
  OBVIOUS
<1>3. s[1] = a /\ s[2] = b
  OBVIOUS
<1> HIDE DEF s
<1>4. s = <<s[1], s[2]>>
  BY <1>1, <1>2, ShortSequence
<1>5. s = <<a, b>>
  BY <1>3, <1>4
<1> QED
  BY <1>5 DEF s

LEMMA ServerLengthReads ==
  ASSUME NEW form \in 0..4, NEW n \in Nat, n < Capacity(form)
  PROVE  Reads(ServerLength(form, n), n)
<1>1. /\ form \in {0, 1} => n < 256
      /\ form = 2 => n < 65536
      /\ form = 3 => n < 16777216
      /\ form = 4 => n < 2147483647
  BY SMT DEF Capacity
<1>2. CASE form = 0 /\ n < 128
  BY <1>2, ShortReads DEF ServerLength
<1>3. CASE form = 0 /\ ~(n < 128)
  <2>1. n \in Octets /\ n % 256 = n
    BY <1>1, <1>3, SMT DEF Octets
  <2>2. ServerLength(form, n) = <<129, n>>
    BY <1>3, <2>1 DEF ServerLength
  <2> DEFINE u == <<n>>
  <2>3. u \in Texts /\ Len(u) = 1 /\ 1 \in 1..4
    BY <2>1, Octetwise
  <2>4. <<129>> \o u = <<129, n>>
    <3>1. 129 \in Octets
      BY SMT DEF Octets
    <3> QED
      BY <2>1, <3>1, Pair
  <2>5. Unsigned(u) = n
    BY OneOctet
  <2> HIDE DEF u
  <2>6. Reads(<<128 + 1>> \o u, Unsigned(u))
    BY <2>3, LongReads, Zenon
  <2>7. 128 + 1 = 129
    OBVIOUS
  <2> QED
    BY <2>2, <2>4, <2>5, <2>6, <2>7, Zenon
<1>4. CASE form # 0
  <2> DEFINE a == (n \div 16777216) % 256
             b == (n \div 65536) % 256
             c == (n \div 256) % 256
             d == n % 256
             u == SubSeq(<<a, b, c, d>>, 5 - form, 4)
  <2>1. a \in Octets /\ b \in Octets /\ c \in Octets /\ d \in Octets
    BY SMT DEF Octets
  <2>2. /\ form = 1 => n = d
        /\ form = 2 => n = (256 * c) + d
        /\ form = 3 => n = (65536 * b) + (256 * c) + d
        /\ form = 4 => n = (16777216 * a) + (65536 * b) + (256 * c) + d
    BY <1>1, SMT
  <2>3. ServerLength(form, n) = <<128 + form>> \o u
    BY <1>4 DEF ServerLength
  <2> HIDE DEF a, b, c, d
  <2>4. a \in Nat /\ b \in Nat /\ c \in Nat /\ d \in Nat
    BY <2>1, OctetIs
  <2>5. u \in Texts /\ Len(u) = form /\ Unsigned(u) = n
    <3>1. CASE form = 1
      <4>1. u = <<d>>
        BY <2>1, <3>1, LastOfFour
      <4>2. <<d>> \in Texts /\ Len(<<d>>) = 1 /\ Unsigned(<<d>>) = n
        BY <2>1, <2>2, <2>4, <3>1, Octetwise, OneOctet
      <4> QED
        BY <3>1, <4>1, <4>2
    <3>2. CASE form = 2
      <4>1. u = <<c, d>>
        BY <2>1, <3>2, LastOfFour
      <4>2. <<c, d>> \in Texts /\ Len(<<c, d>>) = 2 /\ Unsigned(<<c, d>>) = n
        BY <2>1, <2>2, <2>4, <3>2, Octetwise, TwoOctets
      <4> QED
        BY <3>2, <4>1, <4>2
    <3>3. CASE form = 3
      <4>1. u = <<b, c, d>>
        BY <2>1, <3>3, LastOfFour
      <4>2. <<b, c, d>> \in Texts /\ Len(<<b, c, d>>) = 3 /\ Unsigned(<<b, c, d>>) = n
        BY <2>1, <2>2, <2>4, <3>3, Octetwise, ThreeOctets
      <4> QED
        BY <3>3, <4>1, <4>2
    <3>4. CASE form = 4
      <4>1. u = <<a, b, c, d>>
        BY <2>1, <3>4, LastOfFour
      <4>2. <<a, b, c, d>> \in Texts /\ Len(<<a, b, c, d>>) = 4 /\ Unsigned(<<a, b, c, d>>) = n
        BY <2>1, <2>2, <2>4, <3>4, Octetwise, FourOctets
      <4> QED
        BY <3>4, <4>1, <4>2
    <3> QED
      BY <1>4, <3>1, <3>2, <3>3, <3>4
  <2> HIDE DEF u
  <2>6. Reads(<<128 + form>> \o u, Unsigned(u))
    <3>1. form \in 1..4
      BY <1>4
    <3> QED
      BY <2>5, <3>1, LongReads, Zenon
  <2> QED
    BY <2>3, <2>5, <2>6
<1> QED
  BY <1>2, <1>3, <1>4

-----------------------------------------------------------------------------
\* A message as the loops of the parsers see it: whatever follows, they take
\* it off whole, and a part of it with its first two octets is cut.

Framed(w) ==
  /\ w \in Texts /\ Len(w) >= 2 /\ w[1] = 48
  /\ \A rest \in Texts :
       /\ FirstMessage(w \o rest).state = "ok" /\ ~FirstMessage(w \o rest).cut
       /\ AfterFirst(w \o rest) = rest
  /\ \A k \in 2..(Len(w) - 1) :
       FirstMessage(SubSeq(w, 1, k)).state = "ok" /\ FirstMessage(SubSeq(w, 1, k)).cut

LEMMA Assoc ==
  \A a \in Texts, b \in Texts, c \in Texts : a \o (b \o c) = (a \o b) \o c
<1> TAKE a \in Texts, b \in Texts, c \in Texts
<1>1. a \in Seq(Octets) /\ b \in Seq(Octets) /\ c \in Seq(Octets)
  BY DEF Texts
<1> QED
  BY <1>1, SMT

LEMMA AtLeastTwo ==
  ASSUME NEW d \in Texts, Len(d) >= 2, d[1] = 48
  PROVE  d # <<>> /\ Head(d) = 48 /\ Len(d) # 1
<1>1. d \in Seq(Octets) /\ Len(d) \in Nat
  BY LenProperties DEF Texts
<1>2. Len(d) # 0 /\ Len(d) # 1
  <2>1. \A k \in Nat : k >= 2 => k # 0 /\ k # 1
    OBVIOUS
  <2> QED
    BY <1>1, <2>1, Zenon
<1>3. d # <<>>
  BY <1>2, EmptySeq
<1>4. Head(d) = d[1]
  BY <1>1, <1>3
<1> QED
  BY <1>2, <1>3, <1>4

\* Where Enter gets to on a whole message and on what has come of one.
LEMMA Entering ==
  ASSUME NEW d \in Texts, Len(d) >= 2, d[1] = 48, NEW n \in Nat, NEW k \in Nat,
         ParseLength(Tail(d)) = <<n, k>>
  PROVE  /\ FirstMessage(d).state = "ok"
         /\ FirstMessage(d).cut <=> 1 + k + n > Len(d)
         /\ AfterFirst(d) = Drop(Drop(d, 1 + k), n)
<1> DEFINE tags == {48}
           c == Start(d)
           e == Enter(c, tags)
<1>1. d # <<>> /\ Head(d) \in tags /\ Len(d) # 1
  <2>1. d # <<>> /\ Head(d) = 48 /\ Len(d) # 1
    BY AtLeastTwo
  <2> HIDE DEF c, e
  <2> QED
    BY <2>1
<1>2. c.state = "ok" /\ c.left = d
  BY DEF Start, Cursor
<1>3. ParseLength(Tail(d))[1] = n /\ ParseLength(Tail(d))[2] = k
  <2> DEFINE x == ParseLength(Tail(d))
  <2>1. x = <<n, k>>
    OBVIOUS
  <2> HIDE DEF x
  <2>2. x[1] = n /\ x[2] = k
    BY <2>1
  <2> QED
    BY <2>2 DEF x
<1> HIDE DEF c, tags
<1>4. e = [left |-> Drop(d, 1 + k), size |-> n, state |-> "ok", cut |-> BeyondEnd(d, 1 + k + n)]
  <2>1. e = [left |-> Drop(d, 1 + ParseLength(Tail(d))[2]), size |-> ParseLength(Tail(d))[1],
             state |-> "ok",
             cut |-> BeyondEnd(d, 1 + ParseLength(Tail(d))[2] + ParseLength(Tail(d))[1])]
    BY <1>1, <1>2, Zenon DEF Enter
  <2> QED
    BY <1>3, <2>1, Zenon
<1>5. FirstMessage(d) = e /\ AfterFirst(d) = Over(e).left
  BY DEF FirstMessage, AfterFirst, e, c, tags
<1> HIDE DEF e
<1>6. e.state = "ok" /\ e.cut = BeyondEnd(d, 1 + k + n) /\ e.left = Drop(d, 1 + k) /\ e.size = n
  BY <1>4
<1>7. Over(e).left = Drop(e.left, e.size)
  <2>1. Over(e) = [e EXCEPT !.left = Drop(e.left, e.size)]
    BY DEF Over
  <2> QED
    BY <1>4, <2>1
<1>8. e.cut <=> 1 + k + n > Len(d)
  BY <1>6, Zenon DEF BeyondEnd
<1> QED
  BY <1>5, <1>6, <1>7, <1>8

LEMMA FrameTakenWhole ==
  ASSUME NEW n \in Nat, NEW l, Reads(l, n), NEW c \in Texts, Len(c) = n, NEW rest \in Texts
  PROVE  LET d == (<<48>> \o l \o c) \o rest
         IN  FirstMessage(d).state = "ok" /\ ~FirstMessage(d).cut /\ AfterFirst(d) = rest
<1> DEFINE h == <<48>>
           after == c \o rest
           d == (h \o l \o c) \o rest
<1>1. /\ h \in Seq(Octets) /\ Len(h) = 1 /\ l \in Seq(Octets) /\ c \in Seq(Octets)
      /\ rest \in Seq(Octets) /\ l # <<>> /\ Len(l) \in Nat /\ Len(rest) \in Nat /\ 48 \in Octets
      /\ Len(l) >= 1
  <2>1. 48 \in Octets
    BY TagsAreOctets DEF Tags
  <2>2. l \in Seq(Octets) /\ l # <<>>
    BY DEF Reads, Texts
  <2> QED
    BY <2>1, <2>2, LenProperties, EmptySeq DEF Texts
<1>2. after \in Seq(Octets) /\ Len(after) = n + Len(rest)
  BY <1>1, ConcatProperties
<1>3. ParseLength(l \o after) = <<n, Len(l)>>
  BY <1>2 DEF Reads, Texts
<1>4. /\ l \o after \in Seq(Octets) /\ Len(l \o after) = Len(l) + n + Len(rest)
      /\ h \o l \in Seq(Octets) /\ Len(h \o l) = 1 + Len(l)
  <2> HIDE DEF h, after
  <2>1. l \o after \in Seq(Octets) /\ Len(l \o after) = Len(l) + Len(after)
    BY <1>1, <1>2, ConcatProperties, Zenon
  <2>2. h \o l \in Seq(Octets) /\ Len(h \o l) = Len(h) + Len(l)
    BY <1>1, ConcatProperties, Zenon
  <2> QED
    BY <1>1, <1>2, <2>1, <2>2
<1>5. d = h \o (l \o after) /\ d = (h \o l) \o after
  <2> DEFINE x == h \o l
  <2>1. x \in Texts /\ h \in Texts /\ l \in Texts /\ after \in Texts
    BY <1>1, <1>2, <1>4 DEF Texts
  <2>2. d = (x \o c) \o rest
    OBVIOUS
  <2> HIDE DEF h, x, d
  <2>3. x \o (c \o rest) = (x \o c) \o rest
    <3>1. x \in Seq(Octets) /\ c \in Seq(Octets) /\ rest \in Seq(Octets)
      BY <2>1 DEF Texts
    <3> QED
      BY <3>1, SMT
  <2>4. d = x \o after
    BY <2>2, <2>3, Zenon DEF after
  <2> HIDE DEF after
  <2>5. h \o (l \o after) = (h \o l) \o after
    <3>1. h \in Seq(Octets) /\ l \in Seq(Octets) /\ after \in Seq(Octets)
      BY <2>1 DEF Texts
    <3> QED
      BY <3>1, SMT
  <2> QED
    BY <2>4, <2>5, Zenon DEF x
<1>6. /\ Head(d) = 48 /\ Tail(d) = l \o after /\ Len(d) = 1 + Len(l) + n + Len(rest)
      /\ d \in Seq(Octets)
  <2> DEFINE x == l \o after
  <2>1. d = <<48>> \o x /\ x \in Seq(Octets) /\ Len(x) = Len(l) + n + Len(rest)
    BY <1>4, <1>5
  <2> HIDE DEF x, d
  <2>2. Head(<<48>> \o x) = 48 /\ Tail(<<48>> \o x) = x /\ Len(<<48>> \o x) = 1 + Len(x)
    BY <1>1, <2>1, TagFirst
  <2>3. <<48>> \o x \in Seq(Octets)
    BY <1>1, <2>1, ConcatProperties
  <2>4. Head(d) = 48 /\ Tail(d) = x /\ Len(d) = 1 + Len(x) /\ d \in Seq(Octets)
    BY <2>1, <2>2, <2>3, Zenon
  <2>5. Len(d) = 1 + Len(l) + n + Len(rest)
    BY <1>1, <2>1, <2>4
  <2> QED
    BY <2>4, <2>5 DEF x
<1>7. Drop(d, 1 + Len(l)) = after
  <2> HIDE DEF h, after, d
  <2> QED
    BY <1>2, <1>4, <1>5, SliceAtBorder
<1>8. Drop(after, n) = rest
  BY <1>1, SliceAtBorder
<1> HIDE DEF d, after, h
<1>9. d[1] = 48 /\ Len(d) >= 2 /\ ~(1 + Len(l) + n > Len(d))
  BY <1>1, <1>6
<1>10. ParseLength(Tail(d)) = <<n, Len(l)>>
  BY <1>3, <1>6
<1>11. /\ FirstMessage(d).state = "ok"
       /\ FirstMessage(d).cut <=> 1 + Len(l) + n > Len(d)
       /\ AfterFirst(d) = Drop(Drop(d, 1 + Len(l)), n)
  <2>1. d \in Texts /\ Len(l) \in Nat
    BY <1>1, <1>6 DEF Texts
  <2> DEFINE k == Len(l)
  <2>2. k \in Nat /\ ParseLength(Tail(d)) = <<n, k>>
    BY <1>10, <2>1
  <2> HIDE DEF k
  <2>3. /\ FirstMessage(d).state = "ok" /\ (FirstMessage(d).cut <=> 1 + k + n > Len(d))
        /\ AfterFirst(d) = Drop(Drop(d, 1 + k), n)
    BY <1>9, <2>1, <2>2, Entering
  <2> QED
    BY <2>3 DEF k
<1>12. FirstMessage(d).state = "ok" /\ ~FirstMessage(d).cut /\ AfterFirst(d) = rest
  BY <1>7, <1>8, <1>9, <1>11
<1> QED
  BY <1>12 DEF d, h

\* A beginning of two sequences one after the other that reaches into the second.
LEMMA PrefixThrough ==
  ASSUME NEW a \in Texts, NEW b \in Texts, NEW k \in Nat, Len(a) <= k, k <= Len(a) + Len(b)
  PROVE  /\ SubSeq(a \o b, 1, k) = a \o SubSeq(b, 1, k - Len(a))
         /\ SubSeq(b, 1, k - Len(a)) \in Texts
         /\ Len(SubSeq(b, 1, k - Len(a))) = k - Len(a)
<1> DEFINE m == Len(a)
           j == k - m
           s == SubSeq(a \o b, 1, k)
           q == SubSeq(b, 1, j)
           t == a \o q
<1>1. /\ a \in Seq(Octets) /\ b \in Seq(Octets) /\ m \in Nat /\ Len(b) \in Nat
      /\ j \in Nat /\ j <= Len(b) /\ k = m + j
  BY LenProperties DEF Texts
<1> HIDE DEF m, j
<1>2. /\ a \o b \in Seq(Octets) /\ Len(a \o b) = m + Len(b)
      /\ \A i \in 1..m + Len(b) : (a \o b)[i] = IF i <= m THEN a[i] ELSE b[i - m]
  BY <1>1, ConcatProperties DEF m
<1>3. q \in Seq(Octets) /\ Len(q) = j /\ \A i \in 1..j : q[i] = b[i]
  <2>1. \A i \in 1..j : b[i] \in Octets
    BY <1>1, ElementOfSeq
  <2>2. /\ q \in Seq(Octets) /\ Len(q) = IF 1 <= j THEN (j - 1) + 1 ELSE 0
        /\ \A i \in 1..((j - 1) + 1) : q[i] = b[(1 + i) - 1]
    BY <1>1, <2>1, SubSeqProperties
  <2> HIDE DEF q
  <2>3. Len(q) = j /\ \A i \in 1..j : i \in 1..((j - 1) + 1) /\ (1 + i) - 1 = i
    BY <1>1, <2>2
  <2> QED
    BY <2>2, <2>3
<1>4. s \in Seq(Octets) /\ Len(s) = k /\ \A i \in 1..k : s[i] = (a \o b)[i]
  <2> DEFINE w == a \o b
  <2>1. w \in Seq(Octets) /\ Len(w) = m + Len(b)
    BY <1>2
  <2>2. s = SubSeq(w, 1, k)
    OBVIOUS
  <2> HIDE DEF w, s
  <2>3. \A i \in 1..k : w[i] \in Octets
    BY <1>1, <2>1, ElementOfSeq
  <2>4. /\ s \in Seq(Octets) /\ Len(s) = IF 1 <= k THEN (k - 1) + 1 ELSE 0
        /\ \A i \in 1..((k - 1) + 1) : s[i] = w[(1 + i) - 1]
    BY <2>2, <2>3, SubSeqProperties
  <2>5. Len(s) = k /\ \A i \in 1..k : i \in 1..((k - 1) + 1) /\ (1 + i) - 1 = i
    BY <2>4
  <2> QED
    BY <2>4, <2>5 DEF w
<1> HIDE DEF q
<1>5. /\ t \in Seq(Octets) /\ Len(t) = k
      /\ \A i \in 1..k : t[i] = IF i <= m THEN a[i] ELSE q[i - m]
  <2>1. /\ t \in Seq(Octets) /\ Len(t) = Len(a) + Len(q)
        /\ \A i \in 1..Len(a) + Len(q) : t[i] = IF i <= Len(a) THEN a[i] ELSE q[i - Len(a)]
    BY <1>1, <1>3, ConcatProperties
  <2>2. Len(a) + Len(q) = k /\ Len(a) = m
    BY <1>1, <1>3 DEF m
  <2> HIDE DEF t
  <2> QED
    BY <2>1, <2>2
<1> HIDE DEF s, t
<1>6. ASSUME NEW i \in 1..k PROVE s[i] = t[i]
  <2>1. i \in 1..m + Len(b)
    BY <1>1
  <2>2. s[i] = IF i <= m THEN a[i] ELSE b[i - m]
    BY <1>2, <1>4, <2>1
  <2>3. t[i] = IF i <= m THEN a[i] ELSE q[i - m]
    BY <1>5
  <2>4. ~(i <= m) => q[i - m] = b[i - m]
    <3>1. ~(i <= m) => i - m \in 1..j
      BY <1>1
    <3> QED
      BY <1>3, <3>1
  <2> QED
    BY <2>2, <2>3, <2>4
<1>7. s = t
  BY <1>4, <1>5, <1>6, SeqEqual
<1> QED
  BY <1>3, <1>7 DEF s, t, q, j, m, Texts

LEMMA FrameCut ==
  ASSUME NEW n \in Nat, NEW l, Reads(l, n), NEW c \in Texts, Len(c) = n,
         NEW k \in Nat, 2 <= k, k < 1 + Len(l) + n
  PROVE  LET p == SubSeq(<<48>> \o l \o c, 1, k)
         IN  FirstMessage(p).state = "ok" /\ FirstMessage(p).cut
<1> DEFINE h == <<48>>
           w == h \o l \o c
           p == SubSeq(w, 1, k)
<1>1. /\ h \in Texts /\ Len(h) = 1 /\ l \in Texts /\ l # <<>> /\ Len(l) \in Nat /\ Len(l) >= 1
      /\ 48 \in Octets /\ h \in Seq(Octets) /\ l \in Seq(Octets) /\ c \in Seq(Octets)
  <2>1. 48 \in Octets
    BY TagsAreOctets DEF Tags
  <2>2. l \in Texts /\ l # <<>>
    BY DEF Reads
  <2> QED
    BY <2>1, <2>2, LenProperties, EmptySeq DEF Texts
<1>2. /\ h \o l \in Texts /\ Len(h \o l) = 1 + Len(l) /\ l \o c \in Texts
      /\ Len(l \o c) = Len(l) + n /\ (l \o c)[1] = l[1]
  <2> HIDE DEF h
  <2>1. h \o l \in Seq(Octets) /\ Len(h \o l) = Len(h) + Len(l)
    BY <1>1, ConcatProperties, Zenon
  <2>2. /\ l \o c \in Seq(Octets) /\ Len(l \o c) = Len(l) + Len(c)
        /\ \A i \in 1..Len(l) + Len(c) : (l \o c)[i] = IF i <= Len(l) THEN l[i] ELSE c[i - Len(l)]
    BY <1>1, ConcatProperties, Zenon
  <2>3. 1 \in 1..Len(l) + Len(c) /\ 1 <= Len(l)
    BY <1>1
  <2>4. (l \o c)[1] = l[1]
    BY <2>2, <2>3, Zenon
  <2> QED
    BY <1>1, <2>1, <2>2, <2>4 DEF Texts
<1>3. w = h \o (l \o c) /\ w \in Texts /\ Len(w) = 1 + Len(l) + n
  <2> HIDE DEF h
  <2>1. h \o (l \o c) = (h \o l) \o c
    BY <1>1, Assoc, Zenon
  <2>2. (h \o l) \o c \in Texts /\ Len((h \o l) \o c) = Len(h \o l) + Len(c)
    <3> DEFINE x == h \o l
    <3>1. x \in Seq(Octets)
      BY <1>2 DEF Texts
    <3> HIDE DEF x
    <3>2. x \o c \in Seq(Octets) /\ Len(x \o c) = Len(x) + Len(c)
      BY <1>1, <3>1, ConcatProperties
    <3> QED
      BY <3>2 DEF x, Texts
  <2>3. Len((h \o l) \o c) = 1 + Len(l) + n
    BY <1>1, <1>2, <2>2
  <2> QED
    BY <2>1, <2>2, <2>3, Zenon
<1>4. w[1] = 48 /\ w[2] = l[1]
  <2> DEFINE x == l \o c
  <2>1. x \in Seq(Octets) /\ w = <<48>> \o x /\ Len(x) = Len(l) + n /\ x[1] = l[1]
    BY <1>2, <1>3 DEF Texts
  <2> HIDE DEF x, w
  <2>2. (<<48>> \o x)[1] = 48 /\ (<<48>> \o x)[2] = x[1]
    BY <1>1, <2>1
  <2> QED
    BY <2>1, <2>2
<1> HIDE DEF w
<1>5. p \in Texts /\ Len(p) = k /\ p[1] = 48 /\ p[2] = l[1]
  <2>1. w \in Seq(Octets) /\ Len(w) > k
    BY <1>1, <1>3 DEF Texts
  <2>2. \A i \in 1..k : w[i] \in Octets
    BY <2>1, ElementOfSeq
  <2>3. /\ p \in Seq(Octets) /\ Len(p) = k
        /\ \A i \in 1..((k - 1) + 1) : p[i] = w[(1 + i) - 1]
    BY <2>2, SubSeqProperties
  <2> HIDE DEF p
  <2>4. p[1] = w[1] /\ p[2] = w[2]
    BY <2>3
  <2> QED
    BY <1>4, <2>3, <2>4 DEF Texts
<1>6. CASE k - 1 >= Len(l)
  <2> DEFINE x == h \o l
             q == SubSeq(c, 1, k - Len(x))
  <2>1. x \in Texts /\ Len(x) = 1 + Len(l) /\ w = x \o c
    BY <1>2 DEF w
  <2>2. Len(x) <= k /\ k <= Len(x) + Len(c)
    BY <1>1, <1>6, <2>1
  <2> HIDE DEF x
  <2>3. p = x \o q /\ q \in Texts
    BY <2>1, <2>2, PrefixThrough
  <2> HIDE DEF q, p
  <2>4. x \o q = h \o (l \o q)
    <3>1. h \o (l \o q) = (h \o l) \o q
      <4>1. h \in Seq(Octets) /\ l \in Seq(Octets) /\ q \in Seq(Octets)
        BY <1>1, <2>3 DEF Texts
      <4> HIDE DEF h
      <4> QED
        BY <4>1, SMTT(30)
    <3> QED
      BY <3>1 DEF x
  <2>5. Tail(p) = l \o q
    <3> DEFINE y == l \o q
    <3>1. p = <<48>> \o y /\ y \in Seq(Octets)
      BY <1>1, <2>3, <2>4, Joined DEF Texts
    <3> HIDE DEF y
    <3>2. Tail(<<48>> \o y) = y
      BY <1>1, <3>1, TagFirst
    <3> QED
      BY <3>1, <3>2, Zenon DEF y
  <2>6. ParseLength(Tail(p)) = <<n, Len(l)>>
    BY <2>3, <2>5 DEF Reads
  <2> DEFINE m == Len(l)
  <2>7. m \in Nat /\ ParseLength(Tail(p)) = <<n, m>> /\ Len(p) >= 2
    BY <1>1, <1>5, <2>6
  <2>8. 1 + m + n > Len(p)
    BY <1>1, <1>5
  <2> HIDE DEF m
  <2>9. FirstMessage(p).state = "ok" /\ (FirstMessage(p).cut <=> 1 + m + n > Len(p))
    BY <1>5, <2>7, Entering
  <2>10. FirstMessage(p).state = "ok" /\ FirstMessage(p).cut
    BY <2>8, <2>9
  <2> QED
    BY <2>10 DEF p, w
<1>7. CASE ~(k - 1 >= Len(l))
  <2>1. Len(l) # 1 /\ l[1] = 127 + Len(l) /\ k <= Len(l)
    <3>1. Len(l) # 1 /\ k <= Len(l)
      <4> DEFINE m == Len(l)
      <4>1. m \in Nat /\ ~(k - 1 >= m) /\ 2 <= k
        BY <1>1, <1>7
      <4> HIDE DEF m
      <4>2. m # 1 /\ k <= m
        BY <4>1
      <4> QED
        BY <4>2 DEF m
    <3> QED
      BY <3>1, Zenon DEF Reads
  <2> HIDE DEF p
  <2> DEFINE s == Tail(p)
             u == ParseLength(s)[1]
             m == Len(l)
  <2>2. s \in Seq(Octets) /\ s # <<>> /\ s[1] = l[1]
    <3>1. p \in Seq(Octets) /\ p # <<>> /\ Len(p) = k
      BY <1>5, EmptySeq DEF Texts
    <3>2. /\ Tail(p) \in Seq(Octets) /\ Len(Tail(p)) = k - 1
          /\ \A i \in 1..Len(Tail(p)) : Tail(p)[i] = p[i + 1]
      BY <3>1, HeadTailProperties
    <3> HIDE DEF s
    <3>3. s \in Seq(Octets) /\ Len(s) = k - 1 /\ s[1] = p[2]
      BY <3>2 DEF s
    <3>4. s # <<>>
      BY <3>3, EmptySeq
    <3> QED
      BY <1>5, <3>3, <3>4
  <2>3. ParseLength(s) = <<u, m>> /\ u \in Nat
    <3>1. ~(s[1] < 128) /\ 1 + s[1] - 128 = m
      <4> HIDE DEF s
      <4> DEFINE a == s[1]
      <4>1. a = 127 + m /\ m \in Nat /\ m >= 1 /\ m # 1
        BY <1>1, <2>1, <2>2
      <4> HIDE DEF a, m
      <4>2. ~(a < 128) /\ 1 + a - 128 = m
        BY <4>1
      <4> QED
        BY <4>2 DEF a
    <3>2. ParseLength(s) = <<Unsigned(UpTo(Tail(s), s[1] - 128)), 1 + s[1] - 128>>
      <4> HIDE DEF s
      <4>1. ~(s[1] < 128)
        BY <3>1
      <4> QED
        BY <4>1, Zenon DEF ParseLength
    <3>3. u \in Nat
      BY <2>2, ParseLengthTyped
    <3>4. ParseLength(s) = <<Unsigned(UpTo(Tail(s), s[1] - 128)), m>>
      BY <3>1, <3>2, Zenon
    <3> HIDE DEF s, m
    <3> DEFINE v == Unsigned(UpTo(Tail(s), s[1] - 128))
    <3>5. ParseLength(s) = <<v, m>>
      BY <3>4
    <3> HIDE DEF v
    <3>6. ParseLength(s)[1] = v
      BY <3>5
    <3> QED
      BY <3>3, <3>5, <3>6
  <2>4. m \in Nat /\ 1 + m + u > Len(p) /\ Len(p) >= 2
    <3> HIDE DEF u
    <3> QED
      BY <1>1, <1>5, <2>1, <2>3
  <2>5. ParseLength(Tail(p)) = <<u, m>>
    BY <2>3
  <2> HIDE DEF u, m, s
  <2>6. FirstMessage(p).state = "ok" /\ (FirstMessage(p).cut <=> 1 + m + u > Len(p))
    BY <1>5, <2>3, <2>4, <2>5, Entering
  <2>7. FirstMessage(p).state = "ok" /\ FirstMessage(p).cut
    BY <2>4, <2>6
  <2> QED
    BY <2>7 DEF p, w
<1> QED
  BY <1>6, <1>7

\* Each message a server sends is framed.
LEMMA WireFramed ==
  ASSUME NEW m \in Answers
  PROVE  Framed(Wire(m))
<1> DEFINE c == WireContents(m)
           n == Len(c)
           l == ServerLength(m.form, n)
           w == <<48>> \o l \o c
<1>1. SendableMessage(m) /\ n < Capacity(m.form) /\ m.form \in 0..4
  BY AnswersAssumption DEF SendableMessage
<1>2. c \in Texts /\ Wire(m) = Element(m.form, 48, c)
  BY <1>1, WireTyped
<1> HIDE DEF c
<1>3. n \in Nat
  BY <1>2, LenProperties DEF Texts
<1>4. Wire(m) = w
  BY <1>2 DEF Element
<1>5. Reads(l, n)
  BY <1>1, <1>3, ServerLengthReads
<1> HIDE DEF l
<1>6. l \in Texts /\ l # <<>> /\ Len(l) \in Nat /\ Len(l) >= 1
  BY <1>5, LenProperties, EmptySeq DEF Reads, Texts
<1>7. w \in Texts /\ Len(w) = 1 + Len(l) + n /\ w[1] = 48
  <2> DEFINE x == l \o c
             h == <<48>>
  <2>1. h \in Texts /\ Len(h) = 1 /\ h[1] = 48
    BY TagsAreOctets, Octetwise DEF Tags
  <2> HIDE DEF h
  <2>2. x \in Seq(Octets) /\ Len(x) = Len(l) + n
    <3>1. l \in Seq(Octets) /\ c \in Seq(Octets)
      BY <1>2, <1>6 DEF Texts
    <3> QED
      BY <3>1, ConcatProperties
  <2> HIDE DEF x
  <2>3. /\ h \o x \in Seq(Octets) /\ Len(h \o x) = Len(h) + Len(x)
        /\ \A i \in 1..Len(h) + Len(x) : (h \o x)[i] = IF i <= Len(h) THEN h[i] ELSE x[i - Len(h)]
    <3>1. h \in Seq(Octets)
      BY <2>1 DEF Texts
    <3>2. x \in Seq(Octets)
      BY <2>2
    <3> QED
      BY <3>1, <3>2, ConcatProperties, Zenon
  <2>4. 1 \in 1..Len(h) + Len(x) /\ 1 <= Len(h)
    BY <1>3, <1>6, <2>1, <2>2
  <2>5. (h \o x)[1] = h[1]
    BY <2>3, <2>4, Zenon
  <2>6. h \o x = (h \o l) \o c
    BY <1>2, <1>6, <2>1, Assoc DEF x
  <2>7. w = h \o x
    BY <2>6 DEF h
  <2>8. Len(h \o x) = 1 + Len(l) + n
    BY <1>3, <1>6, <2>1, <2>2, <2>3
  <2> QED
    BY <2>1, <2>3, <2>5, <2>7, <2>8, Zenon DEF Texts
<1>8. Len(w) >= 2
  BY <1>3, <1>6, <1>7
<1>9. ASSUME NEW rest \in Texts
      PROVE  /\ FirstMessage(w \o rest).state = "ok" /\ ~FirstMessage(w \o rest).cut
             /\ AfterFirst(w \o rest) = rest
  BY <1>2, <1>3, <1>5, FrameTakenWhole
<1>10. ASSUME NEW k \in 2..(Len(w) - 1)
       PROVE  FirstMessage(SubSeq(w, 1, k)).state = "ok" /\ FirstMessage(SubSeq(w, 1, k)).cut
  <2>1. k \in Nat /\ 2 <= k /\ k < 1 + Len(l) + n
    <3> HIDE DEF w
    <3> QED
      BY <1>3, <1>6, <1>7, <1>10
  <2> QED
    BY <1>2, <1>3, <1>5, <2>1, FrameCut
<1> HIDE DEF w
<1>11. Framed(w)
  BY <1>7, <1>8, <1>9, <1>10 DEF Framed
<1> QED
  BY <1>4, <1>11

\* A word of the stream is the first message of what begins with it.
LEMMA FramedFirst ==
  ASSUME NEW w, Framed(w), NEW d \in Texts
  PROVE  /\ SplitMessages[w \o d] =
              Result(SplitMessages[d].state, <<w>> \o SplitMessages[d].value)
         /\ LastCompleteMessage[w \o d] =
              IF LastCompleteMessage[d] # <<>> THEN LastCompleteMessage[d] ELSE w
<1> DEFINE x == w \o d
<1>1. /\ w \in Texts /\ Len(w) >= 2 /\ w[1] = 48 /\ w \in Seq(Octets) /\ d \in Seq(Octets)
      /\ Len(w) \in Nat /\ Len(d) \in Nat
  BY LenProperties DEF Framed, Texts
<1>2. FirstMessage(x).state = "ok" /\ ~FirstMessage(x).cut /\ AfterFirst(x) = d
  BY DEF Framed
<1>3. /\ x \in Seq(Octets) /\ Len(x) = Len(w) + Len(d)
      /\ \A i \in 1..Len(w) + Len(d) : x[i] = IF i <= Len(w) THEN w[i] ELSE d[i - Len(w)]
  BY <1>1, ConcatProperties
<1>4. x[1] = 48
  <2>1. 1 \in 1..Len(w) + Len(d) /\ 1 <= Len(w)
    BY <1>1
  <2> QED
    BY <1>1, <1>3, <2>1, Zenon
<1>5. Len(x) >= 2
  BY <1>1, <1>3
<1>6. First(x) = w
  <2>1. First(x) = SubSeq(x, 1, Len(w))
    <3>1. Len(x) - Len(d) = Len(w)
      BY <1>1, <1>3
    <3> QED
      BY <1>2, <3>1, Zenon DEF First
  <2>2. SubSeq(w \o d, 1, Len(w)) = w
    <3> DEFINE k == Len(w)
    <3>1. k \in Nat /\ Len(w) <= k /\ k <= Len(w) + Len(d) /\ k - Len(w) = 0
      BY <1>1
    <3>2. SubSeq(w \o d, 1, k) = w \o SubSeq(d, 1, k - Len(w))
      <4> HIDE DEF k
      <4> QED
        BY <1>1, <3>1, PrefixThrough
    <3>3. SubSeq(d, 1, 0) = <<>>
      BY <1>1, SubSeqEmpty
    <3>4. w \o <<>> = w
      BY <1>1, ConcatEmptySeq
    <3> QED
      BY <3>1, <3>2, <3>3, <3>4, Zenon
  <2> QED
    BY <2>1, <2>2
<1> HIDE DEF x
<1>7. x # <<>> /\ Head(x) = 48 /\ x \in Texts /\ ~(Len(x) < 2)
  <2>1. x \in Texts
    BY <1>3 DEF Texts
  <2>2. ~(Len(x) < 2)
    BY <1>1, <1>3
  <2> QED
    BY <1>4, <1>5, <2>1, <2>2, AtLeastTwo
<1>8. SplitMessages[x] = Result(SplitMessages[d].state, <<w>> \o SplitMessages[d].value)
  <2>1. SplitMessages[x] = SplitBody(SplitMessages, x)
    BY <1>3, SplitUnfolds
  <2>2. SplitBody(SplitMessages, x)
          = Result(SplitMessages[AfterFirst(x)].state, <<First(x)>> \o SplitMessages[AfterFirst(x)].value)
    BY <1>2, <1>7, Zenon DEF SplitBody
  <2> QED
    BY <1>2, <1>6, <2>1, <2>2, Zenon
<1>9. LastCompleteMessage[x]
        = IF LastCompleteMessage[d] # <<>> THEN LastCompleteMessage[d] ELSE w
  <2>1. LastCompleteMessage[x] = LastBody(LastCompleteMessage, x)
    BY <1>3, LastUnfolds
  <2>2. LastBody(LastCompleteMessage, x)
          = IF LastCompleteMessage[AfterFirst(x)] # <<>> THEN LastCompleteMessage[AfterFirst(x)]
            ELSE First(x)
    BY <1>2, <1>7, Zenon DEF LastBody
  <2> QED
    BY <1>2, <1>6, <2>1, <2>2, Zenon
<1> QED
  BY <1>8, <1>9 DEF x

\* The first k messages of s, and their octets.
FirstOf(s, k) == SubSeq(s, 1, k)
OctetsOf(s, k) == Concat(Each(Wire, FirstOf(s, k)))

LEMMA FirstOfGrows ==
  ASSUME NEW s \in Seq(Answers), NEW k \in Nat, k < Len(s)
  PROVE  /\ FirstOf(s, k) \in Seq(Answers) /\ Len(FirstOf(s, k)) = k
         /\ s[k + 1] \in Answers
         /\ FirstOf(s, k + 1) = Append(FirstOf(s, k), s[k + 1])
<1> DEFINE f == FirstOf(s, k)
           g == FirstOf(s, k + 1)
           a == Append(f, s[k + 1])
<1>1. Len(s) \in Nat /\ \A i \in 1..Len(s) : s[i] \in Answers
  BY LenProperties, ElementOfSeq
<1>2. f \in Seq(Answers) /\ Len(f) = k /\ \A i \in 1..k : f[i] = s[i]
  <2>1. \A i \in 1..k : s[i] \in Answers
    BY <1>1
  <2>2. /\ f \in Seq(Answers) /\ Len(f) = IF 1 <= k THEN (k - 1) + 1 ELSE 0
        /\ \A i \in 1..((k - 1) + 1) : f[i] = s[(1 + i) - 1]
    BY <2>1, SubSeqProperties DEF FirstOf
  <2> HIDE DEF f
  <2>3. Len(f) = k /\ \A i \in 1..k : i \in 1..((k - 1) + 1) /\ (1 + i) - 1 = i
    BY <2>2
  <2> QED
    BY <2>2, <2>3
<1>3. g \in Seq(Answers) /\ Len(g) = k + 1 /\ \A i \in 1..(k + 1) : g[i] = s[i]
  <2>1. \A i \in 1..(k + 1) : s[i] \in Answers
    BY <1>1
  <2>2. /\ g \in Seq(Answers) /\ Len(g) = IF 1 <= k + 1 THEN ((k + 1) - 1) + 1 ELSE 0
        /\ \A i \in 1..(((k + 1) - 1) + 1) : g[i] = s[(1 + i) - 1]
    BY <2>1, SubSeqProperties DEF FirstOf
  <2> HIDE DEF g
  <2>3. Len(g) = k + 1 /\ \A i \in 1..(k + 1) : i \in 1..(((k + 1) - 1) + 1) /\ (1 + i) - 1 = i
    BY <2>2
  <2> QED
    BY <2>2, <2>3
<1> HIDE DEF f, g
<1>4. s[k + 1] \in Answers
  BY <1>1
<1>5. /\ a \in Seq(Answers) /\ Len(a) = k + 1 /\ a[k + 1] = s[k + 1]
      /\ \A i \in 1..k : a[i] = f[i]
  BY <1>2, <1>4, AppendProperties
<1> HIDE DEF a
<1>6. \A i \in 1..(k + 1) : i \in 1..k \/ i = k + 1
  OBVIOUS
<1>7. \A i \in 1..(k + 1) : g[i] = a[i]
  BY <1>2, <1>3, <1>5, <1>6
<1>8. g = a
  BY <1>3, <1>5, <1>7, SeqEqual
<1> QED
  BY <1>2, <1>4, <1>8 DEF f, g, a

\* The octets of one message more.
LEMMA OctetsGrow ==
  ASSUME NEW s \in Seq(Answers), NEW k \in Nat, k < Len(s)
  PROVE  /\ OctetsOf(s, k) \in Texts
         /\ Each(Wire, FirstOf(s, k)) \in Seq(Texts)
         /\ Wire(s[k + 1]) \in Texts
         /\ OctetsOf(s, k + 1) = OctetsOf(s, k) \o Wire(s[k + 1])
         /\ Each(Wire, FirstOf(s, k + 1)) = Append(Each(Wire, FirstOf(s, k)), Wire(s[k + 1]))
<1> DEFINE f == FirstOf(s, k)
           m == s[k + 1]
<1>1. f \in Seq(Answers) /\ m \in Answers /\ FirstOf(s, k + 1) = Append(f, m)
  BY FirstOfGrows
<1>2. Wire(m) \in Texts
  BY <1>1, WireFramed DEF Framed
<1> HIDE DEF f, m
<1>3. /\ Each(Wire, f) \in Seq(Texts) /\ Concat(Each(Wire, f)) \in Texts
      /\ Each(Wire, Append(f, m)) = Append(Each(Wire, f), Wire(m))
      /\ Concat(Each(Wire, Append(f, m))) = Concat(Each(Wire, f)) \o Wire(m)
  BY <1>1, StreamTyped
<1> QED
  BY <1>1, <1>2, <1>3, Zenon DEF f, m, OctetsOf

LEMMA NothingFirst ==
  ASSUME NEW s \in Seq(Answers)
  PROVE  FirstOf(s, 0) = <<>> /\ Each(Wire, <<>>) = <<>> /\ Concat(<<>>) = <<>>
         /\ OctetsOf(s, 0) = <<>>
<1>1. FirstOf(s, 0) = <<>>
  BY SubSeqEmpty DEF FirstOf
<1>2. Each(Wire, <<>>) = <<>>
  BY DEF Each
<1>3. Concat(<<>>) = <<>>
  BY DEF Concat, FlattenSeq
<1> QED
  BY <1>1, <1>2, <1>3, Zenon DEF OctetsOf

LEMMA OctetsTyped ==
  ASSUME NEW s \in Seq(Answers), NEW k \in 0..Len(s)
  PROVE  /\ OctetsOf(s, k) \in Texts
         /\ Each(Wire, FirstOf(s, k)) \in Seq(Texts)
<1>1. Len(s) \in Nat /\ k \in Nat
  BY LenProperties
<1>2. CASE k = 0
  BY <1>2, NothingFirst, EmptySeq, Zenon DEF Texts
<1>3. CASE k # 0
  <2> DEFINE j == k - 1
  <2>1. j \in Nat /\ j < Len(s) /\ j + 1 = k
    BY <1>1, <1>3
  <2> HIDE DEF j
  <2>2. /\ OctetsOf(s, j) \in Texts /\ Each(Wire, FirstOf(s, j)) \in Seq(Texts)
        /\ Wire(s[j + 1]) \in Texts
        /\ OctetsOf(s, j + 1) = OctetsOf(s, j) \o Wire(s[j + 1])
        /\ Each(Wire, FirstOf(s, j + 1)) = Append(Each(Wire, FirstOf(s, j)), Wire(s[j + 1]))
    BY <2>1, OctetsGrow
  <2>3. OctetsOf(s, j + 1) \in Texts
    BY <2>2, Joined, Zenon
  <2>4. Each(Wire, FirstOf(s, j + 1)) \in Seq(Texts)
    <3> DEFINE v == Each(Wire, FirstOf(s, j))
               w == Wire(s[j + 1])
    <3>1. v \in Seq(Texts) /\ w \in Texts
      BY <2>2
    <3> HIDE DEF v, w
    <3>2. Append(v, w) \in Seq(Texts)
      BY <3>1, AppendProperties
    <3> QED
      BY <2>2, <3>2, Zenon DEF v, w
  <2> QED
    BY <2>1, <2>3, <2>4, Zenon
<1> QED
  BY <1>2, <1>3

\* What the two parsers make of the first k messages and what follows them.
LEMMA ReadsThrough ==
  ASSUME NEW s \in Seq(Answers), NEW k \in 0..Len(s), NEW d \in Texts
  PROVE  /\ SplitMessages[OctetsOf(s, k) \o d] =
              Result(SplitMessages[d].state,
                     Each(Wire, FirstOf(s, k)) \o SplitMessages[d].value)
         /\ LastCompleteMessage[OctetsOf(s, k) \o d] =
              IF LastCompleteMessage[d] # <<>> THEN LastCompleteMessage[d]
              ELSE IF k = 0 THEN <<>> ELSE Wire(s[k])
<1> DEFINE Splitting(i, x) ==
             SplitMessages[OctetsOf(s, i) \o x] =
               Result(SplitMessages[x].state,
                      Each(Wire, FirstOf(s, i)) \o SplitMessages[x].value)
           Finding(i, x) ==
             LastCompleteMessage[OctetsOf(s, i) \o x] =
               IF LastCompleteMessage[x] # <<>> THEN LastCompleteMessage[x]
               ELSE IF i = 0 THEN <<>> ELSE Wire(s[i])
           T == {i \in Nat : i <= Len(s) => \A x \in Texts : Splitting(i, x) /\ Finding(i, x)}
<1>0. Len(s) \in Nat
  BY LenProperties
<1>1. ASSUME NEW x \in Texts
      PROVE  x \in Seq(Octets) /\ SplitMessages[x] \in Splits
             /\ SplitMessages[x].value \in Seq(Texts)
             /\ Result(SplitMessages[x].state, SplitMessages[x].value) = SplitMessages[x]
  <2>1. x \in Seq(Octets)
    BY DEF Texts
  <2>2. SplitMessages[x] \in Splits
    BY <2>1, SplitUnfolds
  <2>3. /\ SplitMessages[x].value \in Seq(Texts)
        /\ Result(SplitMessages[x].state, SplitMessages[x].value) = SplitMessages[x]
    BY <2>2 DEF Splits, Result, Texts
  <2> QED
    BY <2>1, <2>2, <2>3
<1>2. ASSUME NEW x \in Texts PROVE Splitting(0, x) /\ Finding(0, x)
  <2>1. OctetsOf(s, 0) = <<>> /\ Each(Wire, FirstOf(s, 0)) = <<>>
    BY NothingFirst, Zenon
  <2>2. <<>> \o x = x
    BY <1>1, ConcatEmptySeq
  <2>3. <<>> \o SplitMessages[x].value = SplitMessages[x].value
    BY <1>1, ConcatEmptySeq
  <2>4. Splitting(0, x)
    BY <1>1, <2>1, <2>2, <2>3, Zenon
  <2>5. Finding(0, x)
    BY <2>1, <2>2, Zenon
  <2> QED
    BY <2>4, <2>5
<1>3. ASSUME NEW i \in Nat, i < Len(s), NEW x \in Texts,
             \A y \in Texts : Splitting(i, y) /\ Finding(i, y)
      PROVE  Splitting(i + 1, x) /\ Finding(i + 1, x)
  <2> DEFINE w == Wire(s[i + 1])
             o == OctetsOf(s, i)
             v == Each(Wire, FirstOf(s, i))
             r == SplitMessages[x].value
  <2>1. /\ o \in Texts /\ v \in Seq(Texts) /\ w \in Texts
        /\ OctetsOf(s, i + 1) = o \o w
        /\ Each(Wire, FirstOf(s, i + 1)) = Append(v, w)
    BY <1>3, OctetsGrow
  <2>2. Framed(w)
    <3>1. s[i + 1] \in Answers
      BY <1>3, FirstOfGrows
    <3> QED
      BY <3>1, WireFramed
  <2>3. r \in Seq(Texts)
    BY <1>1
  <2>4. w # <<>>
    <3>1. Len(w) >= 2 /\ w[1] = 48
      BY <2>2 DEF Framed
    <3> HIDE DEF w
    <3> QED
      BY <2>1, <3>1, AtLeastTwo
  <2> HIDE DEF w
  <2>5. /\ SplitMessages[w \o x] = Result(SplitMessages[x].state, <<w>> \o r)
        /\ LastCompleteMessage[w \o x] =
             IF LastCompleteMessage[x] # <<>> THEN LastCompleteMessage[x] ELSE w
    BY <2>2, FramedFirst
  <2>6. w \o x \in Texts
    BY <2>1, Joined
  <2>7. o \o (w \o x) = (o \o w) \o x
    <3> HIDE DEF o
    <3> QED
      BY <2>1, Assoc
  <2>8. /\ SplitMessages[o \o (w \o x)] =
             Result(SplitMessages[w \o x].state, v \o SplitMessages[w \o x].value)
        /\ LastCompleteMessage[o \o (w \o x)] =
             IF LastCompleteMessage[w \o x] # <<>> THEN LastCompleteMessage[w \o x]
             ELSE IF i = 0 THEN <<>> ELSE Wire(s[i])
    BY <1>3, <2>6
  <2> HIDE DEF o, v, r
  <2>9. /\ SplitMessages[w \o x].state = SplitMessages[x].state
        /\ SplitMessages[w \o x].value = <<w>> \o r
    BY <2>5 DEF Result
  <2>10. v \o (<<w>> \o r) = Append(v, w) \o r
    <3> DEFINE one == <<w>>
    <3>1. one \in Seq(Texts) /\ v \in Seq(Texts) /\ r \in Seq(Texts)
      BY <2>1, <2>3
    <3> HIDE DEF one
    <3>2. v \o (one \o r) = (v \o one) \o r
      BY <3>1, SMT
    <3>3. Append(v, w) = v \o <<w>>
      BY <2>1, AppendIsConcat
    <3> QED
      BY <3>2, <3>3, Zenon DEF one
  <2>11. SplitMessages[o \o (w \o x)] = Result(SplitMessages[x].state, v \o (<<w>> \o r))
    BY <2>8, <2>9, Zenon
  <2>12. SplitMessages[OctetsOf(s, i + 1) \o x]
           = Result(SplitMessages[x].state, Append(v, w) \o r)
    BY <2>1, <2>7, <2>10, <2>11, Zenon
  <2>13. Splitting(i + 1, x)
    BY <2>1, <2>12, Zenon DEF r
  <2>14. LastCompleteMessage[w \o x] # <<>>
    BY <2>4, <2>5, Zenon
  <2>15. LastCompleteMessage[OctetsOf(s, i + 1) \o x] =
           IF LastCompleteMessage[x] # <<>> THEN LastCompleteMessage[x] ELSE w
    BY <2>1, <2>5, <2>7, <2>8, <2>14, Zenon
  <2>16. i + 1 # 0
    OBVIOUS
  <2>17. Finding(i + 1, x)
    BY <2>15, <2>16, Zenon DEF w
  <2> QED
    BY <2>13, <2>17
<1> HIDE DEF Splitting, Finding
<1>4. ASSUME NEW i \in Nat, \A j \in Nat : j < i => j \in T PROVE i \in T
  <2>1. CASE i = 0
    BY <1>2, <2>1
  <2>2. CASE i # 0
    <3> DEFINE j == i - 1
    <3>1. j \in Nat /\ j < i /\ j + 1 = i /\ (i <= Len(s) => j <= Len(s) /\ j < Len(s))
      BY <1>0, <2>2
    <3> HIDE DEF j
    <3>2. i <= Len(s) => \A y \in Texts : Splitting(j, y) /\ Finding(j, y)
      BY <1>4, <3>1
    <3>3. i <= Len(s) => \A x \in Texts : Splitting(j + 1, x) /\ Finding(j + 1, x)
      BY <1>3, <3>1, <3>2
    <3> QED
      BY <3>1, <3>3
  <2> QED
    BY <2>1, <2>2
<1>5. \A i \in Nat : i \in T
  <2> HIDE DEF T
  <2> QED
    BY <1>4, AllBelow
<1>6. Splitting(k, d) /\ Finding(k, d)
  <2>1. k \in Nat /\ k <= Len(s)
    BY <1>0
  <2> QED
    BY <1>5, <2>1
<1>7. SplitMessages[OctetsOf(s, k) \o d] =
        Result(SplitMessages[d].state, Each(Wire, FirstOf(s, k)) \o SplitMessages[d].value)
  BY <1>6 DEF Splitting
<1>8. LastCompleteMessage[OctetsOf(s, k) \o d] =
        IF LastCompleteMessage[d] # <<>> THEN LastCompleteMessage[d]
        ELSE IF k = 0 THEN <<>> ELSE Wire(s[k])
  BY <1>6 DEF Finding
<1> QED
  BY <1>7, <1>8

\* A beginning of a message says nothing of it, but that it is one octet if it is.
LEMMA CutReads ==
  ASSUME NEW w, Framed(w), NEW j \in Nat, j < Len(w)
  PROVE  LET p == SubSeq(w, 1, j)
         IN  /\ p \in Texts
             /\ SplitMessages[p] = Result(IF j = 1 THEN "IndexError" ELSE "ok", <<>>)
             /\ LastCompleteMessage[p] = <<>>
<1> DEFINE p == SubSeq(w, 1, j)
<1>1. w \in Seq(Octets) /\ Len(w) \in Nat /\ w[1] = 48 /\ \A i \in 1..Len(w) : w[i] \in Octets
  BY LenProperties, ElementOfSeq DEF Framed, Texts
<1>2. p \in Seq(Octets) /\ Len(p) = j /\ (j # 0 => p[1] = 48)
  <2>1. \A i \in 1..j : w[i] \in Octets
    BY <1>1
  <2>2. /\ p \in Seq(Octets) /\ Len(p) = IF 1 <= j THEN (j - 1) + 1 ELSE 0
        /\ \A i \in 1..((j - 1) + 1) : p[i] = w[(1 + i) - 1]
    BY <1>1, <2>1, SubSeqProperties
  <2> HIDE DEF p
  <2>3. Len(p) = j /\ (j # 0 => 1 \in 1..((j - 1) + 1)) /\ (1 + 1) - 1 = 1
    BY <2>2
  <2>4. j # 0 => p[1] = w[1]
    BY <2>2, <2>3
  <2> QED
    BY <1>1, <2>2, <2>3, <2>4
<1>3. j >= 2 => FirstMessage(p).state = "ok" /\ FirstMessage(p).cut
  <2>1. j >= 2 => j \in 2..(Len(w) - 1)
    BY <1>1
  <2> QED
    BY <2>1, Zenon DEF Framed
<1> HIDE DEF p
<1>4. /\ SplitMessages[p] = SplitBody(SplitMessages, p)
      /\ LastCompleteMessage[p] = LastBody(LastCompleteMessage, p)
  BY <1>2, SplitUnfolds, LastUnfolds
<1>5. p \in Texts
  BY <1>2 DEF Texts
<1>6. CASE j = 0
  <2>1. p = <<>> /\ j # 1 /\ Len(p) < 2
    BY <1>2, <1>6, EmptySeq
  <2>2. SplitBody(SplitMessages, p) = Result("ok", <<>>)
    BY <2>1, Zenon DEF SplitBody
  <2>3. LastBody(LastCompleteMessage, p) = <<>>
    BY <2>1, Zenon DEF LastBody
  <2> QED
    BY <1>4, <1>5, <2>1, <2>2, <2>3, Zenon DEF p
<1>7. CASE j = 1
  <2>1. p # <<>> /\ Len(p) < 2 /\ p[1] = 48
    <3>1. Len(p) = 1 /\ p[1] = 48
      BY <1>2, <1>7
    <3> QED
      BY <1>2, <3>1, EmptySeq
  <2>2. Head(p) = 48
    BY <1>2, <2>1
  <2>3. FirstMessage(p).state = "IndexError"
    <3> DEFINE tags == {48}
    <3>1. 48 \in tags
      OBVIOUS
    <3> HIDE DEF tags
    <3>2. Enter(Start(p), tags).state = "IndexError"
      BY <1>2, <2>1, <2>2, <3>1, EnterTyped
    <3> QED
      BY <3>2 DEF tags, FirstMessage
  <2>4. "IndexError" # "ok"
    OBVIOUS
  <2>5. SplitBody(SplitMessages, p) = Result("IndexError", <<>>)
    BY <2>1, <2>2, <2>3, <2>4, Zenon DEF SplitBody
  <2>6. LastBody(LastCompleteMessage, p) = <<>>
    BY <2>1, Zenon DEF LastBody
  <2> QED
    BY <1>4, <1>5, <1>7, <2>5, <2>6, Zenon DEF p
<1>8. CASE j >= 2
  <2>1. p # <<>> /\ Head(p) = 48 /\ ~(Len(p) < 2) /\ j # 1
    <3>1. Len(p) >= 2 /\ p[1] = 48 /\ ~(Len(p) < 2) /\ j # 1
      BY <1>2, <1>8
    <3> QED
      BY <1>5, <3>1, AtLeastTwo
  <2>2. FirstMessage(p).state = "ok" /\ FirstMessage(p).cut
    BY <1>3, <1>8
  <2>3. SplitBody(SplitMessages, p) = Result("ok", <<>>)
    BY <2>1, <2>2, Zenon DEF SplitBody
  <2>4. LastBody(LastCompleteMessage, p) = <<>>
    BY <2>1, <2>2, Zenon DEF LastBody
  <2> QED
    BY <1>4, <1>5, <2>1, <2>3, <2>4, Zenon DEF p
<1> QED
  BY <1>6, <1>7, <1>8

\* The octets of the first messages begin those of all.
LEMMA OctetsBegin ==
  ASSUME NEW s \in Seq(Answers), NEW k \in 0..Len(s)
  PROVE  /\ \E z \in Texts : OctetsOf(s, Len(s)) = OctetsOf(s, k) \o z
         /\ FirstOf(s, Len(s)) = s
<1> DEFINE Begins(i) == \E z \in Texts : OctetsOf(s, i) = OctetsOf(s, k) \o z
           T == {i \in Nat : k <= i /\ i <= Len(s) => Begins(i)}
<1>1. Len(s) \in Nat /\ k \in Nat /\ k <= Len(s)
  BY LenProperties
<1>2. Begins(k)
  <2> DEFINE o == OctetsOf(s, k)
  <2>1. o \in Texts
    BY OctetsTyped
  <2> HIDE DEF o
  <2>2. o \o <<>> = o /\ <<>> \in Texts
    BY <2>1, ConcatEmptySeq, EmptySeq DEF Texts
  <2>3. \E z \in Texts : o = o \o z
    BY <2>2
  <2> QED
    BY <2>3, Zenon DEF o
<1>3. ASSUME NEW i \in Nat, i < Len(s), Begins(i) PROVE Begins(i + 1)
  <2> DEFINE o == OctetsOf(s, k)
             w == Wire(s[i + 1])
  <2>1. PICK z \in Texts : OctetsOf(s, i) = o \o z
    BY <1>3
  <2>2. OctetsOf(s, i + 1) = OctetsOf(s, i) \o w /\ w \in Texts
    BY <1>3, OctetsGrow
  <2>3. o \in Texts
    BY OctetsTyped
  <2> HIDE DEF o, w
  <2>4. z \o w \in Texts /\ o \o (z \o w) = (o \o z) \o w
    BY <2>2, <2>3, Assoc, Joined
  <2>5. OctetsOf(s, i + 1) = o \o (z \o w)
    BY <2>1, <2>2, <2>4, Zenon
  <2>6. \E x \in Texts : OctetsOf(s, i + 1) = o \o x
    BY <2>4, <2>5, Zenon
  <2> QED
    BY <2>6, Zenon DEF o
<1> HIDE DEF Begins
<1>4. ASSUME NEW i \in Nat, \A j \in Nat : j < i => j \in T PROVE i \in T
  <2>1. CASE i <= k
    BY <1>1, <1>2, <2>1
  <2>2. CASE i > k
    <3> DEFINE j == i - 1
    <3>1. j \in Nat /\ j < i /\ j + 1 = i /\ k <= j
      BY <1>1, <2>2
    <3> HIDE DEF j
    <3>2. i <= Len(s) => j < Len(s) /\ j <= Len(s)
      BY <1>1, <3>1
    <3>3. i <= Len(s) => Begins(j)
      BY <1>4, <3>1, <3>2
    <3>4. i <= Len(s) => Begins(j + 1)
      BY <1>3, <3>1, <3>2, <3>3
    <3> QED
      BY <3>1, <3>4
  <2> QED
    BY <1>1, <2>1, <2>2
<1>5. Begins(Len(s))
  <2>1. \A i \in Nat : i \in T
    <3> HIDE DEF T
    <3> QED
      BY <1>4, AllBelow
  <2> QED
    BY <1>1, <2>1
<1>6. FirstOf(s, Len(s)) = s
  BY SubSeqFull DEF FirstOf
<1> QED
  BY <1>5, <1>6 DEF Begins

\* Where the k first messages of s have come and not one more, what else has
\* come is a beginning of the next.
LEMMA CutPoint ==
  ASSUME NEW s \in Seq(Answers), NEW b \in Texts, NEW k \in 0..Len(s),
         b = UpTo(OctetsOf(s, Len(s)), Len(b)),
         Len(OctetsOf(s, k)) <= Len(b),
         k # Len(s) => Len(OctetsOf(s, k + 1)) > Len(b)
  PROVE  \E p \in Texts :
           /\ b = OctetsOf(s, k) \o p /\ Len(p) = Len(b) - Len(OctetsOf(s, k))
           /\ SplitMessages[p] = Result(IF Len(p) = 1 THEN "IndexError" ELSE "ok", <<>>)
           /\ LastCompleteMessage[p] = <<>>
<1> DEFINE o == OctetsOf(s, k)
           n == Len(b)
           all == OctetsOf(s, Len(s))
<1>1. /\ n \in Nat /\ Len(s) \in Nat /\ k \in Nat /\ k <= Len(s) /\ Len(s) \in 0..Len(s)
  BY LenProperties DEF Texts
<1>2. o \in Texts /\ all \in Texts /\ Len(o) \in Nat /\ Len(all) \in Nat
  BY <1>1, OctetsTyped, LenProperties DEF Texts
<1>3. CASE k = Len(s)
  <2>1. all = o
    BY <1>3, Zenon
  <2>2. ~(n < Len(o))
    BY <1>1, <1>2
  <2>3. b = SubSeq(o, 1, Len(o))
    BY <2>1, <2>2, Zenon DEF UpTo
  <2> HIDE DEF o, all
  <2>4. SubSeq(o, 1, Len(o)) = o
    BY <1>2, SubSeqFull DEF Texts
  <2>5. o \o <<>> = o /\ <<>> \in Texts /\ <<>> \in Seq(Octets) /\ Len(<<>>) = 0
    BY <1>2, ConcatEmptySeq, EmptySeq DEF Texts
  <2>6. b = o \o <<>> /\ Len(<<>>) = n - Len(o)
    <3>1. b = o
      BY <2>3, <2>4
    <3>2. 0 = Len(o) - Len(o)
      BY <1>2
    <3> QED
      BY <2>5, <3>1, <3>2, Zenon
  <2>7. Len(<<>>) # 1 /\ Len(<<>>) < 2
    BY <2>5
  <2>8. SplitMessages[<<>>] = Result("ok", <<>>)
    <3>1. SplitMessages[<<>>] = SplitBody(SplitMessages, <<>>)
      BY <2>5, SplitUnfolds
    <3> QED
      BY <3>1, Zenon DEF SplitBody
  <2>9. LastCompleteMessage[<<>>] = <<>>
    <3>1. LastCompleteMessage[<<>>] = LastBody(LastCompleteMessage, <<>>)
      BY <2>5, LastUnfolds
    <3> QED
      BY <2>7, <3>1, Zenon DEF LastBody
  <2> QED
    BY <2>5, <2>6, <2>7, <2>8, <2>9, Zenon DEF o
<1>4. CASE k # Len(s)
  <2> DEFINE w == Wire(s[k + 1])
             x == o \o w
             c == UpTo(x, n)
             j == n - Len(o)
             p == SubSeq(w, 1, j)
  <2>1. k < Len(s) /\ k + 1 \in 0..Len(s)
    BY <1>1, <1>4
  <2>2. OctetsOf(s, k + 1) = x /\ w \in Texts
    BY <1>1, <2>1, OctetsGrow
  <2>3. Framed(w)
    <3>1. s[k + 1] \in Answers
      BY <1>1, <2>1, FirstOfGrows
    <3> QED
      BY <3>1, WireFramed
  <2>4. PICK z \in Texts : all = x \o z
    BY <2>1, <2>2, OctetsBegin
  <2>5. n < Len(x)
    <3>1. Len(OctetsOf(s, k + 1)) > n
      BY <1>4
    <3>2. Len(x) > n
      BY <2>2, <3>1, Zenon
    <3>3. Len(x) \in Nat
      BY <2>1, <2>2, OctetsTyped, LenProperties DEF Texts
    <3> HIDE DEF x, n
    <3> QED
      BY <1>1, <3>2, <3>3
  <2> HIDE DEF w
  <2>6. x \in Seq(Octets) /\ Len(x) = Len(o) + Len(w) /\ Len(w) \in Nat
    <3> HIDE DEF o
    <3>1. o \in Seq(Octets) /\ w \in Seq(Octets)
      BY <1>2, <2>2 DEF Texts
    <3> QED
      BY <3>1, ConcatProperties, LenProperties
  <2> HIDE DEF o
  <2>7. j \in Nat /\ j < Len(w)
    <3> HIDE DEF x, n
    <3>1. Len(o) <= n
      BY DEF o, n
    <3> QED
      BY <1>1, <1>2, <2>5, <2>6, <3>1
  <2>8. c \in Seq(Octets) /\ Len(c) = n
    <3> HIDE DEF x, n
    <3> QED
      BY <1>1, <2>5, <2>6, SliceTyped
  <2>9. c = b
    <3> HIDE DEF all, x, c, n
    <3>1. b = UpTo(x \o z, n)
      BY <2>4, Zenon DEF all, n
    <3>2. c = UpTo(x, Len(c)) /\ Len(c) \in Nat
      BY <1>1, <2>8 DEF c
    <3>3. x \in Texts
      BY <2>6 DEF Texts
    <3>4. c = UpTo(x \o z, Len(c))
      BY <3>2, <3>3, BeginningStays
    <3> QED
      BY <2>8, <3>1, <3>4, Zenon
  <2>10. c = o \o p
    <3>1. c = SubSeq(x, 1, n)
      BY <2>5, Zenon DEF UpTo
    <3>2. Len(o) <= n /\ n <= Len(o) + Len(w)
      <4> HIDE DEF x, n
      <4>1. Len(o) <= n
        BY DEF o, n
      <4> QED
        BY <1>1, <1>2, <2>5, <2>6, <4>1
    <3> HIDE DEF n, c, p
    <3>3. SubSeq(o \o w, 1, n) = o \o SubSeq(w, 1, n - Len(o))
      BY <1>1, <1>2, <2>2, <3>2, PrefixThrough
    <3> QED
      BY <3>1, <3>3, Zenon DEF p
  <2>11. /\ p \in Texts
         /\ SplitMessages[p] = Result(IF j = 1 THEN "IndexError" ELSE "ok", <<>>)
         /\ LastCompleteMessage[p] = <<>>
    <3> HIDE DEF j
    <3> QED
      BY <2>3, <2>7, CutReads
  <2>12. Len(p) = j
    <3> HIDE DEF j
    <3>1. w \in Seq(Octets) /\ \A i \in 1..j : w[i] \in Octets
      <4>1. w \in Seq(Octets)
        BY <2>2 DEF Texts
      <4> QED
        BY <2>6, <2>7, <4>1, ElementOfSeq
    <3>2. Len(p) = IF 1 <= j THEN (j - 1) + 1 ELSE 0
      BY <2>7, <3>1, SubSeqProperties
    <3> QED
      BY <2>7, <3>2
  <2> HIDE DEF p, c
  <2>13. b = o \o p
    BY <2>9, <2>10, Zenon
  <2> QED
    BY <2>11, <2>12, <2>13, Zenon DEF o
<1> QED
  BY <1>3, <1>4

\* How many messages have come whole.
LEMMA MostWhole ==
  ASSUME NEW n \in Nat, NEW T \in SUBSET (0..n), T # {}
  PROVE  /\ Max(T) \in T /\ \A i \in T : i <= Max(T)
<1> DEFINE R == {i \in Nat : i <= n /\ n - i \in T}
<1>1. R \in SUBSET Nat /\ R # {}
  <2>1. PICK i \in T : i \in 0..n
    OBVIOUS
  <2>2. n - i \in R
    <3>1. n - (n - i) = i /\ n - i \in Nat /\ n - i <= n
      BY <2>1
    <3> QED
      BY <2>1, <3>1
  <2> QED
    BY <2>2
<1>2. PICK r \in R : \A i \in R : r <= i
  BY <1>1, Least
<1>3. n - r \in T /\ \A i \in T : n - r >= i
  <2>1. ASSUME NEW i \in T PROVE n - r >= i
    <3>1. n - i \in R
      <4>1. i \in 0..n
        OBVIOUS
      <4>2. n - (n - i) = i /\ n - i \in Nat /\ n - i <= n
        BY <4>1
      <4> QED
        BY <4>2
    <3>2. r <= n - i /\ r \in Nat /\ i \in 0..n
      BY <1>2, <3>1
    <3> QED
      BY <3>2
  <2> QED
    BY <1>2, <2>1
<1>4. Max(T) = CHOOSE x \in T : \A y \in T : x >= y
  BY DEF Max
<1>5. Max(T) \in T /\ \A y \in T : Max(T) >= y
  BY <1>3, <1>4
<1> QED
  BY <1>5

LEMMA SplittingIsExact ==
  TypeOK => SplitIsExact
<1> SUFFICES ASSUME TypeOK PROVE SplitIsExact
  OBVIOUS
<1> DEFINE n == Len(buffer)
           N == Len(sent)
           T == {k \in 0..N : Len(OctetsOf(sent, k)) <= n}
           K == Max(T)
           o == OctetsOf(sent, K)
           v == Each(Wire, FirstOf(sent, K))
           Outcome == IF Begun = 1 THEN "IndexError" ELSE "ok"
<1>1. /\ sent \in Seq(Answers) /\ buffer \in Seq(Octets) /\ buffer \in Texts
      /\ buffer = UpTo(Stream, n)
  BY DEF TypeOK, Texts
<1>2. n \in Nat /\ N \in Nat
  BY <1>1, LenProperties
<1>3. Stream = OctetsOf(sent, N)
  <2>1. FirstOf(sent, N) = sent
    BY <1>1, SubSeqFull DEF FirstOf
  <2> QED
    BY <2>1, Zenon DEF Stream, OctetsOf
<1>4. K \in T /\ \A i \in T : i <= K
  <2>1. Len(OctetsOf(sent, 0)) = 0
    <3>1. OctetsOf(sent, 0) = <<>>
      BY <1>1, NothingFirst
    <3> QED
      BY <3>1, EmptySeq
  <2>2. 0 \in T
    <3> HIDE DEF n
    <3> QED
      BY <1>2, <2>1
  <2>3. T \in SUBSET (0..N) /\ T # {}
    BY <2>2
  <2> HIDE DEF T, N
  <2> QED
    BY <1>2, <2>3, MostWhole
<1> HIDE DEF K
<1>5. K \in 0..N /\ Len(o) <= n /\ K \in Nat /\ K <= N
  BY <1>2, <1>4
<1>6. K # N => Len(OctetsOf(sent, K + 1)) > n
  <2>1. ASSUME K # N, ~(Len(OctetsOf(sent, K + 1)) > n) PROVE FALSE
    <3> DEFINE l == Len(OctetsOf(sent, K + 1))
    <3>1. K + 1 \in 0..N /\ ~(K + 1 <= K)
      BY <1>2, <1>5, <2>1
    <3>2. OctetsOf(sent, K + 1) \in Texts
      <4> HIDE DEF T
      <4> QED
        BY <1>1, <3>1, OctetsTyped
    <3>3. l \in Nat
      BY <3>2, LenProperties DEF Texts
    <3>4. l <= n
      <4> HIDE DEF l, n
      <4> QED
        BY <1>2, <2>1, <3>3 DEF l
    <3>5. K + 1 \in T
      BY <3>1, <3>4
    <3> QED
      BY <1>4, <3>1, <3>5
  <2> QED
    BY <2>1
<1> HIDE DEF T
<1>7. PICK p \in Texts :
        /\ buffer = o \o p /\ Len(p) = n - Len(o)
        /\ SplitMessages[p] = Result(IF Len(p) = 1 THEN "IndexError" ELSE "ok", <<>>)
        /\ LastCompleteMessage[p] = <<>>
  BY <1>1, <1>3, <1>5, <1>6, CutPoint
<1>8. Whole = FirstOf(sent, K)
  BY DEF Whole, K, T, OctetsOf, FirstOf
<1>9. Begun = Len(p)
  BY <1>7, <1>8, Zenon DEF Begun, OctetsOf
<1>10. v \in Seq(Texts) /\ v \o <<>> = v
  <2>1. v \in Seq(Texts)
    BY <1>1, <1>5, OctetsTyped
  <2> HIDE DEF v
  <2> QED
    BY <2>1, ConcatEmptySeq
<1>11. /\ SplitMessages[buffer] = Result(SplitMessages[p].state, v \o SplitMessages[p].value)
       /\ LastCompleteMessage[buffer] = IF K = 0 THEN <<>> ELSE Wire(sent[K])
  <2>1. /\ SplitMessages[o \o p] = Result(SplitMessages[p].state, v \o SplitMessages[p].value)
        /\ LastCompleteMessage[o \o p] =
              IF LastCompleteMessage[p] # <<>> THEN LastCompleteMessage[p]
              ELSE IF K = 0 THEN <<>> ELSE Wire(sent[K])
    BY <1>1, <1>5, ReadsThrough
  <2> QED
    BY <1>7, <2>1, Zenon
<1>12. SplitMessages[buffer] = Result(Outcome, Each(Wire, Whole))
  <2>1. SplitMessages[p].state = Outcome /\ SplitMessages[p].value = <<>>
    <3>1. SplitMessages[p] = Result(Outcome, <<>>)
      BY <1>7, <1>9, Zenon
    <3> HIDE DEF Outcome
    <3> QED
      BY <3>1 DEF Result
  <2> QED
    BY <1>8, <1>10, <1>11, <2>1, Zenon
<1>13. LastCompleteMessage[buffer] = IF Whole = <<>> THEN <<>> ELSE Wire(Last(Whole))
  <2>1. CASE K = 0
    <3>1. Whole = <<>>
      BY <1>1, <1>8, <2>1, NothingFirst, Zenon
    <3> QED
      BY <1>11, <2>1, <3>1, Zenon
  <2>2. CASE K # 0
    <3> DEFINE j == K - 1
    <3>1. j \in Nat /\ j < N /\ j + 1 = K
      BY <1>2, <1>5, <2>2
    <3> HIDE DEF j
    <3>2. /\ FirstOf(sent, j) \in Seq(Answers) /\ Len(FirstOf(sent, j)) = j
          /\ sent[j + 1] \in Answers
          /\ FirstOf(sent, j + 1) = Append(FirstOf(sent, j), sent[j + 1])
      BY <1>1, <3>1, FirstOfGrows
    <3> DEFINE f == FirstOf(sent, j)
               m == sent[K]
    <3>3. f \in Seq(Answers) /\ Len(f) = j /\ m \in Answers /\ Whole = Append(f, m)
      BY <1>8, <3>1, <3>2, Zenon
    <3> HIDE DEF f, m
    <3>4. Append(f, m) # <<>> /\ Last(Append(f, m)) = m
      <4>1. /\ Append(f, m) \in Seq(Answers) /\ Len(Append(f, m)) = Len(f) + 1
            /\ Append(f, m)[Len(f) + 1] = m
        BY <3>3, AppendProperties
      <4>2. Len(f) + 1 # 0
        BY <3>1, <3>3
      <4> QED
        BY <4>1, <4>2, EmptySeq DEF Last
    <3> QED
      BY <1>11, <2>2, <3>3, <3>4, Zenon DEF m
  <2> QED
    BY <2>1, <2>2
<1> QED
  BY <1>12, <1>13, Zenon DEF SplitIsExact

\* _split_messages and _last_complete_message (raw.py) find, in whatever part of
\* the stream has come, the messages of which every octet has come, octet for
\* octet, and no others; the first raises when one octet of a further one has.
THEOREM WholeMessagesAreFound ==
  Spec => []SplitIsExact
BY PdusAndStreamTyped, SplittingIsExact, PTL

=============================================================================
