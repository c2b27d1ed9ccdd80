--------------------------- MODULE SequenceLemmas ---------------------------
(***************************************************************************)
(* Facts about lists without repetitions, as the queues of buffers and the *)
(* lists of clients are: what they contain, how the part from one element  *)
(* on changes when elements are added and removed, and which element       *)
(* follows another; and what a fold over a list computes.                  *)
(***************************************************************************)
EXTENDS Integers, Sequences, SequencesExt, WellFoundedInduction, TLAPS

\* The elements of a queue are the values at its positions.
LEMMA RangeIndex ==
  ASSUME NEW S, NEW q \in Seq(S), NEW b
  PROVE  b \in Range(q) <=> \E i \in 1 .. Len(q) : q[i] = b
  BY DEF Range

\* Two sequences are equal if their elements are.
LEMMA SameSeq ==
  ASSUME NEW S, NEW s \in Seq(S), NEW t \in Seq(S), Len(s) = Len(t),
         \A i \in 1 .. Len(s) : s[i] = t[i]
  PROVE  s = t
  OBVIOUS

\* Removing one element of a list without repetitions leaves such a list, and
\* those behind it move up.
LEMMA RemoveAtDistinct ==
  ASSUME NEW S, NEW s \in Seq(S), IsInjective(s), NEW i \in DOMAIN s
  PROVE  /\ RemoveAt(s, i) \in Seq(S) /\ IsInjective(RemoveAt(s, i))
         /\ Range(RemoveAt(s, i)) = Range(s) \ {s[i]}
         /\ Len(RemoveAt(s, i)) = Len(s) - 1
         /\ \A k \in 1 .. Len(s) - 1 :
              RemoveAt(s, i)[k] = IF k < i THEN s[k] ELSE s[k + 1]
<1> DEFINE r == RemoveAt(s, i)
           p == SubSeq(s, 1, i - 1)
           q == SubSeq(s, i + 1, Len(s))
<1>1. i \in 1 .. Len(s)
  OBVIOUS
<1>2. /\ p \in Seq(S) /\ Len(p) = i - 1
      /\ \A k \in 1 .. i - 1 : p[k] = s[k]
  BY <1>1
<1>3. /\ q \in Seq(S) /\ Len(q) = Len(s) - i
      /\ \A k \in 1 .. Len(s) - i : q[k] = s[i + k]
  BY <1>1
<1>4. r = p \o q
  BY DEF RemoveAt
<1> HIDE DEF r, p, q
<1>5. r \in Seq(S) /\ Len(r) = Len(s) - 1
  BY <1>1, <1>2, <1>3, <1>4
<1>6. \A k \in 1 .. Len(s) - 1 : r[k] = IF k < i THEN s[k] ELSE s[k + 1]
  <2> SUFFICES ASSUME NEW k \in 1 .. Len(s) - 1
               PROVE  r[k] = IF k < i THEN s[k] ELSE s[k + 1]
    OBVIOUS
  <2>1. CASE k < i
    BY <1>1, <1>2, <1>3, <1>4, <2>1
  <2>2. CASE k >= i
    <3>1. k - (i - 1) \in 1 .. Len(s) - i /\ i + (k - (i - 1)) = k + 1
      BY <1>1, <2>2
    <3>2. k \in 1 .. Len(p) + Len(q) /\ k > Len(p)
      BY <1>1, <1>2, <1>3, <2>2
    <3>3. (p \o q)[k] = q[k - Len(p)]
      <4>1. p \in Seq(S) /\ q \in Seq(S)
        BY <1>2, <1>3
      <4> QED
        BY <3>2, <4>1
    <3>4. r[k] = q[k - (i - 1)]
      BY <1>2, <1>4, <3>3
    <3> QED
      BY <1>1, <1>3, <2>2, <3>1, <3>4
  <2> QED
    BY <1>1, <2>1, <2>2
<1>7. IsInjective(r)
  <2> SUFFICES ASSUME NEW x \in 1 .. Len(s) - 1, NEW y \in 1 .. Len(s) - 1, r[x] = r[y]
               PROVE  x = y
    BY <1>5 DEF IsInjective
  <2> DEFINE Old(k) == IF k < i THEN k ELSE k + 1
  <2>1. /\ Old(x) \in DOMAIN s /\ Old(y) \in DOMAIN s
        /\ s[Old(x)] = s[Old(y)]
    BY <1>1, <1>6
  <2>2. Old(x) = Old(y)
    BY <2>1 DEF IsInjective
  <2> QED
    BY <1>1, <2>2
<1>8. ASSUME NEW k \in 1 .. Len(s), k # i
      PROVE  \E j \in 1 .. Len(s) - 1 : r[j] = s[k]
  <2>1. CASE k < i
    BY <1>1, <1>6, <1>8, <2>1
  <2>2. CASE k > i
    <3>1. k - 1 \in 1 .. Len(s) - 1 /\ ~(k - 1 < i)
      BY <1>1, <2>2
    <3> QED
      BY <1>6, <3>1
  <2> QED
    BY <1>1, <1>8, <2>1, <2>2
<1>9. Range(r) = Range(s) \ {s[i]}
  <2>1. ASSUME NEW k \in 1 .. Len(s) - 1
        PROVE  r[k] \in Range(s) /\ r[k] # s[i]
    <3> DEFINE o == IF k < i THEN k ELSE k + 1
    <3>1. o \in DOMAIN s /\ o # i /\ r[k] = s[o]
      BY <1>1, <1>6
    <3> QED
      BY <3>1 DEF IsInjective, Range
  <2>2. Range(r) = {r[k] : k \in 1 .. Len(s) - 1}
    BY <1>5 DEF Range
  <2>3. \A v \in Range(s) \ {s[i]} : v \in Range(r)
    <3> SUFFICES ASSUME NEW k \in 1 .. Len(s), s[k] # s[i]
                 PROVE  s[k] \in Range(r)
      BY DEF Range
    <3> QED
      BY <1>8, <2>2
  <2> QED
    BY <2>1, <2>2, <2>3
<1> QED
  BY <1>5, <1>6, <1>7, <1>9 DEF r

\* In such a list the first occurrence is the only one.
LEMMA RemoveFirstAt ==
  ASSUME NEW S, NEW s \in Seq(S), IsInjective(s), NEW i \in 1 .. Len(s)
  PROVE  RemoveFirst(s, s[i]) = RemoveAt(s, i)
<1> DEFINE I == {k \in 1 .. Len(s) : s[k] = s[i]}
<1>1. I = {i}
  BY DEF IsInjective
<1>2. Min(I) = i
  BY <1>1 DEF Min
<1>3. SelectInSeq(s, LAMBDA v : v = s[i]) = i
  BY <1>1, <1>2 DEF SelectInSeq
<1> QED
  BY <1>3 DEF RemoveFirst

\* Nothing to remove.
LEMMA RemoveFirstNot ==
  ASSUME NEW S, NEW s \in Seq(S), NEW e, e \notin Range(s)
  PROVE  RemoveFirst(s, e) = s
  BY DEF RemoveFirst, Range

\* What is left is the rest.
LEMMA RemoveFirstRange ==
  ASSUME NEW S, NEW s \in Seq(S), IsInjective(s), NEW e
  PROVE  Range(RemoveFirst(s, e)) = Range(s) \ {e}
<1>1. CASE e \in Range(s)
  <2>1. PICK i \in 1 .. Len(s) : s[i] = e
    BY <1>1, RangeIndex
  <2>2. RemoveFirst(s, s[i]) = RemoveAt(s, i)
    BY RemoveFirstAt
  <2>3. Range(RemoveAt(s, i)) = Range(s) \ {s[i]}
    BY RemoveAtDistinct
  <2> QED
    BY <2>1, <2>2, <2>3
<1>2. CASE e \notin Range(s)
  BY <1>2, RemoveFirstNot
<1> QED
  BY <1>1, <1>2

\* What is left is again a list without repetitions.
LEMMA RemoveFirstDistinct ==
  ASSUME NEW S, NEW s \in Seq(S), IsInjective(s), NEW e
  PROVE  /\ RemoveFirst(s, e) \in Seq(S) /\ IsInjective(RemoveFirst(s, e))
         /\ Range(RemoveFirst(s, e)) = Range(s) \ {e}
<1>1. CASE e \in Range(s)
  <2>1. PICK i \in 1 .. Len(s) : s[i] = e
    BY <1>1, RangeIndex
  <2>2. RemoveFirst(s, e) = RemoveAt(s, i)
    BY <2>1, RemoveFirstAt
  <2>3. i \in DOMAIN s
    OBVIOUS
  <2>4. /\ RemoveAt(s, i) \in Seq(S) /\ IsInjective(RemoveAt(s, i))
        /\ Range(RemoveAt(s, i)) = Range(s) \ {s[i]}
    BY <2>3, RemoveAtDistinct
  <2> QED
    BY <2>1, <2>2, <2>4, Zenon
<1>2. CASE e \notin Range(s)
  <2>1. RemoveFirst(s, e) = s
    BY <1>2, RemoveFirstNot
  <2>2. Range(s) = Range(s) \ {e}
    BY <1>2
  <2> QED
    BY <2>1, <2>2, Zenon
<1> QED
  BY <1>1, <1>2

\* The same as for any element, for the head ...
LEMMA TailDistinct ==
  ASSUME NEW S, NEW s \in Seq(S), IsInjective(s), s # <<>>
  PROVE  /\ Tail(s) \in Seq(S) /\ IsInjective(Tail(s))
         /\ Len(Tail(s)) = Len(s) - 1
         /\ \A k \in 1 .. Len(s) - 1 : Tail(s)[k] = s[k + 1]
         /\ Range(Tail(s)) = Range(s) \ {Head(s)}
<1>1. /\ Len(s) \in Nat \ {0} /\ Head(s) = s[1]
      /\ Tail(s) \in Seq(S) /\ Len(Tail(s)) = Len(s) - 1
      /\ \A k \in 1 .. Len(s) - 1 : Tail(s)[k] = s[k + 1]
  OBVIOUS
<1>2. IsInjective(Tail(s))
  <2> SUFFICES ASSUME NEW x \in 1 .. Len(s) - 1, NEW y \in 1 .. Len(s) - 1,
                      s[x + 1] = s[y + 1]
               PROVE  x = y
    BY <1>1 DEF IsInjective
  <2>1. x + 1 \in DOMAIN s /\ y + 1 \in DOMAIN s
    BY <1>1
  <2>2. x + 1 = y + 1
    BY <2>1 DEF IsInjective
  <2> QED
    BY <2>2
<1>3. Range(Tail(s)) = {s[k + 1] : k \in 1 .. Len(s) - 1}
  <2>1. DOMAIN Tail(s) = 1 .. Len(s) - 1
    BY <1>1
  <2> QED
    BY <1>1, <2>1, Zenon DEF Range
<1>4. \A v \in Range(s) \ {Head(s)} : \E k \in 1 .. Len(s) - 1 : v = s[k + 1]
  <2> SUFFICES ASSUME NEW j \in 1 .. Len(s), s[j] # s[1]
               PROVE  \E k \in 1 .. Len(s) - 1 : s[j] = s[k + 1]
    BY <1>1 DEF Range
  <2>1. j - 1 \in 1 .. Len(s) - 1 /\ s[j] = s[(j - 1) + 1]
    BY <1>1
  <2> QED
    BY <2>1
<1>5. \A k \in 1 .. Len(s) - 1 : s[k + 1] \in Range(s) /\ s[k + 1] # Head(s)
  <2> SUFFICES ASSUME NEW k \in 1 .. Len(s) - 1
               PROVE  s[k + 1] \in Range(s) /\ s[k + 1] # s[1]
    BY <1>1
  <2>1. k + 1 \in DOMAIN s /\ 1 \in DOMAIN s /\ k + 1 # 1
    BY <1>1
  <2> QED
    BY <2>1 DEF Range, IsInjective
<1> QED
  BY <1>1, <1>2, <1>3, <1>4, <1>5

\* ... for a new element at the end ...
LEMMA AppendDistinct ==
  ASSUME NEW S, NEW s \in Seq(S), IsInjective(s), NEW e \in S, e \notin Range(s)
  PROVE  /\ Append(s, e) \in Seq(S) /\ IsInjective(Append(s, e))
         /\ Len(Append(s, e)) = Len(s) + 1
         /\ \A k \in 1 .. Len(s) : Append(s, e)[k] = s[k]
         /\ Append(s, e)[Len(s) + 1] = e
         /\ Range(Append(s, e)) = Range(s) \cup {e}
<1> DEFINE a == Append(s, e)
<1>1. /\ a \in Seq(S) /\ Len(a) = Len(s) + 1 /\ Len(s) \in Nat
      /\ \A k \in 1 .. Len(s) : a[k] = s[k]
      /\ a[Len(s) + 1] = e
  OBVIOUS
<1>2. DOMAIN a = 1 .. Len(s) + 1 /\ DOMAIN s = 1 .. Len(s)
  BY <1>1
<1> HIDE DEF a
<1>3. \A k \in 1 .. Len(s) + 1 : k \in 1 .. Len(s) \/ k = Len(s) + 1
  BY <1>1
<1>4. \A k \in 1 .. Len(s) : k \in 1 .. Len(s) + 1 /\ k # Len(s) + 1
  BY <1>1
<1>5. Len(s) + 1 \in 1 .. Len(s) + 1
  BY <1>1
<1>6. Range(a) = Range(s) \cup {e}
  BY <1>1, <1>2, <1>3, <1>4, <1>5, Zenon DEF Range
<1>7. IsInjective(a)
  BY <1>1, <1>2, <1>3, Zenon DEF IsInjective, Range
<1> QED
  BY <1>1, <1>6, <1>7 DEF a

\* ... and in front of the others; ...
LEMMA ConsDistinct ==
  ASSUME NEW S, NEW s \in Seq(S), IsInjective(s), NEW e \in S, e \notin Range(s)
  PROVE  /\ <<e>> \o s \in Seq(S) /\ IsInjective(<<e>> \o s)
         /\ Range(<<e>> \o s) = Range(s) \cup {e}
<1> DEFINE a == <<e>> \o s
<1>1. /\ a \in Seq(S) /\ Len(a) = Len(s) + 1 /\ Len(s) \in Nat
      /\ a[1] = e /\ \A k \in 1 .. Len(s) : a[k + 1] = s[k]
  OBVIOUS
<1>2. DOMAIN a = 1 .. Len(s) + 1 /\ DOMAIN s = 1 .. Len(s)
  BY <1>1
<1> HIDE DEF a
<1>3. \A k \in 2 .. Len(s) + 1 : k - 1 \in 1 .. Len(s) /\ a[k] = s[k - 1]
  BY <1>1
<1>4. IsInjective(a)
  <2> SUFFICES ASSUME NEW i \in DOMAIN a, NEW j \in DOMAIN a, a[i] = a[j]
               PROVE  i = j
    BY DEF IsInjective
  <2>1. \A k \in 2 .. Len(s) + 1 : a[k] \in Range(s)
    BY <1>2, <1>3 DEF Range
  <2>2. CASE i = 1
    BY <1>1, <1>2, <2>1, <2>2
  <2>3. CASE j = 1
    BY <1>1, <1>2, <2>1, <2>3
  <2>4. CASE i # 1 /\ j # 1
    <3>1. i \in 2 .. Len(s) + 1 /\ j \in 2 .. Len(s) + 1
      BY <1>1, <1>2, <2>4
    <3>2. i - 1 \in DOMAIN s /\ j - 1 \in DOMAIN s /\ s[i - 1] = s[j - 1]
      BY <1>2, <1>3, <3>1
    <3>3. i - 1 = j - 1
      BY <3>2 DEF IsInjective
    <3> QED
      BY <1>1, <3>1, <3>3
  <2> QED
    BY <2>2, <2>3, <2>4
<1>5. Range(a) = Range(s) \cup {e}
  <2>1. Range(a) \subseteq Range(s) \cup {e}
    <3> SUFFICES ASSUME NEW i \in DOMAIN a
                 PROVE  a[i] \in Range(s) \cup {e}
      BY DEF Range
    <3>1. CASE i = 1
      BY <1>1, <3>1
    <3>2. CASE i # 1
      <4>1. i \in 2 .. Len(s) + 1
        BY <1>1, <1>2, <3>2
      <4> QED
        BY <1>2, <1>3, <4>1 DEF Range
    <3> QED
      BY <3>1, <3>2
  <2>2. e \in Range(a)
    <3>1. 1 \in DOMAIN a
      BY <1>1, <1>2
    <3> QED
      BY <1>1, <3>1 DEF Range
  <2>3. \A k \in DOMAIN s : s[k] \in Range(a)
    <3> SUFFICES ASSUME NEW k \in 1 .. Len(s)
                 PROVE  s[k] \in Range(a)
      BY <1>2
    <3>1. k + 1 \in DOMAIN a /\ a[k + 1] = s[k]
      BY <1>1, <1>2
    <3> QED
      BY <3>1 DEF Range
  <2> QED
    BY <2>1, <2>2, <2>3 DEF Range
<1> QED
  BY <1>1, <1>4, <1>5 DEF a

\* ... or moved to the front.
LEMMA ToFrontDistinct ==
  ASSUME NEW S, NEW s \in Seq(S), IsInjective(s), NEW e \in S
  PROVE  /\ <<e>> \o RemoveFirst(s, e) \in Seq(S) /\ IsInjective(<<e>> \o RemoveFirst(s, e))
         /\ Range(<<e>> \o RemoveFirst(s, e)) = Range(s) \cup {e}
<1>1. PICK r : r = RemoveFirst(s, e)
  OBVIOUS
<1>2. r \in Seq(S) /\ IsInjective(r) /\ Range(r) = Range(s) \ {e}
  BY <1>1, RemoveFirstDistinct
<1>3. /\ <<e>> \o r \in Seq(S) /\ IsInjective(<<e>> \o r)
      /\ Range(<<e>> \o r) = Range(r) \cup {e}
  BY <1>2, ConsDistinct
<1>4. Range(<<e>> \o r) = Range(s) \cup {e}
  BY <1>2, <1>3
<1> QED
  BY <1>1, <1>3, <1>4, Zenon

\* The part of q from p on.
From(q, p) ==
  IF p \in Range(q) THEN SubSeq(q, CHOOSE i \in DOMAIN q : q[i] = p, Len(q)) ELSE <<>>

\* An element and its position.
LEMMA FromAt ==
  ASSUME NEW S, NEW q \in Seq(S), IsInjective(q), NEW i \in 1 .. Len(q)
  PROVE  /\ From(q, q[i]) \in Seq(S)
         /\ Len(From(q, q[i])) = Len(q) - i + 1
         /\ \A j \in 1 .. Len(q) - i + 1 : From(q, q[i])[j] = q[i + j - 1]
<1> DEFINE k == CHOOSE x \in DOMAIN q : q[x] = q[i]
<1>1. q[i] \in Range(q)
  BY RangeIndex
<1>2. i \in DOMAIN q
  OBVIOUS
<1>3. k \in DOMAIN q /\ q[k] = q[i]
  BY <1>2, Zenon
<1>4. k = i
  BY <1>2, <1>3 DEF IsInjective
<1>5. From(q, q[i]) = SubSeq(q, i, Len(q))
  BY <1>1, <1>4 DEF From
<1> QED
  BY <1>5

\* Everything that is ahead of a client is in the queue.
LEMMA FromRange ==
  ASSUME NEW S, NEW q \in Seq(S), IsInjective(q), NEW p
  PROVE  From(q, p) \in Seq(S) /\ Range(From(q, p)) \subseteq Range(q)
<1>1. CASE p \in Range(q)
  <2>1. PICK i \in 1 .. Len(q) : q[i] = p
    BY <1>1, RangeIndex
  <2>2. /\ From(q, p) \in Seq(S)
        /\ Len(From(q, p)) = Len(q) - i + 1
        /\ \A j \in 1 .. Len(q) - i + 1 : From(q, p)[j] = q[i + j - 1]
    BY <2>1, FromAt
  <2>3. ASSUME NEW j \in 1 .. Len(q) - i + 1
        PROVE  From(q, p)[j] \in Range(q)
    <3>1. i + j - 1 \in 1 .. Len(q)
      OBVIOUS
    <3> QED
      BY <2>2, <3>1, RangeIndex
  <2>4. DOMAIN From(q, p) = 1 .. Len(q) - i + 1
    BY <2>2
  <2> QED
    BY <2>2, <2>3, <2>4 DEF Range
<1>2. CASE p \notin Range(q)
  <2>1. From(q, p) = <<>>
    BY <1>2 DEF From
  <2> QED
    BY <2>1 DEF Range
<1> QED
  BY <1>1, <1>2

\* A new last element.
LEMMA FromAppend ==
  ASSUME NEW S, NEW q \in Seq(S), IsInjective(q), NEW e \in S, e \notin Range(q)
  PROVE  /\ From(Append(q, e), e) = <<e>>
         /\ \A p \in Range(q) : From(Append(q, e), p) = Append(From(q, p), e)
<1> DEFINE a == Append(q, e)
<1>1. /\ a \in Seq(S) /\ IsInjective(a) /\ Len(a) = Len(q) + 1 /\ Len(q) \in Nat
      /\ \A k \in 1 .. Len(q) : a[k] = q[k]
      /\ a[Len(q) + 1] = e
  BY AppendDistinct
<1> HIDE DEF a
<1>2. From(a, e) = <<e>>
  <2>1. Len(q) + 1 \in 1 .. Len(a)
    BY <1>1
  <2>2. /\ From(a, e) \in Seq(S) /\ Len(From(a, e)) = 1
        /\ From(a, e)[1] = e
    <3>1. /\ From(a, a[Len(q) + 1]) \in Seq(S)
          /\ Len(From(a, a[Len(q) + 1])) = Len(a) - (Len(q) + 1) + 1
          /\ \A j \in 1 .. Len(a) - (Len(q) + 1) + 1 :
               From(a, a[Len(q) + 1])[j] = a[(Len(q) + 1) + j - 1]
      BY <1>1, <2>1, FromAt
    <3> QED
      BY <1>1, <3>1
  <2> QED
    BY <2>2, SameSeq
<1>3. ASSUME NEW p \in Range(q)
      PROVE  From(a, p) = Append(From(q, p), e)
  <2>1. PICK i \in 1 .. Len(q) : q[i] = p
    BY RangeIndex
  <2>2. i \in 1 .. Len(a) /\ a[i] = p
    BY <1>1, <2>1
  <2>3. /\ From(q, p) \in Seq(S) /\ Len(From(q, p)) = Len(q) - i + 1
        /\ \A j \in 1 .. Len(q) - i + 1 : From(q, p)[j] = q[i + j - 1]
    BY <2>1, FromAt
  <2>4. /\ From(a, p) \in Seq(S) /\ Len(From(a, p)) = Len(a) - i + 1
        /\ \A j \in 1 .. Len(a) - i + 1 : From(a, p)[j] = a[i + j - 1]
    BY <1>1, <2>2, FromAt
  <2> DEFINE f == Append(From(q, p), e)
  <2>5. /\ f \in Seq(S) /\ Len(f) = Len(q) - i + 2
        /\ \A j \in 1 .. Len(q) - i + 1 : f[j] = From(q, p)[j]
        /\ f[Len(q) - i + 2] = e
    <3> DEFINE g == From(q, p)
    <3>1. g \in Seq(S) /\ Len(g) = Len(q) - i + 1 /\ Len(q) - i + 1 \in Nat
      BY <1>1, <2>3
    <3> HIDE DEF g
    <3>2. /\ Append(g, e) \in Seq(S) /\ Len(Append(g, e)) = Len(g) + 1
          /\ \A j \in 1 .. Len(g) : Append(g, e)[j] = g[j]
          /\ Append(g, e)[Len(g) + 1] = e
      BY <3>1
    <3> QED
      BY <3>1, <3>2 DEF g
  <2> HIDE DEF f
  <2>6. ASSUME NEW j \in 1 .. Len(q) - i + 2
        PROVE  From(a, p)[j] = f[j]
    <3>1. j \in 1 .. Len(a) - i + 1
      BY <1>1
    <3>2. From(a, p)[j] = a[i + j - 1]
      BY <2>4, <3>1
    <3>3. CASE j = Len(q) - i + 2
      BY <1>1, <2>5, <3>2, <3>3
    <3>4. CASE j # Len(q) - i + 2
      <4>1. j \in 1 .. Len(q) - i + 1 /\ i + j - 1 \in 1 .. Len(q)
        BY <1>1, <3>4
      <4> QED
        BY <1>1, <2>3, <2>5, <3>2, <4>1
    <3> QED
      BY <3>3, <3>4
  <2>7. Len(From(a, p)) = Len(f)
    BY <1>1, <2>4, <2>5
  <2>8. From(a, p) = f
    BY <2>4, <2>5, <2>6, <2>7, SameSeq
  <2> QED
    BY <2>8 DEF f
<1> QED
  BY <1>2, <1>3 DEF a

\* The first element goes; those who do not point to it notice nothing.
LEMMA FromTail ==
  ASSUME NEW S, NEW q \in Seq(S), IsInjective(q), q # <<>>, NEW p, p # Head(q)
  PROVE  From(Tail(q), p) = From(q, p)
<1> DEFINE t == Tail(q)
<1>1. /\ t \in Seq(S) /\ IsInjective(t) /\ Len(t) = Len(q) - 1 /\ Len(q) \in Nat \ {0}
      /\ \A k \in 1 .. Len(q) - 1 : t[k] = q[k + 1]
      /\ Head(q) = q[1] /\ Range(t) = Range(q) \ {Head(q)}
  BY TailDistinct
<1> HIDE DEF t
<1>2. CASE p \in Range(t)
  <2>1. PICK i \in 1 .. Len(t) : t[i] = p
    BY <1>1, <1>2, RangeIndex
  <2>2. i + 1 \in 1 .. Len(q) /\ q[i + 1] = p
    BY <1>1, <2>1
  <2>3. /\ From(t, p) \in Seq(S) /\ Len(From(t, p)) = Len(t) - i + 1
        /\ \A j \in 1 .. Len(t) - i + 1 : From(t, p)[j] = t[i + j - 1]
    <3>0. t \in Seq(S) /\ IsInjective(t) /\ i \in 1 .. Len(t)
      BY <1>1, <2>1
    <3>1. /\ From(t, t[i]) \in Seq(S) /\ Len(From(t, t[i])) = Len(t) - i + 1
          /\ \A j \in 1 .. Len(t) - i + 1 : From(t, t[i])[j] = t[i + j - 1]
      BY <3>0, FromAt
    <3> QED
      BY <2>1, <3>1, Zenon
  <2>4. /\ From(q, p) \in Seq(S) /\ Len(From(q, p)) = Len(q) - (i + 1) + 1
        /\ \A j \in 1 .. Len(q) - (i + 1) + 1 : From(q, p)[j] = q[(i + 1) + j - 1]
    <3>1. /\ From(q, q[i + 1]) \in Seq(S)
          /\ Len(From(q, q[i + 1])) = Len(q) - (i + 1) + 1
          /\ \A j \in 1 .. Len(q) - (i + 1) + 1 : From(q, q[i + 1])[j] = q[(i + 1) + j - 1]
      BY <2>2, FromAt, Zenon
    <3> QED
      BY <2>2, <3>1, Zenon
  <2>5. ASSUME NEW j \in 1 .. Len(t) - i + 1
        PROVE  From(t, p)[j] = From(q, p)[j]
    <3>1. i + j - 1 \in 1 .. Len(q) - 1 /\ j \in 1 .. Len(q) - (i + 1) + 1
      BY <1>1
    <3>2. t[i + j - 1] = q[(i + j - 1) + 1] /\ (i + j - 1) + 1 = (i + 1) + j - 1
      BY <1>1, <3>1
    <3> QED
      BY <2>3, <2>4, <3>1, <3>2
  <2>6. Len(From(t, p)) = Len(From(q, p))
    BY <1>1, <2>3, <2>4
  <2> QED
    BY <2>3, <2>4, <2>5, <2>6, SameSeq DEF t
<1>3. CASE p \notin Range(t)
  BY <1>1, <1>3 DEF From, t
<1> QED
  BY <1>2, <1>3

\* The next element is where the rest begins.
LEMMA FromNext ==
  ASSUME NEW S, NEW q \in Seq(S), IsInjective(q), NEW i \in 1 .. Len(q)
  PROVE  /\ From(q, q[i]) # <<>>
         /\ Tail(From(q, q[i])) = IF i < Len(q) THEN From(q, q[i + 1]) ELSE <<>>
<1> DEFINE f == From(q, q[i])
           t == Tail(f)
<1>1. /\ f \in Seq(S) /\ Len(f) = Len(q) - i + 1 /\ Len(q) \in Nat
      /\ \A j \in 1 .. Len(q) - i + 1 : f[j] = q[i + j - 1]
  BY FromAt
<1> HIDE DEF f
<1>2. f # <<>>
  BY <1>1
<1>3. /\ t \in Seq(S) /\ Len(t) = Len(q) - i
      /\ \A j \in 1 .. Len(q) - i : t[j] = f[j + 1]
  BY <1>1, <1>2
<1> HIDE DEF t
<1>4. CASE i < Len(q)
  <2>1. i + 1 \in 1 .. Len(q)
    BY <1>4
  <2> DEFINE g == From(q, q[i + 1])
  <2>2. /\ g \in Seq(S) /\ Len(g) = Len(q) - (i + 1) + 1
        /\ \A j \in 1 .. Len(q) - (i + 1) + 1 : g[j] = q[(i + 1) + j - 1]
    BY <2>1, FromAt
  <2> HIDE DEF g
  <2>3. ASSUME NEW j \in 1 .. Len(q) - i
        PROVE  t[j] = g[j]
    <3>1. j + 1 \in 1 .. Len(q) - i + 1 /\ j \in 1 .. Len(q) - (i + 1) + 1
          /\ i + (j + 1) - 1 = (i + 1) + j - 1
      BY <1>1
    <3> QED
      BY <1>1, <1>3, <2>2, <3>1
  <2>4. Len(t) = Len(g)
    BY <1>1, <1>3, <2>2
  <2>5. t = g
    BY <1>3, <2>2, <2>3, <2>4, SameSeq
  <2> QED
    BY <1>2, <1>4, <2>5 DEF f, g, t
<1>5. CASE ~(i < Len(q))
  <2>1. Len(t) = 0
    BY <1>1, <1>3, <1>5
  <2>2. t = <<>>
    BY <1>3, <2>1
  <2> QED
    BY <1>2, <1>5, <2>2 DEF f, t
<1> QED
  BY <1>4, <1>5

\* The part of a list without repetitions is such a list.
LEMMA FromDistinct ==
  ASSUME NEW S, NEW q \in Seq(S), IsInjective(q), NEW p
  PROVE  From(q, p) \in Seq(S) /\ IsInjective(From(q, p))
<1>1. CASE p \in Range(q)
  <2>1. PICK i \in 1 .. Len(q) : q[i] = p
    BY <1>1, RangeIndex
  <2>2. /\ From(q, p) \in Seq(S) /\ Len(From(q, p)) = Len(q) - i + 1
        /\ \A j \in 1 .. Len(q) - i + 1 : From(q, p)[j] = q[i + j - 1]
    BY <2>1, FromAt
  <2>3. SUFFICES ASSUME NEW x \in 1 .. Len(q) - i + 1, NEW y \in 1 .. Len(q) - i + 1,
                        q[i + x - 1] = q[i + y - 1]
                 PROVE  x = y
    BY <2>2 DEF IsInjective
  <2>4. i + x - 1 \in DOMAIN q /\ i + y - 1 \in DOMAIN q
    OBVIOUS
  <2>5. i + x - 1 = i + y - 1
    BY <2>3, <2>4 DEF IsInjective
  <2> QED
    BY <2>5
<1>2. CASE p \notin Range(q)
  BY <1>2 DEF From, IsInjective
<1> QED
  BY <1>1, <1>2

\* An element goes; those behind it are not concerned, ...
LEMMA FromRemoveBefore ==
  ASSUME NEW S, NEW q \in Seq(S), IsInjective(q),
         NEW i \in 1 .. Len(q), NEW k \in 1 .. Len(q), i < k
  PROVE  /\ From(RemoveAt(q, i), q[k]) = From(q, q[k])
         /\ q[i] \notin Range(From(q, q[k]))
<1> DEFINE r == RemoveAt(q, i)
           f == From(q, q[k])
<1>1. /\ r \in Seq(S) /\ IsInjective(r) /\ Len(r) = Len(q) - 1 /\ Len(q) \in Nat
      /\ \A j \in 1 .. Len(q) - 1 : r[j] = IF j < i THEN q[j] ELSE q[j + 1]
  BY RemoveAtDistinct
<1> HIDE DEF r
<1>2. /\ f \in Seq(S) /\ Len(f) = Len(q) - k + 1
      /\ \A j \in 1 .. Len(q) - k + 1 : f[j] = q[k + j - 1]
  BY FromAt
<1> HIDE DEF f
<1>3. k - 1 \in 1 .. Len(r) /\ ~(k - 1 < i) /\ (k - 1) + 1 = k
  BY <1>1
<1>4. r[k - 1] = q[k]
  BY <1>1, <1>3
<1> DEFINE g == From(r, r[k - 1])
<1>5. /\ g \in Seq(S) /\ Len(g) = Len(r) - (k - 1) + 1
      /\ \A j \in 1 .. Len(r) - (k - 1) + 1 : g[j] = r[(k - 1) + j - 1]
  <2>1. r \in Seq(S) /\ IsInjective(r) /\ k - 1 \in 1 .. Len(r)
    BY <1>1, <1>3
  <2> QED
    BY <2>1, FromAt
<1> HIDE DEF g
<1>6. ASSUME NEW j \in 1 .. Len(q) - k + 1
      PROVE  g[j] = f[j] /\ f[j] # q[i]
  <2>1. /\ (k - 1) + j - 1 \in 1 .. Len(q) - 1 /\ ~((k - 1) + j - 1 < i)
        /\ ((k - 1) + j - 1) + 1 = k + j - 1
        /\ k + j - 1 \in 1 .. Len(q) /\ k + j - 1 # i
        /\ j \in 1 .. Len(r) - (k - 1) + 1
    BY <1>1
  <2>2. q[k + j - 1] # q[i]
    BY <2>1 DEF IsInjective
  <2> QED
    BY <1>1, <1>2, <1>5, <2>1, <2>2
<1>7. g = f
  <2>1. Len(g) = Len(f)
    BY <1>1, <1>2, <1>5
  <2> QED
    BY <1>2, <1>5, <1>6, <2>1, SameSeq
<1>8. q[i] \notin Range(f)
  BY <1>2, <1>6, RangeIndex
<1> QED
  BY <1>4, <1>7, <1>8 DEF f, g, r

\* ... those before it lose one of the elements that follow.
LEMMA FromRemove ==
  ASSUME NEW S, NEW q \in Seq(S), IsInjective(q), NEW i \in 1 .. Len(q), NEW p, p # q[i]
  PROVE  From(RemoveAt(q, i), p) = RemoveFirst(From(q, p), q[i])
<1> DEFINE r == RemoveAt(q, i)
           f == From(q, p)
<1>1. /\ r \in Seq(S) /\ IsInjective(r) /\ Len(r) = Len(q) - 1 /\ Len(q) \in Nat
      /\ \A j \in 1 .. Len(q) - 1 : r[j] = IF j < i THEN q[j] ELSE q[j + 1]
      /\ Range(r) = Range(q) \ {q[i]}
  BY RemoveAtDistinct
<1>2. f \in Seq(S) /\ IsInjective(f)
  BY FromDistinct
<1>3. CASE p \notin Range(q)
  <2>1. f = <<>> /\ From(r, p) = <<>>
    BY <1>1, <1>3 DEF From
  <2> HIDE DEF f, r
  <2>2. q[i] \notin Range(f)
    BY <2>1 DEF Range
  <2> QED
    BY <1>2, <2>1, <2>2, RemoveFirstNot DEF f, r
<1>4. CASE p \in Range(q)
  <2>1. PICK k \in 1 .. Len(q) : q[k] = p
    BY <1>4, RangeIndex
  <2>2. CASE i < k
    <3>1. From(RemoveAt(q, i), q[k]) = From(q, q[k]) /\ q[i] \notin Range(From(q, q[k]))
      BY <2>2, FromRemoveBefore
    <3> QED
      BY <1>2, <2>1, <3>1, RemoveFirstNot
  <2>3. CASE k < i
    <3>1. /\ Len(f) = Len(q) - k + 1
          /\ \A j \in 1 .. Len(q) - k + 1 : f[j] = q[k + j - 1]
      BY <2>1, FromAt
    <3>2. k \in 1 .. Len(r) /\ r[k] = p
      BY <1>1, <2>1, <2>3
    <3> HIDE DEF f, r
    <3>3. /\ From(r, r[k]) \in Seq(S) /\ Len(From(r, r[k])) = Len(r) - k + 1
          /\ \A j \in 1 .. Len(r) - k + 1 : From(r, r[k])[j] = r[k + j - 1]
      <4>1. r \in Seq(S) /\ IsInjective(r) /\ k \in 1 .. Len(r)
        BY <1>1, <3>2
      <4> QED
        BY <4>1, FromAt
    <3> DEFINE g == From(r, p)
               n == i - k + 1
               h == RemoveAt(f, n)
    <3>4. g \in Seq(S) /\ Len(g) = Len(q) - k
          /\ \A j \in 1 .. Len(q) - k : g[j] = r[k + j - 1]
      BY <1>1, <3>2, <3>3
    <3> HIDE DEF g
    <3>5. n \in 1 .. Len(f) /\ n \in DOMAIN f /\ f[n] = q[i]
      <4>1. Len(q) \in Nat /\ n \in 1 .. Len(q) - k + 1 /\ k + n - 1 = i
        BY <1>2, <2>1, <2>3
      <4>2. f[n] = q[i] /\ n \in 1 .. Len(f)
        BY <3>1, <4>1
      <4> QED
        BY <1>2, <4>2
    <3>6. /\ h \in Seq(S) /\ Len(h) = Len(q) - k
          /\ \A j \in 1 .. Len(q) - k : h[j] = IF j < n THEN f[j] ELSE f[j + 1]
      <4> HIDE DEF n
      <4>1. /\ h \in Seq(S) /\ Len(h) = Len(f) - 1
            /\ \A j \in 1 .. Len(f) - 1 : h[j] = IF j < n THEN f[j] ELSE f[j + 1]
        <5>1. f \in Seq(S) /\ IsInjective(f) /\ n \in DOMAIN f
          BY <1>2, <3>5
        <5> HIDE DEF f
        <5> QED
          BY <5>1, RemoveAtDistinct
      <4> QED
        BY <3>1, <4>1
    <3>7. RemoveFirst(f, q[i]) = h
      BY <1>2, <3>5, RemoveFirstAt
    <3> HIDE DEF h
    <3>8. ASSUME NEW j \in 1 .. Len(q) - k
          PROVE  g[j] = h[j]
      <4>1. /\ k + j - 1 \in 1 .. Len(q) - 1
            /\ (k + j - 1 < i <=> j < n)
            /\ j \in 1 .. Len(q) - k + 1 /\ j + 1 \in 1 .. Len(q) - k + 1
            /\ (k + j - 1) + 1 = k + (j + 1) - 1
        BY <1>1
      <4>2. g[j] = IF j < n THEN q[k + j - 1] ELSE q[(k + j - 1) + 1]
        BY <1>1, <3>4, <4>1
      <4>3. h[j] = IF j < n THEN q[k + j - 1] ELSE q[k + (j + 1) - 1]
        BY <3>1, <3>6, <4>1
      <4> QED
        BY <4>1, <4>2, <4>3
    <3>9. g = h
      BY <3>4, <3>6, <3>8, SameSeq
    <3> QED
      BY <3>7, <3>9 DEF f, g, r
  <2> QED
    BY <2>1, <2>2, <2>3
<1> QED
  BY <1>3, <1>4

-----------------------------------------------------------------------------
\* The element after b, or e if there is none.
SuccIn(q, b, e) ==
  IF \E i \in 1 .. Len(q) - 1 : q[i] = b
  THEN q[1 + CHOOSE i \in 1 .. Len(q) - 1 : q[i] = b]
  ELSE e

\* The position of the successor.
LEMMA SuccAt ==
  ASSUME NEW S, NEW q \in Seq(S), IsInjective(q), NEW i \in 1 .. Len(q), NEW e
  PROVE  SuccIn(q, q[i], e) = IF i < Len(q) THEN q[i + 1] ELSE e
<1>1. CASE i < Len(q)
  <2> DEFINE k == CHOOSE x \in 1 .. Len(q) - 1 : q[x] = q[i]
  <2>1. i \in 1 .. Len(q) - 1
    BY <1>1
  <2>2. k \in 1 .. Len(q) - 1 /\ q[k] = q[i]
    BY <2>1, Zenon
  <2>3. k = i
    <3> HIDE DEF k
    <3> QED
      BY <2>2 DEF IsInjective
  <2>4. SuccIn(q, q[i], e) = q[1 + k]
    BY <2>1 DEF SuccIn
  <2> HIDE DEF k
  <2> QED
    BY <1>1, <2>3, <2>4
<1>2. CASE ~(i < Len(q))
  <2>1. \A k \in 1 .. Len(q) - 1 : q[k] # q[i]
    BY <1>2 DEF IsInjective
  <2> QED
    BY <1>2, <2>1 DEF SuccIn
<1> QED
  BY <1>1, <1>2

\* A new last element is the successor of the one before.
LEMMA SuccAppend ==
  ASSUME NEW S, NEW q \in Seq(S), IsInjective(q), NEW b \in S, b \notin Range(q),
         NEW e, e \notin S, NEW x \in Range(q)
  PROVE  SuccIn(Append(q, b), x, e) = IF SuccIn(q, x, e) = e THEN b ELSE SuccIn(q, x, e)
<1> DEFINE a == Append(q, b)
<1>1. /\ a \in Seq(S) /\ IsInjective(a) /\ Len(a) = Len(q) + 1 /\ Len(q) \in Nat
      /\ \A k \in 1 .. Len(q) : a[k] = q[k]
      /\ a[Len(q) + 1] = b
  BY AppendDistinct
<1> HIDE DEF a
<1>2. PICK i \in 1 .. Len(q) : q[i] = x
  BY RangeIndex
<1>3. i \in 1 .. Len(a) /\ a[i] = x
  BY <1>1, <1>2
<1>4. SuccIn(q, x, e) = IF i < Len(q) THEN q[i + 1] ELSE e
  BY <1>2, SuccAt
<1>5. SuccIn(a, x, e) = IF i < Len(a) THEN a[i + 1] ELSE e
  <2>1. SuccIn(a, a[i], e) = IF i < Len(a) THEN a[i + 1] ELSE e
    BY <1>1, <1>3, SuccAt
  <2> QED
    BY <1>3, <2>1
<1>6. CASE i < Len(q)
  <2>1. i + 1 \in 1 .. Len(q) /\ q[i + 1] \in S
    BY <1>6
  <2> QED
    BY <1>1, <1>4, <1>5, <1>6, <2>1 DEF a
<1>7. CASE i = Len(q)
  BY <1>1, <1>4, <1>5, <1>7 DEF a
<1> QED
  BY <1>6, <1>7

\* When an element is removed the one before it gets its successor.
LEMMA SuccRemove ==
  ASSUME NEW S, NEW q \in Seq(S), IsInjective(q), NEW i \in 1 .. Len(q),
         NEW e, e \notin S, NEW x \in Range(q), x # q[i]
  PROVE  SuccIn(RemoveAt(q, i), x, e)
           = IF SuccIn(q, x, e) = q[i] THEN SuccIn(q, q[i], e) ELSE SuccIn(q, x, e)
<1> DEFINE r == RemoveAt(q, i)
<1>1. /\ r \in Seq(S) /\ IsInjective(r) /\ Len(r) = Len(q) - 1 /\ Len(q) \in Nat
      /\ \A j \in 1 .. Len(q) - 1 : r[j] = IF j < i THEN q[j] ELSE q[j + 1]
  BY RemoveAtDistinct
<1> HIDE DEF r
<1>2. PICK k \in 1 .. Len(q) : q[k] = x
  BY RangeIndex
<1>3. k # i
  BY <1>2
<1>4. /\ SuccIn(q, x, e) = IF k < Len(q) THEN q[k + 1] ELSE e
      /\ SuccIn(q, q[i], e) = IF i < Len(q) THEN q[i + 1] ELSE e
  BY <1>2, SuccAt
<1> DEFINE m == IF k < i THEN k ELSE k - 1
<1>5. m \in 1 .. Len(r) /\ r[m] = x
  BY <1>1, <1>2, <1>3
<1>6. SuccIn(r, x, e) = IF m < Len(r) THEN r[m + 1] ELSE e
  <2> HIDE DEF m
  <2>1. SuccIn(r, r[m], e) = IF m < Len(r) THEN r[m + 1] ELSE e
    <3>1. r \in Seq(S) /\ IsInjective(r) /\ m \in 1 .. Len(r)
      BY <1>1, <1>5
    <3> QED
      BY <3>1, SuccAt
  <2> QED
    BY <1>5, <2>1
<1>7. q[i] \in S /\ q[i] # e
  OBVIOUS
<1>8. CASE k + 1 = i
  <2>1. SuccIn(q, x, e) = q[i] /\ m = k
    BY <1>4, <1>8
  <2>2. SuccIn(r, x, e) = IF i < Len(q) THEN q[i + 1] ELSE e
    BY <1>1, <1>6, <1>8, <2>1
  <2> QED
    BY <1>4, <2>1, <2>2 DEF r
<1>9. CASE k + 1 # i
  <2>1. SuccIn(q, x, e) # q[i]
    BY <1>4, <1>7, <1>9 DEF IsInjective
  <2>2. SuccIn(r, x, e) = IF k < Len(q) THEN q[k + 1] ELSE e
    <3>1. CASE k < i
      BY <1>1, <1>6, <1>9, <3>1
    <3>2. CASE i < k
      BY <1>1, <1>6, <1>9, <3>2
    <3> QED
      BY <1>3, <3>1, <3>2
  <2> QED
    BY <1>4, <2>1, <2>2 DEF r
<1> QED
  BY <1>8, <1>9

-----------------------------------------------------------------------------
\* Induction on the natural numbers, as a fact about sets.
LEMMA NatSetInduction ==
  ASSUME NEW T, 0 \in T, \A n \in Nat : n \in T => n + 1 \in T
  PROVE  Nat \subseteq T
<1> SUFFICES ASSUME Nat \ T # {} PROVE FALSE
  OBVIOUS
<1>1. PICK x \in Nat \ T : \A y \in Nat \ T : <<y, x>> \notin OpToRel(<, Nat)
  <2>1. IsWellFoundedOn(OpToRel(<, Nat), Nat)
    BY NatLessThanWellFounded, Zenon
  <2>2. Nat \ T \subseteq Nat
    OBVIOUS
  <2> QED
    BY <2>1, <2>2, WFMin, Zenon
<1>2. \A y \in Nat \ T : ~(y < x)
  BY <1>1, Zenon DEF OpToRel
<1>3. x \in Nat /\ x # 0
  BY <1>1
<1>4. x - 1 \in Nat /\ x - 1 < x /\ (x - 1) + 1 = x
  BY <1>3
<1>5. x - 1 \in T
  BY <1>2, <1>4
<1> QED
  BY <1>1, <1>4, <1>5

\* The last of some first positions.
LEMMA LastPosition ==
  ASSUME NEW n \in Nat, NEW s \in SUBSET (1 .. n + 1), s \notin SUBSET (1 .. n)
  PROVE  Max(s) = n + 1 /\ s # {} /\ s \ {n + 1} \in SUBSET (1 .. n)
<1>1. n + 1 \in s
  OBVIOUS
<1>2. \A x \in s : n + 1 >= x /\ x \in Int
  OBVIOUS
<1>3. \A x \in s : x >= n + 1 => x = n + 1
  BY <1>2
<1>4. Max(s) \in s /\ \A y \in s : Max(s) >= y
  <2>1. \E x \in s : \A y \in s : x >= y
    BY <1>1, <1>2
  <2> QED
    BY <2>1, Zenon DEF Max
<1>5. s \ {n + 1} \in SUBSET (1 .. n)
  BY <1>2
<1>6. Max(s) = n + 1
  BY <1>1, <1>3, <1>4
<1> QED
  BY <1>1, <1>5, <1>6

\* The last of some positions of a sequence is one of them.
LEMMA MaxPosition ==
  ASSUME NEW S, NEW L \in Seq(S), NEW s \in SUBSET DOMAIN L, s # {}
  PROVE  Max(s) \in s
<1> DEFINE N == {n \in Nat : \A t \in SUBSET (1 .. n) : t # {} => Max(t) \in t}
<1>1. 0 \in N
  <2>1. \A t \in SUBSET (1 .. 0) : t = {}
    OBVIOUS
  <2> QED
    BY <2>1
<1>2. ASSUME NEW n \in Nat, n \in N
      PROVE  n + 1 \in N
  <2> SUFFICES ASSUME NEW t \in SUBSET (1 .. n + 1), t # {}
               PROVE  Max(t) \in t
    OBVIOUS
  <2>1. CASE t \in SUBSET (1 .. n)
    BY <1>2, <2>1
  <2>2. CASE t \notin SUBSET (1 .. n)
    <3>1. Max(t) = n + 1
      BY <2>2, LastPosition
    <3>2. n + 1 \in t
      BY <2>2
    <3> QED
      BY <3>1, <3>2
  <2> QED
    BY <2>1, <2>2
<1> HIDE DEF N
<1>3. Nat \subseteq N
  BY <1>1, <1>2, NatSetInduction
<1>4. Len(L) \in N /\ DOMAIN L = 1 .. Len(L)
  BY <1>3
<1> QED
  BY <1>4 DEF N

\* FoldLeft(Op, b, L) is g[DOMAIN L] for the g that satisfies this equation, with
\* F[<<x, e>>] for Op(x, e).
IsFold(g, F, b, L) ==
  \A s \in SUBSET DOMAIN L :
    g[s] = IF s = {} THEN b ELSE F[<<g[s \ {Max(s)}], L[Max(s)]>>]

\* There is one, ...
LEMMA FoldExists ==
  ASSUME NEW T, NEW S, NEW F \in [T \X S -> T], NEW L \in Seq(S), NEW b \in T
  PROVE  \E g \in [SUBSET DOMAIN L -> T] : IsFold(g, F, b, L)
<1> DEFINE Upto(n, g) == \A s \in SUBSET (1 .. n) :
                           g[s] = IF s = {} THEN b ELSE F[<<g[s \ {Max(s)}], L[Max(s)]>>]
           N == {n \in Nat : n <= Len(L) => \E g \in [SUBSET (1 .. n) -> T] : Upto(n, g)}
<1>1. 0 \in N
  <2>1. PICK g : g = [s \in SUBSET (1 .. 0) |-> b]
    OBVIOUS
  <2>2. g \in [SUBSET (1 .. 0) -> T]
    BY <2>1
  <2>3. \A s \in SUBSET (1 .. 0) : s = {} /\ g[s] = b
    BY <2>1
  <2>4. Upto(0, g)
    BY <2>3
  <2> QED
    BY <2>2, <2>4
<1>2. ASSUME NEW n \in Nat, n \in N
      PROVE  n + 1 \in N
  <2>0. n + 1 \in Nat /\ (n + 1 <= Len(L) => n <= Len(L))
    OBVIOUS
  <2> SUFFICES ASSUME n + 1 <= Len(L)
               PROVE  \E h \in [SUBSET (1 .. n + 1) -> T] : Upto(n + 1, h)
    BY <2>0, Zenon
  <2>1. PICK g \in [SUBSET (1 .. n) -> T] : Upto(n, g)
    BY <1>2, <2>0, Zenon
  <2>2. L[n + 1] \in S
    OBVIOUS
  <2> DEFINE v(s) == F[<<g[s \ {n + 1}], L[n + 1]>>]
  <2>3. PICK h : h = [s \in SUBSET (1 .. n + 1) |-> IF s \in SUBSET (1 .. n) THEN g[s] ELSE v(s)]
    OBVIOUS
  <2>4. \A s \in SUBSET (1 .. n + 1) : s \notin SUBSET (1 .. n) =>
          /\ Max(s) = n + 1 /\ s # {} /\ s \ {n + 1} \in SUBSET (1 .. n)
          /\ v(s) \in T
    <3> SUFFICES ASSUME NEW s \in SUBSET (1 .. n + 1), s \notin SUBSET (1 .. n)
                 PROVE  /\ Max(s) = n + 1 /\ s # {} /\ s \ {n + 1} \in SUBSET (1 .. n)
                        /\ v(s) \in T
      OBVIOUS
    <3>1. Max(s) = n + 1 /\ s # {} /\ s \ {n + 1} \in SUBSET (1 .. n)
      BY LastPosition
    <3>2. g[s \ {n + 1}] \in T
      BY <2>1, <3>1
    <3> QED
      BY <2>2, <3>1, <3>2
  <2>5. h \in [SUBSET (1 .. n + 1) -> T]
    <3>1. \A s \in SUBSET (1 .. n + 1) : h[s] \in T
      BY <2>1, <2>3, <2>4
    <3> QED
      BY <2>3, <3>1
  <2>6. \A s \in SUBSET (1 .. n) : h[s] = g[s] /\ s \in SUBSET (1 .. n + 1)
    <3>1. 1 .. n \subseteq 1 .. n + 1
      OBVIOUS
    <3> QED
      BY <2>3, <3>1
  <2>7. ASSUME NEW s \in SUBSET (1 .. n + 1)
        PROVE  h[s] = IF s = {} THEN b ELSE F[<<h[s \ {Max(s)}], L[Max(s)]>>]
    <3>1. CASE s \in SUBSET (1 .. n)
      <4>1. s \ {Max(s)} \in SUBSET (1 .. n)
        BY <3>1
      <4> QED
        BY <2>1, <2>6, <3>1, <4>1
    <3>2. CASE s \notin SUBSET (1 .. n)
      <4>1. Max(s) = n + 1 /\ s # {} /\ s \ {n + 1} \in SUBSET (1 .. n)
        BY <2>4, <3>2
      <4>2. h[s] = v(s)
        BY <2>3, <3>2
      <4>3. h[s \ {n + 1}] = g[s \ {n + 1}]
        BY <2>6, <4>1
      <4> QED
        BY <4>1, <4>2, <4>3
    <3> QED
      BY <3>1, <3>2
  <2> QED
    BY <2>5, <2>7
<1> HIDE DEF N
<1>3. Nat \subseteq N
  BY <1>1, <1>2, NatSetInduction
<1>4. Len(L) \in N /\ Len(L) <= Len(L) /\ DOMAIN L = 1 .. Len(L)
  BY <1>3
<1> QED
  BY <1>4 DEF N, IsFold

\* ... and what Op(x, e) preserves holds of all its values.
LEMMA FoldTyped ==
  ASSUME NEW T, NEW S, NEW L \in Seq(S), NEW g,
         g[{}] \in T,
         \A s \in SUBSET DOMAIN L : s # {} /\ g[s \ {Max(s)}] \in T /\ Max(s) \in DOMAIN L
                                      => g[s] \in T
  PROVE  \A s \in SUBSET DOMAIN L : g[s] \in T
<1> DEFINE N == {n \in Nat : n <= Len(L) => \A s \in SUBSET (1 .. n) : g[s] \in T}
<1>1. 0 \in N
  <2>1. \A s \in SUBSET (1 .. 0) : s = {}
    OBVIOUS
  <2> QED
    BY <2>1
<1>2. ASSUME NEW n \in Nat, n \in N
      PROVE  n + 1 \in N
  <2> SUFFICES ASSUME n + 1 <= Len(L), NEW s \in SUBSET (1 .. n + 1)
               PROVE  g[s] \in T
    BY <1>2
  <2>1. CASE s \in SUBSET (1 .. n)
    BY <1>2, <2>1
  <2>2. CASE s \notin SUBSET (1 .. n)
    <3>1. Max(s) = n + 1 /\ s # {} /\ s \ {n + 1} \in SUBSET (1 .. n)
      BY <2>2, LastPosition
    <3>2. g[s \ {Max(s)}] \in T
      BY <1>2, <3>1
    <3>3. s \in SUBSET DOMAIN L /\ n + 1 \in DOMAIN L
      OBVIOUS
    <3> QED
      BY <3>1, <3>2, <3>3
  <2> QED
    BY <2>1, <2>2
<1> HIDE DEF N
<1>3. Nat \subseteq N
  BY <1>1, <1>2, NatSetInduction
<1>4. Len(L) \in N /\ Len(L) <= Len(L) /\ DOMAIN L = 1 .. Len(L)
  BY <1>3
<1> QED
  BY <1>4 DEF N

\* What holds of the values may also depend on the positions J[s] that were visited.
LEMMA FoldKeeps ==
  ASSUME NEW S, NEW L \in Seq(S), NEW J, NEW g,
         g[{}] \in J[{}],
         \A s \in SUBSET DOMAIN L :
           s # {} /\ Max(s) \in s /\ g[s \ {Max(s)}] \in J[s \ {Max(s)}] => g[s] \in J[s]
  PROVE  \A s \in SUBSET DOMAIN L : g[s] \in J[s]
<1> DEFINE N == {n \in Nat : n <= Len(L) => \A s \in SUBSET (1 .. n) : g[s] \in J[s]}
<1>1. 0 \in N
  <2>1. \A s \in SUBSET (1 .. 0) : s = {}
    OBVIOUS
  <2> QED
    BY <2>1
<1>2. ASSUME NEW n \in Nat, n \in N
      PROVE  n + 1 \in N
  <2> SUFFICES ASSUME n + 1 <= Len(L), NEW s \in SUBSET (1 .. n + 1)
               PROVE  g[s] \in J[s]
    BY <1>2
  <2>1. CASE s \in SUBSET (1 .. n)
    BY <1>2, <2>1
  <2>2. CASE s \notin SUBSET (1 .. n)
    <3>1. Max(s) = n + 1 /\ s # {} /\ s \ {n + 1} \in SUBSET (1 .. n) /\ n + 1 \in s
      BY <2>2, LastPosition
    <3>2. g[s \ {Max(s)}] \in J[s \ {Max(s)}]
      BY <1>2, <3>1
    <3>3. s \in SUBSET DOMAIN L
      OBVIOUS
    <3> QED
      BY <3>1, <3>2, <3>3
  <2> QED
    BY <2>1, <2>2
<1> HIDE DEF N
<1>3. Nat \subseteq N
  BY <1>1, <1>2, NatSetInduction
<1>4. Len(L) \in N /\ Len(L) <= Len(L) /\ DOMAIN L = 1 .. Len(L)
  BY <1>3
<1> QED
  BY <1>4 DEF N

\* If what F[<<x, e>>] does is only known of such x, there is a fold all the same.
LEMMA FoldReach ==
  ASSUME NEW T, NEW S, NEW L \in Seq(S), NEW F, NEW b, NEW J,
         b \in J[{}],
         \A s \in SUBSET DOMAIN L :
           s # {} /\ Max(s) \in s => \A x \in J[s \ {Max(s)}] : F[<<x, L[Max(s)]>>] \in J[s],
         \A s \in SUBSET DOMAIN L : J[s] \subseteq T
  PROVE  \E g \in [SUBSET DOMAIN L -> T] :
           IsFold(g, F, b, L) /\ \A s \in SUBSET DOMAIN L : g[s] \in J[s]
<1> DEFINE G == [p \in T \X S |-> IF F[p] \in T THEN F[p] ELSE b]
<1>1. {} \in SUBSET DOMAIN L /\ b \in T
  OBVIOUS
<1>2. G \in [T \X S -> T]
  BY <1>1
<1>3. PICK g \in [SUBSET DOMAIN L -> T] : IsFold(g, G, b, L)
  BY <1>1, <1>2, FoldExists, Zenon
<1>4. ASSUME NEW s \in SUBSET DOMAIN L, s # {}, Max(s) \in s,
             g[s \ {Max(s)}] \in J[s \ {Max(s)}]
      PROVE  g[s] \in J[s] /\ g[s] = F[<<g[s \ {Max(s)}], L[Max(s)]>>]
  <2>1. PICK m : m = Max(s)
    OBVIOUS
  <2>2. PICK x : x = g[s \ {m}]
    OBVIOUS
  <2>3. m \in s /\ m \in DOMAIN L /\ s \ {m} \in SUBSET DOMAIN L /\ L[m] \in S
    BY <1>4, <2>1
  <2>4. x \in J[s \ {m}] /\ x \in T
    BY <1>4, <2>1, <2>2, <2>3
  <2>5. F[<<x, L[m]>>] \in J[s]
    BY <1>4, <2>1, <2>4
  <2>6. F[<<x, L[m]>>] \in T
    BY <2>5
  <2>7. g[s] = G[<<g[s \ {Max(s)}], L[Max(s)]>>]
    BY <1>3, <1>4 DEF IsFold
  <2>8. g[s] = G[<<x, L[m]>>]
    BY <2>1, <2>2, <2>7, Zenon
  <2>9. G[<<x, L[m]>>] = F[<<x, L[m]>>]
    BY <2>3, <2>4, <2>6
  <2> QED
    BY <2>1, <2>2, <2>5, <2>8, <2>9, Zenon
<1>5. g[{}] \in J[{}] /\ g[{}] = b
  BY <1>1, <1>3 DEF IsFold
<1>6. \A s \in SUBSET DOMAIN L : g[s] \in J[s]
  BY <1>4, <1>5, FoldKeeps
<1>7. IsFold(g, F, b, L)
  <2> SUFFICES ASSUME NEW s \in SUBSET DOMAIN L
               PROVE  g[s] = IF s = {} THEN b ELSE F[<<g[s \ {Max(s)}], L[Max(s)]>>]
    BY Zenon DEF IsFold
  <2>1. CASE s = {}
    BY <1>5, <2>1
  <2>2. CASE s # {}
    <3>1. Max(s) \in s
      BY <2>2, MaxPosition
    <3>2. s \ {Max(s)} \in SUBSET DOMAIN L
      OBVIOUS
    <3> QED
      BY <1>4, <1>6, <2>2, <3>1, <3>2
  <2> QED
    BY <2>1, <2>2
<1> QED
  BY <1>3, <1>6, <1>7
=============================================================================
