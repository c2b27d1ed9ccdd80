--------------------------- MODULE DvbDemuxProofs ---------------------------
(***************************************************************************)
(* The demultiplexer keeps its place in the stream, for any streams, any   *)
(* sizes of the buffers, and wherever it is reset: what it has kept is     *)
(* what comes before the read position, without a gap and nothing twice,   *)
(* and what it looks at is part of it.  The lines of a frame ascend.       *)
(***************************************************************************)
EXTENDS DvbDemux, SequenceLemmas, SequenceTheorems

N == Len(input.cells)
Place == 1 .. N

WrapRec == [skip : Nat, look : Nat, left : Nat, data : Seq(Place)]
TsRec == [skip : Nat, look : Nat, consume : Nat, data : Seq(Place),
          sync : BOOLEAN, todo : Nat, cont : Int]

\* The buffer of the caller is a part of the stream.
CallerOK ==
  /\ input \in Inputs
  /\ first \in Nat \ {0} /\ last \in Nat /\ src \in Nat /\ size \in Nat
  /\ first <= src /\ src <= last + 1 /\ last <= N /\ size <= last - first + 1

\* What wrap_around kept, up to the read position s.
Continues(w, s) ==
  /\ w \in WrapRec /\ w.look >= PES_HEADER_LOOKAHEAD
  /\ w.left <= Len(w.data) /\ w.left < s
  /\ Kept(w) = Positions(s - w.left, s - 1)

WrapOK == Continues(wrap, src)

\* The TS layer skips, or copies to the PES buffer, only when its own buffer is
\* empty; that buffer gets as many cells as the header or the search for a
\* header takes.
HeaderSize == IF ts.sync THEN TS_HEADER_LOOKAHEAD ELSE TS_SYNC_SEARCH_LOOKAHEAD

TsOK ==
  /\ ts \in TsRec /\ ts.cont \in -1 .. Counter - 1
  /\ Len(ts.data) < src /\ ts.data = Positions(src - Len(ts.data), src - 1)
  /\ ts.skip > 0 \/ ts.consume > 0 => ts.data = <<>>
  /\ IF pc = "parse" THEN Len(ts.data) = HeaderSize /\ ts.skip = 0
     ELSE Len(ts.data) + ts.look = HeaderSize
  /\ ts.consume > 0 => pc \in {"app", "ts"}
  /\ ts.consume <= ts.todo

\* A PES packet that is not complete begins with its start code.
PesOK ==
  /\ pes \in Seq(Place)
  /\ ts.todo > 0 => /\ pes # <<>>
                    /\ Cell(pes[1]).k = "start" /\ Cell(pes[1]).len >= MinLength
                    /\ Len(pes) + ts.todo = Cell(pes[1]).len + 1

\* Each layer leaves the state of the other alone.
Layers ==
  IF input.mode = "pes"
  THEN ts = NoTs /\ pes = <<>> /\ pc \in {"app", "pes", "frame"}
  ELSE wrap = NoWrap /\ pc \in {"app", "ts", "frame", "fill", "parse"}

\* Places in the stream.
PlaceInv == CallerOK /\ WrapOK /\ TsOK /\ PesOK /\ Layers

-----------------------------------------------------------------------------
(* Consecutive positions. *)

LEMMA PositionsAre ==
  ASSUME NEW M \in Nat, NEW i \in Nat \ {0}, NEW j \in Nat, i <= j + 1, j <= M
  PROVE  /\ Positions(i, j) \in Seq(1 .. M) /\ Len(Positions(i, j)) = j - i + 1
         /\ \A k \in 1 .. j - i + 1 : Positions(i, j)[k] = i + k - 1
<1>1. j - i + 1 \in Nat /\ \A k \in 1 .. j - i + 1 : i + k - 1 \in 1 .. M
  OBVIOUS
<1> QED
  BY <1>1 DEF Positions

LEMMA PositionsJoin ==
  ASSUME NEW i \in Nat \ {0}, NEW j \in Nat, NEW k \in Nat, i <= j + 1, j <= k
  PROVE  Positions(i, j) \o Positions(j + 1, k) = Positions(i, k)
<1> DEFINE a == Positions(i, j)
           b == Positions(j + 1, k)
           c == Positions(i, k)
<1>1. /\ a \in Seq(1 .. k) /\ Len(a) = j - i + 1
      /\ \A m \in 1 .. j - i + 1 : a[m] = i + m - 1
  BY PositionsAre
<1>2. /\ b \in Seq(1 .. k) /\ Len(b) = k - j /\ \A m \in 1 .. k - j : b[m] = j + m
  <2>1. /\ b \in Seq(1 .. k) /\ Len(b) = k - (j + 1) + 1
        /\ \A m \in 1 .. k - (j + 1) + 1 : b[m] = (j + 1) + m - 1
    <3>1. j + 1 \in Nat \ {0} /\ j + 1 <= k + 1 /\ k <= k
      OBVIOUS
    <3> QED
      BY <3>1, PositionsAre
  <2> HIDE DEF b
  <2> QED
    BY <2>1
<1>3. /\ c \in Seq(1 .. k) /\ Len(c) = k - i + 1
      /\ \A m \in 1 .. k - i + 1 : c[m] = i + m - 1
  BY PositionsAre
<1> HIDE DEF a, b, c
<1>4. /\ a \o b \in Seq(1 .. k) /\ Len(a \o b) = Len(a) + Len(b)
      /\ \A m \in 1 .. Len(a) + Len(b) :
           (a \o b)[m] = IF m <= Len(a) THEN a[m] ELSE b[m - Len(a)]
  BY <1>1, <1>2, ConcatProperties
<1>5. Len(a \o b) = k - i + 1
  BY <1>1, <1>2, <1>4
<1>6. ASSUME NEW m \in 1 .. k - i + 1
      PROVE  (a \o b)[m] = c[m]
  <2>1. (a \o b)[m] = IF m <= Len(a) THEN a[m] ELSE b[m - Len(a)]
    BY <1>4, <1>5
  <2>2. CASE m <= Len(a)
    BY <1>1, <1>3, <2>1, <2>2
  <2>3. CASE ~ (m <= Len(a))
    <3>1. m - Len(a) \in 1 .. k - j
      BY <1>1, <2>3
    <3> QED
      BY <1>1, <1>2, <1>3, <2>1, <2>3, <3>1
  <2> QED
    BY <2>2, <2>3
<1>7. a \o b = c
  BY <1>3, <1>4, <1>5, <1>6, SameSeq
<1> QED
  BY <1>7 DEF a, b, c

LEMMA PositionsPart ==
  ASSUME NEW i \in Nat \ {0}, NEW j \in Nat, i <= j + 1,
         NEW m \in Nat \ {0}, NEW n \in Nat, m <= n + 1, n <= j - i + 1
  PROVE  SubSeq(Positions(i, j), m, n) = Positions(i + m - 1, i + n - 1)
<1> DEFINE a == Positions(i, j)
           b == Positions(i + m - 1, i + n - 1)
           s == SubSeq(a, m, n)
<1>1. /\ a \in Seq(1 .. j) /\ Len(a) = j - i + 1 /\ \A k \in 1 .. j - i + 1 : a[k] = i + k - 1
  BY PositionsAre
<1>2. /\ b \in Seq(1 .. j) /\ Len(b) = n - m + 1
      /\ \A k \in 1 .. n - m + 1 : b[k] = i + m - 1 + k - 1
  <2>1. i + m - 1 \in Nat \ {0} /\ i + n - 1 \in Nat /\ i + m - 1 <= (i + n - 1) + 1 /\ i + n - 1 <= j
    OBVIOUS
  <2>2. /\ b \in Seq(1 .. j) /\ Len(b) = (i + n - 1) - (i + m - 1) + 1
        /\ \A k \in 1 .. (i + n - 1) - (i + m - 1) + 1 : b[k] = (i + m - 1) + k - 1
    BY <2>1, PositionsAre
  <2>3. (i + n - 1) - (i + m - 1) + 1 = n - m + 1
    OBVIOUS
  <2> HIDE DEF b
  <2> QED
    BY <2>2, <2>3
<1> HIDE DEF a, b
<1>3. \A k \in m .. n : a[k] \in 1 .. j
  BY <1>1
<1>4. /\ s \in Seq(1 .. j) /\ Len(s) = IF m <= n THEN n - m + 1 ELSE 0
      /\ \A k \in 1 .. n - m + 1 : s[k] = a[m + k - 1]
  BY <1>3, SubSeqProperties
<1> HIDE DEF s
<1>5. Len(s) = n - m + 1
  BY <1>4
<1>6. \A k \in 1 .. n - m + 1 : s[k] = b[k]
  BY <1>1, <1>2, <1>4
<1>7. s = b
  BY <1>2, <1>4, <1>5, <1>6, SameSeq
<1> QED
  BY <1>7 DEF a, b, s

LEMMA MinPosition ==
  ASSUME NEW n \in Nat, NEW s \in SUBSET (1 .. n), s # {}
  PROVE  Min(s) \in s
<1> DEFINE T == {m \in Nat : \A t \in SUBSET (1 .. n) :
                   m \in t => \E x \in t : \A y \in t : x <= y}
           U == {m \in Nat : \A k \in 0 .. m : k \in T}
<1>1. 0 \in U
  OBVIOUS
<1>2. ASSUME NEW m \in Nat, m \in U
      PROVE  m + 1 \in U
  <2>1. ASSUME NEW t \in SUBSET (1 .. n), m + 1 \in t
        PROVE  \E x \in t : \A y \in t : x <= y
    <3>1. CASE \E k \in 0 .. m : k \in t
      BY <1>2, <3>1
    <3>2. CASE ~ \E k \in 0 .. m : k \in t
      <4>1. \A y \in t : m + 1 <= y
        BY <3>2
      <4> QED
        BY <2>1, <4>1
    <3> QED
      BY <3>1, <3>2
  <2>2. m + 1 \in T
    BY <2>1
  <2> QED
    BY <1>2, <2>2
<1> HIDE DEF U
<1>3. Nat \subseteq U
  BY <1>1, <1>2, NatSetInduction
<1>4. PICK m \in s : m \in Nat
  <2>1. \E x : x \in s
    BY Zenon
  <2> QED
    BY <2>1
<1>5. m \in T
  BY <1>3, <1>4 DEF U
<1>6. \E x \in s : \A y \in s : x <= y
  BY <1>4, <1>5
<1> QED
  BY <1>6, Zenon DEF Min

-----------------------------------------------------------------------------
(* wrap_around. *)

\* What is looked at, when it is enough, is a part of the stream that begins with
\* the first cell kept.
InView(a) ==
  LET i == a.src - a.w.left
  IN /\ a.view = Positions(i, i + Len(a.view) - 1)
     /\ Len(a.view) \in Nat /\ Len(a.view) >= a.w.look
     /\ i \in Nat \ {0} /\ i + Len(a.view) - 1 <= last

Follows(a, w, s) ==
  /\ Continues(a.w, a.src) /\ a.w.look = w.look /\ a.w.skip = w.skip
  /\ a.src \in Nat /\ s <= a.src /\ a.src <= last + 1
  /\ a.ok => InView(a)
  /\ ~a.ok => a.src = last + 1

LEMMA KeptIs ==
  ASSUME NEW w \in WrapRec, w.left <= Len(w.data), N \in Nat
  PROVE  Kept(w) \in Seq(Place) /\ Len(Kept(w)) = w.left
<1>1. /\ Len(w.data) - w.left + 1 \in Int /\ Len(w.data) \in Int
      /\ \A k \in Len(w.data) - w.left + 1 .. Len(w.data) : w.data[k] \in Place
  BY DEF WrapRec
<1>2. /\ Kept(w) \in Seq(Place)
      /\ Len(Kept(w)) = IF Len(w.data) - w.left + 1 <= Len(w.data)
                        THEN Len(w.data) - (Len(w.data) - w.left + 1) + 1 ELSE 0
  BY <1>1, SubSeqProperties DEF Kept
<1>3. w.left \in Nat /\ Len(w.data) \in Nat
  BY DEF WrapRec
<1> HIDE DEF Kept
<1> QED
  BY <1>2, <1>3

LEMMA KeptAll ==
  ASSUME NEW w \in WrapRec, w.left = Len(w.data)
  PROVE  Kept(w) = w.data
<1>1. w.data \in Seq(Place) /\ Len(w.data) - w.left + 1 = 1
  BY DEF WrapRec
<1> QED
  BY <1>1, SubSeqFull DEF Kept

LEMMA SourceIs ==
  ASSUME CallerOK, NEW i \in Nat, NEW j \in Nat, first <= i
  PROVE  Source(i, j) = Positions(i, j)
<1>1. \A n \in 1 .. j - i + 1 : i + n - 1 >= first
  BY DEF CallerOK
<1> QED
  BY <1>1 DEF Source, Positions

LEMMA StreamSize == ASSUME CallerOK PROVE N \in Nat
  BY InputsAssumption DEF CallerOK, N

LEMMA ViewFollows ==
  ASSUME CallerOK, NEW w, NEW s \in Nat, src <= s, s <= last + 1, Continues(w, s)
  PROVE  Follows(View(w, s), w, s)
<1>0. PICK l, k, z : l = w.left /\ k = w.look /\ z = last
  OBVIOUS
<1>1. /\ w \in WrapRec /\ k \in Nat /\ l \in Nat /\ z \in Nat /\ N \in Nat
      /\ k >= 2 /\ l < s /\ s > 0 /\ z <= N /\ s <= z + 1
      /\ first \in Nat \ {0} /\ first <= s /\ size \in Nat /\ size <= z - first + 1
      /\ Kept(w) = Positions(s - l, s - 1) /\ l <= Len(w.data)
  BY <1>0, StreamSize DEF CallerOK, Continues, WrapRec, PES_HEADER_LOOKAHEAD
<1>2. /\ s - l \in Nat \ {0} /\ s - 1 \in Nat /\ s - l <= (s - 1) + 1 /\ s - 1 <= z
      /\ (s - 1) + 1 = s /\ s - l <= z + 1 /\ l + (z - s + 1) \in Nat
      /\ l + (z - s + 1) = z - (s - l) + 1
  BY <1>1
<1>3. CASE k <= l + (z - s + 1) /\ l + (z - s + 1) <= size
  <2>1. View(w, s) = Look(w, s, Source(s - l, z))
    <3>1. ~ (k > l + (z - s + 1)) /\ ~ (l + (z - s + 1) > size)
      BY <1>1, <1>3
    <3> QED
      BY <1>0, <1>3, <3>1, Zenon DEF View
  <2>2. first <= s - l
    BY <1>1, <1>3
  <2>3. Source(s - l, z) = Positions(s - l, z)
    BY <1>1, <1>2, <2>2, SourceIs
  <2>4. Len(Positions(s - l, z)) = z - (s - l) + 1
    <3>1. PICK p : p = s - l
      OBVIOUS
    <3>2. p \in Nat \ {0} /\ z \in Nat /\ p <= z + 1
      BY <1>1, <1>2, <3>1
    <3>3. Len(Positions(p, z)) = z - p + 1
      BY <3>2, PositionsAre
    <3> QED
      BY <3>1, <3>3
  <2>5. /\ View(w, s).w = w /\ View(w, s).src = s /\ View(w, s).ok
        /\ View(w, s).view = Positions(s - l, z)
    BY <2>1, <2>3 DEF Look
  <2> HIDE DEF View
  <2>6. (s - l) + Len(Positions(s - l, z)) - 1 = z
    BY <1>1, <1>2, <2>4
  <2>7. InView(View(w, s))
    BY <1>0, <1>1, <1>2, <1>3, <2>4, <2>5, <2>6 DEF InView
  <2> QED
    BY <1>0, <1>1, <2>5, <2>7 DEF Follows
<1>4. CASE k > l + (z - s + 1)
  <2> DEFINE v == [w EXCEPT !.data = Kept(w) \o Source(s, last), !.left = l + (z - s + 1)]
  <2>1. View(w, s) = NeedMore(v)
    <3>1. ~ (k <= l + (z - s + 1))
      BY <1>1, <1>4
    <3> QED
      BY <1>0, <1>4, <3>1, Zenon DEF View
  <2>2. Source(s, last) = Positions(s, z)
    BY <1>0, <1>1, SourceIs
  <2>3. Kept(w) \o Positions(s, z) = Positions(s - l, z)
    <3>1. Positions(s - l, s - 1) \o Positions((s - 1) + 1, z) = Positions(s - l, z)
      BY <1>1, <1>2, PositionsJoin
    <3> QED
      BY <1>1, <1>2, <3>1
  <2>4. /\ Positions(s - l, z) \in Seq(Place)
        /\ Len(Positions(s - l, z)) = z - (s - l) + 1
    <3>1. PICK p : p = s - l
      OBVIOUS
    <3>2. p \in Nat \ {0} /\ z \in Nat /\ p <= z + 1 /\ z <= N /\ N \in Nat
      BY <1>1, <1>2, <3>1
    <3>3. Positions(p, z) \in Seq(1 .. N) /\ Len(Positions(p, z)) = z - p + 1
      BY <3>2, PositionsAre
    <3> QED
      BY <3>1, <3>3 DEF Place
  <2>5. /\ v \in WrapRec /\ v.data = Positions(s - l, z) /\ v.left = l + (z - s + 1)
        /\ v.look = k /\ v.skip = w.skip
    BY <1>0, <1>1, <1>2, <2>2, <2>3, <2>4 DEF WrapRec
  <2>6. /\ View(w, s).w = v /\ View(w, s).src = z + 1 /\ ~View(w, s).ok
    BY <1>0, <2>1 DEF NeedMore
  <2> HIDE DEF v, View
  <2>7. Continues(v, z + 1)
    <3>1. Kept(v) = Positions(s - l, z)
      BY <1>2, <2>4, <2>5, KeptAll
    <3>2. (z + 1) - v.left = s - l /\ (z + 1) - 1 = z /\ v.left < z + 1
      BY <1>1, <2>5
    <3> QED
      BY <1>1, <1>2, <2>4, <2>5, <3>1, <3>2 DEF Continues, PES_HEADER_LOOKAHEAD
  <2>8. z + 1 \in Nat
    BY <1>1
  <2>9. s <= z + 1 /\ z + 1 <= z + 1
    BY <1>1
  <2>10. Continues(View(w, s).w, View(w, s).src)
    BY <2>6, <2>7, Zenon
  <2>11. View(w, s).w.look = w.look /\ View(w, s).w.skip = w.skip
    BY <1>0, <2>5, <2>6, Zenon
  <2> QED
    BY <1>0, <2>6, <2>8, <2>9, <2>10, <2>11, Zenon DEF Follows
<1>5. CASE k <= l + (z - s + 1) /\ l + (z - s + 1) > size /\ k - l > 0
  <2> DEFINE data == Kept(w) \o Source(s, s + (k - l) - 1)
             v == [w EXCEPT !.data = data, !.left = w.look]
  <2>1. View(w, s) = Look(v, s + (k - l), data)
    <3>1. ~ (l + (z - s + 1) <= size) /\ ~ (k > l + (z - s + 1))
      BY <1>1, <1>5
    <3> QED
      BY <1>0, <1>5, <3>1, Zenon DEF View
  <2>2. PICK e : e = s + (k - l) - 1
    OBVIOUS
  <2>3. /\ e \in Nat /\ e <= z /\ s - 1 <= e /\ s <= e + 1 /\ s - l <= e + 1 /\ e <= N
        /\ e - (s - l) + 1 = k /\ s + (k - l) = e + 1 /\ (e + 1) - k = s - l
        /\ (e + 1) - 1 = e /\ k < e + 1 /\ e + 1 \in Nat /\ s <= e + 1 /\ e + 1 <= z + 1
        /\ (s - l) + k - 1 = e
    BY <1>1, <1>5, <2>2
  <2>4. data = Positions(s - l, e)
    <3>1. Source(s, e) = Positions(s, e)
      BY <1>1, <2>3, SourceIs
    <3>2. Positions(s - l, s - 1) \o Positions((s - 1) + 1, e) = Positions(s - l, e)
      <4>1. PICK i, j : i = s - l /\ j = s - 1
        OBVIOUS
      <4>2. i \in Nat \ {0} /\ j \in Nat /\ e \in Nat /\ i <= j + 1 /\ j <= e
        BY <1>2, <2>3, <4>1
      <4>3. Positions(i, j) \o Positions(j + 1, e) = Positions(i, e)
        BY <4>2, PositionsJoin
      <4> QED
        BY <4>1, <4>3, Zenon
    <3> QED
      BY <1>1, <1>2, <2>2, <3>1, <3>2
  <2>5. /\ Positions(s - l, e) \in Seq(Place)
        /\ Len(Positions(s - l, e)) = e - (s - l) + 1
    <3>1. e \in Nat /\ s - l <= e + 1 /\ e <= N /\ s - l \in Nat \ {0} /\ N \in Nat
      BY <1>1, <1>2, <2>3
    <3> QED
      BY <3>1, PositionsAre DEF Place
  <2> HIDE DEF data
  <2>6. /\ v \in WrapRec /\ v.data = data /\ v.left = k
        /\ v.look = k /\ v.skip = w.skip
    BY <1>0, <1>1, <2>4, <2>5 DEF WrapRec
  <2>7. /\ View(w, s).w = v /\ View(w, s).src = e + 1 /\ View(w, s).ok
        /\ View(w, s).view = data
    BY <2>1, <2>3 DEF Look
  <2> HIDE DEF v, View
  <2>8. Continues(v, e + 1)
    <3>1. Kept(v) = Positions(s - l, e)
      BY <2>3, <2>4, <2>5, <2>6, KeptAll
    <3> QED
      BY <1>1, <2>3, <2>4, <2>5, <2>6, <3>1 DEF Continues, PES_HEADER_LOOKAHEAD
  <2>9. InView(View(w, s))
    <3>1. /\ View(w, s).src - View(w, s).w.left = s - l /\ View(w, s).w.look = k
          /\ View(w, s).view = Positions(s - l, e) /\ Len(View(w, s).view) = k
      BY <2>3, <2>4, <2>5, <2>6, <2>7
    <3>2. (s - l) + k - 1 = e /\ e <= last /\ s - l \in Nat \ {0} /\ k \in Nat /\ k >= k
      BY <1>0, <1>1, <1>2, <2>3
    <3> HIDE DEF v, View
    <3> QED
      BY <3>1, <3>2 DEF InView
  <2> QED
    BY <1>0, <1>1, <2>3, <2>6, <2>7, <2>8, <2>9 DEF Follows
<1>6. CASE k <= l + (z - s + 1) /\ l + (z - s + 1) > size /\ ~ (k - l > 0)
  <2>1. View(w, s) = Look(w, s, Kept(w))
    <3>1. ~ (l + (z - s + 1) <= size) /\ ~ (k > l + (z - s + 1))
      BY <1>1, <1>6
    <3> QED
      BY <1>0, <1>6, <3>1, Zenon DEF View
  <2>2. /\ View(w, s).w = w /\ View(w, s).src = s /\ View(w, s).ok
        /\ View(w, s).view = Positions(s - l, s - 1)
    BY <1>1, <2>1 DEF Look
  <2> HIDE DEF View
  <2>3. Len(View(w, s).view) = l
    BY <1>0, <1>1, <2>2, KeptIs
  <2>4. (s - l) + l - 1 = s - 1 /\ l >= k
    BY <1>1, <1>6
  <2>5. InView(View(w, s))
    BY <1>0, <1>1, <1>2, <2>2, <2>3, <2>4 DEF InView
  <2> QED
    BY <1>0, <1>1, <2>2, <2>5 DEF Follows
<1>7. /\ k <= l + (z - s + 1) \/ k > l + (z - s + 1)
      /\ l + (z - s + 1) <= size \/ l + (z - s + 1) > size
  BY <1>1, <1>2
<1> QED
  BY <1>3, <1>4, <1>5, <1>6, <1>7

\* What wrap_around has done before it looks: all that is to be skipped lies
\* behind, or the buffer is exhausted.
LEMMA WrapFollows ==
  ASSUME CallerOK, WrapOK
  PROVE  LET a == WrapAround
         IN  /\ Continues(a.w, a.src) /\ a.w.look = wrap.look
             /\ a.src \in Nat /\ src <= a.src /\ a.src <= last + 1
             /\ a.ok => InView(a) /\ a.w.skip = 0
             /\ ~a.ok => a.src = last + 1
<1> DEFINE a == WrapAround
<1>0. PICK k, l, z : k = wrap.skip /\ l = wrap.left /\ z = last
  OBVIOUS
<1>1. /\ wrap \in WrapRec /\ k \in Nat /\ l \in Nat /\ z \in Nat /\ N \in Nat
      /\ wrap.look >= PES_HEADER_LOOKAHEAD /\ wrap.look \in Nat /\ l < src
      /\ src \in Nat \ {0} /\ src <= z + 1 /\ Len(wrap.data) \in Nat
      /\ Kept(wrap) = Positions(src - l, src - 1) /\ l <= Len(wrap.data)
  BY <1>0, StreamSize DEF CallerOK, WrapOK, Continues, WrapRec
<1>2. CASE k - l > z - src + 1
  <2> DEFINE v == [wrap EXCEPT !.skip = (k - l) - (z - src + 1), !.left = 0]
  <2>1. a = NeedMore(v)
    <3>1. ~ (k - l <= z - src + 1)
      BY <1>1, <1>2
    <3> QED
      BY <1>0, <1>2, <3>1, Zenon DEF WrapAround, Left
  <2>2. /\ v \in WrapRec /\ v.left = 0 /\ v.look = wrap.look /\ v.data = wrap.data
    <3>1. (k - l) - (z - src + 1) \in Nat
      BY <1>1, <1>2
    <3> QED
      BY <1>1, <3>1 DEF WrapRec
  <2>3. a.w = v /\ a.src = z + 1 /\ ~ a.ok
    BY <1>0, <2>1 DEF NeedMore
  <2> HIDE DEF v, a
  <2>4. Continues(v, z + 1)
    <3>1. Kept(v) = <<>>
      BY <1>1, <2>2, SubSeqEmpty DEF Kept
    <3>2. Positions((z + 1) - v.left, (z + 1) - 1) = <<>>
      BY <1>1, <2>2 DEF Positions
    <3> QED
      BY <1>1, <2>2, <3>1, <3>2 DEF Continues
  <2>5. z + 1 \in Nat
    BY <1>1
  <2> QED
    BY <1>0, <1>1, <2>2, <2>3, <2>4, <2>5 DEF a
<1>3. CASE k - l > 0 /\ k - l <= z - src + 1
  <2> DEFINE v == [wrap EXCEPT !.skip = 0, !.left = 0]
  <2>1. a = View(v, src + (k - l))
    <3>1. ~ (k - l > z - src + 1)
      BY <1>1, <1>3
    <3> QED
      BY <1>0, <1>3, <3>1, Zenon DEF WrapAround, Left
  <2>2. /\ v \in WrapRec /\ v.left = 0 /\ v.skip = 0 /\ v.look = wrap.look /\ v.data = wrap.data
    BY <1>1 DEF WrapRec
  <2>3. PICK s : s = src + (k - l)
    OBVIOUS
  <2>4. s \in Nat \ {0} /\ src <= s /\ s <= z + 1
    BY <1>1, <1>3, <2>3
  <2> HIDE DEF v, a
  <2>5. Continues(v, s)
    <3>1. Kept(v) = <<>>
      BY <1>1, <2>2, SubSeqEmpty DEF Kept
    <3>2. Positions(s - v.left, s - 1) = <<>>
      BY <2>2, <2>4 DEF Positions
    <3> QED
      BY <1>1, <2>2, <2>4, <3>1, <3>2 DEF Continues
  <2>6. Follows(a, v, s)
    BY <1>0, <2>1, <2>3, <2>4, <2>5, ViewFollows
  <2> QED
    BY <1>0, <1>1, <2>2, <2>4, <2>6 DEF Follows, a
<1>4. CASE k - l <= 0
  <2> DEFINE v == [wrap EXCEPT !.skip = 0, !.left = l - k]
  <2>1. a = View(v, src)
    <3>1. ~ (k - l > z - src + 1) /\ ~ (k - l > 0)
      BY <1>1, <1>4
    <3> QED
      BY <1>0, <3>1, Zenon DEF WrapAround, Left
  <2>2. /\ v \in WrapRec /\ v.left = l - k /\ v.skip = 0 /\ v.look = wrap.look /\ v.data = wrap.data
    <3>1. l - k \in Nat
      BY <1>1, <1>4
    <3> QED
      BY <1>1, <3>1 DEF WrapRec
  <2> HIDE DEF v, a
  <2>3. Continues(v, src)
    <3>1. Kept(v) = Positions(src - (l - k), src - 1)
      <4> DEFINE d == wrap.data
                 p == Positions(src - l, src - 1)
      <4>1. p = SubSeq(d, Len(d) - l + 1, Len(d))
        BY <1>0, <1>1 DEF Kept
      <4>2. Kept(v) = SubSeq(d, Len(d) - (l - k) + 1, Len(d))
        BY <2>2 DEF Kept
      <4>3. SubSeq(p, k + 1, l) = Positions((src - l) + (k + 1) - 1, (src - l) + l - 1)
        <5>1. src - l \in Nat \ {0} /\ src - 1 \in Nat /\ src - l <= (src - 1) + 1
              /\ k + 1 \in Nat \ {0} /\ k + 1 <= l + 1 /\ l <= (src - 1) - (src - l) + 1
          BY <1>1, <1>4
        <5>2. l \in Nat
          BY <1>1
        <5> QED
          BY <5>1, <5>2, PositionsPart
      <4>4. (src - l) + (k + 1) - 1 = src - (l - k) /\ (src - l) + l - 1 = src - 1
        BY <1>1
      <4>5. SubSeq(SubSeq(d, Len(d) - l + 1, Len(d)), k + 1, l) = SubSeq(d, Len(d) - (l - k) + 1, Len(d))
        <5>1. d \in Seq(Place) /\ Len(d) \in Nat /\ l <= Len(d)
          BY <1>1 DEF WrapRec
        <5> HIDE DEF d
        <5> DEFINE e == SubSeq(d, Len(d) - l + 1, Len(d))
                   f == SubSeq(e, k + 1, l)
                   h == SubSeq(d, Len(d) - (l - k) + 1, Len(d))
        <5>2. /\ e \in Seq(Place) /\ Len(e) = l
              /\ \A i \in 1 .. l : e[i] = d[Len(d) - l + i]
          <6>1. /\ Len(d) - l + 1 \in Int /\ \A i \in Len(d) - l + 1 .. Len(d) : d[i] \in Place
            BY <1>1, <5>1
          <6>2. /\ e \in Seq(Place)
                /\ Len(e) = IF Len(d) - l + 1 <= Len(d) THEN Len(d) - (Len(d) - l + 1) + 1 ELSE 0
                /\ \A i \in 1 .. Len(d) - (Len(d) - l + 1) + 1 : e[i] = d[(Len(d) - l + 1) + i - 1]
            BY <5>1, <6>1, SubSeqProperties
          <6> HIDE DEF e
          <6>3. Len(d) - (Len(d) - l + 1) + 1 = l
            BY <1>1, <5>1
          <6>4. \A i \in 1 .. l : (Len(d) - l + 1) + i - 1 = Len(d) - l + i
            BY <1>1, <5>1
          <6> QED
            BY <1>1, <5>1, <6>2, <6>3, <6>4
        <5> HIDE DEF e
        <5>3. /\ f \in Seq(Place) /\ Len(f) = l - k
              /\ \A i \in 1 .. l - k : f[i] = e[k + i]
          <6>1. k + 1 \in Int /\ \A i \in k + 1 .. l : e[i] \in Place
            BY <1>1, <5>2
          <6>2. /\ f \in Seq(Place) /\ Len(f) = IF k + 1 <= l THEN l - (k + 1) + 1 ELSE 0
                /\ \A i \in 1 .. l - (k + 1) + 1 : f[i] = e[(k + 1) + i - 1]
            BY <1>1, <6>1, SubSeqProperties
          <6> HIDE DEF f
          <6>3. l - (k + 1) + 1 = l - k /\ \A i \in 1 .. l - k : (k + 1) + i - 1 = k + i
            BY <1>1
          <6> QED
            BY <1>1, <1>4, <6>2, <6>3
        <5>4. /\ h \in Seq(Place) /\ Len(h) = l - k
              /\ \A i \in 1 .. l - k : h[i] = d[Len(d) - (l - k) + i]
          <6>1. /\ Len(d) - (l - k) + 1 \in Int
                /\ \A i \in Len(d) - (l - k) + 1 .. Len(d) : d[i] \in Place
            BY <1>1, <1>4, <5>1
          <6>2. /\ h \in Seq(Place)
                /\ Len(h) = IF Len(d) - (l - k) + 1 <= Len(d)
                            THEN Len(d) - (Len(d) - (l - k) + 1) + 1 ELSE 0
                /\ \A i \in 1 .. Len(d) - (Len(d) - (l - k) + 1) + 1 :
                     h[i] = d[(Len(d) - (l - k) + 1) + i - 1]
            BY <5>1, <6>1, SubSeqProperties
          <6> HIDE DEF h
          <6>3. Len(d) - (Len(d) - (l - k) + 1) + 1 = l - k
            BY <1>1, <5>1
          <6>4. \A i \in 1 .. l - k : (Len(d) - (l - k) + 1) + i - 1 = Len(d) - (l - k) + i
            BY <1>1, <5>1
          <6> QED
            BY <1>1, <1>4, <5>1, <6>2, <6>3, <6>4
        <5> HIDE DEF f, h
        <5>5. ASSUME NEW i \in 1 .. l - k
              PROVE  f[i] = h[i]
          <6>1. k + i \in 1 .. l /\ Len(d) - l + (k + i) = Len(d) - (l - k) + i
            BY <1>1, <1>4, <5>1
          <6>2. e[k + i] = d[Len(d) - l + (k + i)]
            BY <5>2, <6>1
          <6> QED
            BY <5>3, <5>4, <6>1, <6>2
        <5>6. f = h
          BY <5>3, <5>4, <5>5, SameSeq
        <5> QED
          BY <5>6 DEF e, f, h
      <4> HIDE DEF d, p
      <4> QED
        BY <4>1, <4>2, <4>3, <4>4, <4>5
    <3> QED
      BY <1>1, <1>4, <2>2, <3>1 DEF Continues
  <2>4. Follows(a, v, src)
    BY <1>0, <1>1, <2>1, <2>3, ViewFollows
  <2> QED
    BY <1>0, <1>1, <2>2, <2>4 DEF Follows, a
<1>5. k - l > z - src + 1 \/ (k - l > 0 /\ k - l <= z - src + 1) \/ k - l <= 0
  BY <1>1
<1> QED
  BY <1>2, <1>3, <1>4, <1>5

-----------------------------------------------------------------------------
(* The stream does not change, nor does the state of the layer at rest. *)

LEMMA SameStream ==
  ASSUME input' = input
  PROVE  /\ N' = N /\ Place' = Place /\ WrapRec' = WrapRec /\ TsRec' = TsRec
         /\ \A p : Cell(p)' = Cell(p)
  BY DEF N, Place, WrapRec, TsRec, Cell

LEMMA CellsAre ==
  ASSUME CallerOK, NEW p \in Place
  PROVE  /\ Cell(p).k = "start" => Cell(p).len \in Nat
         /\ Cell(p).k = "ts" => Cell(p).cc \in Nat
<1>1. p # 0 /\ p \in DOMAIN input.cells /\ input \in Inputs
  BY StreamSize, InputsAssumption DEF CallerOK, Place, N
<1>2. Cell(p) \in Range(input.cells)
  BY <1>1 DEF Cell, Range
<1>3. \A c \in Range(input.cells) : /\ c.k = "start" => c.len \in Nat
                                    /\ c.k = "ts" => c.cc \in Nat
  BY <1>1, InputsAssumption, Zenon
<1> QED
  BY <1>2, <1>3

LEMMA NoPositions ==
  ASSUME NEW i \in Nat
  PROVE  Positions(i, i - 1) = <<>> /\ Positions(i - 0, i - 1) = <<>>
  BY DEF Positions

LEMMA WrapIdle ==
  ASSUME NEW s \in Nat \ {0}
  PROVE  Continues(NoWrap, s)
<1>1. /\ NoWrap.skip = 0 /\ NoWrap.left = 0 /\ NoWrap.look = 2 /\ NoWrap.data = <<>>
      /\ NoWrap \in WrapRec
  BY DEF NoWrap, WrapRec, PES_HEADER_LOOKAHEAD
<1>2. Kept(NoWrap) = <<>>
  BY <1>1, SubSeqEmpty DEF Kept
<1>3. Positions(s - NoWrap.left, s - 1) = <<>>
  BY <1>1 DEF Positions
<1> QED
  BY <1>1, <1>2, <1>3 DEF Continues, PES_HEADER_LOOKAHEAD

\* What TsOK says of a state t of the TS layer at the read position s, before
\* the next header is complete.
Collects(t, s) ==
  /\ t \in TsRec /\ t.cont \in -1 .. Counter - 1
  /\ Len(t.data) < s /\ t.data = Positions(s - Len(t.data), s - 1)
  /\ t.skip > 0 \/ t.consume > 0 => t.data = <<>>
  /\ Len(t.data) + t.look = IF t.sync THEN TS_HEADER_LOOKAHEAD ELSE TS_SYNC_SEARCH_LOOKAHEAD
  /\ t.consume <= t.todo

LEMMA TsCollects ==
  ASSUME TsOK, pc # "parse"
  PROVE  Collects(ts, src)
  BY Zenon DEF TsOK, Collects, HeaderSize

LEMMA TsIdle ==
  ASSUME NEW s \in Nat \ {0}
  PROVE  Collects(NoTs, s)
<1>1. /\ NoTs \in TsRec /\ NoTs.data = <<>> /\ NoTs.skip = 0 /\ NoTs.consume = 0
      /\ NoTs.look = TsSize + 1 /\ NoTs.todo = 0 /\ NoTs.cont = -1 /\ NoTs.sync = FALSE
  BY DemuxAssumption DEF NoTs, TsRec, TS_SYNC_SEARCH_LOOKAHEAD, TS_HEADER_LOOKAHEAD
<1>2. Positions(s - Len(NoTs.data), s - 1) = <<>>
  BY <1>1 DEF Positions
<1> QED
  BY <1>1, <1>2, DemuxAssumption DEF Collects, TS_SYNC_SEARCH_LOOKAHEAD, TS_HEADER_LOOKAHEAD

LEMMA TsCollected ==
  ASSUME input' = input, NEW t, NEW s, ts' = t, src' = s, Collects(t, s), pc' # "parse",
         t.consume > 0 => pc' \in {"app", "ts"}
  PROVE  TsOK'
<1>1. TsRec' = TsRec
  BY SameStream
<1> QED
  BY <1>1 DEF TsOK, Collects, HeaderSize

LEMMA Wrapped ==
  ASSUME input' = input, NEW w, NEW s, wrap' = w, src' = s, Continues(w, s)
  PROVE  WrapOK'
<1>1. WrapRec' = WrapRec
  BY SameStream
<1> QED
  BY <1>1 DEF WrapOK, Continues

LEMMA SameCaller ==
  ASSUME CallerOK, UNCHANGED <<input, first, last, size>>,
         src' \in Nat, src <= src', src' <= last + 1
  PROVE  CallerOK'
<1>1. N' = N
  BY SameStream
<1> QED
  BY <1>1 DEF CallerOK

LEMMA SamePes ==
  ASSUME PesOK, UNCHANGED <<input, pes>>, ts'.todo = ts.todo \/ ts'.todo = 0
  PROVE  PesOK'
<1>1. Place' = Place /\ \A p : Cell(p)' = Cell(p)
  BY SameStream
<1> QED
  BY <1>1 DEF PesOK

\* A step of one layer leaves the other at rest.
LEMMA PesLayer ==
  ASSUME PlaceInv, input.mode = "pes", input' = input, ts' = ts, pes' = pes,
         CallerOK', NEW w, NEW s \in Nat \ {0}, wrap' = w, src' = s, Continues(w, s),
         pc' \in {"app", "pes", "frame"}
  PROVE  PlaceInv'
<1>1. ts = NoTs /\ pes = <<>> /\ NoTs.consume = 0
  BY DEF PlaceInv, Layers, NoTs
<1>2. TsOK'
  BY <1>1, TsIdle, TsCollected
<1>3. PesOK'
  BY SamePes DEF PlaceInv
<1> QED
  BY <1>1, <1>2, <1>3, Wrapped DEF PlaceInv, Layers

LEMMA TsLayer ==
  ASSUME PlaceInv, input.mode # "pes", input' = input, wrap' = wrap,
         CallerOK', TsOK', PesOK', src' \in Nat \ {0},
         pc' \in {"app", "ts", "frame", "fill", "parse"}
  PROVE  PlaceInv'
<1>1. wrap = NoWrap
  BY DEF PlaceInv, Layers
<1>2. WrapOK'
  BY <1>1, WrapIdle, Wrapped
<1> QED
  BY <1>1, <1>2 DEF PlaceInv, Layers

LEMMA SourceIsNat ==
  ASSUME CallerOK
  PROVE  src \in Nat \ {0} /\ last \in Nat /\ first \in Nat \ {0} /\ src <= last + 1 /\ first <= src
  BY DEF CallerOK

-----------------------------------------------------------------------------
(* The steps. *)

LEMMA PacketDoneKeeps ==
  ASSUME PlaceInv, pc = "frame", PacketDone, UNCHANGED <<input, bufVars, ts, pes>>
  PROVE  PlaceInv'
<1>1. CallerOK' /\ src \in Nat \ {0} /\ src' = src /\ ts.consume = 0
  <2>1. CallerOK'
    BY SameCaller DEF PlaceInv, CallerOK, bufVars
  <2> QED
    BY <2>1 DEF bufVars, PlaceInv, CallerOK, TsOK, TsRec
<1>2. CASE input.mode = "pes"
  <2> DEFINE w == [wrap EXCEPT !.skip = wrap.look, !.look = PES_HEADER_LOOKAHEAD]
  <2>1. wrap' = w /\ pc' = "pes"
    BY <1>2 DEF PacketDone
  <2>2. wrap \in WrapRec /\ Continues(wrap, src)
    BY DEF PlaceInv, WrapOK, Continues
  <2>3. /\ w \in WrapRec /\ w.left = wrap.left /\ w.data = wrap.data
        /\ w.look = PES_HEADER_LOOKAHEAD
    BY <2>2 DEF WrapRec, PES_HEADER_LOOKAHEAD
  <2> HIDE DEF w
  <2>4. Continues(w, src)
    BY <2>2, <2>3 DEF Continues, Kept, PES_HEADER_LOOKAHEAD
  <2> QED
    BY <1>1, <1>2, <2>1, <2>4, PesLayer
<1>3. CASE input.mode # "pes"
  <2>1. wrap' = wrap /\ pc' = "fill"
    BY <1>3 DEF PacketDone
  <2>2. TsOK'
    <3>1. Collects(ts, src)
      BY TsCollects DEF PlaceInv
    <3> QED
      BY <1>1, <2>1, <3>1, TsCollected
  <2>3. PesOK'
    BY SamePes DEF PlaceInv
  <2> QED
    BY <1>1, <1>3, <2>1, <2>2, <2>3, TsLayer
<1> QED
  BY <1>2, <1>3

\* Nothing changes but what is at work.
LEMMA SamePlace ==
  ASSUME PlaceInv, UNCHANGED <<input, src, wrap, ts, pes>>, CallerOK', pc # "parse",
         ts.consume > 0 => pc' = "app" \/ pc' = "ts",
         pc' \in IF input.mode = "pes" THEN {"app", "pes", "frame"} ELSE {"app", "ts", "frame", "fill"}
  PROVE  PlaceInv'
<1>1. TsOK'
  <2>1. Collects(ts, src)
    BY TsCollects DEF PlaceInv
  <2>2. pc' # "parse"
    OBVIOUS
  <2> QED
    BY <2>1, <2>2, TsCollected
<1>2. PesOK' /\ WrapOK'
  BY SamePes, Wrapped DEF PlaceInv, WrapOK
<1> QED
  BY <1>1, <1>2 DEF PlaceInv, Layers

LEMMA FrameKeeps ==
  ASSUME PlaceInv, FrameStep
  PROVE  PlaceInv'
<1>1. pc = "frame" /\ ts.consume = 0 /\ ~ (ts.consume > 0)
  <2>1. pc = "frame"
    BY DEF FrameStep, FrameUnit, FrameError, FrameComplete, FrameEnd
  <2> QED
    BY <2>1 DEF PlaceInv, TsOK, TsRec
<1>2. CASE FrameUnit \/ FrameComplete
  <2>1. UNCHANGED <<input, first, last, src, size, wrap, ts, pes>> /\ pc' \in {"app", "frame"}
    BY <1>1, <1>2 DEF FrameUnit, FrameComplete, bufVars, Return
  <2>2. CallerOK'
    BY <2>1, SameCaller DEF PlaceInv, CallerOK
  <2> QED
    BY <1>1, <2>1, <2>2, SamePlace
<1>3. CASE FrameError \/ FrameEnd
  <2>1. PacketDone /\ UNCHANGED <<input, bufVars, ts, pes>>
    BY <1>3 DEF FrameError, FrameEnd, tsVars
  <2> QED
    BY <1>1, <2>1, PacketDoneKeeps
<1> QED
  BY <1>2, <1>3 DEF FrameStep

LEMMA PesMode ==
  ASSUME PlaceInv, pc = "pes"
  PROVE  input.mode = "pes"
  BY DEF PlaceInv, Layers

\* A start code that is found is in view, and so is what follows it.
LEMMA StartFound ==
  ASSUME PlaceInv, WrapAround.ok, WrapAround.w.look <= PES_HEADER_LOOKAHEAD,
         NEW n \in Nat \ {0},
         n = IF Len(WrapAround.view) - WrapAround.w.look > 0
             THEN Len(WrapAround.view) - WrapAround.w.look ELSE 1,
         NEW j \in 1 .. n, Cell(WrapAround.view[j]).k = "start"
  PROVE  Cell(WrapAround.view[j]).len \in Nat
<1>1. PICK a : a = WrapAround
  OBVIOUS
<1>2. InView(a) /\ Continues(a.w, a.src)
  BY <1>1, WrapFollows DEF PlaceInv
<1>3. PICK i, m, l : i = a.src - a.w.left /\ m = Len(a.view) /\ l = a.w.look
  OBVIOUS
<1>4. /\ i \in Nat \ {0} /\ m \in Nat /\ l \in Nat /\ l = 2 /\ m >= l
      /\ i + m - 1 <= last /\ a.view = Positions(i, i + m - 1)
  BY <1>1, <1>2, <1>3 DEF InView, Continues, WrapRec, PES_HEADER_LOOKAHEAD
<1>5. last \in Nat /\ last <= N /\ N \in Nat
  BY StreamSize DEF PlaceInv, CallerOK
<1>6. j \in 1 .. m
  BY <1>1, <1>3, <1>4
<1>7. a.view[j] = i + j - 1 /\ i + j - 1 \in Place
  <2>1. i + m - 1 \in Nat /\ i <= (i + m - 1) + 1 /\ i + m - 1 <= N /\ (i + m - 1) - i + 1 = m
    BY <1>4, <1>5
  <2>2. \A k \in 1 .. (i + m - 1) - i + 1 : Positions(i, i + m - 1)[k] = i + k - 1
    BY <1>4, <1>5, <2>1, PositionsAre
  <2>3. i + j - 1 \in 1 .. N
    BY <1>4, <1>5, <1>6
  <2> QED
    BY <1>4, <1>6, <2>1, <2>2, <2>3 DEF Place
<1> QED
  BY <1>1, <1>7, CellsAre DEF PlaceInv

LEMMA PesKeeps ==
  ASSUME PlaceInv, PesPacket
  PROVE  PlaceInv'
<1> DEFINE a == WrapAround
<1>1. pc = "pes" /\ UNCHANGED <<input, first, last, size, ts, pes>> /\ src' \in {a.src, last + 1}
  BY DEF PesPacket, PesNeedMore, PesData, PesScan, tsVars
<1>2. /\ Continues(a.w, a.src) /\ a.w.look = wrap.look
      /\ a.src \in Nat /\ src <= a.src /\ a.src <= last + 1
      /\ a.ok => InView(a) /\ a.w.skip = 0
      /\ ~a.ok => a.src = last + 1
  BY WrapFollows DEF PlaceInv
<1>3. a.src \in Nat \ {0} /\ a.w \in WrapRec /\ input.mode = "pes"
  BY <1>1, <1>2, PesMode, SourceIsNat DEF PlaceInv, Continues
<1>4. src' = a.src
  BY <1>2 DEF PesPacket, PesNeedMore, PesData, PesScan
<1>5. CallerOK'
  BY <1>1, <1>2, <1>4, SameCaller DEF PlaceInv
<1>6. ASSUME NEW skip \in Nat, NEW look \in Nat, look >= PES_HEADER_LOOKAHEAD
      PROVE  Continues([a.w EXCEPT !.skip = skip, !.look = look], a.src)
  <2> DEFINE w == [a.w EXCEPT !.skip = skip, !.look = look]
  <2>1. w \in WrapRec /\ w.left = a.w.left /\ w.data = a.w.data /\ w.look = look
    BY <1>3, <1>6 DEF WrapRec
  <2> HIDE DEF w
  <2>2. Continues(w, a.src)
    BY <1>2, <1>6, <2>1 DEF Continues, Kept, PES_HEADER_LOOKAHEAD
  <2> QED
    BY <2>2 DEF w
<1>7. ASSUME NEW skip \in Nat
      PROVE  Continues([a.w EXCEPT !.skip = skip], a.src)
  <2> DEFINE w == [a.w EXCEPT !.skip = skip]
  <2>1. w \in WrapRec /\ w.left = a.w.left /\ w.data = a.w.data /\ w.look = a.w.look
    BY <1>3, <1>7 DEF WrapRec
  <2> HIDE DEF w
  <2>2. Continues(w, a.src)
    BY <1>2, <1>7, <2>1 DEF Continues, Kept
  <2> QED
    BY <2>2 DEF w
<1>8. pc' \in {"app", "pes", "frame"} /\ Continues(wrap', a.src)
  <2>1. CASE PesNeedMore
    BY <1>2, <2>1 DEF PesNeedMore, Return
  <2>2. CASE PesData
    BY <1>2, <2>2 DEF PesData
  <2>3. CASE PesScan
    <3> DEFINE scan  == Len(a.view) - a.w.look
               n     == IF scan > 0 THEN scan ELSE 1
               found == {j \in 1 .. n : Cell(a.view[j]).k = "start"}
    <3>1. a.ok /\ a.w.look <= PES_HEADER_LOOKAHEAD /\ pc' = "pes"
      BY <1>1, <2>3 DEF PesScan
    <3>2. n \in Nat \ {0}
      <4>1. Len(a.view) \in Nat /\ a.w.look \in Nat
        BY <1>2, <1>3, <3>1 DEF InView, WrapRec
      <4> HIDE DEF a
      <4> QED
        BY <4>1
    <3>3. CASE found = {}
      <4>1. wrap' = [a.w EXCEPT !.skip = n]
        BY <2>3, <3>3, Zenon DEF PesScan
      <4> HIDE DEF n, a
      <4> QED
        BY <1>7, <3>1, <3>2, <4>1
    <3>4. CASE found # {}
      <4>1. PICK j : j = Min(found)
        OBVIOUS
      <4>2. PesStartCode(a, j)
        BY <2>3, <3>4, <4>1, Zenon DEF PesScan
      <4>3. j \in found
        <5>1. found \in SUBSET (1 .. n)
          OBVIOUS
        <5> HIDE DEF found, n
        <5> QED
          BY <3>2, <3>4, <4>1, <5>1, MinPosition
      <4>4. Cell(a.view[j]).len \in Nat /\ j \in Nat
        <5>1. j \in 1 .. n /\ Cell(a.view[j]).k = "start"
          BY <4>3
        <5>2. j \in Nat
          BY <3>2, <5>1
        <5> QED
          BY <3>1, <3>2, <5>1, <5>2, StartFound
      <4>5. PICK c, h : c = Cell(a.view[j]) /\ h = Cell(a.view[j + 1])
        OBVIOUS
      <4> HIDE DEF a, found, n, scan
      <4>6. CASE IsVbi(c) /\ c.len >= MinLength /\ ValidHeader(dx, h)
        <5>1. wrap' = [a.w EXCEPT !.skip = j + 1, !.look = c.len - 1]
          BY <4>2, <4>5, <4>6 DEF PesStartCode
        <5>2. c.len - 1 \in Nat /\ c.len - 1 >= PES_HEADER_LOOKAHEAD /\ j + 1 \in Nat
          BY <4>4, <4>5, <4>6, DemuxAssumption DEF MinLength, PES_HEADER_LOOKAHEAD
        <5> QED
          BY <1>6, <3>1, <5>1, <5>2
      <4>7. CASE ~ (IsVbi(c) /\ c.len >= MinLength /\ ValidHeader(dx, h))
        <5>1. wrap' = [a.w EXCEPT !.skip = j + c.len]
          BY <4>2, <4>5, <4>7 DEF PesStartCode
        <5> QED
          BY <1>7, <3>1, <4>4, <4>5, <5>1
      <4> QED
        BY <4>6, <4>7
    <3> QED
      BY <3>3, <3>4
  <2> QED
    BY <2>1, <2>2, <2>3 DEF PesPacket
<1> HIDE DEF a
<1> QED
  BY <1>1, <1>3, <1>4, <1>5, <1>8, PesLayer

LEMMA AppKeeps ==
  ASSUME PlaceInv, Feed \/ Resume \/ Reset
  PROVE  PlaceInv'
<1>1. src \in Nat \ {0} /\ last \in Nat /\ first \in Nat \ {0} /\ src <= last + 1 /\ first <= src
  BY SourceIsNat DEF PlaceInv
<1>2. N \in Nat /\ input \in Inputs /\ input.mode \in {"pes", "ts"} /\ last <= N
  BY StreamSize, InputsAssumption DEF PlaceInv, CallerOK
<1>0. input.mode = "pes" => ~ (ts.consume > 0)
  BY DEF PlaceInv, Layers, NoTs
<1>3. CASE Feed
  <2>1. PICK n \in Chunks : LET end == Smaller(last + n, Len(input.cells))
                            IN first' = last + 1 /\ last' = end /\ size' = end - last
    BY <1>3 DEF Feed
  <2>2. /\ pc = "app" /\ src > last /\ last < N /\ UNCHANGED <<input, src, wrap, ts, pes>>
        /\ pc' = IF input.mode = "pes" THEN "pes" ELSE "ts"
    BY <1>3 DEF Feed, Call, tsVars, N
  <2>3. n \in Nat \ {0}
    BY DemuxAssumption
  <2>4. /\ last' \in Nat /\ last < last' /\ last' <= N /\ first' = last + 1 /\ size' = last' - last
    BY <1>1, <1>2, <2>1, <2>2, <2>3 DEF Smaller, N
  <2>5. CallerOK'
    <3>1. N' = N /\ input' = input /\ src' = src
      BY <2>2, SameStream
    <3>2. src = last + 1
      BY <1>1, <2>2
    <3>3. /\ first' \in Nat \ {0} /\ src' \in Nat /\ first' <= src' /\ src' <= last' + 1
          /\ size' \in Nat /\ size' <= last' - first' + 1
      <4>1. PICK b, e, f, z : b = first' /\ e = last' /\ f = last /\ z = size'
        OBVIOUS
      <4>2. f \in Nat /\ e \in Nat /\ f < e /\ b = f + 1 /\ z = e - f
        BY <1>1, <2>4, <4>1
      <4>3. b \in Nat \ {0} /\ b <= f + 1 /\ f + 1 <= e + 1 /\ z \in Nat /\ z <= e - b + 1
        BY <4>2
      <4> QED
        BY <1>1, <3>1, <3>2, <4>1, <4>3
    <3> QED
      BY <1>2, <2>4, <3>1, <3>3 DEF CallerOK
  <2> QED
    BY <1>0, <1>2, <2>2, <2>5, SamePlace
<1>4. CASE Resume
  <2>1. /\ pc = "app" /\ src <= last /\ UNCHANGED <<input, first, last, src, wrap, ts, pes>>
        /\ pc' = IF input.mode = "pes" THEN "pes" ELSE "ts"
        /\ size' = last - src + 1
    BY <1>4 DEF Resume, Call, tsVars, Left
  <2>2. CallerOK'
    <3>1. N' = N
      BY <2>1, SameStream
    <3> QED
      BY <1>1, <1>2, <2>1, <3>1 DEF CallerOK
  <2> QED
    BY <1>0, <1>2, <2>1, <2>2, SamePlace
<1>5. CASE Reset
  <2>1. /\ pc = "app" /\ UNCHANGED <<input, first, last, src, size, pc>>
        /\ wrap' = NoWrap /\ ts' = NoTs /\ pes' = <<>>
    BY <1>5 DEF Reset, bufVars
  <2>2. CallerOK'
    BY <1>1, <2>1, SameCaller DEF PlaceInv
  <2>3. TsOK'
    <3>1. NoTs.consume = 0
      BY DEF NoTs
    <3> QED
      BY <1>1, <2>1, <3>1, TsIdle, TsCollected
  <2>4. WrapOK'
    BY <1>1, <2>1, WrapIdle, Wrapped
  <2>5. PesOK'
    BY <2>1 DEF PesOK, NoTs
  <2> QED
    BY <2>1, <2>2, <2>3, <2>4, <2>5 DEF PlaceInv, Layers
<1> QED
  BY <1>3, <1>4, <1>5

-----------------------------------------------------------------------------
(* The header in the TS buffer. *)

LEMMA ParseFacts ==
  ASSUME PlaceInv, pc = "parse"
  PROVE  /\ input.mode # "pes" /\ ts \in TsRec /\ ts.skip = 0 /\ ts.consume = 0
         /\ ts.cont \in -1 .. Counter - 1 /\ ts.sync \in BOOLEAN /\ ts.todo \in Nat
         /\ Len(ts.data) = (IF ts.sync THEN 2 ELSE TsSize + 1) /\ Len(ts.data) \in Nat
         /\ Len(ts.data) < src /\ ts.data = Positions(src - Len(ts.data), src - 1)
         /\ TsSize \in Nat /\ TsSize >= 6 /\ src \in Nat \ {0} /\ src <= N + 1 /\ N \in Nat
         /\ ts.data \in Seq(Place)
         /\ \A k \in 1 .. Len(ts.data) : ts.data[k] \in Place
<1>1. /\ input.mode # "pes" /\ ts \in TsRec /\ ts.skip = 0 /\ ts.consume = 0
      /\ ts.cont \in -1 .. Counter - 1
      /\ Len(ts.data) < src /\ ts.data = Positions(src - Len(ts.data), src - 1)
      /\ Len(ts.data) = HeaderSize
  BY DEF PlaceInv, Layers, TsOK, TsRec
<1>2. ts.data \in Seq(Place) /\ Len(ts.data) \in Nat /\ ts.sync \in BOOLEAN /\ ts.todo \in Nat
  BY <1>1 DEF TsRec
<1>3. \A k \in 1 .. Len(ts.data) : ts.data[k] \in Place
  BY <1>2
<1>4. HeaderSize = IF ts.sync THEN 2 ELSE TsSize + 1
  BY DemuxAssumption DEF HeaderSize, TS_SYNC_SEARCH_LOOKAHEAD, TS_HEADER_LOOKAHEAD
<1>5. src \in Nat \ {0} /\ src <= N + 1 /\ N \in Nat
  BY StreamSize DEF PlaceInv, CallerOK
<1> QED
  BY <1>1, <1>2, <1>3, <1>4, <1>5, DemuxAssumption

LEMMA HeaderFound ==
  ASSUME PlaceInv, pc = "parse", InSync
  PROVE  /\ At \in Nat \ {0} /\ Avail \in Nat /\ Avail >= 2 /\ Avail <= TsSize + 1
         /\ Avail = Len(ts.data) - At + 1
         /\ Avail > TsSize => At = 1
         /\ Header = Cell(ts.data[At]) /\ Header.cc \in Nat
<1>1. /\ Len(ts.data) = (IF ts.sync THEN 2 ELSE TsSize + 1) /\ Len(ts.data) \in Nat
      /\ TsSize \in Nat /\ TsSize >= 6
      /\ \A k \in 1 .. Len(ts.data) : ts.data[k] \in Place
  BY ParseFacts
<1>2. At \in 1 .. (IF ts.sync THEN 1 ELSE TsSize) /\ TsCell(At).k = "ts"
  <2>1. CASE ts.sync
    BY <2>1 DEF At, InSync
  <2>2. CASE ~ ts.sync
    <3>1. Synced \in SUBSET (1 .. TsSize) /\ Synced # {} /\ At = Min(Synced)
      BY <2>2 DEF At, InSync, Synced
    <3>2. At \in Synced
      BY <1>1, <3>1, MinPosition
    <3> QED
      BY <2>2, <3>1, <3>2 DEF Synced
  <2> QED
    BY <2>1, <2>2
<1>3. Avail = Len(ts.data) - At + 1 /\ Header = Cell(ts.data[At])
  BY DEF Avail, Header, TsCell
<1>4. PICK i, n : i = At /\ n = Len(ts.data)
  OBVIOUS
<1>5. /\ i \in Nat \ {0} /\ n - i + 1 \in Nat /\ n - i + 1 >= 2 /\ n - i + 1 <= TsSize + 1
      /\ n - i + 1 > TsSize => i = 1
      /\ i \in 1 .. n
  <2>1. CASE ts.sync
    BY <1>1, <1>2, <1>4, <2>1
  <2>2. CASE ~ ts.sync
    BY <1>1, <1>2, <1>4, <2>2
  <2> QED
    BY <2>1, <2>2
<1>6. Header.cc \in Nat
  <2>1. ts.data[i] \in Place /\ Cell(ts.data[i]).k = "ts"
    BY <1>1, <1>2, <1>4, <1>5 DEF TsCell
  <2> QED
    BY <1>3, <1>4, <2>1, CellsAre DEF PlaceInv
<1> QED
  BY <1>3, <1>4, <1>5, <1>6

\* What is behind the packet that was examined becomes the first of the TS buffer.
LEMMA NextFollows ==
  ASSUME PlaceInv, pc = "parse", InSync,
         NEW t \in TsRec, t.sync = TRUE, t.cont \in -1 .. Counter - 1, t.consume <= t.todo,
         t.skip > 0 \/ t.consume > 0 => Avail <= TsSize
  PROVE  /\ Collects(NextHeader(t), src)
         /\ NextHeader(t).todo = t.todo /\ NextHeader(t).consume = t.consume
<1> DEFINE u == NextHeader(t)
<1>0. PICK i, n : i = At /\ n = Len(ts.data)
  OBVIOUS
<1>1. /\ i \in Nat \ {0} /\ Avail = n - i + 1 /\ n - i + 1 >= 2 /\ n - i + 1 <= TsSize + 1
      /\ n - i + 1 > TsSize => i = 1
  BY <1>0, HeaderFound
<1>2. /\ n \in Nat /\ n < src /\ ts.data = Positions(src - n, src - 1) /\ src \in Nat \ {0}
      /\ TsSize \in Nat /\ TsSize >= 6 /\ src <= N + 1 /\ N \in Nat /\ ts.data \in Seq(Place)
      /\ ts.cont \in -1 .. Counter - 1
  BY <1>0, ParseFacts
<1>3. CASE Avail <= TsSize
  <2>1. u = [t EXCEPT !.data = <<>>, !.look = TS_HEADER_LOOKAHEAD]
    BY <1>3 DEF NextHeader
  <2>2. /\ u \in TsRec /\ u.sync = TRUE /\ u.cont = t.cont /\ u.consume = t.consume
        /\ u.todo = t.todo /\ u.skip = t.skip /\ u.data = <<>> /\ u.look = TS_HEADER_LOOKAHEAD
    <3>1. <<>> \in Seq(Place) /\ TS_HEADER_LOOKAHEAD \in Nat
      BY DEF TS_HEADER_LOOKAHEAD
    <3> HIDE DEF u
    <3> QED
      BY <2>1, <3>1 DEF TsRec
  <2> HIDE DEF u
  <2>3. Positions(src - Len(u.data), src - 1) = <<>> /\ Len(u.data) = 0
    BY <1>2, <2>2 DEF Positions
  <2>4. Len(u.data) + u.look = TS_HEADER_LOOKAHEAD
    BY <2>2, <2>3 DEF TS_HEADER_LOOKAHEAD
  <2>5. Collects(u, src)
    BY <1>2, <2>2, <2>3, <2>4 DEF Collects
  <2> QED
    BY <2>2, <2>5 DEF u
<1>4. CASE ~ (Avail <= TsSize)
  <2>1. i = 1 /\ n = TsSize + 1 /\ Avail - TsSize = 1 /\ ~ (t.skip > 0) /\ ~ (t.consume > 0)
    BY <1>1, <1>2, <1>4
  <2>2. u = [t EXCEPT !.data = SubSeq(ts.data, At + TsSize, Len(ts.data)),
                      !.look = TS_HEADER_LOOKAHEAD - Smaller(Avail - TsSize, TS_HEADER_LOOKAHEAD)]
    BY <1>4 DEF NextHeader
  <2>3. TS_HEADER_LOOKAHEAD - Smaller(Avail - TsSize, TS_HEADER_LOOKAHEAD) = 1
    BY <2>1 DEF Smaller, TS_HEADER_LOOKAHEAD
  <2>4. SubSeq(ts.data, At + TsSize, Len(ts.data)) = Positions(src - 1, src - 1)
    <3>1. src - n \in Nat \ {0} /\ src - 1 \in Nat /\ src - n <= (src - 1) + 1
          /\ n \in Nat \ {0} /\ n <= n + 1 /\ n <= (src - 1) - (src - n) + 1
          /\ (src - n) + n - 1 = src - 1
      BY <1>2, <2>1
    <3>2. SubSeq(Positions(src - n, src - 1), n, n) = Positions((src - n) + n - 1, (src - n) + n - 1)
      BY <3>1, PositionsPart
    <3>3. At + TsSize = n
      BY <1>0, <1>2, <2>1
    <3> QED
      BY <1>0, <1>2, <3>1, <3>2, <3>3
  <2>5. Positions(src - 1, src - 1) \in Seq(Place) /\ Len(Positions(src - 1, src - 1)) = 1
    <3>1. PICK q : q = src - 1
      OBVIOUS
    <3>2. q \in Nat \ {0} /\ q \in Nat /\ q <= q + 1 /\ q <= N /\ q - q + 1 = 1 /\ N \in Nat
      BY <1>2, <2>1, <3>1
    <3>3. Positions(q, q) \in Seq(1 .. N) /\ Len(Positions(q, q)) = q - q + 1
      <4>1. PICK j, M : j = q /\ M = N
        OBVIOUS
      <4>2. q \in Nat \ {0} /\ j \in Nat /\ M \in Nat /\ q <= j + 1 /\ j <= M
        BY <3>2, <4>1
      <4>3. Positions(q, j) \in Seq(1 .. M) /\ Len(Positions(q, j)) = j - q + 1
        BY <4>2, PositionsAre
      <4> QED
        BY <4>1, <4>3, Zenon
    <3> QED
      BY <3>1, <3>2, <3>3 DEF Place
  <2>6. /\ u \in TsRec /\ u.sync = TRUE /\ u.cont = t.cont /\ u.consume = t.consume
        /\ u.todo = t.todo /\ u.skip = t.skip /\ u.data = Positions(src - 1, src - 1)
        /\ u.look = 1
    <3>1. u = [t EXCEPT !.data = Positions(src - 1, src - 1), !.look = 1]
      BY <2>2, <2>3, <2>4
    <3> HIDE DEF u
    <3> QED
      BY <2>5, <3>1 DEF TsRec
  <2> HIDE DEF u
  <2>7. Len(u.data) = 1 /\ 1 < src
    BY <1>2, <2>1, <2>5, <2>6
  <2>8. Collects(u, src)
    <3>1. u.data = Positions(src - Len(u.data), src - 1) /\ Len(u.data) < src
      BY <2>6, <2>7
    <3>2. Len(u.data) + u.look = 2
      <4>1. u.look = 1 /\ Len(u.data) = 1
        BY <2>6, <2>7, Zenon
      <4> QED
        BY <4>1
    <3>3. ~ (u.skip > 0) /\ ~ (u.consume > 0) /\ u.consume <= u.todo /\ u.cont \in -1 .. Counter - 1
      BY <2>1, <2>6
    <3> QED
      BY <2>6, <3>1, <3>2, <3>3 DEF Collects, TS_HEADER_LOOKAHEAD
  <2> QED
    BY <2>6, <2>8 DEF u
<1> QED
  BY <1>3, <1>4

LEMMA SkippedFollows ==
  ASSUME PlaceInv, pc = "parse", InSync,
         NEW t \in TsRec, t.cont \in -1 .. Counter - 1, t.consume = 0, t.skip = 0
  PROVE  /\ Collects(Skipped(t), src)
         /\ Skipped(t).todo = t.todo /\ Skipped(t).consume = 0
<1> DEFINE v == [t EXCEPT !.sync = TRUE, !.skip = IF Avail <= TsSize THEN TsSize - Avail ELSE @]
<1>1. Avail \in Nat /\ TsSize \in Nat
  BY HeaderFound, DemuxAssumption
<1>2. /\ v \in TsRec /\ v.sync = TRUE /\ v.cont = t.cont /\ v.consume = t.consume
      /\ v.todo = t.todo /\ v.skip = IF Avail <= TsSize THEN TsSize - Avail ELSE t.skip
  <2>1. PICK m : m = IF Avail <= TsSize THEN TsSize - Avail ELSE t.skip
    OBVIOUS
  <2>2. m \in Nat
    BY <1>1, <2>1
  <2>3. v = [t EXCEPT !.sync = TRUE, !.skip = m]
    BY <2>1
  <2> HIDE DEF v
  <2> QED
    BY <2>1, <2>2, <2>3 DEF TsRec
<1>3. Skipped(t) = NextHeader(v)
  BY DEF Skipped
<1> HIDE DEF v
<1>4. v.skip > 0 \/ v.consume > 0 => Avail <= TsSize
  BY <1>1, <1>2
<1>5. v.consume <= v.todo
  BY <1>2 DEF TsRec
<1> QED
  BY <1>2, <1>3, <1>4, <1>5, NextFollows

LEMMA ParseStep ==
  ASSUME PlaceInv, pc = "parse", UNCHANGED <<input, bufVars, wrap>>, pc' = "ts",
         NEW t, ts' = t, Collects(t, src), PesOK'
  PROVE  PlaceInv'
<1>1. src \in Nat \ {0} /\ input.mode # "pes"
  BY ParseFacts
<1>2. CallerOK'
  BY SameCaller DEF PlaceInv, CallerOK, bufVars
<1>3. TsOK'
  BY TsCollected DEF bufVars
<1> QED
  BY <1>1, <1>2, <1>3, TsLayer DEF bufVars

LEMMA SyncLostKeeps ==
  ASSUME PlaceInv, TsSyncLost
  PROVE  PlaceInv'
<1>0. PICK z : z = TS_SYNC_SEARCH_LOOKAHEAD - Len(ts.data)
  OBVIOUS
<1> DEFINE t == [ts EXCEPT !.sync = FALSE, !.todo = 0, !.consume = 0, !.cont = -1, !.look = z]
<1>1. /\ pc = "parse" /\ ts.sync /\ UNCHANGED <<input, bufVars, wrap, pes>> /\ pc' = "ts"
      /\ ts' = t
  BY <1>0 DEF TsSyncLost
<1>2. z = TsSize - 1 /\ z \in Nat /\ Len(ts.data) = 2
  <2>1. Len(ts.data) = 2 /\ TsSize \in Nat /\ TsSize >= 6
    BY <1>1, ParseFacts
  <2> QED
    BY <1>0, <2>1 DEF TS_SYNC_SEARCH_LOOKAHEAD, TS_HEADER_LOOKAHEAD
<1>3. /\ t \in TsRec /\ t.sync = FALSE /\ t.todo = 0 /\ t.consume = 0 /\ t.cont = -1
      /\ t.look = z /\ t.skip = ts.skip /\ t.data = ts.data
  <2>1. ts \in TsRec /\ -1 \in Int
    BY <1>1, ParseFacts
  <2>2. t = [ts EXCEPT !.sync = FALSE, !.todo = 0, !.consume = 0, !.cont = -1, !.look = z]
    OBVIOUS
  <2> HIDE DEF t
  <2> QED
    BY <1>2, <2>1, <2>2 DEF TsRec
<1> HIDE DEF t
<1>4. Collects(t, src)
  <2>1. /\ ts.skip = 0 /\ Len(ts.data) < src /\ ts.data = Positions(src - Len(ts.data), src - 1)
        /\ TsSize \in Nat /\ TsSize >= 6
    BY <1>1, ParseFacts
  <2>2. 2 + z = TS_SYNC_SEARCH_LOOKAHEAD /\ -1 \in -1 .. Counter - 1 /\ ~ (0 > 0) /\ 0 <= 0
    BY <1>2, <2>1, DemuxAssumption DEF TS_SYNC_SEARCH_LOOKAHEAD, TS_HEADER_LOOKAHEAD
  <2> QED
    BY <1>2, <1>3, <2>1, <2>2 DEF Collects
<1>5. PesOK'
  <2>1. ts'.todo = 0
    BY <1>1, <1>3
  <2> QED
    BY <1>1, <2>1, SamePes DEF PlaceInv
<1> QED
  BY <1>1, <1>4, <1>5, ParseStep

LEMMA NoSyncKeeps ==
  ASSUME PlaceInv, TsNoSync
  PROVE  PlaceInv'
<1>0. PICK d, z : /\ d = SubSeq(ts.data, TsSize + 1, Len(ts.data))
                  /\ z = TS_SYNC_SEARCH_LOOKAHEAD - Len(d)
  OBVIOUS
<1> DEFINE t == [ts EXCEPT !.data = d, !.look = z]
<1>1. /\ pc = "parse" /\ ~ ts.sync /\ UNCHANGED <<input, bufVars, wrap, pes>> /\ pc' = "ts"
      /\ ts' = t
  BY <1>0 DEF TsNoSync
<1>2. /\ ts \in TsRec /\ ts.skip = 0 /\ ts.consume = 0 /\ ts.cont \in -1 .. Counter - 1
      /\ ts.todo \in Nat /\ Len(ts.data) = TsSize + 1 /\ Len(ts.data) < src
      /\ ts.data = Positions(src - Len(ts.data), src - 1)
      /\ TsSize \in Nat /\ TsSize >= 6 /\ src \in Nat \ {0} /\ src <= N + 1 /\ N \in Nat
  BY <1>1, ParseFacts
<1>3. PICK q, m : q = src - 1 /\ m = TsSize + 1
  OBVIOUS
<1>4. /\ q \in Nat \ {0} /\ m \in Nat \ {0} /\ q <= N /\ src - m \in Nat \ {0} /\ src - m <= q + 1
      /\ m <= m + 1 /\ m <= q - (src - m) + 1 /\ (src - m) + m - 1 = q /\ q - q + 1 = 1
      /\ q <= q + 1
  BY <1>2, <1>3
<1>5. d = Positions(q, q)
  <2>1. PICK a : a = src - m
    OBVIOUS
  <2>2. /\ a \in Nat \ {0} /\ q \in Nat /\ a <= q + 1 /\ m \in Nat \ {0} /\ m \in Nat /\ m <= m + 1
        /\ m <= q - a + 1 /\ a + m - 1 = q
    BY <1>4, <2>1
  <2>3. SubSeq(Positions(a, q), m, m) = Positions(a + m - 1, a + m - 1)
    BY <2>2, PositionsPart
  <2>4. ts.data = Positions(a, q) /\ d = SubSeq(ts.data, m, m)
    BY <1>0, <1>2, <1>3, <2>1
  <2> QED
    BY <2>2, <2>3, <2>4
<1>6. d \in Seq(Place) /\ Len(d) = 1
  <2>1. Positions(q, q) \in Seq(1 .. N) /\ Len(Positions(q, q)) = q - q + 1
    BY <1>2, <1>4, PositionsAre
  <2> QED
    BY <1>4, <1>5, <2>1 DEF Place
<1>7. z = TsSize /\ 1 + z = TS_SYNC_SEARCH_LOOKAHEAD
  BY <1>0, <1>2, <1>6 DEF TS_SYNC_SEARCH_LOOKAHEAD, TS_HEADER_LOOKAHEAD
<1>8. /\ t \in TsRec /\ ~ t.sync /\ t.todo = ts.todo /\ t.consume = 0 /\ t.cont = ts.cont
      /\ t.look = z /\ t.skip = 0 /\ t.data = d
  BY <1>1, <1>2, <1>6, <1>7 DEF TsRec
<1> HIDE DEF t
<1>9. Collects(t, src)
  <2>1. Len(t.data) = 1 /\ src - 1 = q /\ 1 < src /\ t.data = Positions(q, q)
    BY <1>2, <1>3, <1>5, <1>6, <1>8
  <2>2. ~ (t.skip > 0) /\ ~ (t.consume > 0) /\ t.consume <= t.todo
    BY <1>2, <1>8
  <2> QED
    BY <1>2, <1>7, <1>8, <2>1, <2>2 DEF Collects
<1>10. PesOK'
  <2>1. ts'.todo = ts.todo
    BY <1>1, <1>8
  <2> QED
    BY <1>1, <2>1, SamePes DEF PlaceInv
<1> QED
  BY <1>1, <1>9, <1>10, ParseStep

LEMMA SkipKeeps ==
  ASSUME PlaceInv, TsSkip \/ TsDiscard
  PROVE  PlaceInv'
<1>1. /\ pc = "parse" /\ InSync /\ UNCHANGED <<input, bufVars, wrap, pes>> /\ pc' = "ts"
  BY DEF TsSkip, TsDiscard
<1>2. /\ ts \in TsRec /\ ts.skip = 0 /\ ts.consume = 0 /\ ts.cont \in -1 .. Counter - 1
      /\ Header.cc \in Nat
  BY <1>1, ParseFacts, HeaderFound
<1>3. CASE TsSkip
  <2>1. ts' = Skipped(ts)
    BY <1>3 DEF TsSkip
  <2>2. Collects(Skipped(ts), src) /\ Skipped(ts).todo = ts.todo
    BY <1>1, <1>2, SkippedFollows
  <2>3. PesOK'
    BY <1>1, <2>1, <2>2, SamePes DEF PlaceInv
  <2> QED
    BY <1>1, <2>1, <2>2, <2>3, ParseStep
<1>4. CASE TsDiscard
  <2>1. PICK n : n = IF Broken(Header) THEN ts.cont ELSE (Header.cc + 1) % Counter
    OBVIOUS
  <2> DEFINE t == [ts EXCEPT !.todo = 0, !.consume = 0, !.cont = n]
  <2>2. ts' = Skipped(t)
    BY <1>4, <2>1 DEF TsDiscard
  <2>3. n \in -1 .. Counter - 1
    <3>1. Counter \in Nat /\ Counter > 0
      BY DemuxAssumption
    <3>2. (Header.cc + 1) % Counter \in 0 .. Counter - 1
      BY <1>2, <3>1
    <3> QED
      BY <1>2, <2>1, <3>1, <3>2
  <2>4. /\ t \in TsRec /\ t.todo = 0 /\ t.consume = 0 /\ t.cont = n /\ t.skip = 0
    <3>1. n \in Int
      BY <2>3, DemuxAssumption
    <3>2. t = [ts EXCEPT !.todo = 0, !.consume = 0, !.cont = n]
      OBVIOUS
    <3> HIDE DEF t
    <3> QED
      BY <1>2, <3>1, <3>2 DEF TsRec
  <2> HIDE DEF t
  <2>5. Collects(Skipped(t), src) /\ Skipped(t).todo = 0
    BY <1>1, <2>3, <2>4, SkippedFollows
  <2>6. PesOK'
    BY <1>1, <2>2, <2>5, SamePes DEF PlaceInv
  <2> QED
    BY <1>1, <2>2, <2>5, <2>6, ParseStep
<1> QED
  BY <1>3, <1>4

LEMMA TakeKeeps ==
  ASSUME PlaceInv, TsTake
  PROVE  PlaceInv'
<1> DEFINE h     == Header
           begin == ts.todo = 0
<1>0. PICK i, v, todo, all, n :
        /\ i = At /\ v = Avail
        /\ todo = IF begin THEN TsCell(i + 1).len + 1 ELSE ts.todo
        /\ all = Smaller(todo, Payload)
        /\ n = Smaller(v - 1, all)
  OBVIOUS
<1> DEFINE b == IF begin THEN <<>> ELSE pes
           e == SubSeq(ts.data, i + 1, i + n)
           t == [ts EXCEPT !.sync = TRUE, !.todo = todo - n, !.cont = (h.cc + 1) % Counter,
                           !.consume = IF v <= TsSize THEN all - n ELSE @]
<1>1. /\ pc = "parse" /\ InSync /\ UNCHANGED <<input, bufVars, wrap>> /\ pc' = "ts"
      /\ pes' = b \o e /\ ts' = NextHeader(t) /\ ~BadPayload(h)
  BY <1>0 DEF TsTake
<1>2. /\ ts \in TsRec /\ ts.skip = 0 /\ ts.consume = 0 /\ ts.todo \in Nat
      /\ Len(ts.data) \in Nat /\ TsSize \in Nat /\ TsSize >= 6 /\ ts.data \in Seq(Place)
      /\ \A k \in 1 .. Len(ts.data) : ts.data[k] \in Place
  BY <1>1, ParseFacts
<1>3. /\ i \in Nat \ {0} /\ v \in Nat /\ v >= 2 /\ v <= TsSize + 1 /\ v = Len(ts.data) - i + 1
      /\ h.cc \in Nat
  BY <1>0, <1>1, HeaderFound
<1>4. PICK m : m = Len(ts.data)
  OBVIOUS
<1>5. i + 1 \in 1 .. m /\ TsCell(i + 1) = Cell(ts.data[i + 1]) /\ ts.data[i + 1] \in Place
  <2>1. i + 1 \in 1 .. m
    BY <1>2, <1>3, <1>4
  <2> QED
    BY <1>2, <1>4, <2>1 DEF TsCell
<1>6. begin => /\ TsCell(i + 1).k = "start" /\ TsCell(i + 1).len \in Nat
               /\ TsCell(i + 1).len >= MinLength
  <2> SUFFICES ASSUME begin PROVE /\ TsCell(i + 1).k = "start" /\ TsCell(i + 1).len \in Nat
                                  /\ TsCell(i + 1).len >= MinLength
    OBVIOUS
  <2>1. IsVbi(TsCell(i + 1)) /\ TsCell(i + 1).len >= MinLength
    BY <1>0, <1>1, Zenon DEF BadPayload
  <2> QED
    BY <1>5, <2>1, CellsAre DEF IsVbi, PlaceInv
<1>7. todo \in Nat /\ todo >= 1
  BY <1>0, <1>2, <1>6
<1>8. /\ all \in Nat /\ all >= 1 /\ all <= todo /\ all <= TsSize - 1
      /\ n \in Nat /\ n >= 1 /\ n <= v - 1 /\ n <= all
      /\ v > TsSize => n = all
  <2>1. Payload \in Nat /\ Payload >= 1 /\ Payload = TsSize - 1
    BY <1>2 DEF Payload
  <2>2. all \in Nat /\ all >= 1 /\ all <= todo /\ all <= TsSize - 1
    BY <1>0, <1>7, <2>1 DEF Smaller
  <2>3. n = IF v - 1 < all THEN v - 1 ELSE all
    BY <1>0 DEF Smaller
  <2> QED
    BY <1>2, <1>3, <2>2, <2>3
<1>9. PICK w, g : w = (IF v <= TsSize THEN all - n ELSE ts.consume) /\ g = (h.cc + 1) % Counter
  OBVIOUS
<1>10. /\ w \in Nat /\ w <= todo - n /\ todo - n \in Nat /\ g \in 0 .. Counter - 1
       /\ w > 0 => v <= TsSize
  <2>1. g \in 0 .. Counter - 1
    <3>1. PICK c : c = h.cc
      OBVIOUS
    <3>2. c \in Nat /\ Counter \in Nat /\ Counter > 0 /\ g = (c + 1) % Counter
      BY <1>3, <1>9, <3>1, DemuxAssumption
    <3> QED
      BY <3>2
  <2> HIDE DEF h
  <2>2. CASE v <= TsSize
    <3>1. w = all - n
      BY <1>9, <2>2
    <3> QED
      BY <1>7, <1>8, <2>1, <2>2, <3>1
  <2>3. CASE ~ (v <= TsSize)
    <3>1. w = ts.consume /\ n = all
      BY <1>2, <1>3, <1>8, <1>9, <2>3
    <3> QED
      BY <1>2, <1>7, <1>8, <2>1, <2>3, <3>1
  <2> QED
    BY <2>2, <2>3
<1>11. /\ t \in TsRec /\ t.sync = TRUE /\ t.todo = todo - n /\ t.cont = g /\ t.consume = w
       /\ t.skip = 0
  <2>1. t = [ts EXCEPT !.sync = TRUE, !.todo = todo - n, !.cont = g, !.consume = w]
    BY <1>9
  <2>2. g \in Int
    BY <1>10, DemuxAssumption
  <2> HIDE DEF t
  <2> QED
    BY <1>2, <1>10, <2>1, <2>2 DEF TsRec
<1> HIDE DEF t
<1>12. /\ Collects(NextHeader(t), src) /\ NextHeader(t).todo = todo - n
  <2>1. t.cont \in -1 .. Counter - 1 /\ t.consume <= t.todo
    BY <1>10, <1>11, DemuxAssumption
  <2>2. t.skip > 0 \/ t.consume > 0 => Avail <= TsSize
    BY <1>0, <1>10, <1>11
  <2> QED
    BY <1>1, <1>11, <2>1, <2>2, NextFollows
<1>13. e \in Seq(Place) /\ Len(e) = n /\ e[1] = ts.data[i + 1]
  <2>1. i + n <= m /\ i + 1 \in Int /\ i + n \in Int
    BY <1>2, <1>3, <1>4, <1>8
  <2>2. \A k \in i + 1 .. i + n : ts.data[k] \in Place
    BY <1>2, <1>3, <1>4, <2>1
  <2>3. /\ e \in Seq(Place)
        /\ Len(e) = IF i + 1 <= i + n THEN (i + n) - (i + 1) + 1 ELSE 0
        /\ \A k \in 1 .. (i + n) - (i + 1) + 1 : e[k] = ts.data[(i + 1) + k - 1]
    BY <2>1, <2>2, SubSeqProperties
  <2> HIDE DEF e
  <2>4. (i + n) - (i + 1) + 1 = n /\ i + 1 <= i + n /\ 1 \in 1 .. n /\ (i + 1) + 1 - 1 = i + 1
    BY <1>3, <1>8
  <2> QED
    BY <2>3, <2>4
<1> HIDE DEF e
<1>14. PesOK'
  <2>0. Place' = Place /\ \A p : Cell(p)' = Cell(p)
    BY <1>1, SameStream
  <2>1. b \in Seq(Place) /\ Len(b) \in Nat
    BY DEF PlaceInv, PesOK
  <2>2. /\ b \o e \in Seq(Place) /\ Len(b \o e) = Len(b) + Len(e)
        /\ \A k \in 1 .. Len(b) + Len(e) : (b \o e)[k] = IF k <= Len(b) THEN b[k] ELSE e[k - Len(b)]
    BY <1>13, <2>1, ConcatProperties
  <2>3. PICK c : c = Cell((b \o e)[1])
    OBVIOUS
  <2>4. c.k = "start" /\ c.len >= MinLength /\ Len(b) + todo = c.len + 1
    <3>1. CASE begin
      <4>1. Len(b) = 0
        BY <3>1
      <4>2. 1 \in 1 .. Len(b) + Len(e) /\ ~ (1 <= Len(b)) /\ 1 - Len(b) = 1
        BY <1>8, <1>13, <4>1
      <4>3. (b \o e)[1] = e[1]
        <5> HIDE DEF b
        <5> QED
          BY <2>2, <4>2
      <4>4. c = TsCell(i + 1)
        BY <1>5, <1>13, <2>3, <4>3
      <4>5. todo = c.len + 1
        BY <1>0, <3>1, <4>4
      <4> QED
        BY <1>6, <3>1, <4>1, <4>4, <4>5
    <3>2. CASE ~ begin
      <4>1. /\ b = pes /\ ts.todo > 0 /\ todo = ts.todo
        BY <1>0, <1>2, <3>2
      <4>2. /\ pes \in Seq(Place) /\ pes # <<>> /\ Cell(pes[1]).k = "start"
            /\ Cell(pes[1]).len >= MinLength /\ Len(pes) + ts.todo = Cell(pes[1]).len + 1
        BY <4>1 DEF PlaceInv, PesOK
      <4>3. 1 \in 1 .. Len(b) + Len(e) /\ 1 <= Len(b)
        <5>1. Len(pes) \in Nat /\ Len(pes) # 0
          BY <4>2
        <5> HIDE DEF b
        <5> QED
          BY <1>8, <1>13, <4>1, <5>1
      <4>4. (b \o e)[1] = pes[1]
        <5> HIDE DEF b
        <5> QED
          BY <2>2, <4>1, <4>3
      <4> HIDE DEF b
      <4> QED
        BY <2>3, <4>1, <4>2, <4>4
    <3> QED
      BY <3>1, <3>2
  <2> HIDE DEF b
  <2>5. pes' = b \o e /\ ts'.todo = todo - n
    BY <1>1, <1>12
  <2>6. b \o e # <<>>
    <3>1. Len(b \o e) > 0
      BY <1>8, <1>13, <2>1, <2>2
    <3> QED
      BY <2>2, <3>1
  <2>7. Len(b \o e) + (todo - n) = c.len + 1
    BY <1>7, <1>8, <1>13, <2>1, <2>2, <2>4
  <2> QED
    BY <2>0, <2>2, <2>3, <2>4, <2>5, <2>6, <2>7 DEF PesOK, MinLength
<1> QED
  BY <1>1, <1>12, <1>14, ParseStep

-----------------------------------------------------------------------------
(* Filling the buffers. *)

LEMMA TsMode ==
  ASSUME PlaceInv, pc \in {"ts", "fill"}
  PROVE  input.mode # "pes"
  BY DEF PlaceInv, Layers

LEMMA LeftIs ==
  ASSUME CallerOK
  PROVE  /\ Left = last - src + 1 /\ Left \in Nat /\ src + Left = last + 1
         /\ src \in Nat \ {0} /\ last \in Nat /\ last <= N /\ N \in Nat
  BY StreamSize DEF CallerOK, Left

LEMMA Joined ==
  ASSUME NEW a \in Seq(Place), NEW b \in Seq(Place)
  PROVE  /\ a \o b \in Seq(Place) /\ Len(a \o b) = Len(a) + Len(b) /\ Len(a) \in Nat
         /\ \A k \in 1 .. Len(a) + Len(b) : (a \o b)[k] = IF k <= Len(a) THEN a[k] ELSE b[k - Len(a)]
<1> HIDE DEF Place
<1>1. a \o b \in Seq(Place) /\ Len(a \o b) = Len(a) + Len(b)
  BY ConcatProperties
<1>2. \A k \in 1 .. Len(a) + Len(b) : (a \o b)[k] = IF k <= Len(a) THEN a[k] ELSE b[k - Len(a)]
  BY ConcatProperties
<1>3. Len(a) \in Nat
  OBVIOUS
<1> QED
  BY <1>1, <1>2, <1>3

LEMMA CopyKeeps ==
  ASSUME PlaceInv, TsCopy
  PROVE  PlaceInv'
<1>0. PICK n, l : n = Smaller(ts.consume, Left) /\ l = Left
  OBVIOUS
<1> DEFINE e == Positions(src, src + n - 1)
           t == [ts EXCEPT !.consume = @ - n, !.todo = @ - n]
<1>1. /\ pc = "ts" /\ UNCHANGED <<input, first, last, size, wrap>>
      /\ pes' = pes \o e /\ ts' = t /\ src' = src + n
      /\ \/ ts.consume > l /\ pc' = "app"
         \/ ts.consume \in 1 .. l /\ pc' \in {"ts", "frame"}
         \/ ts.consume \in 0 .. l /\ pc' = "frame"
  BY <1>0 DEF TsCopy, Return, PesComplete
<1>2. /\ Left = last - src + 1 /\ l \in Nat /\ src + l = last + 1
      /\ src \in Nat \ {0} /\ last \in Nat /\ last <= N /\ N \in Nat
  BY <1>0, LeftIs DEF PlaceInv
<1>3. /\ ts \in TsRec /\ ts.consume \in Nat /\ ts.todo \in Nat /\ ts.consume <= ts.todo
      /\ Collects(ts, src) /\ pes \in Seq(Place)
  BY <1>1, TsCollects DEF PlaceInv, TsOK, TsRec, PesOK
<1>4. n \in Nat /\ n <= l /\ n <= ts.consume /\ (ts.consume <= l => n = ts.consume)
  BY <1>0, <1>2, <1>3 DEF Smaller
<1>5. PICK w, z : w = ts.consume - n /\ z = ts.todo - n
  OBVIOUS
<1>6. w \in Nat /\ z \in Nat /\ w <= z
  BY <1>3, <1>4, <1>5
<1>7. /\ t \in TsRec /\ t.consume = w /\ t.todo = z /\ t.skip = ts.skip /\ t.data = ts.data
      /\ t.look = ts.look /\ t.sync = ts.sync /\ t.cont = ts.cont
  <2>1. t = [ts EXCEPT !.consume = w, !.todo = z]
    BY <1>5
  <2> HIDE DEF t
  <2> QED
    BY <1>3, <1>6, <2>1 DEF TsRec
<1> HIDE DEF t
<1>8. Collects(t, src + n)
  <2>1. CASE n = 0
    <3>1. src + n = src /\ w = ts.consume
      BY <1>2, <1>3, <1>5, <2>1
    <3> QED
      BY <1>3, <1>6, <1>7, <3>1 DEF Collects
  <2>2. CASE n # 0
    <3>1. ts.data = <<>>
      <4>1. ts.consume > 0
        BY <1>3, <1>4, <2>2
      <4> QED
        BY <1>3, <4>1 DEF Collects
    <3>2. Len(t.data) = 0 /\ 0 < src + n
      BY <1>2, <1>4, <1>7, <3>1
    <3>3. t.data = Positions((src + n) - Len(t.data), (src + n) - 1)
      <4>1. PICK s : s = src + n
        OBVIOUS
      <4>2. s \in Nat
        BY <1>2, <1>4, <4>1
      <4> QED
        BY <1>7, <3>1, <3>2, <4>1, <4>2, NoPositions
    <3> QED
      BY <1>3, <1>6, <1>7, <3>1, <3>2, <3>3 DEF Collects
  <2> QED
    BY <2>1, <2>2
<1>9. w > 0 => pc' \in {"app", "ts"}
  <2>1. ts.consume \in 1 .. l => w = 0
    BY <1>2, <1>3, <1>4, <1>5
  <2>2. ts.consume \in 0 .. l => w = 0
    BY <1>2, <1>3, <1>4, <1>5
  <2> QED
    BY <1>1, <2>1, <2>2
<1>10. TsOK'
  BY <1>1, <1>7, <1>8, <1>9, TsCollected
<1>11. src' \in Nat \ {0} /\ src <= src' /\ src' <= last + 1
  BY <1>1, <1>2, <1>4
<1>12. CallerOK'
  BY <1>1, <1>11, SameCaller DEF PlaceInv
<1>13. PesOK'
  <2>0. Place' = Place /\ \A p : Cell(p)' = Cell(p)
    BY <1>1, SameStream
  <2>1. e \in Seq(Place) /\ Len(e) = n
    <3>1. /\ src + n - 1 \in Nat /\ src <= (src + n - 1) + 1 /\ src + n - 1 <= N
          /\ (src + n - 1) - src + 1 = n
      BY <1>2, <1>4
    <3> QED
      BY <1>2, <3>1, PositionsAre DEF Place
  <2> HIDE DEF e
  <2>2. /\ pes \o e \in Seq(Place) /\ Len(pes \o e) = Len(pes) + Len(e) /\ Len(pes) \in Nat
        /\ \A k \in 1 .. Len(pes) + Len(e) : (pes \o e)[k] = IF k <= Len(pes) THEN pes[k] ELSE e[k - Len(pes)]
    BY <1>3, <2>1, Joined
  <2>3. ASSUME z > 0
        PROVE  /\ pes \o e # <<>>
               /\ Cell((pes \o e)[1]).k = "start" /\ Cell((pes \o e)[1]).len >= MinLength
               /\ Len(pes \o e) + z = Cell((pes \o e)[1]).len + 1
    <3>1. ts.todo > 0
      BY <1>3, <1>4, <1>5, <2>3
    <3>2. PICK c : c = Cell(pes[1])
      OBVIOUS
    <3>3. pes # <<>> /\ c.k = "start" /\ c.len >= MinLength /\ Len(pes) + ts.todo = c.len + 1
      BY <3>1, <3>2 DEF PlaceInv, PesOK
    <3>4. 1 \in 1 .. Len(pes) + Len(e) /\ 1 <= Len(pes)
      <4>1. Len(pes) # 0
        BY <1>3, <3>3
      <4> QED
        BY <1>4, <2>1, <2>2, <4>1
    <3>5. (pes \o e)[1] = pes[1]
      BY <2>2, <3>4
    <3>6. Len(pes \o e) + z = c.len + 1
      BY <1>3, <1>4, <1>5, <2>1, <2>2, <3>3
    <3>7. pes \o e # <<>>
      <4>1. Len(pes \o e) > 0
        BY <1>4, <2>1, <2>2, <3>4
      <4> QED
        BY <2>2, <4>1
    <3> QED
      BY <3>2, <3>3, <3>5, <3>6, <3>7
  <2>4. pes' = pes \o e /\ ts'.todo = z
    BY <1>1, <1>7
  <2> QED
    BY <2>0, <2>2, <2>3, <2>4 DEF PesOK, MinLength
<1>14. pc' \in {"app", "ts", "frame", "fill", "parse"}
  BY <1>1
<1> QED
  BY <1>1, <1>10, <1>11, <1>12, <1>13, <1>14, TsMode, TsLayer

LEMMA FillKeeps ==
  ASSUME PlaceInv, TsFill
  PROVE  PlaceInv'
<1>1. /\ pc = "fill" /\ UNCHANGED <<input, first, last, size, wrap, pes>>
  BY DEF TsFill
<1>2. PICK l, k, z, m : l = Left /\ k = ts.skip /\ z = last /\ m = Len(ts.data)
  OBVIOUS
<1>3. /\ Left = z - src + 1 /\ l = z - src + 1 /\ l \in Nat /\ src + l = z + 1
      /\ src \in Nat \ {0} /\ z \in Nat /\ z <= N /\ N \in Nat
  BY <1>2, LeftIs DEF PlaceInv
<1>4. /\ ts \in TsRec /\ k \in Nat /\ m \in Nat /\ ts.look \in Nat /\ ts.consume = 0 /\ ts.todo \in Nat
      /\ ts.cont \in -1 .. Counter - 1
      /\ m < src /\ ts.data = Positions(src - m, src - 1) /\ (k > 0 => ts.data = <<>>)
      /\ m + ts.look = HeaderSize
  BY <1>1, <1>2 DEF PlaceInv, TsOK, TsRec
<1>5. CASE k > l
  <2> DEFINE t == [ts EXCEPT !.skip = k - l]
  <2>1. ts' = t /\ src' = z + 1 /\ pc' = "app"
    BY <1>2, <1>5 DEF TsFill, Return
  <2>2. k - l \in Nat /\ k > 0 /\ z + 1 \in Nat \ {0} /\ src <= z + 1
    BY <1>3, <1>4, <1>5
  <2>3. /\ t \in TsRec /\ t.skip = k - l /\ t.consume = 0 /\ t.todo = ts.todo /\ t.data = <<>>
        /\ t.look = ts.look /\ t.sync = ts.sync /\ t.cont = ts.cont
    BY <1>4, <2>2 DEF TsRec
  <2> HIDE DEF t
  <2>4. Collects(t, z + 1)
    <3>1. Len(t.data) = 0 /\ m = 0
      BY <1>2, <1>4, <2>2, <2>3
    <3>2. t.data = Positions((z + 1) - Len(t.data), (z + 1) - 1)
      <4>1. PICK s : s = z + 1
        OBVIOUS
      <4>2. s \in Nat
        BY <1>3, <4>1
      <4> QED
        BY <2>3, <3>1, <4>1, <4>2, NoPositions
    <3>3. t.consume <= t.todo /\ 0 < z + 1
      BY <1>3, <1>4, <2>3
    <3> QED
      BY <1>4, <2>3, <3>1, <3>2, <3>3 DEF Collects, HeaderSize
  <2>5. TsOK'
    BY <1>1, <2>1, <2>3, <2>4, TsCollected
  <2>6. CallerOK'
    BY <1>1, <1>2, <2>1, <2>2, SameCaller DEF PlaceInv
  <2>7. PesOK'
    BY <1>1, <2>1, <2>3, SamePes DEF PlaceInv
  <2> QED
    BY <1>1, <2>1, <2>2, <2>5, <2>6, <2>7, TsMode, TsLayer
<1>6. CASE ~ (k > l)
  <2>0. PICK s, n, y : /\ s = src + k /\ n = Smaller(ts.look, z - s + 1)
                       /\ y = IF n = ts.look THEN ts.look ELSE ts.look - n
    OBVIOUS
  <2> DEFINE d == ts.data \o Positions(s, s + n - 1)
             t == [ts EXCEPT !.skip = 0, !.data = d, !.look = y]
  <2>1. /\ ts' = t /\ src' = s + n
        /\ IF n = ts.look THEN pc' = "parse" ELSE pc' = "app"
    BY <1>2, <1>6, <2>0 DEF TsFill, Return
  <2>2. s \in Nat \ {0} /\ src <= s /\ s <= z + 1 /\ z - s + 1 \in Nat
    BY <1>3, <1>4, <1>6, <2>0
  <2>3. /\ n \in Nat /\ n <= ts.look /\ s + n <= z + 1 /\ y \in Nat
        /\ n # ts.look => y = ts.look - n
    <3>1. PICK q, r : q = ts.look /\ r = z - s + 1
      OBVIOUS
    <3>2. q \in Nat /\ r \in Nat
      BY <1>4, <2>2, <3>1
    <3>3. n = IF q < r THEN q ELSE r
      BY <2>0, <3>1 DEF Smaller
    <3>4. n \in Nat /\ n <= q /\ n <= r
      BY <3>2, <3>3
    <3>5. s + n <= z + 1
      BY <1>3, <2>2, <3>1, <3>4
    <3>6. y = IF n = q THEN q ELSE q - n
      BY <2>0, <3>1
    <3>7. y \in Nat /\ (n # q => y = q - n)
      BY <3>2, <3>4, <3>6
    <3> QED
      BY <3>1, <3>4, <3>5, <3>7
  <2>4. PICK x : x = s + n - 1
    OBVIOUS
  <2>5. /\ x \in Nat /\ x <= N /\ s <= x + 1 /\ s - 1 <= x /\ s + n = x + 1 /\ m < s
        /\ s - 1 \in Nat /\ s - m \in Nat \ {0} /\ s - m <= (s - 1) + 1 /\ s - m <= x + 1
        /\ (s - 1) + 1 = s /\ x - (s - m) + 1 = m + n /\ x <= z
    <3>1. m \in Nat /\ n \in Nat /\ s \in Nat /\ z \in Nat /\ N \in Nat /\ m < s /\ s + n <= z + 1 /\ z <= N
      <4>1. m \in Nat /\ m < src
        BY <1>4
      <4> QED
        BY <1>3, <2>2, <2>3, <4>1
    <3>2. PICK M : M = N
      OBVIOUS
    <3>3. x \in Nat /\ x <= M /\ x <= z
      BY <2>2, <2>4, <3>1, <3>2
    <3>4. s <= x + 1 /\ s - 1 <= x /\ s + n = x + 1 /\ (s - 1) + 1 = s /\ s - 1 \in Nat
      BY <2>2, <2>4, <3>1
    <3>5. s - m \in Nat \ {0} /\ s - m <= (s - 1) + 1 /\ s - m <= x + 1
      BY <2>4, <3>1
    <3>6. x - (s - m) + 1 = m + n
      BY <2>4, <3>1
    <3> QED
      BY <3>1, <3>2, <3>3, <3>4, <3>5, <3>6
  <2>6. ts.data = Positions(s - m, s - 1)
    <3>1. CASE k = 0
      <4>1. s = src
        BY <1>3, <2>0, <3>1
      <4> QED
        BY <1>4, <4>1
    <3>2. CASE k # 0
      <4>1. ts.data = <<>> /\ m = 0
        BY <1>2, <1>4, <3>2
      <4>2. Positions(s - m, s - 1) = <<>>
        BY <2>2, <4>1 DEF Positions
      <4> QED
        BY <4>1, <4>2
    <3> QED
      BY <3>1, <3>2
  <2>7. d = Positions(s - m, x)
    <3>1. Positions(s - m, s - 1) \o Positions((s - 1) + 1, x) = Positions(s - m, x)
      BY <2>5, PositionsJoin
    <3> QED
      BY <2>4, <2>5, <2>6, <3>1
  <2>8. d \in Seq(Place) /\ Len(d) = m + n
    <3>1. /\ Positions(s - m, x) \in Seq(1 .. N)
          /\ Len(Positions(s - m, x)) = x - (s - m) + 1
      <4>1. PICK a : a = s - m
        OBVIOUS
      <4>2. a \in Nat \ {0} /\ x \in Nat /\ a <= x + 1 /\ x <= N /\ N \in Nat
        BY <1>3, <2>5, <4>1
      <4> QED
        BY <4>1, <4>2, PositionsAre
    <3> QED
      BY <2>5, <2>7, <3>1 DEF Place
  <2> HIDE DEF d
  <2>9. /\ t \in TsRec /\ t.skip = 0 /\ t.consume = 0 /\ t.todo = ts.todo /\ t.data = d
        /\ t.look = y /\ t.sync = ts.sync /\ t.cont = ts.cont
    BY <1>4, <2>3, <2>8 DEF TsRec
  <2> HIDE DEF t
  <2>10. /\ Len(t.data) < x + 1 /\ t.data = Positions((x + 1) - Len(t.data), (x + 1) - 1)
         /\ t.consume <= t.todo /\ ~ (t.skip > 0) /\ ~ (t.consume > 0)
    <3>1. Len(t.data) = m + n
      BY <2>8, <2>9
    <3>2. m + n < x + 1 /\ (x + 1) - (m + n) = s - m /\ (x + 1) - 1 = x
      BY <1>4, <2>2, <2>3, <2>5
    <3>3. t.consume <= t.todo /\ ~ (t.skip > 0) /\ ~ (t.consume > 0)
      BY <1>4, <2>9
    <3> QED
      BY <2>7, <2>9, <3>1, <3>2, <3>3
  <2>11. x + 1 \in Nat \ {0} /\ src <= x + 1 /\ x + 1 <= z + 1 /\ src' = x + 1
    BY <1>3, <2>1, <2>2, <2>3, <2>5
  <2>12. TsOK'
    <3>1. CASE n = ts.look
      <4>1. pc' = "parse" /\ Len(t.data) = HeaderSize
        BY <1>4, <2>1, <2>8, <2>9, <3>1
      <4>2. TsRec' = TsRec
        BY <1>1, SameStream
      <4>3. HeaderSize' = HeaderSize
        BY <2>1, <2>9 DEF HeaderSize
      <4> QED
        BY <1>4, <2>1, <2>9, <2>10, <2>11, <4>1, <4>2, <4>3 DEF TsOK
    <3>2. CASE n # ts.look
      <4>1. Len(t.data) + t.look = HeaderSize
        BY <1>4, <2>3, <2>8, <2>9, <3>2
      <4>2. Collects(t, x + 1)
        BY <1>4, <2>9, <2>10, <4>1 DEF Collects, HeaderSize
      <4> QED
        BY <1>1, <2>1, <2>9, <2>11, <3>2, <4>2, TsCollected
    <3> QED
      BY <3>1, <3>2
  <2>13. CallerOK'
    BY <1>1, <1>2, <2>11, SameCaller DEF PlaceInv
  <2>14. PesOK'
    BY <1>1, <2>1, <2>9, SamePes DEF PlaceInv
  <2>15. pc' \in {"app", "ts", "frame", "fill", "parse"}
    BY <2>1
  <2> QED
    BY <1>1, <2>11, <2>12, <2>13, <2>14, <2>15, TsMode, TsLayer
<1> QED
  BY <1>5, <1>6

-----------------------------------------------------------------------------
(* The places are kept. *)

LEMMA PlaceInit == Init => PlaceInv
<1> SUFFICES ASSUME Init PROVE PlaceInv
  OBVIOUS
<1>1. /\ input \in Inputs /\ first = 1 /\ last = 0 /\ src = 1 /\ size = 0 /\ pc = "app"
      /\ wrap = NoWrap /\ ts = NoTs /\ pes = <<>>
  BY DEF Init
<1>2. CallerOK
  BY <1>1, InputsAssumption DEF CallerOK, N
<1>3. WrapOK
  BY <1>1, WrapIdle DEF WrapOK
<1>4. TsOK
  <2>1. Collects(NoTs, 1)
    BY TsIdle
  <2>2. NoTs.consume = 0
    BY DEF NoTs
  <2> QED
    BY <1>1, <2>1, <2>2 DEF TsOK, Collects, HeaderSize
<1>5. PesOK
  BY <1>1 DEF PesOK, NoTs
<1> QED
  BY <1>1, <1>2, <1>3, <1>4, <1>5 DEF PlaceInv, Layers

LEMMA PlaceStutter ==
  ASSUME PlaceInv, UNCHANGED vars
  PROVE  PlaceInv'
<1>1. UNCHANGED <<input, first, last, src, size, pc, wrap, ts, pes>>
  BY DEF vars, bufVars, tsVars
<1>2. N' = N /\ Place' = Place /\ WrapRec' = WrapRec /\ TsRec' = TsRec /\ \A p : Cell(p)' = Cell(p)
  BY <1>1, SameStream
<1>3. CallerOK' /\ WrapOK'
  BY <1>1, <1>2 DEF PlaceInv, CallerOK, WrapOK, Continues
<1>4. TsOK'
  BY <1>1, <1>2 DEF PlaceInv, TsOK, HeaderSize
<1>5. PesOK' /\ Layers'
  BY <1>1, <1>2 DEF PlaceInv, PesOK, Layers
<1> QED
  BY <1>3, <1>4, <1>5 DEF PlaceInv

LEMMA PlaceNext == PlaceInv /\ [Next]_vars => PlaceInv'
<1> SUFFICES ASSUME PlaceInv, [Next]_vars PROVE PlaceInv'
  OBVIOUS
<1>1. CASE Feed \/ Resume \/ Reset
  BY <1>1, AppKeeps
<1>2. CASE PesPacket
  BY <1>2, PesKeeps
<1>3. CASE TsPacket
  <2>1. CASE TsCopy
    BY <2>1, CopyKeeps
  <2>2. CASE TsFill
    BY <2>2, FillKeeps
  <2>3. CASE TsSyncLost
    BY <2>3, SyncLostKeeps
  <2>4. CASE TsNoSync
    BY <2>4, NoSyncKeeps
  <2>5. CASE TsSkip \/ TsDiscard
    BY <2>5, SkipKeeps
  <2>6. CASE TsTake
    BY <2>6, TakeKeeps
  <2> QED
    BY <1>3, <2>1, <2>2, <2>3, <2>4, <2>5, <2>6 DEF TsPacket
<1>4. CASE FrameStep
  BY <1>4, FrameKeeps
<1>5. CASE UNCHANGED vars
  BY <1>5, PlaceStutter
<1> QED
  BY <1>1, <1>2, <1>3, <1>4, <1>5 DEF Next, Demux

-----------------------------------------------------------------------------
(* The frame. *)

Stream == Range(input.cells)
Units  == {c \in Stream : c.k = "unit"}
Stamps == {0} \cup {c.pts : c \in {x \in Stream : x.k = "head"}}

SlicedLine == [of : {u.of : u \in Units}, line : Nat]
DxRec == [new : BOOLEAN, lines : Seq(SlicedLine), line : Nat, field : Nat,
          du : {"none"} \cup {u.id : u \in Units}, n : Nat,
          frame_pts : Stamps, packet_pts : Stamps]
OutRec == [pts : Stamps, lines : Seq(SlicedLine)]

\* The lines of a frame ascend, and none is behind the last line address.
FrameOK(d) ==
  /\ d \in DxRec /\ Len(d.lines) <= SlicedSize
  /\ LinesAscend(d.lines)
  /\ \A a \in 1 .. Len(d.lines) : d.lines[a].line <= d.line

FrameInv ==
  /\ FrameOK(dx) /\ units \in Seq(Stream)
  /\ out \in Seq(OutRec) /\ \A i \in 1 .. Len(out) : LinesAscend(out[i].lines)

LEMMA UnitIs ==
  ASSUME input \in Inputs, NEW u \in Units
  PROVE  /\ u \in Stream /\ u.k = "unit" /\ u.field \in Nat /\ u.line \in Nat
         /\ FrameLine(u) \in Nat
<1>1. u \in Range(input.cells) /\ u.k = "unit"
  BY DEF Units, Stream
<1>2. {u.field, u.line} \subseteq Nat
  BY <1>1, InputsAssumption
<1>3. u.field \in Nat /\ u.line \in Nat
  BY <1>2
<1>4. FrameLine(u) \in Nat
  BY <1>3 DEF FrameLine, SecondField
<1> QED
  BY <1>1, <1>3, <1>4 DEF Stream

LEMMA LineBound ==
  ASSUME NEW d, FrameOK(d), NEW a \in 1 .. Len(d.lines)
  PROVE  d.lines[a].line \in Nat /\ d.lines[a].line <= d.line
<1>1. d.lines \in Seq(SlicedLine)
  BY DEF FrameOK, DxRec
<1>2. d.lines[a] \in SlicedLine
  BY <1>1
<1>3. d.lines[a].line \in Nat
  BY <1>2 DEF SlicedLine
<1> QED
  BY <1>3 DEF FrameOK

LEMMA StoredKeeps ==
  ASSUME input \in Inputs, NEW d, FrameOK(d), NEW u \in Units, Len(d.lines) < SlicedSize,
         u.line # 0 => FrameLine(u) > d.line
  PROVE  /\ FrameOK(Stored(d, u).d) /\ d.line <= Stored(d, u).d.line
         /\ Stored(d, u).d.lines = Append(d.lines, [of |-> u.of, line |-> FrameLine(u)])
<1> DEFINE x == [of |-> u.of, line |-> FrameLine(u)]
           ls == Append(d.lines, x)
           n == IF u.line = 0 THEN d.line ELSE FrameLine(u)
           r == [d EXCEPT !.field = u.field, !.line = n, !.n = @ + 1, !.lines = ls]
<1>1. Stored(d, u).d = r
  BY DEF Stored
<1>2. /\ d \in DxRec /\ d.lines \in Seq(SlicedLine) /\ Len(d.lines) \in Nat /\ d.line \in Nat
      /\ d.n + 1 \in Nat
  BY DEF FrameOK, DxRec
<1>3. u.field \in Nat /\ u.line \in Nat /\ FrameLine(u) \in Nat
  BY UnitIs
<1>4. x \in SlicedLine
  BY <1>3 DEF SlicedLine
<1>5. n \in Nat /\ d.line <= n /\ x.line <= n /\ (x.line # 0 => d.line < x.line)
  <2>1. CASE u.line = 0
    BY <1>2, <2>1 DEF FrameLine
  <2>2. CASE u.line # 0
    BY <1>2, <1>3, <2>2
  <2> QED
    BY <2>1, <2>2
<1> HIDE DEF x, n
<1>6. /\ ls \in Seq(SlicedLine) /\ Len(ls) = Len(d.lines) + 1 /\ ls[Len(d.lines) + 1] = x
      /\ \A a \in 1 .. Len(d.lines) : ls[a] = d.lines[a]
  BY <1>2, <1>4
<1> HIDE DEF ls
<1>7. r \in DxRec /\ r.lines = ls /\ r.line = n
  BY <1>2, <1>3, <1>5, <1>6 DEF DxRec
<1> HIDE DEF r
<1>8. \A a \in 1 .. Len(ls) : ls[a].line <= n
  <2> SUFFICES ASSUME NEW a \in 1 .. Len(ls) PROVE ls[a].line <= n
    OBVIOUS
  <2>1. CASE a = Len(d.lines) + 1
    BY <1>5, <1>6, <2>1
  <2>2. CASE a # Len(d.lines) + 1
    <3>1. a \in 1 .. Len(d.lines)
      BY <1>2, <1>6, <2>2
    <3>2. d.lines[a].line <= d.line /\ d.lines[a].line \in Nat
      BY <3>1, LineBound
    <3> QED
      BY <1>2, <1>5, <1>6, <3>1, <3>2
  <2> QED
    BY <2>1, <2>2
<1>9. LinesAscend(ls)
  <2> SUFFICES ASSUME NEW a \in 1 .. Len(ls), NEW b \in 1 .. Len(ls), a < b,
                      ls[a].line # 0, ls[b].line # 0
               PROVE  ls[a].line < ls[b].line
    BY DEF LinesAscend
  <2>1. a \in 1 .. Len(d.lines)
    BY <1>2, <1>6
  <2>2. ls[a] = d.lines[a] /\ d.lines[a].line <= d.line /\ d.lines[a].line \in Nat
    BY <1>6, <2>1, LineBound
  <2>3. CASE b = Len(d.lines) + 1
    <3>1. ls[b] = x /\ x.line \in Nat /\ d.line < x.line
      BY <1>4, <1>5, <1>6, <2>3 DEF SlicedLine
    <3> QED
      BY <1>2, <2>2, <3>1
  <2>4. CASE b # Len(d.lines) + 1
    <3>1. b \in 1 .. Len(d.lines)
      BY <1>2, <1>6, <2>4
    <3>2. ls[b] = d.lines[b]
      BY <1>6, <3>1
    <3> QED
      BY <2>1, <2>2, <3>1, <3>2 DEF FrameOK, LinesAscend
  <2> QED
    BY <2>3, <2>4
<1>10. Len(ls) <= SlicedSize
  BY <1>2, <1>6, DemuxAssumption
<1>11. FrameOK(r)
  BY <1>7, <1>8, <1>9, <1>10 DEF FrameOK
<1> QED
  BY <1>1, <1>5, <1>7, <1>11 DEF ls, x

LEMMA LineAddressKeeps ==
  ASSUME input \in Inputs, NEW d, FrameOK(d), NEW u \in Units
  PROVE  LET r == LineAddress(d, u)
         IN  \/ r.d = d /\ r.err \in {"bad", "new"}
             \/ /\ r.err = "ok" /\ FrameOK(r.d) /\ d.line <= r.d.line
                /\ r.d.lines = Append(d.lines, [of |-> u.of, line |-> FrameLine(u)])
<1>1. u.field \in Nat /\ u.line \in Nat /\ FrameLine(u) \in Nat
  BY UnitIs
<1>2. Len(d.lines) \in Nat /\ d.line \in Nat /\ d.n \in Nat /\ d.field \in Nat /\ SlicedSize \in Nat
  BY DemuxAssumption DEF FrameOK, DxRec
<1> DEFINE wrong == IF u.line # 0 THEN FrameLine(u) <= d.line
                    ELSE d.du # "none" /\ u.field # d.field
           c1 == Len(d.lines) >= SlicedSize
           c2 == Len(d.lines) < SlicedSize /\ wrong /\ d.n = 0
           c3 == /\ Len(d.lines) < SlicedSize /\ wrong /\ d.n > 0
                 /\ u.line # 0 \/ u.field < d.field
<1>3. LineAddress(d, u) = CASE c1 -> Bad(d) [] c2 -> NewFrame(d) [] c3 -> Bad(d) [] OTHER -> Stored(d, u)
  BY Zenon DEF LineAddress
<1>4. CASE c1 \/ c2 \/ c3
  <2>1. LineAddress(d, u) \in {Bad(d), NewFrame(d)}
    <3>1. CASE c1
      <4>1. ~c2 /\ ~c3
        BY <1>2, <3>1
      <4> HIDE DEF c1, c2, c3
      <4> QED
        BY <1>3, <3>1, <4>1
    <3>2. CASE c2
      <4>1. ~c1 /\ ~c3
        BY <1>2, <3>2
      <4> HIDE DEF c1, c2, c3
      <4> QED
        BY <1>3, <3>2, <4>1
    <3>3. CASE c3
      <4>1. ~c1 /\ ~c2
        BY <1>2, <3>3
      <4> HIDE DEF c1, c2, c3
      <4> QED
        BY <1>3, <3>3, <4>1
    <3> QED
      BY <1>4, <3>1, <3>2, <3>3
  <2> QED
    BY <2>1 DEF Bad, NewFrame
<1>5. CASE ~ (c1 \/ c2 \/ c3)
  <2>1. LineAddress(d, u) = Stored(d, u)
    <3> HIDE DEF c1, c2, c3
    <3> QED
      BY <1>3, <1>5
  <2>2. Len(d.lines) < SlicedSize /\ (u.line # 0 => FrameLine(u) > d.line)
    BY <1>1, <1>2, <1>5
  <2>3. Stored(d, u).err = "ok"
    BY DEF Stored
  <2> QED
    BY <2>1, <2>2, <2>3, StoredKeeps
<1> QED
  BY <1>4, <1>5

\* What becomes of the frame d with the unit c.
LEMMA UnitKeeps ==
  ASSUME input \in Inputs, NEW d, FrameOK(d), NEW c \in Stream
  PROVE  /\ FrameOK(Unit(d, c).d) /\ (Unit(d, c).err = "ok" => c \in Units)
<1>1. CASE c.k # "unit"
  <2>1. Unit(d, c) = Bad(d)
    BY <1>1 DEF Unit
  <2> QED
    BY <2>1 DEF Bad
<1>2. CASE c.k = "unit"
  <2>0. c \in Units
    BY <1>2 DEF Units
  <2>1. PICK r : r = LineAddress(d, c)
    OBVIOUS
  <2>2. \/ r.d = d /\ r.err \in {"bad", "new"}
        \/ /\ r.err = "ok" /\ FrameOK(r.d) /\ d.line <= r.d.line
           /\ r.d.lines = Append(d.lines, [of |-> c.of, line |-> FrameLine(c)])
    BY <2>0, <2>1, LineAddressKeeps
  <2>3. CASE c.id = "stuffing"
    <3>1. Unit(d, c) = [d |-> d, err |-> "ok"]
      BY <1>2, <2>3 DEF Unit
    <3> QED
      BY <2>0, <3>1
  <2>4. CASE c.id = "illegal"
    <3>1. Unit(d, c) = IF r.err # "ok" THEN r ELSE Bad([r.d EXCEPT !.lines = Front(@)])
      BY <1>2, <2>1, <2>4 DEF Unit
    <3>2. CASE r.err # "ok"
      BY <2>0, <2>2, <3>1, <3>2
    <3>3. CASE r.err = "ok"
      <4> DEFINE x == [of |-> c.of, line |-> FrameLine(c)]
                 ls == Append(d.lines, x)
                 e == [r.d EXCEPT !.lines = Front(@)]
      <4>1. FrameOK(r.d) /\ d.line <= r.d.line /\ r.d.lines = ls
        BY <2>2, <3>3
      <4>2. d.lines \in Seq(SlicedLine) /\ d.line \in Nat /\ r.d \in DxRec /\ r.d.line \in Nat
        BY <4>1 DEF FrameOK, DxRec
      <4>3. Front(ls) = d.lines
        <5>1. x \in SlicedLine
          BY <2>0, UnitIs DEF SlicedLine
        <5> HIDE DEF x
        <5>2. /\ ls \in Seq(SlicedLine) /\ Len(ls) = Len(d.lines) + 1 /\ Len(d.lines) \in Nat
              /\ \A a \in 1 .. Len(d.lines) : ls[a] = d.lines[a]
          BY <4>2, <5>1
        <5> HIDE DEF ls
        <5>3. \A k \in 1 .. Len(d.lines) : ls[k] \in SlicedLine
          BY <5>2
        <5>4. /\ SubSeq(ls, 1, Len(d.lines)) \in Seq(SlicedLine)
              /\ Len(SubSeq(ls, 1, Len(d.lines))) = IF 1 <= Len(d.lines) THEN Len(d.lines) - 1 + 1 ELSE 0
              /\ \A k \in 1 .. Len(d.lines) - 1 + 1 : SubSeq(ls, 1, Len(d.lines))[k] = ls[1 + k - 1]
          BY <5>2, <5>3, SubSeqProperties
        <5>5. Len(ls) - 1 = Len(d.lines)
          BY <5>2
        <5>6. Front(ls) = SubSeq(ls, 1, Len(d.lines))
          BY <5>5 DEF Front
        <5>7. SubSeq(ls, 1, Len(d.lines)) = d.lines
          <6> DEFINE q == SubSeq(ls, 1, Len(d.lines))
          <6>1. /\ q \in Seq(SlicedLine) /\ Len(q) = Len(d.lines)
                /\ \A k \in 1 .. Len(d.lines) : q[k] = d.lines[k]
            BY <5>2, <5>4
          <6> HIDE DEF q
          <6>2. q = d.lines
            BY <4>2, <6>1, SameSeq
          <6> QED
            BY <6>2 DEF q
        <5> QED
          BY <5>6, <5>7
      <4> HIDE DEF ls
      <4>4. e \in DxRec /\ e.lines = d.lines /\ e.line = r.d.line
        BY <4>1, <4>2, <4>3 DEF DxRec
      <4> HIDE DEF e
      <4>5. \A a \in 1 .. Len(d.lines) : d.lines[a].line <= r.d.line
        <5> SUFFICES ASSUME NEW a \in 1 .. Len(d.lines) PROVE d.lines[a].line <= r.d.line
          OBVIOUS
        <5>1. d.lines[a].line \in Nat /\ d.lines[a].line <= d.line
          BY LineBound
        <5> QED
          BY <4>1, <4>2, <5>1
      <4>6. FrameOK(e)
        BY <4>4, <4>5 DEF FrameOK
      <4>7. Unit(d, c) = Bad(e)
        BY <3>1, <3>3 DEF e
      <4> QED
        BY <2>0, <4>6, <4>7 DEF Bad
    <3> QED
      BY <3>2, <3>3
  <2>5. CASE c.id # "stuffing" /\ c.id # "illegal"
    <3>1. Unit(d, c) = r
      BY <1>2, <2>1, <2>5 DEF Unit
    <3> QED
      BY <2>0, <2>2, <3>1
  <2> QED
    BY <2>3, <2>4, <2>5
<1> QED
  BY <1>1, <1>2

LEMMA FreshKeeps ==
  ASSUME NEW d, FrameOK(d)
  PROVE  FrameOK(Fresh(d))
<1> DEFINE e == [NoFrame EXCEPT !.new = FALSE, !.frame_pts = d.packet_pts, !.packet_pts = d.packet_pts]
<1>1. CASE d.new
  <2>1. Fresh(d) = e
    BY <1>1 DEF Fresh
  <2>2. d.packet_pts \in Stamps
    BY DEF FrameOK, DxRec
  <2>3. e \in DxRec /\ e.lines = <<>>
    <3>1. NoFrame \in DxRec /\ NoFrame.lines = <<>>
      BY DEF DxRec, NoFrame, Stamps
    <3> HIDE DEF Stamps
    <3> QED
      BY <2>2, <3>1 DEF DxRec
  <2> HIDE DEF e
  <2>4. Len(e.lines) = 0
    BY <2>3
  <2>5. FrameOK(e)
    BY <2>3, <2>4, DemuxAssumption DEF FrameOK, LinesAscend
  <2> QED
    BY <2>1, <2>5
<1>2. CASE ~d.new
  <2>1. Fresh(d) = d
    BY <1>2 DEF Fresh
  <2> QED
    BY <2>1
<1> QED
  BY <1>1, <1>2

\* Fields of the frame which do not concern its lines.
LEMMA FieldKeeps ==
  ASSUME NEW d, FrameOK(d)
  PROVE  /\ \A b \in BOOLEAN : FrameOK([d EXCEPT !.new = b])
         /\ \A n \in Nat : FrameOK([d EXCEPT !.n = n])
         /\ \A u \in Units : FrameOK([d EXCEPT !.du = u.id])
         /\ \A p \in Stamps : FrameOK([d EXCEPT !.packet_pts = p])
<1>1. ASSUME NEW b \in BOOLEAN
      PROVE  FrameOK([d EXCEPT !.new = b])
  <2>1. PICK e : e = [d EXCEPT !.new = b]
    OBVIOUS
  <2>2. e \in DxRec /\ e.lines = d.lines /\ e.line = d.line
    BY <2>1 DEF FrameOK, DxRec
  <2> QED
    BY <2>1, <2>2 DEF FrameOK
<1>2. ASSUME NEW n \in Nat
      PROVE  FrameOK([d EXCEPT !.n = n])
  <2>1. PICK e : e = [d EXCEPT !.n = n]
    OBVIOUS
  <2>2. e \in DxRec /\ e.lines = d.lines /\ e.line = d.line
    BY <2>1 DEF FrameOK, DxRec
  <2> QED
    BY <2>1, <2>2 DEF FrameOK
<1>3. ASSUME NEW u \in Units
      PROVE  FrameOK([d EXCEPT !.du = u.id])
  <2>1. PICK e : e = [d EXCEPT !.du = u.id]
    OBVIOUS
  <2>2. e \in DxRec /\ e.lines = d.lines /\ e.line = d.line
    BY <2>1 DEF FrameOK, DxRec
  <2> QED
    BY <2>1, <2>2 DEF FrameOK
<1>4. ASSUME NEW p \in Stamps
      PROVE  FrameOK([d EXCEPT !.packet_pts = p])
  <2>1. PICK e : e = [d EXCEPT !.packet_pts = p]
    OBVIOUS
  <2>2. e \in DxRec /\ e.lines = d.lines /\ e.line = d.line
    BY <2>1 DEF FrameOK, DxRec
  <2> QED
    BY <2>1, <2>2 DEF FrameOK
<1> QED
  BY <1>1, <1>2, <1>3, <1>4

LEMMA HeaderKeeps ==
  ASSUME NEW d, FrameOK(d), NEW h \in Stream
  PROVE  FrameOK(HeaderRead(d, h))
<1>1. CASE ValidHeader(d, h) /\ h.pts # 0
  <2>1. h.pts \in Stamps
    BY <1>1 DEF ValidHeader, Stamps
  <2>2. HeaderRead(d, h) = [d EXCEPT !.packet_pts = h.pts]
    BY <1>1 DEF HeaderRead
  <2> QED
    BY <2>1, <2>2, FieldKeeps
<1>2. CASE ~ (ValidHeader(d, h) /\ h.pts # 0)
  BY <1>2 DEF HeaderRead
<1> QED
  BY <1>1, <1>2

LEMMA NewFrameKeeps ==
  FrameOK(NoFrame)
<1>1. NoFrame \in DxRec /\ Len(NoFrame.lines) = 0
  BY DEF NoFrame, DxRec, Stamps
<1> QED
  BY <1>1, DemuxAssumption DEF FrameOK, LinesAscend

LEMMA FrameSet ==
  ASSUME input' = input, NEW d, FrameOK(d), dx' = d, units' \in Seq(Stream),
         out \in Seq(OutRec), \A i \in 1 .. Len(out) : LinesAscend(out[i].lines), out' = out
  PROVE  FrameInv'
<1>1. DxRec' = DxRec /\ OutRec' = OutRec /\ Stream' = Stream
  BY DEF DxRec, OutRec, SlicedLine, Units, Stamps, Stream
<1>2. FrameOK(dx)'
  BY <1>1 DEF FrameOK
<1> QED
  BY <1>1, <1>2 DEF FrameInv

LEMMA CellIn ==
  ASSUME PlaceInv
  PROVE  \A p \in Place : Cell(p) \in Stream
<1> SUFFICES ASSUME NEW p \in Place PROVE Cell(p) \in Stream
  OBVIOUS
<1>1. N \in Nat /\ input \in Inputs
  BY StreamSize DEF PlaceInv, CallerOK
<1>2. p # 0 /\ p \in DOMAIN input.cells
  BY <1>1, InputsAssumption DEF Place, N
<1> QED
  BY <1>2 DEF Cell, Range, Stream

\* All that is in view is of the stream.
LEMMA ViewPlaces ==
  ASSUME PlaceInv, WrapAround.ok
  PROVE  /\ \A k \in 1 .. Len(WrapAround.view) : WrapAround.view[k] \in Place
         /\ Len(WrapAround.view) \in Nat /\ WrapAround.w.look \in Nat
         /\ WrapAround.w.look <= Len(WrapAround.view) /\ WrapAround.w.look >= 2
<1>1. PICK a : a = WrapAround
  OBVIOUS
<1>2. InView(a) /\ Continues(a.w, a.src)
  BY <1>1, WrapFollows DEF PlaceInv
<1>3. PICK i, m, l : i = a.src - a.w.left /\ m = Len(a.view) /\ l = a.w.look
  OBVIOUS
<1>4. /\ i \in Nat \ {0} /\ m \in Nat /\ l \in Nat /\ m >= l /\ l >= 2
      /\ i + m - 1 <= last /\ a.view = Positions(i, i + m - 1)
  BY <1>1, <1>2, <1>3 DEF InView, Continues, WrapRec, PES_HEADER_LOOKAHEAD
<1>5. last \in Nat /\ last <= N /\ N \in Nat
  BY StreamSize DEF PlaceInv, CallerOK
<1>6. i + m - 1 \in Nat /\ i <= (i + m - 1) + 1 /\ i + m - 1 <= N /\ (i + m - 1) - i + 1 = m
  BY <1>4, <1>5
<1>7. \A k \in 1 .. (i + m - 1) - i + 1 : Positions(i, i + m - 1)[k] = i + k - 1
  BY <1>4, <1>5, <1>6, PositionsAre
<1>8. ASSUME NEW k \in 1 .. m
      PROVE  a.view[k] \in Place
  <2>1. i + k - 1 \in 1 .. N
    BY <1>4, <1>5
  <2> QED
    BY <1>4, <1>6, <1>7, <2>1 DEF Place
<1> QED
  BY <1>1, <1>3, <1>4, <1>8

-----------------------------------------------------------------------------
(* The steps keep the frame. *)

LEMMA FrameStepFrame ==
  ASSUME PlaceInv, FrameInv, FrameStep
  PROVE  FrameInv'
<1>1. /\ FrameOK(dx) /\ units \in Seq(Stream) /\ out \in Seq(OutRec)
      /\ \A i \in 1 .. Len(out) : LinesAscend(out[i].lines)
      /\ input \in Inputs /\ FrameOK(Fresh(dx))
  BY FreshKeeps DEF FrameInv, PlaceInv, CallerOK
<1>2. ASSUME units # <<>>
      PROVE  /\ FrameOK(FirstUnit.d) /\ (FirstUnit.err = "ok" => units[1] \in Units)
             /\ Tail(units) \in Seq(Stream)
  <2>1. units[1] \in Stream /\ Tail(units) \in Seq(Stream)
    BY <1>1, <1>2
  <2> QED
    BY <1>1, <2>1, UnitKeeps DEF FirstUnit
<1>3. <<>> \in Seq(Stream)
  OBVIOUS
<1>4. CASE FrameUnit
  <2>1. /\ units # <<>> /\ FirstUnit.err = "ok" /\ input' = input /\ out' = out
        /\ dx' = [FirstUnit.d EXCEPT !.du = units[1].id] /\ units' = Tail(units)
    BY <1>4 DEF FrameUnit
  <2>2. FrameOK([FirstUnit.d EXCEPT !.du = units[1].id])
    BY <1>2, <2>1, FieldKeeps
  <2> QED
    BY <1>1, <1>2, <2>1, <2>2, FrameSet
<1>5. CASE FrameError
  <2>1. /\ units # <<>> /\ input' = input /\ out' = out
        /\ dx' = [FirstUnit.d EXCEPT !.new = input.mode = "ts"] /\ units' = <<>>
    BY <1>5 DEF FrameError
  <2>2. FrameOK([FirstUnit.d EXCEPT !.new = input.mode = "ts"])
    <3>1. (input.mode = "ts") \in BOOLEAN
      OBVIOUS
    <3> QED
      BY <1>2, <2>1, <3>1, FieldKeeps
  <2> QED
    BY <1>1, <1>3, <2>1, <2>2, FrameSet
<1>6. CASE FrameComplete
  <2>1. /\ input' = input /\ dx' = [dx EXCEPT !.new = TRUE] /\ units' \in {<<>>, units}
        /\ out' = IF dx.lines = <<>> THEN out
                  ELSE Append(out, [pts |-> dx.frame_pts, lines |-> dx.lines])
    BY <1>6 DEF FrameComplete
  <2>2. FrameOK([dx EXCEPT !.new = TRUE]) /\ units' \in Seq(Stream)
    BY <1>1, <1>3, <2>1, FieldKeeps
  <2>3. DxRec' = DxRec /\ OutRec' = OutRec /\ Stream' = Stream
    BY <2>1 DEF DxRec, OutRec, SlicedLine, Units, Stamps, Stream
  <2>4. out' \in Seq(OutRec) /\ \A i \in 1 .. Len(out') : LinesAscend(out'[i].lines)
    <3>1. CASE dx.lines = <<>>
      BY <1>1, <2>1, <3>1
    <3>2. CASE dx.lines # <<>>
      <4>1. PICK f : f = [pts |-> dx.frame_pts, lines |-> dx.lines]
        OBVIOUS
      <4>2. f \in OutRec /\ LinesAscend(f.lines)
        BY <1>1, <4>1 DEF FrameOK, DxRec, OutRec
      <4>3. out' = Append(out, f)
        BY <2>1, <3>2, <4>1
      <4>4. /\ out' \in Seq(OutRec) /\ Len(out') = Len(out) + 1 /\ out'[Len(out) + 1] = f
            /\ Len(out) \in Nat /\ \A i \in 1 .. Len(out) : out'[i] = out[i]
        BY <1>1, <4>2, <4>3
      <4>5. ASSUME NEW i \in 1 .. Len(out')
            PROVE  LinesAscend(out'[i].lines)
        <5>1. CASE i = Len(out) + 1
          BY <4>2, <4>4, <5>1
        <5>2. CASE i # Len(out) + 1
          <6>1. i \in 1 .. Len(out)
            BY <4>4, <5>2
          <6> QED
            BY <1>1, <4>4, <6>1
        <5> QED
          BY <5>1, <5>2
      <4> QED
        BY <4>4, <4>5
    <3> QED
      BY <3>1, <3>2
  <2>5. FrameOK(dx)'
    BY <2>1, <2>2, <2>3 DEF FrameOK
  <2> QED
    BY <2>2, <2>3, <2>4, <2>5 DEF FrameInv
<1>7. CASE FrameEnd
  <2>1. input' = input /\ out' = out /\ dx' = dx /\ units' = units
    BY <1>7 DEF FrameEnd, tsVars
  <2> QED
    BY <1>1, <2>1, FrameSet
<1> QED
  BY <1>4, <1>5, <1>6, <1>7 DEF FrameStep

LEMMA PesFrame ==
  ASSUME PlaceInv, FrameInv, PesPacket
  PROVE  FrameInv'
<1>1. /\ FrameOK(dx) /\ units \in Seq(Stream) /\ out \in Seq(OutRec)
      /\ \A i \in 1 .. Len(out) : LinesAscend(out[i].lines) /\ N \in Nat
  BY StreamSize DEF FrameInv, PlaceInv
<1>2. CASE PesNeedMore
  <2>1. input' = input /\ out' = out /\ dx' = dx /\ units' = units
    BY <1>2 DEF PesNeedMore, tsVars
  <2> QED
    BY <1>1, <2>1, FrameSet
<1>3. CASE PesData
  <2>1. PICK a : a = WrapAround
    OBVIOUS
  <2>2. /\ a.ok /\ input' = input /\ out' = out /\ dx' = [dx EXCEPT !.n = 0]
        /\ units' = [i \in 1 .. a.w.look |-> Cell(a.view[i])]
    BY <1>3, <2>1 DEF PesData
  <2>3. /\ \A k \in 1 .. Len(a.view) : a.view[k] \in Place
        /\ Len(a.view) \in Nat /\ a.w.look \in Nat /\ a.w.look <= Len(a.view)
    BY <2>1, <2>2, ViewPlaces
  <2>4. \A i \in 1 .. a.w.look : Cell(a.view[i]) \in Stream
    <3>1. \A p \in Place : Cell(p) \in Stream
      BY CellIn
    <3>2. \A i \in 1 .. a.w.look : a.view[i] \in Place
      BY <2>3
    <3> QED
      BY <3>1, <3>2
  <2>5. units' \in Seq(Stream)
    BY <2>2, <2>3, <2>4
  <2>6. FrameOK([dx EXCEPT !.n = 0])
    BY <1>1, FieldKeeps
  <2> QED
    BY <1>1, <2>2, <2>5, <2>6, FrameSet
<1>4. CASE PesScan
  <2> DEFINE a     == WrapAround
             scan  == Len(a.view) - a.w.look
             n     == IF scan > 0 THEN scan ELSE 1
             found == {j \in 1 .. n : Cell(a.view[j]).k = "start"}
  <2>1. a.ok /\ a.w.look <= PES_HEADER_LOOKAHEAD /\ input' = input /\ units' = units /\ out' = out
    BY <1>4 DEF PesScan, tsVars
  <2>2. /\ \A k \in 1 .. Len(a.view) : a.view[k] \in Place
        /\ Len(a.view) \in Nat /\ a.w.look = 2 /\ 2 <= Len(a.view)
    BY <2>1, ViewPlaces DEF PES_HEADER_LOOKAHEAD
  <2>3. n \in Nat \ {0} /\ n + 1 <= Len(a.view)
    <3> HIDE DEF a
    <3> QED
      BY <2>2
  <2>4. CASE found = {}
    <3>1. dx' = dx
      BY <1>4, <2>4, Zenon DEF PesScan
    <3> QED
      BY <1>1, <2>1, <3>1, FrameSet
  <2>5. CASE found # {}
    <3>1. PICK j : j = Min(found)
      OBVIOUS
    <3>2. PesStartCode(a, j)
      BY <1>4, <2>5, <3>1, Zenon DEF PesScan
    <3>3. j \in 1 .. n
      <4>1. found \in SUBSET (1 .. n)
        OBVIOUS
      <4> HIDE DEF found, n
      <4> QED
        BY <2>3, <2>5, <3>1, <4>1, MinPosition
    <3>4. PICK h : h = Cell(a.view[j + 1])
      OBVIOUS
    <3>5. h \in Stream
      <4>1. j + 1 \in 1 .. Len(a.view)
        <5> HIDE DEF a, n
        <5> QED
          BY <2>2, <2>3, <3>3
      <4>2. a.view[j + 1] \in Place
        <5> HIDE DEF a
        <5> QED
          BY <2>2, <4>1
      <4>3. \A p \in Place : Cell(p) \in Stream
        BY CellIn
      <4> QED
        BY <3>4, <4>2, <4>3, Zenon
    <3>6. dx' = HeaderRead(dx, h) \/ dx' = dx
      <4> HIDE DEF a
      <4> QED
        BY <3>2, <3>4 DEF PesStartCode
    <3>7. FrameOK(HeaderRead(dx, h))
      BY <1>1, <3>5, HeaderKeeps
    <3>8. CASE dx' = dx
      BY <1>1, <2>1, <3>8, FrameSet
    <3>9. CASE dx' = HeaderRead(dx, h)
      BY <1>1, <2>1, <3>7, <3>9, FrameSet
    <3> QED
      BY <3>6, <3>8, <3>9
  <2> QED
    BY <2>4, <2>5
<1> QED
  BY <1>2, <1>3, <1>4 DEF PesPacket

\* A PES packet that gets complete has a header and data units.
LEMMA CompleteIs ==
  ASSUME PlaceInv, TsCopy, ts.consume \in 1 .. Left, ts.todo = Smaller(ts.consume, Left)
  PROVE  pes' \in Seq(Place) /\ Len(pes') \in Nat /\ Len(pes') >= 2
<1>1. PICK n, l : n = Smaller(ts.consume, Left) /\ l = Left
  OBVIOUS
<1>2. /\ src \in Nat \ {0} /\ last \in Nat /\ last <= N /\ N \in Nat /\ l \in Nat /\ src + l = last + 1
      /\ ts.consume \in Nat /\ pes \in Seq(Place)
  BY <1>1, LeftIs DEF PlaceInv, TsOK, TsRec, PesOK
<1>3. n \in Nat /\ n <= l /\ n > 0 /\ ts.todo = n
  BY <1>1, <1>2 DEF Smaller
<1>4. PICK e : e = Positions(src, src + n - 1)
  OBVIOUS
<1>5. e \in Seq(Place) /\ Len(e) = n
  <2>1. /\ src + n - 1 \in Nat /\ src <= (src + n - 1) + 1 /\ src + n - 1 <= N
        /\ (src + n - 1) - src + 1 = n
    BY <1>2, <1>3
  <2> QED
    BY <1>2, <1>4, <2>1, PositionsAre DEF Place
<1>6. pes' = pes \o e
  BY <1>1, <1>4 DEF TsCopy
<1>7. pes' \in Seq(Place) /\ Len(pes') = Len(pes) + n /\ Len(pes) \in Nat
  BY <1>2, <1>5, <1>6, Joined
<1>8. /\ Len(pes) + n = Cell(pes[1]).len + 1 /\ Cell(pes[1]).len >= MinLength
      /\ Cell(pes[1]).len \in Nat
  <2>1. /\ pes # <<>> /\ Cell(pes[1]).k = "start" /\ Cell(pes[1]).len >= MinLength
        /\ Len(pes) + n = Cell(pes[1]).len + 1
    BY <1>3 DEF PlaceInv, PesOK
  <2>2. pes[1] \in Place
    BY <1>2, <2>1
  <2> QED
    BY <2>1, <2>2, CellsAre DEF PlaceInv
<1>9. MinLength \in Nat /\ MinLength >= 4
  BY DemuxAssumption DEF MinLength
<1> QED
  BY <1>3, <1>7, <1>8, <1>9

LEMMA TsFrame ==
  ASSUME PlaceInv, FrameInv, TsPacket
  PROVE  FrameInv'
<1>1. /\ FrameOK(dx) /\ units \in Seq(Stream) /\ out \in Seq(OutRec)
      /\ \A i \in 1 .. Len(out) : LinesAscend(out[i].lines) /\ N \in Nat
  BY StreamSize DEF FrameInv, PlaceInv
<1>2. FrameOK([dx EXCEPT !.new = TRUE]) /\ <<>> \in Seq(Stream)
  <2>1. FrameOK([dx EXCEPT !.new = TRUE])
    BY <1>1, FieldKeeps
  <2>2. <<>> \in Seq(Stream)
    OBVIOUS
  <2> QED
    BY <2>1, <2>2
<1>3. CASE TsCopy
  <2>1. input' = input /\ out' = out
    BY <1>3 DEF TsCopy
  <2>2. CASE UNCHANGED <<dx, units>>
    BY <1>1, <2>1, <2>2, FrameSet
  <2>3. CASE ~ UNCHANGED <<dx, units>>
    <3>1. PesComplete(pes') /\ ts.consume \in 1 .. Left /\ ts.todo = Smaller(ts.consume, Left)
      BY <1>3, <2>3 DEF TsCopy
    <3>2. PICK p : p = pes'
      OBVIOUS
    <3>3. p \in Seq(Place) /\ Len(p) \in Nat /\ Len(p) >= 2
      BY <1>3, <3>1, <3>2, CompleteIs
    <3>4. Cell(p[2]) \in Stream /\ \A i \in 1 .. Len(p) - 2 : Cell(p[i + 2]) \in Stream
      <4>1. \A i \in 1 .. Len(p) : Cell(p[i]) \in Stream
        <5>1. \A q \in Place : Cell(q) \in Stream
          BY CellIn
        <5>2. \A i \in 1 .. Len(p) : p[i] \in Place
          BY <3>3
        <5> QED
          BY <5>1, <5>2
      <4>2. 2 \in 1 .. Len(p) /\ \A i \in 1 .. Len(p) - 2 : i + 2 \in 1 .. Len(p)
        BY <3>3
      <4> QED
        BY <4>1, <4>2
    <3>5. \/ /\ units' = [i \in 1 .. Len(p) - 2 |-> Cell(p[i + 2])]
             /\ dx' = [HeaderRead(dx, Cell(p[2])) EXCEPT !.n = 0]
          \/ units' = <<>> /\ dx' = [dx EXCEPT !.new = TRUE]
      BY <3>1, <3>2 DEF PesComplete
    <3>6. CASE units' = <<>> /\ dx' = [dx EXCEPT !.new = TRUE]
      BY <1>1, <1>2, <2>1, <3>6, FrameSet
    <3>7. CASE /\ units' = [i \in 1 .. Len(p) - 2 |-> Cell(p[i + 2])]
               /\ dx' = [HeaderRead(dx, Cell(p[2])) EXCEPT !.n = 0]
      <4>1. FrameOK([HeaderRead(dx, Cell(p[2])) EXCEPT !.n = 0])
        <5>1. FrameOK(HeaderRead(dx, Cell(p[2])))
          BY <1>1, <3>4, HeaderKeeps
        <5> QED
          BY <5>1, FieldKeeps
      <4>2. units' \in Seq(Stream)
        <5>1. Len(p) - 2 \in Nat
          BY <3>3
        <5> QED
          BY <3>4, <3>7, <5>1
      <4> QED
        BY <1>1, <2>1, <3>7, <4>1, <4>2, FrameSet
    <3> QED
      BY <3>5, <3>6, <3>7
  <2> QED
    BY <2>2, <2>3
<1>4. CASE TsFill \/ TsNoSync \/ TsSkip \/ TsTake
  <2>1. input' = input /\ out' = out /\ dx' = dx /\ units' = units
    BY <1>4 DEF TsFill, TsNoSync, TsSkip, TsTake
  <2> QED
    BY <1>1, <2>1, FrameSet
<1>5. CASE TsSyncLost \/ TsDiscard
  <2>1. input' = input /\ out' = out /\ dx' = [dx EXCEPT !.new = TRUE] /\ units' = units
    BY <1>5 DEF TsSyncLost, TsDiscard
  <2> QED
    BY <1>1, <1>2, <2>1, FrameSet
<1> QED
  BY <1>3, <1>4, <1>5 DEF TsPacket

LEMMA FrameNext ==
  PlaceInv /\ FrameInv /\ [Next]_vars => FrameInv'
<1> SUFFICES ASSUME PlaceInv, FrameInv, [Next]_vars PROVE FrameInv'
  OBVIOUS
<1>1. /\ FrameOK(dx) /\ units \in Seq(Stream) /\ out \in Seq(OutRec)
      /\ \A i \in 1 .. Len(out) : LinesAscend(out[i].lines)
  BY DEF FrameInv
<1>2. CASE Feed \/ Resume \/ UNCHANGED vars
  <2>1. input' = input /\ out' = out /\ dx' = dx /\ units' = units
    BY <1>2 DEF Feed, Resume, vars, tsVars
  <2> QED
    BY <1>1, <2>1, FrameSet
<1>3. CASE Reset
  <2>1. input' = input /\ out' = out /\ dx' = NoFrame /\ units' = <<>> /\ <<>> \in Seq(Stream)
    BY <1>3 DEF Reset
  <2> QED
    BY <1>1, <2>1, FrameSet, NewFrameKeeps
<1>4. CASE PesPacket
  BY <1>4, PesFrame
<1>5. CASE TsPacket
  BY <1>5, TsFrame
<1>6. CASE FrameStep
  BY <1>6, FrameStepFrame
<1> QED
  BY <1>2, <1>3, <1>4, <1>5, <1>6 DEF Next, Demux

-----------------------------------------------------------------------------
(* The theorems. *)

ResetsOK == resets \in 0 .. MaxResets

DemuxInv == PlaceInv /\ FrameInv /\ ResetsOK

LEMMA DemuxInit == Init => DemuxInv
<1> SUFFICES ASSUME Init PROVE DemuxInv
  OBVIOUS
<1>1. PlaceInv
  BY PlaceInit
<1>2. FrameInv
  <2>1. dx = NoFrame /\ units = <<>> /\ out = <<>>
    BY DEF Init
  <2>2. units \in Seq(Stream) /\ out \in Seq(OutRec) /\ \A i \in 1 .. Len(out) : LinesAscend(out[i].lines)
    BY <2>1
  <2> QED
    BY <2>1, <2>2, NewFrameKeeps DEF FrameInv
<1>3. ResetsOK
  BY DemuxAssumption DEF Init, ResetsOK
<1> QED
  BY <1>1, <1>2, <1>3 DEF DemuxInv

LEMMA DemuxNext == DemuxInv /\ [Next]_vars => DemuxInv'
<1> SUFFICES ASSUME DemuxInv, [Next]_vars PROVE DemuxInv'
  OBVIOUS
<1>1. PlaceInv'
  BY PlaceNext DEF DemuxInv
<1>2. FrameInv'
  BY FrameNext DEF DemuxInv
<1>3. ResetsOK'
  <2>1. CASE Reset
    BY <2>1, DemuxAssumption DEF DemuxInv, ResetsOK, Reset
  <2>2. CASE ~Reset
    <3>1. resets' = resets
      BY <2>2 DEF Next, Demux, Feed, Resume, vars
    <3> QED
      BY <3>1 DEF DemuxInv, ResetsOK
  <2> QED
    BY <2>1, <2>2
<1> QED
  BY <1>1, <1>2, <1>3 DEF DemuxInv

LEMMA Invariance == Spec => []DemuxInv
<1>1. Init => DemuxInv
  BY DemuxInit
<1>2. DemuxInv /\ [Next]_vars => DemuxInv'
  BY DemuxNext
<1> QED
  BY <1>1, <1>2, PTL DEF Spec

LEMMA TypesHold == DemuxInv => TypeOK
<1> SUFFICES ASSUME DemuxInv PROVE TypeOK
  OBVIOUS
<1>1. pc \in {"app", "pes", "ts", "frame", "fill", "parse"}
  BY DEF DemuxInv, PlaceInv, Layers
<1>2. {first, last, src, size} \subseteq Nat /\ src \in first .. last + 1
  BY DEF DemuxInv, PlaceInv, CallerOK
<1>3. {wrap.skip, wrap.look, wrap.left} \subseteq Nat /\ wrap.left <= Len(wrap.data)
  BY DEF DemuxInv, PlaceInv, WrapOK, Continues, WrapRec
<1>4. {ts.skip, ts.look, ts.consume, ts.todo} \subseteq Nat /\ ts.cont \in -1 .. Counter - 1
  BY DEF DemuxInv, PlaceInv, TsOK, TsRec
<1>5. Len(dx.lines) <= SlicedSize /\ resets \in 0 .. MaxResets
  BY DEF DemuxInv, FrameInv, FrameOK, ResetsOK
<1> QED
  BY <1>1, <1>2, <1>3, <1>4, <1>5 DEF TypeOK

LEMMA LooksAtStream == DemuxInv => LookedAt
<1> SUFFICES ASSUME DemuxInv PROVE LookedAt
  OBVIOUS
<1>1. PlaceInv
  BY DEF DemuxInv
<1>2. PICK a : a = WrapAround
  OBVIOUS
<1>3. a.ok => InView(a)
  BY <1>1, <1>2, WrapFollows DEF PlaceInv
<1>4. ASSUME a.ok
      PROVE  LET i == a.src - a.w.left
             IN /\ a.view = Positions(i, i + Len(a.view) - 1)
                /\ Len(a.view) >= a.w.look /\ i > 0 /\ i + Len(a.view) - 1 <= last
  BY <1>3, <1>4 DEF InView
<1>5. pc = "parse" /\ InSync => Avail >= 2
  BY <1>1, HeaderFound
<1> QED
  BY <1>2, <1>4, <1>5, Zenon DEF LookedAt

LEMMA FollowsStream == DemuxInv => BuffersFollowStream
<1> SUFFICES ASSUME DemuxInv PROVE BuffersFollowStream
  OBVIOUS
<1>1. TypeOK /\ LookedAt
  BY TypesHold, LooksAtStream
<1>2. Kept(wrap) = Positions(src - wrap.left, src - 1)
  BY DEF DemuxInv, PlaceInv, WrapOK, Continues
<1>3. ts.data = Positions(src - Len(ts.data), src - 1) /\ ts.consume <= ts.todo
  BY DEF DemuxInv, PlaceInv, TsOK
<1>4. Len(ts.data) + ts.look <= TS_SYNC_SEARCH_LOOKAHEAD \/ pc = "parse"
  <2>1. HeaderSize <= TS_SYNC_SEARCH_LOOKAHEAD
    BY DemuxAssumption DEF HeaderSize, TS_SYNC_SEARCH_LOOKAHEAD, TS_HEADER_LOOKAHEAD
  <2>2. pc # "parse" => Len(ts.data) + ts.look = HeaderSize
    BY DEF DemuxInv, PlaceInv, TsOK
  <2> QED
    BY <2>1, <2>2
<1>5. ts.todo > 0 => Len(pes) + ts.todo = Cell(pes[1]).len + 1
  BY DEF DemuxInv, PlaceInv, PesOK
<1> QED
  BY <1>1, <1>2, <1>3, <1>4, <1>5 DEF BuffersFollowStream

\* However a stream is cut, whatever is in it and whenever the demultiplexer is
\* reset: pes_wrap, the TS buffer and pes_buffer hold what comes before the read
\* position, the counts never fall below zero, no more lines are stored than
\* dx->sliced has, and wrap_around shows a part of the stream.
THEOREM BuffersFollow == Spec => []BuffersFollowStream
<1>1. Spec => []DemuxInv
  BY Invariance
<1>2. DemuxInv => BuffersFollowStream
  BY FollowsStream
<1> QED
  BY <1>1, <1>2, PTL

\* Whatever units a stream has: the lines of every frame that vbi_dvb_demux_cor
\* returns, or that the callback gets, ascend.
THEOREM FramesAscend == Spec => [](\A i \in 1 .. Len(out) : LinesAscend(out[i].lines))
<1>1. Spec => []DemuxInv
  BY Invariance
<1>2. DemuxInv => \A i \in 1 .. Len(out) : LinesAscend(out[i].lines)
  BY DEF DemuxInv, FrameInv
<1> QED
  BY <1>1, <1>2, PTL
=============================================================================
