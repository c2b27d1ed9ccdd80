----------------------- MODULE ProxyConnectionProofs ------------------------
(***************************************************************************)
(* Wherever a message is cut on its way between the daemon and the client, *)
(* and wherever calls, time-outs and closed connections interfere, what    *)
(* goes each way stays whole messages one after the other, the frames keep *)
(* their order, and the only reply is that to the call the client waits    *)
(* in: for every size of the socket, number of calls and of frames, and    *)
(* whatever calls time out (the last but for late replies to an ioctl).    *)
(*                                                                         *)
(* The stream is what the client has read of a message, what the socket    *)
(* holds and what the daemon has still to write.  A read and a write only  *)
(* move the borders between the three; the daemon appends whole messages,  *)
(* as it begins one only when it has written the last one, and the client  *)
(* takes whole messages away, as it turns to writing only between two.     *)
(***************************************************************************)
EXTENDS ProxyConnection, SequenceTheorems, TLAPS

Part    == {p \in Msg \X (1 .. 3) : p[2] <= Size(p[1])}
ReqPart == {p \in Part : p[1].type = "REQ"}

IsFrame(p) == p[1].type = "SLICED_IND"

\* A sequence of whole messages.
Framed(s) ==
  s # <<>> =>
    /\ s[1][2] = 1 /\ s[Len(s)][2] = Size(s[Len(s)][1])
    /\ \A i \in 1 .. Len(s) - 1 : Follows(s[i], s[i + 1])

\* The frames of s, and those of the queue q after them, are in order, later than
\* lo and not later than hi.
InOrder(s, q, lo, hi) ==
  /\ lo <= hi
  /\ \A k \in 1 .. Len(q) : lo < q[k] /\ q[k] <= hi
  /\ \A k, l \in 1 .. Len(q) : k < l => q[k] < q[l]
  /\ \A i \in 1 .. Len(s) : IsFrame(s[i]) =>
       /\ lo < s[i][1].id /\ s[i][1].id <= hi
       /\ \A k \in 1 .. Len(q) : s[i][1].id < q[k]
  /\ \A i, j \in 1 .. Len(s) : i < j /\ IsFrame(s[i]) /\ IsFrame(s[j]) =>
       /\ s[i][1].id <= s[j][1].id
       /\ s[j][2] <= s[i][2] => s[i][1].id < s[j][1].id

\* What each buffer holds, and that no end keeps a complete message.
Types ==
  /\ TypeOK /\ call.type = "REQ"
  /\ cbuf \in Seq(Part) /\ down \in Seq(Part) /\ dwr \in Seq(Part)
  /\ drd \in Seq(ReqPart) /\ up \in Seq(ReqPart) /\ cout \in Seq(ReqPart)
  /\ queue \in Seq(1 .. MaxFrame)
  /\ drd # <<>> => Len(drd) < Size(MsgOf(drd))
  /\ cbuf # <<>> => Len(cbuf) < Size(MsgOf(cbuf))

\* Each end does one thing at a time, and a connection begins with nothing.
Ends ==
  /\ drd = <<>> \/ dwr = <<>>
  /\ dstate = "none" => drd = <<>> /\ dwr = <<>> /\ queue = <<>>
  /\ dfd /\ cout # <<>> => cpc \in {"write", "idle"} /\ cbuf = <<>>
  /\ dfd /\ cpc = "write" => cbuf = <<>>
  /\ dstate = "none" => dpc = "select"
  /\ dfd /\ dstate = "none" => cbuf = <<>> /\ down = <<>> /\ shown = 0

Whole(b, d, w) == (b \o d) \o w
StreamOK ==
  Connected =>
    /\ Framed(Whole(cbuf, down, dwr))
    /\ InOrder(Whole(cbuf, down, dwr), queue, shown, nframe)

ConnInv == Types /\ Ends /\ StreamOK

-----------------------------------------------------------------------------
\* Messages and their parts.
LEMMA MsgFacts ==
  /\ \A m \in Msg : m.id \in Nat /\ Size(m) \in {2, 3}
  /\ \A m \in Msg : Size(m) = 3 <=> m.type = "SLICED_IND"
  /\ \A n \in 1 .. MaxFrame : Frame(n) \in Msg /\ Frame(n).type = "SLICED_IND" /\ Frame(n).id = n
  /\ ChangeInd \in Msg /\ ChangeInd.type # "SLICED_IND"
<1>1. MaxFrame \in Nat /\ MaxCall \in Nat
  BY ConnectionAssumption
<1>2. \A m \in Msg : m.id \in Nat
  BY <1>1 DEF Msg, Frame, ChangeInd
<1> QED
  BY <1>1, <1>2 DEF Msg, Frame, ChangeInd, Size

LEMMA PartsFacts ==
  ASSUME NEW m \in Msg
  PROVE  /\ Parts(m) \in Seq(Part) /\ Len(Parts(m)) = Size(m) /\ Parts(m) # <<>>
         /\ \A k \in 1 .. Size(m) : Parts(m)[k] = <<m, k>>
         /\ m.type = "REQ" => Parts(m) \in Seq(ReqPart)
<1>1. Size(m) \in {2, 3}
  BY MsgFacts
<1> QED
  BY <1>1 DEF Parts, Part, ReqPart

\* A sequence is cut in two.
LEMMA Split ==
  ASSUME NEW S, NEW s \in Seq(S), NEW n \in 0 .. Len(s)
  PROVE  /\ First(s, n) \in Seq(S) /\ Len(First(s, n)) = n
         /\ \A i \in 1 .. n : First(s, n)[i] = s[i]
         /\ After(s, n) \in Seq(S) /\ Len(After(s, n)) = Len(s) - n
         /\ \A i \in 1 .. Len(s) - n : After(s, n)[i] = s[i + n]
  BY DEF First, After

\* The lengths and elements of two sequences in a row.
Joined(x, a, b) ==
  /\ Len(x) = Len(a) + Len(b)
  /\ \A i \in 1 .. Len(a) : x[i] = a[i]
  /\ \A i \in Len(a) + 1 .. Len(a) + Len(b) : x[i] = b[i - Len(a)]

LEMMA JoinedConcat ==
  ASSUME NEW S, NEW a \in Seq(S), NEW b \in Seq(S), NEW x
  PROVE  x = a \o b <=> x \in Seq(S) /\ Joined(x, a, b)
<1>1. PICK y : y = a \o b
  OBVIOUS
<1>2. y \in Seq(S) /\ Joined(y, a, b)
  BY <1>1 DEF Joined
<1>3. ASSUME x \in Seq(S), Joined(x, a, b)
      PROVE  x = y
  <2>1. Len(x) = Len(y) /\ \A i \in 1 .. Len(x) : x[i] = y[i]
    BY <1>2, <1>3 DEF Joined
  <2> QED
    BY <1>2, <1>3, <2>1, SeqEqual
<1> QED
  BY <1>1, <1>2, <1>3

\* Concatenation is associative, stated for named sequences.
LEMMA Assoc ==
  ASSUME NEW S, NEW a \in Seq(S), NEW b \in Seq(S), NEW c \in Seq(S),
         NEW ab, ab = a \o b, NEW bc, bc = b \o c
  PROVE  ab \o c = a \o bc
<1>1. /\ ab \in Seq(S) /\ Joined(ab, a, b)
      /\ bc \in Seq(S) /\ Joined(bc, b, c)
  BY JoinedConcat
<1>2. PICK x, y : x = ab \o c /\ y = a \o bc
  OBVIOUS
<1>3. /\ x \in Seq(S) /\ Joined(x, ab, c)
      /\ y \in Seq(S) /\ Joined(y, a, bc)
  BY <1>1, <1>2, JoinedConcat
<1>4. Len(x) = Len(y)
  BY <1>1, <1>3 DEF Joined
<1>5. ASSUME NEW i \in 1 .. Len(x)
      PROVE  x[i] = y[i]
  <2> DEFINE k == i - Len(a)
             l == i - Len(a) - Len(b)
  <2>0. /\ Len(ab) = Len(a) + Len(b) /\ Len(bc) = Len(b) + Len(c)
        /\ i \in Int /\ 1 <= i /\ i <= Len(a) + Len(b) + Len(c)
        /\ Len(a) \in Nat /\ Len(b) \in Nat /\ Len(c) \in Nat
    BY <1>1, <1>3 DEF Joined
  <2>1. CASE i <= Len(a)
    <3>1. i \in 1 .. Len(ab) /\ i \in 1 .. Len(a)
      BY <2>0, <2>1
    <3> QED
      BY <1>1, <1>3, <3>1 DEF Joined
  <2>2. CASE Len(a) < i /\ i <= Len(a) + Len(b)
    <3>1. /\ i \in 1 .. Len(ab) /\ i \in Len(a) + 1 .. Len(a) + Len(b)
          /\ i \in Len(a) + 1 .. Len(a) + Len(bc) /\ k \in 1 .. Len(b)
      BY <2>0, <2>2
    <3>2. x[i] = ab[i] /\ ab[i] = b[k] /\ y[i] = bc[k] /\ bc[k] = b[k]
      BY <1>1, <1>3, <3>1 DEF Joined
    <3> QED
      BY <3>2
  <2>3. CASE Len(a) + Len(b) < i
    <3>1. /\ i \in Len(ab) + 1 .. Len(ab) + Len(c) /\ i - Len(ab) = l
          /\ i \in Len(a) + 1 .. Len(a) + Len(bc) /\ k - Len(b) = l
          /\ k \in Len(b) + 1 .. Len(b) + Len(c)
      BY <2>0, <2>3
    <3>2. x[i] = c[i - Len(ab)]
      BY <1>1, <1>3, <3>1 DEF Joined
    <3>3. y[i] = bc[k]
      BY <1>1, <1>3, <3>1 DEF Joined
    <3>4. bc[k] = c[k - Len(b)]
      BY <1>1, <1>3, <3>1 DEF Joined
    <3> QED
      BY <3>1, <3>2, <3>3, <3>4
  <2> QED
    BY <2>0, <2>1, <2>2, <2>3
<1>6. x = y
  BY <1>3, <1>4, <1>5, SeqEqual
<1> QED
  BY <1>2, <1>6

LEMMA SplitConcat ==
  ASSUME NEW S, NEW s \in Seq(S), NEW n \in 0 .. Len(s)
  PROVE  s = First(s, n) \o After(s, n)
<1>1. PICK f, t : f = First(s, n) /\ t = After(s, n)
  OBVIOUS
<1>2. f \in Seq(S) /\ t \in Seq(S)
  BY <1>1, Split
<1>3. Joined(s, f, t)
  <2>1. /\ Len(f) = n /\ Len(t) = Len(s) - n
        /\ \A i \in 1 .. n : f[i] = s[i]
        /\ \A i \in 1 .. Len(s) - n : t[i] = s[i + n]
    BY <1>1, Split
  <2>2. \A i \in n + 1 .. n + Len(t) : i - n \in 1 .. Len(s) - n /\ (i - n) + n = i
    BY <2>1
  <2> QED
    BY <2>1, <2>2 DEF Joined
<1>4. s = f \o t
  BY <1>2, <1>3, JoinedConcat
<1> QED
  BY <1>1, <1>4

-----------------------------------------------------------------------------
\* Whole messages: one is taken from the front, ...
LEMMA FramedCut ==
  ASSUME NEW g \in Seq(Part), NEW t \in Seq(Part), NEW s \in Seq(Part), Joined(s, g, t),
         Framed(s), NEW m \in Msg, Len(g) = Size(m), g[1][1] = m
  PROVE  /\ \A k \in 1 .. Size(m) : g[k] = <<m, k>>
         /\ Framed(t)
<1>1. /\ Size(m) \in {2, 3} /\ Len(s) = Size(m) + Len(t) /\ Len(t) \in Nat /\ s # <<>>
      /\ \A i \in 1 .. Size(m) : s[i] = g[i]
  BY MsgFacts DEF Joined
<1>2. \A i \in 1 .. Len(t) : t[i] = s[Size(m) + i]
  <2>1. \A i \in Len(g) + 1 .. Len(g) + Len(t) : s[i] = t[i - Len(g)]
    BY DEF Joined
  <2>2. ASSUME NEW i \in 1 .. Len(t)
        PROVE  Size(m) + i \in Len(g) + 1 .. Len(g) + Len(t) /\ (Size(m) + i) - Len(g) = i
    BY <1>1
  <2> QED
    BY <2>1, <2>2
<1>3. g[1] = <<m, 1>>
  <2>1. g[1] \in Part /\ g[1][2] = 1
    BY <1>1 DEF Framed
  <2> QED
    BY <2>1 DEF Part
<1>4. \A i \in 1 .. Len(s) - 1 : Follows(s[i], s[i + 1])
  BY <1>1 DEF Framed
<1>5. g[2] = <<m, 2>>
  <2>1. Follows(g[1], g[2])
    BY <1>1, <1>4
  <2> QED
    BY <2>1, <1>1, <1>3 DEF Follows
<1>6. Size(m) = 3 => g[3] = <<m, 3>>
  <2>1. Size(m) = 3 => Follows(g[2], g[3])
    BY <1>1, <1>4
  <2> QED
    BY <2>1, <1>5 DEF Follows
<1>7. \A k \in 1 .. Size(m) : g[k] = <<m, k>>
  BY <1>1, <1>3, <1>5, <1>6
<1>8. Framed(t)
  <2> SUFFICES ASSUME t # <<>>
               PROVE  /\ t[1][2] = 1 /\ t[Len(t)][2] = Size(t[Len(t)][1])
                      /\ \A i \in 1 .. Len(t) - 1 : Follows(t[i], t[i + 1])
    BY DEF Framed
  <2>0. Len(t) >= 1
    BY <1>1
  <2>1. t[1] = s[Size(m) + 1] /\ s[Size(m)] = <<m, Size(m)>>
    BY <1>1, <1>2, <1>7, <2>0
  <2>2. Follows(s[Size(m)], s[Size(m) + 1])
    BY <1>1, <1>4, <2>0
  <2>3. t[1][2] = 1
    BY <2>1, <2>2 DEF Follows
  <2>4. t[Len(t)] = s[Len(s)]
    BY <1>1, <1>2, <2>0
  <2>5. t[Len(t)][2] = Size(t[Len(t)][1])
    BY <2>4, <1>1 DEF Framed
  <2>6. ASSUME NEW i \in 1 .. Len(t) - 1
        PROVE  Follows(t[i], t[i + 1])
    <3>1. t[i] = s[Size(m) + i] /\ t[i + 1] = s[Size(m) + (i + 1)]
      BY <1>1, <1>2
    <3>2. Size(m) + i \in 1 .. Len(s) - 1 /\ Size(m) + (i + 1) = (Size(m) + i) + 1
      BY <1>1
    <3> QED
      BY <3>1, <3>2, <1>4
  <2> QED
    BY <2>3, <2>5, <2>6
<1> QED
  BY <1>7, <1>8

\* ... or one is appended.
LEMMA FramedAppend ==
  ASSUME NEW s \in Seq(Part), Framed(s), NEW m \in Msg,
         NEW x \in Seq(Part), Joined(x, s, Parts(m))
  PROVE  Framed(x)
<1> DEFINE z == Size(m)
<1>1. /\ z \in {2, 3} /\ Len(x) = Len(s) + z /\ Len(s) \in Nat
      /\ \A i \in 1 .. Len(s) : x[i] = s[i]
  BY MsgFacts, PartsFacts DEF Joined
<1>2. \A k \in 1 .. z : x[Len(s) + k] = <<m, k>>
  <2>1. \A i \in Len(s) + 1 .. Len(s) + z : x[i] = Parts(m)[i - Len(s)]
    BY PartsFacts DEF Joined
  <2>2. ASSUME NEW k \in 1 .. z
        PROVE  Len(s) + k \in Len(s) + 1 .. Len(s) + z /\ (Len(s) + k) - Len(s) = k
    BY <1>1
  <2>3. \A k \in 1 .. z : Parts(m)[k] = <<m, k>>
    BY PartsFacts
  <2> QED
    BY <2>1, <2>2, <2>3
<1>3. x[1][2] = 1
  <2>1. CASE s = <<>>
    BY <2>1, <1>1, <1>2
  <2>2. CASE s # <<>>
    BY <2>2, <1>1 DEF Framed
  <2> QED
    BY <2>1, <2>2
<1>4. x[Len(x)] = <<m, z>>
  BY <1>1, <1>2
<1>5. ASSUME NEW i \in 1 .. Len(x) - 1
      PROVE  Follows(x[i], x[i + 1])
  <2>1. CASE i < Len(s)
    <3>1. x[i] = s[i] /\ x[i + 1] = s[i + 1] /\ i \in 1 .. Len(s) - 1 /\ s # <<>>
      BY <2>1, <1>1
    <3> QED
      BY <3>1 DEF Framed
  <2>2. CASE i = Len(s)
    <3>1. x[i] = s[i] /\ x[i + 1] = <<m, 1>> /\ s # <<>>
      BY <2>2, <1>1, <1>2
    <3>2. s[i][2] = Size(s[i][1])
      BY <2>2, <3>1 DEF Framed
    <3> QED
      BY <3>1, <3>2 DEF Follows
  <2>3. CASE i > Len(s)
    <3>1. PICK k \in 1 .. z - 1 : i = Len(s) + k
      <4>1. i - Len(s) \in 1 .. z - 1 /\ i = Len(s) + (i - Len(s))
        BY <2>3, <1>1
      <4> QED
        BY <4>1
    <3>2. x[i] = <<m, k>> /\ x[i + 1] = <<m, k + 1>>
      <4>1. k \in 1 .. z /\ k + 1 \in 1 .. z /\ i + 1 = Len(s) + (k + 1)
        BY <3>1, <1>1
      <4> QED
        BY <4>1, <3>1, <1>2
    <3>3. k # z
      BY <3>1, <1>1
    <3> QED
      BY <3>2, <3>3 DEF Follows
  <2> QED
    BY <2>1, <2>2, <2>3, <1>1
<1> QED
  BY <1>3, <1>4, <1>5 DEF Framed

-----------------------------------------------------------------------------
\* The order of the frames when the client has taken a message, ...
LEMMA OrderCut ==
  ASSUME NEW g \in Seq(Part), NEW t \in Seq(Part), NEW s \in Seq(Part), Joined(s, g, t),
         NEW m \in Msg, Len(g) = Size(m), \A k \in 1 .. Size(m) : g[k] = <<m, k>>,
         NEW q, NEW lo, NEW hi, InOrder(s, q, lo, hi)
  PROVE  /\ InOrder(t, q, lo, hi)
         /\ m.type = "SLICED_IND" => InOrder(t, q, m.id, hi)
<1> DEFINE z == Size(m)
<1>1. /\ z \in {2, 3} /\ Len(s) = z + Len(t) /\ Len(t) \in Nat
      /\ \A k \in 1 .. z : s[k] = <<m, k>>
  BY MsgFacts DEF Joined
<1>2. \A i \in 1 .. Len(t) : t[i] = s[z + i] /\ z + i \in 1 .. Len(s)
  <2>1. \A i \in Len(g) + 1 .. Len(g) + Len(t) : s[i] = t[i - Len(g)]
    BY DEF Joined
  <2>2. ASSUME NEW i \in 1 .. Len(t)
        PROVE  /\ z + i \in Len(g) + 1 .. Len(g) + Len(t) /\ (z + i) - Len(g) = i
               /\ z + i \in 1 .. Len(s)
    BY <1>1
  <2> QED
    BY <2>1, <2>2
<1>3. ASSUME NEW i \in 1 .. Len(t), IsFrame(t[i])
      PROVE  /\ lo < t[i][1].id /\ t[i][1].id <= hi
             /\ \A k \in 1 .. Len(q) : t[i][1].id < q[k]
  BY <1>2, <1>3 DEF InOrder
<1>4. ASSUME NEW i \in 1 .. Len(t), NEW j \in 1 .. Len(t), i < j, IsFrame(t[i]), IsFrame(t[j])
      PROVE  /\ t[i][1].id <= t[j][1].id
             /\ t[j][2] <= t[i][2] => t[i][1].id < t[j][1].id
  <2>1. z + i < z + j
    BY <1>1, <1>4
  <2> QED
    BY <1>2, <1>4, <2>1 DEF InOrder
<1>5. InOrder(t, q, lo, hi)
  BY <1>3, <1>4 DEF InOrder
<1>6. ASSUME m.type = "SLICED_IND"
      PROVE  InOrder(t, q, m.id, hi)
  <2>1. 1 \in 1 .. Len(s) /\ s[1] = <<m, 1>> /\ IsFrame(s[1])
    BY <1>1, <1>6 DEF IsFrame
  <2>2. m.id <= hi /\ \A k \in 1 .. Len(q) : m.id < q[k]
    <3>1. s[1][1].id <= hi /\ \A k \in 1 .. Len(q) : s[1][1].id < q[k]
      BY <2>1 DEF InOrder
    <3>2. s[1][1] = m
      BY <2>1
    <3> QED
      BY <3>1, <3>2
  <2>3. ASSUME NEW i \in 1 .. Len(t), IsFrame(t[i])
        PROVE  m.id < t[i][1].id
    <3>1. t[i] \in Part /\ Size(m) = 3
      BY <1>6, MsgFacts
    <3>2. PICK k \in 1 .. 3 : t[i][2] = k
      BY <3>1 DEF Part
    <3>3. s[k] = <<m, k>> /\ IsFrame(s[k]) /\ k \in 1 .. Len(s) /\ k < z + i
      BY <3>1, <1>1, <1>6 DEF IsFrame
    <3>4. s[z + i] = t[i] /\ z + i \in 1 .. Len(s)
      BY <1>2
    <3>5. s[z + i][2] <= s[k][2]
      BY <3>2, <3>3, <3>4
    <3>6. s[k][1].id < s[z + i][1].id
      BY <2>3, <3>3, <3>4, <3>5 DEF InOrder
    <3> QED
      BY <3>3, <3>4, <3>6
  <2> QED
    BY <1>5, <2>2, <2>3 DEF InOrder
<1> QED
  BY <1>5, <1>6

\* ... when the daemon appends what is not a frame, ...
LEMMA OrderAppend ==
  ASSUME NEW s \in Seq(Part), NEW m \in Msg, m.type # "SLICED_IND",
         NEW x \in Seq(Part), Joined(x, s, Parts(m)),
         NEW q, NEW lo, NEW hi, InOrder(s, q, lo, hi)
  PROVE  InOrder(x, q, lo, hi)
<1>1. Len(s) \in Nat /\ Len(Parts(m)) \in Nat /\ Len(x) = Len(s) + Len(Parts(m))
  BY PartsFacts, MsgFacts DEF Joined
<1>2. ASSUME NEW i \in 1 .. Len(x), IsFrame(x[i])
      PROVE  i \in 1 .. Len(s) /\ x[i] = s[i]
  <2>1. CASE i <= Len(s)
    BY <2>1, <1>1 DEF Joined
  <2>2. CASE i > Len(s)
    <3>1. i \in Len(s) + 1 .. Len(s) + Len(Parts(m)) /\ i - Len(s) \in 1 .. Size(m)
      BY <2>2, <1>1, PartsFacts
    <3>2. x[i] = Parts(m)[i - Len(s)]
      BY <3>1 DEF Joined
    <3>3. x[i] = <<m, i - Len(s)>>
      BY <3>1, <3>2, PartsFacts
    <3> QED
      BY <3>3, <1>2 DEF IsFrame
  <2> QED
    BY <2>1, <2>2, <1>1
<1>3. ASSUME NEW i \in 1 .. Len(x), IsFrame(x[i])
      PROVE  /\ lo < x[i][1].id /\ x[i][1].id <= hi
             /\ \A k \in 1 .. Len(q) : x[i][1].id < q[k]
  BY <1>2, <1>3 DEF InOrder
<1>4. ASSUME NEW i \in 1 .. Len(x), NEW j \in 1 .. Len(x), i < j, IsFrame(x[i]), IsFrame(x[j])
      PROVE  /\ x[i][1].id <= x[j][1].id
             /\ x[j][2] <= x[i][2] => x[i][1].id < x[j][1].id
  BY <1>2, <1>4 DEF InOrder
<1> QED
  BY <1>3, <1>4 DEF InOrder

\* ... when it appends the first frame of the queue, ...
LEMMA OrderSend ==
  ASSUME NEW s \in Seq(Part), NEW q \in Seq(1 .. MaxFrame), q # <<>>,
         NEW x \in Seq(Part), Joined(x, s, Parts(Frame(Head(q)))),
         NEW lo \in Nat, NEW hi \in Nat, InOrder(s, q, lo, hi)
  PROVE  InOrder(x, Tail(q), lo, hi)
<1> DEFINE m == Frame(Head(q))
           P == Parts(m)
           r == Tail(q)
<1>0. MaxFrame \in Nat
  BY ConnectionAssumption
<1>1. Head(q) \in 1 .. MaxFrame /\ Head(q) = q[1] /\ Len(q) >= 1 /\ Len(q) \in Nat
  BY <1>0
<1>2. m \in Msg /\ m.id = q[1] /\ IsFrame(<<m, 1>>) /\ Size(m) = 3
  BY <1>1, MsgFacts DEF IsFrame
<1>3. /\ Len(r) = Len(q) - 1
      /\ \A k \in 1 .. Len(r) : r[k] = q[k + 1] /\ k + 1 \in 1 .. Len(q)
  BY <1>1
<1>4. Len(s) \in Nat /\ Len(x) = Len(s) + 3
  BY <1>2, PartsFacts DEF Joined
<1>5. \A i \in 1 .. Len(s) : x[i] = s[i]
  BY DEF Joined
<1>6. ASSUME NEW i \in 1 .. Len(x), i > Len(s)
      PROVE  x[i] = <<m, i - Len(s)>>
  <2>1. i \in Len(s) + 1 .. Len(s) + Len(P) /\ i - Len(s) \in 1 .. Size(m)
    BY <1>2, <1>4, <1>6, PartsFacts
  <2>2. x[i] = P[i - Len(s)]
    BY <2>1 DEF Joined
  <2> QED
    BY <1>2, <2>1, <2>2, PartsFacts
<1> HIDE DEF m, P, r
<1>7. 1 \in 1 .. Len(q) /\ lo < q[1] /\ q[1] <= hi /\ \A k \in 1 .. Len(r) : q[1] < r[k]
  <2>1. \A k \in 1 .. Len(r) : 1 < k + 1 /\ 1 \in 1 .. Len(q)
    BY <1>1, <1>3
  <2> QED
    BY <1>1, <1>3, <2>1 DEF InOrder
<1>8. ASSUME NEW i \in 1 .. Len(x), IsFrame(x[i])
      PROVE  /\ lo < x[i][1].id /\ x[i][1].id <= hi
             /\ \A k \in 1 .. Len(r) : x[i][1].id < r[k]
  <2>1. CASE i <= Len(s)
    <3>1. i \in 1 .. Len(s) /\ x[i] = s[i]
      BY <2>1, <1>4, <1>5
    <3> QED
      BY <3>1, <1>3, <1>8 DEF InOrder
  <2>2. CASE i > Len(s)
    BY <2>2, <1>2, <1>6, <1>7
  <2> QED
    BY <2>1, <2>2, <1>4
<1>9. ASSUME NEW i \in 1 .. Len(x), NEW j \in 1 .. Len(x), i < j, IsFrame(x[i]), IsFrame(x[j])
      PROVE  /\ x[i][1].id <= x[j][1].id
             /\ x[j][2] <= x[i][2] => x[i][1].id < x[j][1].id
  <2>1. CASE j <= Len(s)
    <3>1. i \in 1 .. Len(s) /\ x[i] = s[i] /\ j \in 1 .. Len(s) /\ x[j] = s[j]
      BY <2>1, <1>4, <1>5, <1>9
    <3> QED
      BY <3>1, <1>9 DEF InOrder
  <2>2. CASE i <= Len(s) /\ Len(s) < j
    <3>1. i \in 1 .. Len(s) /\ x[i] = s[i] /\ x[j][1] = m
      <4>1. i \in 1 .. Len(s) /\ x[i] = s[i]
        BY <2>2, <1>4, <1>5
      <4>2. x[j] = <<m, j - Len(s)>>
        BY <2>2, <1>4, <1>6
      <4> QED
        BY <4>1, <4>2
    <3>2. s[i][1].id < q[1] /\ s[i][1].id \in Nat
      <4>1. s[i] \in Part
        BY <3>1
      <4> QED
        BY <3>1, <4>1, <1>7, <1>9, MsgFacts DEF InOrder, Part
    <3>3. q[1] \in Nat /\ m.id = q[1] /\ x[i][1].id < x[j][1].id
      BY <1>1, <1>2, <3>1, <3>2
    <3> QED
      BY <3>1, <3>2, <3>3
  <2>3. CASE Len(s) < i
    <3>1. x[i] = <<m, i - Len(s)>> /\ x[j] = <<m, j - Len(s)>>
      BY <2>3, <1>4, <1>6, <1>9
    <3>2. ~(x[j][2] <= x[i][2])
      BY <3>1, <1>4, <1>9
    <3>3. m.id \in Nat
      BY <1>1, <1>2
    <3> QED
      BY <3>1, <3>2, <3>3
  <2> QED
    BY <2>1, <2>2, <2>3, <1>4
<1>10. \A k \in 1 .. Len(r) : lo < r[k] /\ r[k] <= hi
  BY <1>3 DEF InOrder
<1>11. \A k, l \in 1 .. Len(r) : k < l => r[k] < r[l]
  <2>1. \A k, l \in 1 .. Len(r) : k < l => k + 1 < l + 1
    OBVIOUS
  <2> QED
    BY <1>3, <2>1 DEF InOrder
<1>12. InOrder(x, r, lo, hi)
  BY <1>8, <1>9, <1>10, <1>11 DEF InOrder
<1> QED
  BY <1>12 DEF r

\* ... and when a frame is captured or the queue is emptied.
LEMMA OrderQueue ==
  ASSUME NEW s \in Seq(Part), NEW q \in Seq(1 .. MaxFrame), NEW lo \in Nat, NEW hi \in Nat,
         InOrder(s, q, lo, hi)
  PROVE  /\ InOrder(s, Append(q, hi + 1), lo, hi + 1)
         /\ InOrder(s, <<>>, lo, hi)
<1>0. MaxFrame \in Nat
  BY ConnectionAssumption
<1>1. PICK p : p = Append(q, hi + 1)
  OBVIOUS
<1>2. /\ Len(p) = Len(q) + 1 /\ Len(q) \in Nat
      /\ \A k \in 1 .. Len(q) : p[k] = q[k] /\ q[k] \in Nat
      /\ p[Len(q) + 1] = hi + 1
  BY <1>0, <1>1
<1>3. \A i \in 1 .. Len(s) : s[i][1].id \in Nat
  BY MsgFacts DEF Part
<1>4. \A k \in 1 .. Len(p) : lo < p[k] /\ p[k] <= hi + 1
  BY <1>2 DEF InOrder
<1>5. ASSUME NEW k \in 1 .. Len(p), NEW l \in 1 .. Len(p), k < l
      PROVE  p[k] < p[l]
  <2>1. k \in 1 .. Len(q) /\ p[k] = q[k] /\ q[k] \in Nat
    BY <1>2, <1>5
  <2>2. CASE l = Len(q) + 1
    <3>1. q[k] <= hi
      BY <2>1 DEF InOrder
    <3> QED
      BY <1>2, <2>1, <2>2, <3>1
  <2>3. CASE l # Len(q) + 1
    <3>1. l \in 1 .. Len(q) /\ p[l] = q[l]
      BY <1>2, <2>3
    <3>2. q[k] < q[l]
      BY <1>5, <2>1, <3>1 DEF InOrder
    <3> QED
      BY <2>1, <3>1, <3>2
  <2> QED
    BY <2>2, <2>3
<1>6. ASSUME NEW i \in 1 .. Len(s), IsFrame(s[i])
      PROVE  /\ lo < s[i][1].id /\ s[i][1].id <= hi + 1
             /\ \A k \in 1 .. Len(p) : s[i][1].id < p[k]
  <2>1. lo < s[i][1].id /\ s[i][1].id <= hi /\ \A k \in 1 .. Len(q) : s[i][1].id < q[k]
    BY <1>6 DEF InOrder
  <2>2. s[i][1].id \in Nat
    BY <1>3
  <2>3. s[i][1].id < hi + 1
    BY <2>1, <2>2
  <2>4. ASSUME NEW k \in 1 .. Len(p)
        PROVE  s[i][1].id < p[k]
    <3>1. CASE k = Len(q) + 1
      BY <1>2, <2>3, <3>1
    <3>2. CASE k # Len(q) + 1
      <4>1. k \in 1 .. Len(q) /\ p[k] = q[k]
        BY <1>2, <3>2
      <4> QED
        BY <2>1, <4>1
    <3> QED
      BY <3>1, <3>2
  <2>5. s[i][1].id <= hi + 1
    BY <2>2, <2>3
  <2> QED
    BY <2>1, <2>4, <2>5
<1>7. InOrder(s, p, lo, hi + 1)
  BY <1>4, <1>5, <1>6 DEF InOrder
<1>8. InOrder(s, <<>>, lo, hi)
  BY DEF InOrder
<1> QED
  BY <1>1, <1>7, <1>8

-----------------------------------------------------------------------------
\* A read moves the border between what the client has read and the socket, ...
LEMMA WholeRead ==
  ASSUME NEW S, NEW b \in Seq(S), NEW d \in Seq(S), NEW w, NEW n \in 0 .. Len(d)
  PROVE  Whole(b \o First(d, n), After(d, n), w) = Whole(b, d, w)
<1>1. PICK f, t : f = First(d, n) /\ t = After(d, n)
  OBVIOUS
<1>2. f \in Seq(S) /\ t \in Seq(S)
  BY <1>1, Split
<1>3. d = f \o t
  BY <1>1, SplitConcat, Zenon
<1>4. PICK x : x = b \o f
  OBVIOUS
<1>5. x \o t = b \o d
  BY <1>2, <1>3, <1>4, Assoc
<1>6. Whole(x, t, w) = Whole(b, d, w)
  BY <1>5, Zenon DEF Whole
<1> QED
  BY <1>1, <1>4, <1>6, Zenon

\* ... and a write that between the socket and what the daemon has to write.
LEMMA WholeWrite ==
  ASSUME NEW S, NEW b \in Seq(S), NEW d \in Seq(S), NEW w \in Seq(S), NEW n \in 0 .. Len(w)
  PROVE  Whole(b, d \o First(w, n), After(w, n)) = Whole(b, d, w)
<1>1. PICK f, t : f = First(w, n) /\ t = After(w, n)
  OBVIOUS
<1>2. f \in Seq(S) /\ t \in Seq(S)
  BY <1>1, Split
<1>3. w = f \o t
  BY <1>1, SplitConcat, Zenon
<1>4. PICK df, bd : df = d \o f /\ bd = b \o d
  OBVIOUS
<1>5. bd \in Seq(S)
  BY <1>4
<1>6. bd \o f = b \o df
  <2>1. f \in Seq(S) /\ bd = b \o d /\ df = d \o f
    BY <1>2, <1>4
  <2> HIDE DEF First, After
  <2> QED
    BY <2>1, Assoc
<1>7. PICK x : x = bd \o f
  OBVIOUS
<1>8. x \o t = bd \o w
  <2>1. x \o t = bd \o (f \o t)
    BY <1>2, <1>5, <1>7, Assoc
  <2> QED
    BY <1>3, <2>1, Zenon
<1>9. x = b \o df
  BY <1>6, <1>7, Zenon
<1>10. Whole(b, df, t) = Whole(b, d, w)
  BY <1>4, <1>8, <1>9, Zenon DEF Whole
<1> QED
  BY <1>1, <1>4, <1>10, Zenon

\* The front and the end of the stream.
LEMMA WholeJoined ==
  ASSUME NEW S, NEW b \in Seq(S), NEW d \in Seq(S), NEW w \in Seq(S)
  PROVE  /\ Whole(b, d, w) \in Seq(S)
         /\ Joined(Whole(b, d, w), Whole(b, d, <<>>), w)
         /\ Joined(Whole(b, d, w), b, Whole(<<>>, d, w))
<1>1. PICK bd, dw, x : bd = b \o d /\ dw = d \o w /\ x = bd \o w
  OBVIOUS
<1>2. bd \in Seq(S) /\ dw \in Seq(S)
  BY <1>1
<1>3. x \in Seq(S) /\ Joined(x, bd, w)
  BY <1>1, <1>2, JoinedConcat
<1>4. x = b \o dw
  BY <1>1, Assoc
<1>5. Joined(x, b, dw)
  BY <1>2, <1>4, JoinedConcat
<1>6. Whole(b, d, w) = x
  BY <1>1, Zenon DEF Whole
<1>7. Whole(b, d, <<>>) = bd
  <2>1. bd \o <<>> = bd
    BY <1>2, ConcatEmptySeq
  <2> QED
    BY <1>1, <2>1, Zenon DEF Whole
<1>8. Whole(<<>>, d, w) = dw
  <2>1. <<>> \o d = d
    BY ConcatEmptySeq
  <2> QED
    BY <1>1, <2>1, Zenon DEF Whole
<1> QED
  BY <1>3, <1>5, <1>6, <1>7, <1>8, Zenon

LEMMA EmptyWhole == Whole(<<>>, <<>>, <<>>) = <<>>
<1>1. <<>> \in Seq(Part)
  OBVIOUS
<1>2. PICK y : y = <<>> \o <<>>
  OBVIOUS
<1>3. y = <<>>
  BY <1>1, <1>2, ConcatEmptySeq, Zenon
<1> QED
  BY <1>2, <1>3, Zenon DEF Whole

LEMMA MinFacts ==
  ASSUME NEW a \in Nat, NEW b \in Nat
  PROVE  Min({a, b}) \in {a, b} /\ Min({a, b}) <= a /\ Min({a, b}) <= b
<1>1. \E x \in {a, b} : \A y \in {a, b} : x <= y
  <2>1. CASE a <= b
    BY <2>1
  <2>2. CASE b <= a
    BY <2>2
  <2> QED
    BY <2>1, <2>2
<1>2. Min({a, b}) \in {a, b} /\ \A y \in {a, b} : Min({a, b}) <= y
  BY <1>1 DEF Min
<1> QED
  BY <1>2

\* A read gets something, and never beyond the message.
LEMMA ReadableFacts ==
  ASSUME NEW S \in SUBSET Part, NEW buf \in Seq(S), NEW sock \in Seq(S), sock # <<>>,
         buf # <<>> => Len(buf) < Size(MsgOf(buf))
  PROVE  /\ Readable(buf, sock) \in 1 .. Len(sock)
         /\ buf = <<>> => Readable(buf, sock) <= Size(MsgOf(sock))
         /\ buf # <<>> => Len(buf) + Readable(buf, sock) <= Size(MsgOf(buf))
<1>1. \A p \in S : Size(p[1]) \in {2, 3}
  BY MsgFacts DEF Part
<1>2. Len(sock) \in Nat /\ Len(sock) >= 1 /\ sock[1] \in S /\ Len(buf) \in Nat
  OBVIOUS
<1>3. CASE buf = <<>>
  <2>1. Size(MsgOf(sock)) \in {2, 3}
    BY <1>1, <1>2 DEF MsgOf
  <2>2. /\ Readable(buf, sock) \in {Size(MsgOf(sock)), Len(sock)}
        /\ Readable(buf, sock) <= Size(MsgOf(sock)) /\ Readable(buf, sock) <= Len(sock)
    BY <1>2, <1>3, <2>1, MinFacts DEF Readable
  <2> QED
    BY <1>2, <1>3, <2>1, <2>2
<1>4. CASE buf # <<>>
  <2>1. PICK z : z = Size(MsgOf(buf))
    OBVIOUS
  <2>2. z \in {2, 3} /\ Len(buf) < z
    BY <1>1, <1>4, <2>1 DEF MsgOf
  <2>3. Needs(buf) = z - Len(buf)
    BY <2>1, Zenon DEF Needs
  <2>4. Needs(buf) \in Nat \ {0} /\ Len(buf) + Needs(buf) = z
    BY <1>2, <2>2, <2>3
  <2>5. /\ Readable(buf, sock) \in {Needs(buf), Len(sock)}
        /\ Readable(buf, sock) <= Needs(buf) /\ Readable(buf, sock) <= Len(sock)
    BY <1>2, <1>4, <2>4, MinFacts DEF Readable
  <2> QED
    BY <1>2, <1>4, <2>1, <2>4, <2>5
<1> QED
  BY <1>3, <1>4

LEMMA ReadFacts ==
  ASSUME NEW S \in SUBSET Part, NEW buf \in Seq(S), NEW sock \in Seq(S), sock # <<>>,
         buf # <<>> => Len(buf) < Size(MsgOf(buf)),
         NEW n \in 1 .. Readable(buf, sock), NEW x, x = buf \o First(sock, n)
  PROVE  /\ x \in Seq(S) /\ After(sock, n) \in Seq(S) /\ Len(After(sock, n)) <= Len(sock)
         /\ x # <<>> /\ x[1] \in S /\ MsgOf(x) \in Msg
         /\ Len(x) <= Size(MsgOf(x)) /\ Size(MsgOf(x)) \in {2, 3}
<1>1. \A p \in S : p[1] \in Msg /\ Size(p[1]) \in {2, 3}
  BY MsgFacts DEF Part
<1>2. Len(sock) \in Nat /\ Len(sock) >= 1 /\ sock[1] \in S /\ Len(buf) \in Nat
  OBVIOUS
<1>3. PICK r : r = Readable(buf, sock)
  OBVIOUS
<1>4. /\ r \in 1 .. Len(sock)
      /\ buf = <<>> => r <= Size(MsgOf(sock))
      /\ buf # <<>> => Len(buf) + r <= Size(MsgOf(buf))
  BY <1>3, ReadableFacts, Zenon
<1>5. n \in 1 .. r
  BY <1>3
<1>6. n \in 1 .. Len(sock) /\ n \in 0 .. Len(sock) /\ 1 \in 1 .. n /\ n <= r /\ n \in Nat
  BY <1>2, <1>4, <1>5
<1>7. PICK f, t : f = First(sock, n) /\ t = After(sock, n)
  OBVIOUS
<1>8. /\ f \in Seq(S) /\ Len(f) = n /\ f[1] = sock[1]
      /\ t \in Seq(S) /\ Len(t) = Len(sock) - n
  BY <1>6, <1>7, Split
<1>9. x \in Seq(S) /\ Joined(x, buf, f)
  BY <1>7, <1>8, JoinedConcat
<1>10. Len(x) = Len(buf) + n /\ x[1] = IF buf = <<>> THEN sock[1] ELSE buf[1]
  <2>1. CASE buf = <<>>
    BY <1>6, <1>8, <1>9, <2>1 DEF Joined
  <2>2. CASE buf # <<>>
    BY <1>6, <1>8, <1>9, <2>2 DEF Joined
  <2> QED
    BY <2>1, <2>2
<1>11. x # <<>> /\ x[1] \in S
  BY <1>2, <1>6, <1>9, <1>10
<1>12. MsgOf(x) \in Msg /\ Size(MsgOf(x)) \in {2, 3}
  BY <1>1, <1>11 DEF MsgOf
<1>13. MsgOf(x) = IF buf = <<>> THEN MsgOf(sock) ELSE MsgOf(buf)
  BY <1>10 DEF MsgOf
<1>14. Len(x) <= Size(MsgOf(x))
  <2>1. PICK z : z = Size(MsgOf(x))
    OBVIOUS
  <2>2. z \in {2, 3} /\ Len(buf) + r <= z
    <3>1. CASE buf = <<>>
      BY <1>2, <1>4, <1>12, <1>13, <2>1, <3>1
    <3>2. CASE buf # <<>>
      BY <1>4, <1>12, <1>13, <2>1, <3>2, Zenon
    <3> QED
      BY <3>1, <3>2
  <2>3. Len(x) <= z
    BY <1>2, <1>4, <1>6, <1>10, <2>2
  <2> QED
    BY <2>1, <2>3
<1> QED
  BY <1>2, <1>6, <1>7, <1>8, <1>9, <1>11, <1>12, <1>14

-----------------------------------------------------------------------------
\* What one call of the client's vbi_proxy_msg_handle_read does to the buffers.
LEMMA ClientRead ==
  ASSUME Types, down # <<>>, NEW t, t = After(down, Readable(cbuf, down))
  PROVE  /\ Got \in Seq(Part) /\ t \in Seq(Part) /\ Len(t) <= Len(down)
         /\ Got # <<>> /\ Got[1] \in Part /\ MsgOf(Got) \in Msg
         /\ Len(Got) <= Size(MsgOf(Got)) /\ Size(MsgOf(Got)) \in {2, 3}
         /\ Whole(Got, t, dwr) = Whole(cbuf, down, dwr)
<1>1. cbuf \in Seq(Part) /\ down \in Seq(Part) /\ (cbuf # <<>> => Len(cbuf) < Size(MsgOf(cbuf)))
  BY DEF Types
<1>2. PICK n : n = Readable(cbuf, down)
  OBVIOUS
<1>3. n \in 1 .. Len(down)
  BY <1>1, <1>2, ReadableFacts
<1>4. n \in 1 .. n /\ n \in 0 .. Len(down)
  BY <1>3
<1>5. PICK x : x = cbuf \o First(down, n)
  OBVIOUS
<1>6. /\ x \in Seq(Part) /\ After(down, n) \in Seq(Part) /\ Len(After(down, n)) <= Len(down)
      /\ x # <<>> /\ x[1] \in Part /\ MsgOf(x) \in Msg
      /\ Len(x) <= Size(MsgOf(x)) /\ Size(MsgOf(x)) \in {2, 3}
  <2>1. n \in 1 .. Readable(cbuf, down)
    BY <1>2, <1>4
  <2> QED
    BY <1>1, <1>5, <2>1, ReadFacts
<1>7. Whole(cbuf \o First(down, n), After(down, n), dwr) = Whole(cbuf, down, dwr)
  BY <1>1, <1>4, WholeRead
<1>8. Got = x /\ t = After(down, n)
  BY <1>2, <1>5, Zenon DEF Got
<1>9. Whole(Got, t, dwr) = Whole(cbuf, down, dwr)
  BY <1>5, <1>7, <1>8, Zenon
<1> QED
  BY <1>6, <1>8, <1>9, Zenon

\* When the client has taken a message, the rest is as well framed and ordered.
LEMMA Taken ==
  ASSUME Types, StreamOK, Connected, NEW m \in Msg, Completes(m),
         NEW t, t = After(down, Readable(cbuf, down)), NEW r, r = Whole(<<>>, t, dwr)
  PROVE  /\ Framed(r) /\ InOrder(r, queue, shown, nframe)
         /\ m.type = "SLICED_IND" => InOrder(r, queue, m.id, nframe)
<1>1. PICK g : g = Got
  OBVIOUS
<1>2. down # <<>> /\ Complete(g) /\ MsgOf(g) = m
  BY <1>1 DEF Completes
<1>3. PICK s : s = Whole(cbuf, down, dwr)
  OBVIOUS
<1>4. /\ g \in Seq(Part) /\ t \in Seq(Part) /\ s = Whole(g, t, dwr)
  BY <1>1, <1>2, <1>3, ClientRead
<1>5. dwr \in Seq(Part)
  BY DEF Types
<1>6. s \in Seq(Part) /\ r \in Seq(Part) /\ Joined(s, g, r)
  <2>1. Whole(g, t, dwr) \in Seq(Part) /\ Joined(Whole(g, t, dwr), g, Whole(<<>>, t, dwr))
    BY <1>4, <1>5, WholeJoined
  <2>2. <<>> \in Seq(Part)
    OBVIOUS
  <2>3. Whole(<<>>, t, dwr) \in Seq(Part)
    BY <1>4, <1>5, <2>2, WholeJoined
  <2> QED
    BY <1>4, <2>1, <2>3, Zenon
<1>7. Framed(s) /\ InOrder(s, queue, shown, nframe)
  BY <1>3 DEF StreamOK
<1>8. Len(g) = Size(m) /\ g[1][1] = m
  BY <1>2 DEF Complete, MsgOf
<1>9. /\ \A k \in 1 .. Size(m) : g[k] = <<m, k>>
      /\ Framed(r)
  BY <1>4, <1>6, <1>7, <1>8, FramedCut
<1>10. /\ InOrder(r, queue, shown, nframe)
       /\ m.type = "SLICED_IND" => InOrder(r, queue, m.id, nframe)
  BY <1>4, <1>6, <1>7, <1>8, <1>9, OrderCut
<1> QED
  BY <1>9, <1>10

-----------------------------------------------------------------------------
\* A step which moves nothing in the stream.
LEMMA QuietStep ==
  ASSUME ConnInv, Types', Ends', Connected' => Connected,
         UNCHANGED <<cbuf, down, dwr, queue, shown, nframe>>
  PROVE  ConnInv'
  BY DEF ConnInv, StreamOK

\* A step after which one end is closed.
LEMMA ClosedStep ==
  ASSUME Types', Ends', ~Connected'
  PROVE  ConnInv'
  BY DEF ConnInv, StreamOK

LEMMA CloseStep ==
  ASSUME ConnInv, NEW state \in {"NULL", "ERROR"}, Close(state)
  PROVE  ConnInv'
<1>1. Types'
  <2>1. DownCap \in Nat
    BY ConnectionAssumption
  <2>2. /\ cstate' = state /\ cfd' = FALSE /\ cbuf' = <<>> /\ cout' = <<>>
        /\ cpc' = "idle" /\ down' = <<>>
        /\ UNCHANGED <<call, ncall, shown, daemonVars, up>>
    BY DEF Close
  <2>3. TypeOK'
    <3>1. Len(cbuf') < 3 /\ Len(down') <= DownCap
      BY <2>1, <2>2
    <3>2. cstate' \in {"NULL", "ERROR"} /\ cpc' \in {"idle"} /\ cfd' \in BOOLEAN
      BY <2>2
    <3>3. UNCHANGED <<call, ncall, shown, dstate, dpc, dsel, drd, dwr, dfd, ind, nframe, nind, up>>
      BY <2>2 DEF daemonVars
    <3> QED
      BY <3>1, <3>2, <3>3 DEF ConnInv, Types, TypeOK
  <2>4. <<>> \in Seq(Part) /\ <<>> \in Seq(ReqPart)
    OBVIOUS
  <2> QED
    BY <2>2, <2>3, <2>4 DEF ConnInv, Types, daemonVars
<1>2. Ends'
  BY DEF ConnInv, Ends, Close, daemonVars
<1>3. ~Connected'
  BY DEF Close, Connected
<1> QED
  BY <1>1, <1>2, <1>3, ClosedStep

\* The failure labels.
LEMMA FailStep ==
  ASSUME ConnInv, Fail
  PROVE  ConnInv'
<1>1. CASE call.op = "ioctl"
  <2>1. /\ cpc' = "idle"
        /\ UNCHANGED <<cstate, call, ncall, cbuf, cout, cfd, shown, daemonVars, up, down>>
    BY <1>1 DEF Fail
  <2>2. Types'
    BY <2>1 DEF ConnInv, Types, TypeOK, daemonVars
  <2>3. Ends'
    BY <2>1 DEF ConnInv, Ends, daemonVars
  <2>4. Connected' => Connected
    BY <2>1 DEF Connected, daemonVars
  <2> QED
    BY <2>1, <2>2, <2>3, <2>4, QuietStep DEF daemonVars
<1>2. CASE call.op # "ioctl"
  BY <1>2, CloseStep DEF Fail
<1> QED
  BY <1>1, <1>2

\* The client has the whole of a message: the next one begins.
LEMMA TakeItStep ==
  ASSUME ConnInv, NEW m \in Msg, Completes(m), cpc \in {"wait_idle", "reply", "read"},
         NEW pc \in {"idle", "wait_idle", "reply"},
         NEW state \in {"CAPTURING", "WAIT_IDLE", cstate},
         NEW frame, frame = shown \/ (m.type = "SLICED_IND" /\ frame = m.id),
         TakeIt(pc, state, frame)
  PROVE  ConnInv'
<1>1. PICK t : t = After(down, Readable(cbuf, down))
  OBVIOUS
<1>2. /\ down # <<>>
      /\ cbuf' = <<>> /\ down' = t /\ cpc' = pc /\ cstate' = state /\ shown' = frame
      /\ UNCHANGED <<call, ncall, cout, cfd, daemonVars, up>>
  BY <1>1 DEF TakeIt, Completes
<1>3. t \in Seq(Part) /\ Len(t) <= Len(down)
  BY <1>1, <1>2, ClientRead DEF ConnInv
<1>4. frame \in 0 .. MaxFrame
  <2>1. CASE frame = shown
    BY <2>1 DEF ConnInv, Types, TypeOK
  <2>2. CASE m.type = "SLICED_IND" /\ frame = m.id
    <3>1. m.id \in 1 .. MaxFrame
      BY <2>2 DEF Msg, Frame, ChangeInd
    <3> QED
      BY <2>2, <3>1
  <2> QED
    BY <2>1, <2>2
<1>5. Types'
  <2>1. Len(t) <= DownCap
    <3>1. DownCap \in Nat /\ Len(down) <= DownCap /\ Len(down) \in Nat /\ Len(t) \in Nat
      BY <1>3, ConnectionAssumption DEF ConnInv, Types, TypeOK
    <3> QED
      BY <1>3, <3>1
  <2>2. state \in {"NULL", "WAIT_CON_CNF", "CAPTURING", "WAIT_IDLE", "WAIT_SRV_CNF",
                   "WAIT_RPC_REPLY", "ERROR"}
    BY DEF ConnInv, Types, TypeOK
  <2>3. TypeOK'
    BY <1>2, <1>4, <2>1, <2>2 DEF ConnInv, Types, TypeOK, daemonVars
  <2> QED
    BY <1>2, <1>3, <2>3 DEF ConnInv, Types, daemonVars
<1>6. Ends'
  <2>1. dstate = "none" /\ dfd => down = <<>>
    BY DEF ConnInv, Ends
  <2> QED
    BY <1>2, <2>1 DEF ConnInv, Ends, daemonVars
<1>7. StreamOK'
  <2> SUFFICES ASSUME Connected'
               PROVE  /\ Framed(Whole(cbuf', down', dwr'))
                      /\ InOrder(Whole(cbuf', down', dwr'), queue', shown', nframe')
    BY DEF StreamOK
  <2>1. Connected
    BY <1>2 DEF Connected, daemonVars
  <2>2. PICK r : r = Whole(<<>>, t, dwr)
    OBVIOUS
  <2>3. /\ Framed(r) /\ InOrder(r, queue, shown, nframe)
        /\ m.type = "SLICED_IND" => InOrder(r, queue, m.id, nframe)
    BY <1>1, <2>1, <2>2, Taken DEF ConnInv
  <2>4. Whole(cbuf', down', dwr') = r /\ queue' = queue /\ nframe' = nframe /\ shown' = frame
    BY <1>2, <2>2 DEF daemonVars
  <2>5. InOrder(r, queue, frame, nframe)
    BY <2>3, Zenon
  <2> QED
    BY <2>3, <2>4, <2>5
<1> QED
  BY <1>5, <1>6, <1>7 DEF ConnInv

\* A part of a message is read.
LEMMA ClientReadsPartStep ==
  ASSUME ConnInv, ClientReadsPart
  PROVE  ConnInv'
<1>1. PICK t : t = After(down, Readable(cbuf, down))
  OBVIOUS
<1>2. PICK g : g = Got
  OBVIOUS
<1>3. /\ down # <<>> /\ ~Complete(g) /\ cpc \in {"wait_idle", "reply", "read"}
      /\ cbuf' = g /\ down' = t
      /\ UNCHANGED <<cstate, cpc, call, ncall, cout, cfd, shown, daemonVars, up>>
  BY <1>1, <1>2 DEF ClientReadsPart
<1>4. /\ g \in Seq(Part) /\ t \in Seq(Part) /\ Len(t) <= Len(down) /\ g # <<>>
      /\ Len(g) <= Size(MsgOf(g)) /\ Size(MsgOf(g)) \in {2, 3}
      /\ Whole(g, t, dwr) = Whole(cbuf, down, dwr)
  BY <1>1, <1>2, <1>3, ClientRead DEF ConnInv
<1>5. Len(g) < Size(MsgOf(g)) /\ Len(g) < 3
  <2>1. PICK z : z = Size(MsgOf(g))
    OBVIOUS
  <2>2. Len(g) # z
    BY <1>3, <1>4, <2>1 DEF Complete
  <2>3. Len(g) <= z /\ z \in {2, 3} /\ Len(g) \in Nat
    BY <1>4, <2>1
  <2>4. Len(g) < z /\ Len(g) < 3
    BY <2>2, <2>3
  <2> QED
    BY <2>1, <2>4
<1>6. Types'
  <2>1. Len(t) <= DownCap
    <3>1. DownCap \in Nat /\ Len(down) <= DownCap /\ Len(down) \in Nat /\ Len(t) \in Nat
      BY <1>4, ConnectionAssumption DEF ConnInv, Types, TypeOK
    <3> QED
      BY <1>4, <3>1
  <2>2. TypeOK'
    BY <1>3, <1>5, <2>1 DEF ConnInv, Types, TypeOK, daemonVars
  <2> QED
    BY <1>3, <1>4, <1>5, <2>2 DEF ConnInv, Types, daemonVars
<1>7. Ends'
  BY <1>3 DEF ConnInv, Ends, daemonVars
<1>8. StreamOK'
  <2> SUFFICES ASSUME Connected'
               PROVE  /\ Framed(Whole(cbuf', down', dwr'))
                      /\ InOrder(Whole(cbuf', down', dwr'), queue', shown', nframe')
    BY DEF StreamOK
  <2>1. Connected
    BY <1>3 DEF Connected, daemonVars
  <2>2. /\ Whole(cbuf', down', dwr') = Whole(cbuf, down, dwr)
        /\ queue' = queue /\ shown' = shown /\ nframe' = nframe
    BY <1>3, <1>4 DEF daemonVars
  <2> QED
    BY <2>1, <2>2 DEF ConnInv, StreamOK
<1> QED
  BY <1>6, <1>7, <1>8 DEF ConnInv

-----------------------------------------------------------------------------
LEMMA DaemonCloseStep ==
  ASSUME ConnInv, DaemonClose
  PROVE  ConnInv'
<1>1. /\ dstate' = "none" /\ dfd' = FALSE /\ dpc' = "select"
      /\ drd' = <<>> /\ dwr' = <<>> /\ queue' = <<>> /\ ind' = FALSE /\ up' = <<>>
      /\ UNCHANGED <<cstate, cpc, call, ncall, cbuf, cout, cfd, shown, dsel, nframe, nind, down>>
  BY DEF DaemonClose, clientVars
<1>2. Types'
  <2>1. TypeOK'
    <3>1. Len(drd') < 3 /\ Len(dwr') <= 3 /\ Len(up') <= UpCap
      BY <1>1, ConnectionAssumption
    <3>2. dstate' \in {"none"} /\ dpc' \in {"select"} /\ dfd' \in BOOLEAN /\ ind' \in BOOLEAN
      BY <1>1
    <3> QED
      BY <1>1, <3>1, <3>2 DEF ConnInv, Types, TypeOK
  <2>2. <<>> \in Seq(Part) /\ <<>> \in Seq(ReqPart) /\ <<>> \in Seq(1 .. MaxFrame)
    OBVIOUS
  <2> QED
    BY <1>1, <2>1, <2>2 DEF ConnInv, Types
<1>3. Ends'
  BY <1>1 DEF ConnInv, Ends
<1>4. ~Connected'
  BY <1>1 DEF Connected
<1> QED
  BY <1>2, <1>3, <1>4, ClosedStep

\* A new connection is accepted: nothing has been sent on it.
LEMMA AcceptStep ==
  ASSUME ConnInv, Accept
  PROVE  ConnInv'
<1>1. /\ dstate = "none" /\ dfd /\ dstate' = "WAIT_CON_REQ"
      /\ UNCHANGED <<cstate, cpc, call, ncall, cbuf, cout, cfd, shown, dpc, dsel, drd, dwr, dfd,
                     queue, ind, nframe, nind, up, down>>
  BY DEF Accept, clientVars
<1>2. Types'
  BY <1>1 DEF ConnInv, Types, TypeOK
<1>3. Ends'
  BY <1>1 DEF ConnInv, Ends
<1>4. StreamOK'
  <2>1. cbuf' = <<>> /\ down' = <<>> /\ dwr' = <<>> /\ queue' = <<>> /\ shown' = 0
    BY <1>1 DEF ConnInv, Ends
  <2>2. nframe' \in Nat
    BY <1>1, ConnectionAssumption DEF ConnInv, Types, TypeOK
  <2>3. Whole(<<>>, <<>>, <<>>) = <<>>
    BY EmptyWhole
  <2>4. Framed(<<>>)
    BY DEF Framed
  <2>5. InOrder(<<>>, <<>>, 0, nframe')
    BY <2>2 DEF InOrder
  <2> QED
    BY <2>1, <2>3, <2>4, <2>5, Zenon DEF StreamOK
<1> QED
  BY <1>2, <1>3, <1>4 DEF ConnInv

\* A frame is captured: it comes after all others.
LEMMA PublishStep ==
  ASSUME ConnInv, Publish
  PROVE  ConnInv'
<1>1. /\ dstate = "FORWARD" /\ nframe < MaxFrame
      /\ nframe' = nframe + 1 /\ queue' = Append(queue, nframe + 1)
      /\ UNCHANGED <<cstate, cpc, call, ncall, cbuf, cout, cfd, shown, dstate, dpc, dsel, drd,
                     dwr, dfd, ind, nind, up, down>>
  BY DEF Publish, clientVars
<1>2. nframe \in Nat /\ MaxFrame \in Nat /\ nframe' \in 1 .. MaxFrame /\ shown \in Nat
      /\ queue \in Seq(1 .. MaxFrame)
  BY <1>1, ConnectionAssumption DEF ConnInv, Types, TypeOK
<1>3. Types'
  <2>1. queue' \in Seq(1 .. MaxFrame) /\ nframe' \in 0 .. MaxFrame
    BY <1>1, <1>2
  <2> QED
    BY <1>1, <2>1 DEF ConnInv, Types, TypeOK
<1>4. Ends'
  BY <1>1 DEF ConnInv, Ends
<1>5. StreamOK'
  <2> SUFFICES ASSUME Connected'
               PROVE  /\ Framed(Whole(cbuf', down', dwr'))
                      /\ InOrder(Whole(cbuf', down', dwr'), queue', shown', nframe')
    BY DEF StreamOK
  <2>1. Connected
    BY <1>1 DEF Connected
  <2>2. PICK s : s = Whole(cbuf, down, dwr)
    OBVIOUS
  <2>3. Framed(s) /\ InOrder(s, queue, shown, nframe)
    BY <2>1, <2>2 DEF ConnInv, StreamOK
  <2>4. s \in Seq(Part)
    <3>1. cbuf \in Seq(Part) /\ down \in Seq(Part) /\ dwr \in Seq(Part)
      BY DEF ConnInv, Types
    <3> QED
      BY <2>2, <3>1, WholeJoined
  <2>5. InOrder(s, Append(queue, nframe + 1), shown, nframe + 1)
    BY <1>2, <2>3, <2>4, OrderQueue
  <2> QED
    BY <1>1, <2>2, <2>3, <2>5, Zenon
<1> QED
  BY <1>3, <1>4, <1>5 DEF ConnInv

\* What the daemon reads makes room in the socket.
LEMMA UpShorter ==
  ASSUME Types, NEW t \in Seq(ReqPart), Len(t) <= Len(up)
  PROVE  Len(t) <= UpCap
<1>1. UpCap \in Nat /\ Len(up) <= UpCap /\ Len(up) \in Nat /\ Len(t) \in Nat
  BY ConnectionAssumption DEF Types, TypeOK
<1> QED
  BY <1>1

\* A part of a request is read.
LEMMA DaemonReadsPartStep ==
  ASSUME ConnInv, NEW n \in 1 .. 2, DaemonReadsPart(n)
  PROVE  ConnInv'
<1>1. PICK x, t : x = drd \o First(up, n) /\ t = After(up, n)
  OBVIOUS
<1>2. /\ dpc = "io" /\ dwr = <<>> /\ up # <<>> /\ n \in 1 .. Readable(drd, up) /\ ~Complete(x)
      /\ drd' = x /\ up' = t /\ dpc' = "serve"
      /\ UNCHANGED <<cstate, cpc, call, ncall, cbuf, cout, cfd, shown, dstate, dsel, dwr, dfd,
                     queue, ind, nframe, nind, down>>
  BY <1>1 DEF DaemonReadsPart, clientVars
<1>3. ReqPart \in SUBSET Part /\ drd \in Seq(ReqPart) /\ up \in Seq(ReqPart)
      /\ (drd # <<>> => Len(drd) < Size(MsgOf(drd)))
  BY DEF ConnInv, Types, ReqPart, Part
<1>4. /\ x \in Seq(ReqPart) /\ t \in Seq(ReqPart) /\ x # <<>> /\ Len(t) <= Len(up)
      /\ Len(x) <= Size(MsgOf(x)) /\ Size(MsgOf(x)) \in {2, 3}
  BY <1>1, <1>2, <1>3, ReadFacts
<1>5. Len(x) < Size(MsgOf(x)) /\ Len(x) < 3
  <2>1. PICK z : z = Size(MsgOf(x))
    OBVIOUS
  <2>2. Len(x) # z
    BY <1>2, <1>4, <2>1 DEF Complete
  <2>3. Len(x) <= z /\ z \in {2, 3} /\ Len(x) \in Nat
    BY <1>4, <2>1
  <2>4. Len(x) < z /\ Len(x) < 3
    BY <2>2, <2>3
  <2> QED
    BY <2>1, <2>4
<1>6. Types'
  <2>1. Len(up') <= UpCap
    BY <1>2, <1>4, UpShorter DEF ConnInv
  <2>2. TypeOK'
    BY <1>2, <1>5, <2>1 DEF ConnInv, Types, TypeOK
  <2> QED
    BY <1>2, <1>4, <1>5, <2>2 DEF ConnInv, Types
<1>7. Ends'
  BY <1>2 DEF ConnInv, Ends
<1>8. Connected' => Connected
  BY <1>2 DEF Connected
<1> QED
  BY <1>2, <1>6, <1>7, <1>8, QuietStep

\* A request is answered when everything before has been written.
LEMMA DaemonReadsStep ==
  ASSUME ConnInv, NEW m \in Msg, DaemonReads(m)
  PROVE  ConnInv'
<1>1. PICK n \in {Readable(drd, up)} :
        Complete(drd \o First(up, n)) /\ MsgOf(drd \o First(up, n)) = m /\ up' = After(up, n)
  BY DEF DaemonReads
<1>2. PICK x : x = drd \o First(up, n)
  OBVIOUS
<1>3. /\ ReqPart \in SUBSET Part /\ drd \in Seq(ReqPart) /\ up \in Seq(ReqPart)
      /\ (drd # <<>> => Len(drd) < Size(MsgOf(drd))) /\ up # <<>>
  BY DEF ConnInv, Types, ReqPart, Part, DaemonReads
<1>4. n \in 1 .. Readable(drd, up)
  <2>1. Readable(drd, up) \in 1 .. Len(up)
    BY <1>3, ReadableFacts
  <2> QED
    BY <2>1, <1>1
<1>5. up' \in Seq(ReqPart) /\ x[1] \in ReqPart /\ Len(up') <= UpCap
  <2>1. After(up, n) \in Seq(ReqPart) /\ x[1] \in ReqPart /\ Len(After(up, n)) <= Len(up)
    BY <1>2, <1>3, <1>4, ReadFacts
  <2> QED
    BY <1>1, <2>1, UpShorter DEF ConnInv
<1>6. m.type = "REQ"
  BY <1>1, <1>2, <1>5 DEF MsgOf, ReqPart
<1>7. PICK type \in {"CNF", "REJ"}, state \in {"FORWARD", "WAIT_CLOSE", dstate} :
        /\ Answer(m, type, state)
        /\ state = dstate \/ dstate = "WAIT_CON_REQ"
  BY DEF DaemonReads
<1>8. PICK a : a = [m EXCEPT !.type = type]
  OBVIOUS
<1>9. a \in Msg /\ a.type # "SLICED_IND"
  BY <1>6, <1>7, <1>8 DEF Msg, Frame, ChangeInd
<1>10. PICK q : q = IF m.op = "service" THEN <<>> ELSE queue
  OBVIOUS
<1>11. /\ dpc = "io" /\ dwr = <<>>
       /\ dstate' = state /\ dwr' = Parts(a) /\ queue' = q
       /\ ind' = (ind /\ m.op # "notify") /\ drd' = <<>> /\ dpc' = "serve"
       /\ UNCHANGED <<cstate, cpc, call, ncall, cbuf, cout, cfd, shown, dsel, dfd, nframe, nind,
                      down>>
  BY <1>7, <1>8, <1>10 DEF DaemonReads, Answer, clientVars
<1>12. Parts(a) \in Seq(Part) /\ Len(Parts(a)) <= 3
  BY <1>9, PartsFacts, MsgFacts
<1>13. dstate # "none" /\ state # "none"
  BY <1>7, <1>11 DEF ConnInv, Ends
<1>14. Types'
  <2>1. TypeOK'
    <3>1. Len(drd') < 3 /\ Len(dwr') <= 3
      BY <1>11, <1>12
    <3>2. /\ dstate' \in {"none", "WAIT_CON_REQ", "FORWARD", "WAIT_CLOSE"}
          /\ dpc' \in {"serve"} /\ ind' \in BOOLEAN
      BY <1>7, <1>11 DEF ConnInv, Types, TypeOK
    <3> QED
      BY <1>5, <1>11, <3>1, <3>2 DEF ConnInv, Types, TypeOK
  <2>2. <<>> \in Seq(ReqPart) /\ queue' \in Seq(1 .. MaxFrame)
    <3>1. <<>> \in Seq(ReqPart) /\ <<>> \in Seq(1 .. MaxFrame)
      OBVIOUS
    <3>2. queue \in Seq(1 .. MaxFrame)
      BY DEF ConnInv, Types
    <3>3. queue' = <<>> \/ queue' = queue
      BY <1>10, <1>11
    <3> QED
      BY <3>1, <3>2, <3>3, Zenon
  <2> QED
    BY <1>5, <1>11, <1>12, <2>1, <2>2 DEF ConnInv, Types
<1>15. Ends'
  BY <1>11, <1>13 DEF ConnInv, Ends
<1>16. StreamOK'
  <2> SUFFICES ASSUME Connected'
               PROVE  /\ Framed(Whole(cbuf', down', dwr'))
                      /\ InOrder(Whole(cbuf', down', dwr'), queue', shown', nframe')
    BY DEF StreamOK
  <2>1. Connected
    BY <1>11, <1>13 DEF Connected
  <2>2. PICK s, y : s = Whole(cbuf, down, <<>>) /\ y = Whole(cbuf, down, Parts(a))
    OBVIOUS
  <2>3. Framed(s) /\ InOrder(s, queue, shown, nframe)
    BY <1>11, <2>1, <2>2 DEF ConnInv, StreamOK
  <2>4. cbuf \in Seq(Part) /\ down \in Seq(Part) /\ <<>> \in Seq(Part)
    BY DEF ConnInv, Types
  <2>5. s \in Seq(Part) /\ y \in Seq(Part) /\ Joined(y, s, Parts(a))
    BY <1>12, <2>2, <2>4, WholeJoined
  <2>6. Framed(y)
    BY <1>9, <2>3, <2>5, FramedAppend
  <2>7. InOrder(y, queue, shown, nframe)
    BY <1>9, <2>3, <2>5, OrderAppend
  <2>8. InOrder(y, q, shown, nframe)
    <3>1. shown \in Nat /\ nframe \in Nat /\ queue \in Seq(1 .. MaxFrame)
      BY ConnectionAssumption DEF ConnInv, Types, TypeOK
    <3>2. InOrder(y, <<>>, shown, nframe)
      BY <2>5, <2>7, <3>1, OrderQueue
    <3> QED
      BY <1>10, <2>7, <3>2, Zenon
  <2> QED
    BY <1>11, <2>2, <2>6, <2>8, Zenon
<1> QED
  BY <1>14, <1>15, <1>16 DEF ConnInv

\* What a write leaves of the message, and what goes into the socket.
LEMMA SendFacts ==
  ASSUME Types, NEW buf \in Seq(Part), Len(buf) <= 3, Send(buf)
  PROVE  /\ down' \in Seq(Part) /\ Len(down') <= DownCap
         /\ dwr' \in Seq(Part) /\ Len(dwr') <= 3
         /\ Whole(cbuf, down', dwr') = Whole(cbuf, down, buf)
<1>1. PICK n \in {Min({Room, Len(buf)})} :
        down' = down \o First(buf, n) /\ dwr' = After(buf, n)
  BY DEF Send
<1>2. /\ cbuf \in Seq(Part) /\ down \in Seq(Part) /\ Len(down) <= DownCap
      /\ DownCap \in Nat /\ Len(down) \in Nat /\ Len(buf) \in Nat
  BY ConnectionAssumption DEF Types, TypeOK
<1>3. Room \in Nat /\ Len(down) + Room = DownCap
  BY <1>2 DEF Room
<1>4. n \in 0 .. Len(buf) /\ n <= Room
  <2>1. PICK a, b : a = Room /\ b = Len(buf)
    OBVIOUS
  <2>2. a \in Nat /\ b \in Nat /\ n = Min({a, b})
    BY <1>1, <1>2, <1>3, <2>1
  <2>3. Min({a, b}) \in {a, b} /\ Min({a, b}) <= a /\ Min({a, b}) <= b
    BY <2>2, MinFacts
  <2> QED
    BY <2>1, <2>2, <2>3
<1>5. PICK f : f = First(buf, n)
  OBVIOUS
<1>6. f \in Seq(Part) /\ Len(f) = n /\ After(buf, n) \in Seq(Part)
      /\ Len(After(buf, n)) = Len(buf) - n
  BY <1>4, <1>5, Split
<1>7. down' \in Seq(Part) /\ Len(down') = Len(down) + n
  <2>1. down' \in Seq(Part) /\ Joined(down', down, f)
    BY <1>1, <1>2, <1>5, <1>6, JoinedConcat
  <2> QED
    BY <1>6, <2>1 DEF Joined
<1>8. Whole(cbuf, down \o First(buf, n), After(buf, n)) = Whole(cbuf, down, buf)
  BY <1>2, <1>4, WholeWrite
<1>9. Whole(cbuf, down', dwr') = Whole(cbuf, down, buf)
  BY <1>1, <1>8, Zenon
<1> QED
  BY <1>1, <1>2, <1>3, <1>4, <1>6, <1>7, <1>9

\* The socket takes a part of a message.
LEMMA DaemonWritesStep ==
  ASSUME ConnInv, DaemonWrites
  PROVE  ConnInv'
<1>1. /\ dpc = "io" /\ dpc' = "serve" /\ dwr # <<>> /\ Send(dwr)
      /\ UNCHANGED <<cstate, cpc, call, ncall, cbuf, cout, cfd, shown, dstate, dsel, drd, dfd,
                     queue, ind, nframe, nind, up>>
  BY DEF DaemonWrites, clientVars
<1>2. /\ down' \in Seq(Part) /\ Len(down') <= DownCap
      /\ dwr' \in Seq(Part) /\ Len(dwr') <= 3
      /\ Whole(cbuf, down', dwr') = Whole(cbuf, down, dwr)
  <2>1. Types /\ dwr \in Seq(Part) /\ Len(dwr) <= 3
    BY DEF ConnInv, Types, TypeOK
  <2> QED
    BY <1>1, <2>1, SendFacts
<1>3. Types'
  BY <1>1, <1>2 DEF ConnInv, Types, TypeOK
<1>4. Ends'
  BY <1>1 DEF ConnInv, Ends
<1>5. StreamOK'
  <2>1. Connected' => Connected
    BY <1>1 DEF Connected
  <2>2. Whole(cbuf', down', dwr') = Whole(cbuf, down, dwr)
    BY <1>1, <1>2
  <2> QED
    BY <1>1, <2>1, <2>2 DEF ConnInv, StreamOK
<1> QED
  BY <1>3, <1>4, <1>5 DEF ConnInv

\* The daemon begins a message when it has written the last one.
LEMMA BeginStep ==
  ASSUME ConnInv, NEW m \in Msg, dwr = <<>>, NEW q \in Seq(1 .. MaxFrame), dstate # "none",
         \/ m.type # "SLICED_IND" /\ q = queue
         \/ queue # <<>> /\ m = Frame(Head(queue)) /\ q = Tail(queue)
  PROVE  /\ Parts(m) \in Seq(Part) /\ Len(Parts(m)) <= 3
         /\ Connected =>
              /\ Framed(Whole(cbuf, down, Parts(m)))
              /\ InOrder(Whole(cbuf, down, Parts(m)), q, shown, nframe)
<1>1. Parts(m) \in Seq(Part) /\ Len(Parts(m)) <= 3
  BY PartsFacts, MsgFacts
<1>2. ASSUME Connected
      PROVE  /\ Framed(Whole(cbuf, down, Parts(m)))
             /\ InOrder(Whole(cbuf, down, Parts(m)), q, shown, nframe)
  <2>1. PICK s, y : s = Whole(cbuf, down, <<>>) /\ y = Whole(cbuf, down, Parts(m))
    OBVIOUS
  <2>2. Framed(s) /\ InOrder(s, queue, shown, nframe)
    BY <1>2, <2>1 DEF ConnInv, StreamOK
  <2>3. cbuf \in Seq(Part) /\ down \in Seq(Part) /\ <<>> \in Seq(Part)
    BY DEF ConnInv, Types
  <2>4. s \in Seq(Part) /\ y \in Seq(Part) /\ Joined(y, s, Parts(m))
    BY <1>1, <2>1, <2>3, WholeJoined
  <2>5. Framed(y)
    BY <2>2, <2>4, FramedAppend
  <2>6. InOrder(y, q, shown, nframe)
    <3>1. CASE m.type # "SLICED_IND" /\ q = queue
      BY <2>2, <2>4, <3>1, OrderAppend
    <3>2. CASE queue # <<>> /\ m = Frame(Head(queue)) /\ q = Tail(queue)
      <4>1. shown \in Nat /\ nframe \in Nat /\ queue \in Seq(1 .. MaxFrame)
        BY ConnectionAssumption DEF ConnInv, Types, TypeOK
      <4>2. Joined(y, s, Parts(Frame(Head(queue))))
        BY <2>4, <3>2
      <4> QED
        BY <2>2, <2>4, <3>2, <4>1, <4>2, OrderSend
    <3> QED
      BY <3>1, <3>2
  <2> QED
    BY <2>1, <2>5, <2>6, Zenon
<1> QED
  BY <1>1, <1>2

\* An indication is prepared ...
LEMMA SendIndStep ==
  ASSUME ConnInv, SendInd
  PROVE  ConnInv'
<1>1. /\ dpc = "serve" /\ drd = <<>> /\ dwr = <<>> /\ ind
      /\ dwr' = Parts(ChangeInd) /\ ind' = FALSE /\ dpc' = "select"
      /\ UNCHANGED <<cstate, cpc, call, ncall, cbuf, cout, cfd, shown, dstate, dsel, drd, dfd,
                     queue, nframe, nind, up, down>>
  BY DEF SendInd, DaemonIdle, clientVars
<1>2. dstate # "none" /\ queue \in Seq(1 .. MaxFrame)
  BY <1>1 DEF ConnInv, Ends, Types
<1>3. PICK m \in Msg : m = ChangeInd /\ m.type # "SLICED_IND"
  BY MsgFacts
<1>4. /\ Parts(m) \in Seq(Part) /\ Len(Parts(m)) <= 3
      /\ Connected =>
           /\ Framed(Whole(cbuf, down, Parts(m)))
           /\ InOrder(Whole(cbuf, down, Parts(m)), queue, shown, nframe)
  BY <1>1, <1>2, <1>3, BeginStep
<1>5. dwr' = Parts(m)
  BY <1>1, <1>3
<1>6. Types'
  <2>1. TypeOK'
    BY <1>1, <1>4, <1>5 DEF ConnInv, Types, TypeOK
  <2> QED
    BY <1>1, <1>4, <1>5, <2>1 DEF ConnInv, Types
<1>7. Ends'
  BY <1>1, <1>2 DEF ConnInv, Ends
<1>8. StreamOK'
  <2>1. Connected' => Connected
    BY <1>1 DEF Connected
  <2>2. /\ Whole(cbuf', down', dwr') = Whole(cbuf, down, Parts(m))
        /\ queue' = queue /\ shown' = shown /\ nframe' = nframe
    BY <1>1, <1>5
  <2> QED
    BY <1>4, <2>1, <2>2 DEF StreamOK
<1> QED
  BY <1>6, <1>7, <1>8 DEF ConnInv

\* ... and a frame is taken from the queue, as much of it as the socket takes.
LEMMA SendSlicedStep ==
  ASSUME ConnInv, SendSliced
  PROVE  ConnInv'
<1>1. CASE ~cfd
  BY <1>1, DaemonCloseStep DEF SendSliced
<1>2. CASE cfd
  <2>1. PICK m : m = Frame(Head(queue))
    OBVIOUS
  <2>2. /\ dpc = "serve" /\ drd = <<>> /\ dwr = <<>> /\ queue # <<>>
        /\ Send(Parts(m)) /\ queue' = Tail(queue)
        /\ dpc' = IF dwr' = <<>> THEN "serve" ELSE "select"
        /\ UNCHANGED <<cstate, cpc, call, ncall, cbuf, cout, cfd, shown, dstate, dsel, drd, dfd,
                       ind, nframe, nind, up>>
    BY <1>2, <2>1 DEF SendSliced, DaemonIdle, clientVars
  <2>3. dstate # "none" /\ queue \in Seq(1 .. MaxFrame)
    BY <2>2 DEF ConnInv, Ends, Types
  <2>4. m \in Msg
    <3>1. MaxFrame \in Nat
      BY ConnectionAssumption
    <3>2. Head(queue) \in 1 .. MaxFrame
      BY <2>2, <2>3, <3>1
    <3> QED
      BY <2>1, <3>2, MsgFacts
  <2>5. queue' \in Seq(1 .. MaxFrame)
    BY <2>2, <2>3
  <2>6. /\ Parts(m) \in Seq(Part) /\ Len(Parts(m)) <= 3
        /\ Connected =>
             /\ Framed(Whole(cbuf, down, Parts(m)))
             /\ InOrder(Whole(cbuf, down, Parts(m)), queue', shown, nframe)
    BY <2>1, <2>2, <2>3, <2>4, <2>5, BeginStep
  <2>7. /\ down' \in Seq(Part) /\ Len(down') <= DownCap
        /\ dwr' \in Seq(Part) /\ Len(dwr') <= 3
        /\ Whole(cbuf, down', dwr') = Whole(cbuf, down, Parts(m))
    BY <2>2, <2>6, SendFacts DEF ConnInv
  <2>8. Types'
    <3>1. dpc' \in {"serve", "select"}
      BY <2>2
    <3>2. TypeOK'
      BY <2>2, <2>7, <3>1 DEF ConnInv, Types, TypeOK
    <3> QED
      BY <2>2, <2>5, <2>7, <3>2 DEF ConnInv, Types
  <2>9. Ends'
    BY <2>2, <2>3 DEF ConnInv, Ends
  <2>10. StreamOK'
    <3>1. Connected' => Connected
      BY <2>2 DEF Connected
    <3>2. /\ Whole(cbuf', down', dwr') = Whole(cbuf, down, Parts(m))
          /\ shown' = shown /\ nframe' = nframe
      BY <2>2, <2>7
    <3> QED
      BY <2>6, <3>1, <3>2 DEF StreamOK
  <2> QED
    BY <2>8, <2>9, <2>10 DEF ConnInv
<1> QED
  BY <1>1, <1>2

-----------------------------------------------------------------------------
\* The calls of the client.
LEMMA CallStep ==
  ASSUME ConnInv,
         \/ Connect \/ (\E op \in Ops : CallBegin(op)) \/ ReadBegin \/ StopAcq
         \/ ReadTimeOut \/ WriteTimeOut \/ CallTimeOut
  PROVE  ConnInv'
<1>0. MaxCall \in Nat /\ MaxFrame \in Nat /\ DownCap \in Nat /\ UpCap \in Nat
  BY ConnectionAssumption
<1>1. CASE Connect
  <2>1. /\ cpc = "idle" /\ dstate = "none"
        /\ cstate' = "WAIT_CON_CNF" /\ cfd' = TRUE /\ dfd' = TRUE
        /\ call' = Request("connect", 0) /\ ncall' = 0 /\ cout' = Parts(call') /\ cpc' = "write"
        /\ cbuf' = <<>> /\ shown' = 0
        /\ up' = <<>> /\ down' = <<>> /\ nframe' = 0 /\ nind' = 0
        /\ UNCHANGED <<dstate, dpc, dsel, drd, dwr, queue, ind>>
    BY <1>1 DEF Connect
  <2>2. call' \in Msg /\ call'.type = "REQ"
    BY <1>0, <2>1 DEF Msg, Request
  <2>3. cout' \in Seq(ReqPart)
    BY <2>1, <2>2, PartsFacts
  <2>4. Types'
    <3>1. <<>> \in Seq(Part) /\ <<>> \in Seq(ReqPart) /\ Len(<<>>) = 0
      OBVIOUS
    <3>2. nind' \in 0 .. MaxInd
      BY <2>1, ConnectionAssumption
    <3>3. TypeOK'
      BY <1>0, <2>1, <2>2, <3>1, <3>2 DEF ConnInv, Types, TypeOK
    <3> QED
      BY <2>1, <2>2, <2>3, <3>1, <3>3 DEF ConnInv, Types
  <2>5. Ends'
    BY <2>1 DEF ConnInv, Ends
  <2>6. ~Connected'
    BY <2>1 DEF Connected
  <2> QED
    BY <2>4, <2>5, <2>6, ClosedStep
<1>2. CASE \E op \in Ops : CallBegin(op)
  <2>1. PICK op \in Ops : CallBegin(op)
    BY <1>2
  <2>2. /\ cpc = "idle" /\ cout = <<>> /\ ncall < MaxCall
        /\ ncall' = ncall + 1 /\ call' = Request(op, ncall') /\ cpc' = "wait_idle"
        /\ UNCHANGED <<cstate, cbuf, cout, cfd, shown, dstate, dpc, dsel, drd, dwr, dfd, queue,
                       ind, nframe, nind, up, down>>
    BY <2>1 DEF CallBegin, daemonVars
  <2>3. ncall' \in 0 .. MaxCall
    BY <1>0, <2>2 DEF ConnInv, Types, TypeOK
  <2>4. call' \in Msg /\ call'.type = "REQ"
    BY <2>2, <2>3 DEF Msg, Request
  <2>5. Types'
    BY <2>2, <2>3, <2>4 DEF ConnInv, Types, TypeOK
  <2>6. Ends'
    BY <2>2 DEF ConnInv, Ends
  <2>7. Connected' => Connected
    BY <2>2 DEF Connected
  <2> QED
    BY <2>2, <2>5, <2>6, <2>7, QuietStep
<1>3. CASE ReadBegin \/ ReadTimeOut
  <2>1. /\ cpc \in {"idle", "read"} /\ cpc' \in {"idle", "read"}
        /\ cout = <<>> \/ cpc = "read"
        /\ UNCHANGED <<cstate, call, ncall, cbuf, cout, cfd, shown, dstate, dpc, dsel, drd, dwr,
                       dfd, queue, ind, nframe, nind, up, down>>
    BY <1>3 DEF ReadBegin, ReadTimeOut, daemonVars
  <2>2. Types'
    BY <2>1 DEF ConnInv, Types, TypeOK
  <2>3. Ends'
    BY <2>1 DEF ConnInv, Ends
  <2>4. Connected' => Connected
    BY <2>1 DEF Connected
  <2> QED
    BY <2>1, <2>2, <2>3, <2>4, QuietStep
<1>4. CASE StopAcq
  BY <1>4, CloseStep DEF StopAcq
<1>5. CASE WriteTimeOut \/ CallTimeOut
  BY <1>5, FailStep DEF WriteTimeOut, CallTimeOut
<1> QED
  BY <1>1, <1>2, <1>3, <1>4, <1>5

\* What a write leaves of a request, and what goes into the socket.
LEMMA WriteFacts ==
  ASSUME Types, ClientWrites
  PROVE  /\ up' \in Seq(ReqPart) /\ Len(up') <= UpCap
         /\ cout' \in Seq(ReqPart)
         /\ Whole(drd, up', cout') = Whole(drd, up, cout)
<1>1. PICK n \in {Min({UpRoom, Len(cout)})} :
        up' = up \o First(cout, n) /\ cout' = After(cout, n)
  BY DEF ClientWrites
<1>2. /\ drd \in Seq(ReqPart) /\ up \in Seq(ReqPart) /\ cout \in Seq(ReqPart)
      /\ Len(up) <= UpCap /\ UpCap \in Nat /\ Len(up) \in Nat /\ Len(cout) \in Nat
  BY ConnectionAssumption DEF Types, TypeOK
<1>3. UpRoom \in Nat /\ Len(up) + UpRoom = UpCap
  BY <1>2 DEF UpRoom
<1>4. n \in 0 .. Len(cout) /\ n <= UpRoom
  <2>1. PICK a, b : a = UpRoom /\ b = Len(cout)
    OBVIOUS
  <2>2. a \in Nat /\ b \in Nat /\ n = Min({a, b})
    BY <1>1, <1>2, <1>3, <2>1
  <2>3. Min({a, b}) \in {a, b} /\ Min({a, b}) <= a /\ Min({a, b}) <= b
    BY <2>2, MinFacts
  <2> QED
    BY <2>1, <2>2, <2>3
<1>5. PICK f : f = First(cout, n)
  OBVIOUS
<1>6. f \in Seq(ReqPart) /\ Len(f) = n /\ After(cout, n) \in Seq(ReqPart)
  BY <1>2, <1>4, <1>5, Split
<1>7. up' \in Seq(ReqPart) /\ Len(up') = Len(up) + n
  <2>1. up' \in Seq(ReqPart) /\ Joined(up', up, f)
    BY <1>1, <1>2, <1>5, <1>6, JoinedConcat
  <2> QED
    BY <1>6, <2>1 DEF Joined
<1>8. Whole(drd, up \o First(cout, n), After(cout, n)) = Whole(drd, up, cout)
  BY <1>2, <1>4, WholeWrite
<1>9. Whole(drd, up', cout') = Whole(drd, up, cout)
  BY <1>1, <1>8, Zenon
<1> QED
  BY <1>1, <1>2, <1>3, <1>4, <1>6, <1>7, <1>9

\* What it does while it waits for the socket, or writes.
LEMMA ClientStepInv ==
  ASSUME ConnInv, ClientStep
  PROVE  ConnInv'
<1>1. CASE ClientReadsPart
  BY <1>1, ClientReadsPartStep
<1>2. CASE Prepare
  <2>1. /\ cpc = "wait_idle" /\ cbuf = <<>>
        /\ cout' = Parts(call) /\ cpc' = "write"
        /\ cstate' \in {"WAIT_SRV_CNF", "WAIT_RPC_REPLY", cstate}
        /\ UNCHANGED <<call, ncall, cbuf, cfd, shown, dstate, dpc, dsel, drd, dwr, dfd, queue,
                       ind, nframe, nind, up, down>>
    BY <1>2 DEF Prepare, daemonVars
  <2>2. cout' \in Seq(ReqPart)
    BY <2>1, PartsFacts DEF ConnInv, Types, TypeOK
  <2>3. Types'
    <3>1. TypeOK'
      BY <2>1 DEF ConnInv, Types, TypeOK
    <3> QED
      BY <2>1, <2>2, <3>1 DEF ConnInv, Types
  <2>4. Ends'
    BY <2>1 DEF ConnInv, Ends
  <2>5. Connected' => Connected
    BY <2>1 DEF Connected
  <2> QED
    BY <2>1, <2>3, <2>4, <2>5, QuietStep
<1>3. CASE ClientWrites
  <2>1. /\ cpc = "write" /\ cpc' \in {"write", "reply"} /\ (cpc' = "reply" => cout' = <<>>)
        /\ UNCHANGED <<cstate, call, ncall, cbuf, cfd, shown, dstate, dpc, dsel, drd, dwr, dfd,
                       queue, ind, nframe, nind, down>>
    BY <1>3 DEF ClientWrites, daemonVars
  <2>2. up' \in Seq(ReqPart) /\ cout' \in Seq(ReqPart) /\ Len(up') <= UpCap
    BY <1>3, WriteFacts DEF ConnInv
  <2>3. Types'
    <3>1. TypeOK'
      BY <2>1, <2>2 DEF ConnInv, Types, TypeOK
    <3> QED
      BY <2>1, <2>2, <3>1 DEF ConnInv, Types
  <2>4. Ends'
    BY <2>1 DEF ConnInv, Ends
  <2>5. Connected' => Connected
    BY <2>1 DEF Connected
  <2> QED
    BY <2>1, <2>3, <2>4, <2>5, QuietStep
<1>4. CASE Lost
  <2>1. Fail \/ Close("ERROR")
    BY <1>4 DEF Lost
  <2> QED
    BY <2>1, FailStep, CloseStep
<1>5. ASSUME NEW m \in Msg, WaitIdleTakes(m)
      PROVE  ConnInv'
  <2>1. cpc = "wait_idle" /\ Completes(m)
    BY <1>5 DEF WaitIdleTakes
  <2>2. \/ TakeIt("wait_idle", cstate, shown) \/ TakeIt("idle", "WAIT_IDLE", shown)
        \/ Close("ERROR")
    BY <1>5 DEF WaitIdleTakes
  <2> QED
    BY <2>1, <2>2, TakeItStep, CloseStep
<1>6. ASSUME NEW m \in Msg, RpcTakesOther(m)
      PROVE  ConnInv'
  <2>1. cpc = "reply" /\ Completes(m)
    BY <1>6 DEF RpcTakesOther
  <2>2. TakeIt("reply", cstate, shown) \/ Fail
    BY <1>6 DEF RpcTakesOther
  <2> QED
    BY <2>1, <2>2, TakeItStep, FailStep
<1>7. ASSUME NEW m \in Msg, RpcTakesReply(m)
      PROVE  ConnInv'
  <2>1. cpc = "reply" /\ Completes(m)
    BY <1>7 DEF RpcTakesReply
  <2>2. TakeIt("idle", "CAPTURING", shown) \/ Close("ERROR")
    BY <1>7 DEF RpcTakesReply
  <2> QED
    BY <2>1, <2>2, TakeItStep, CloseStep
<1>8. ASSUME NEW m \in Msg, ReadTakes(m)
      PROVE  ConnInv'
  <2>1. cpc = "read" /\ Completes(m)
    BY <1>8 DEF ReadTakes
  <2>2. \/ m.type = "SLICED_IND" /\ TakeIt("idle", cstate, m.id)
        \/ TakeIt("idle", cstate, shown) \/ Close("ERROR")
    BY <1>8 DEF ReadTakes
  <2> QED
    BY <2>1, <2>2, TakeItStep, CloseStep
<1> QED
  BY <1>1, <1>2, <1>3, <1>4, <1>5, <1>6, <1>7, <1>8 DEF ClientStep

\* The steps of the daemon's main loop which move nothing in the stream.
LEMMA LoopStep ==
  ASSUME ConnInv, Select \/ DaemonNoIo \/ ServeNothing \/ ChannelChanged
  PROVE  ConnInv'
<1>1. /\ dstate # "none" /\ dpc' \in {"select", "io", "serve"} /\ dsel' \in {"rd", "wr"}
      /\ ind' \in BOOLEAN /\ nind' \in 0 .. MaxInd
      /\ UNCHANGED <<cstate, cpc, call, ncall, cbuf, cout, cfd, shown, dstate, drd, dwr, dfd,
                     queue, nframe, up, down>>
  <2>1. MaxInd \in Nat
    BY ConnectionAssumption
  <2>2. CASE Select \/ DaemonNoIo \/ ServeNothing
    BY <2>2 DEF Select, DaemonNoIo, ServeNothing, clientVars, ConnInv, Types, TypeOK, Ends
  <2>3. CASE ChannelChanged
    BY <2>1, <2>3 DEF ChannelChanged, clientVars, ConnInv, Types, TypeOK
  <2> QED
    BY <2>2, <2>3
<1>2. Types'
  BY <1>1 DEF ConnInv, Types, TypeOK
<1>3. Ends'
  BY <1>1 DEF ConnInv, Ends
<1>4. Connected' => Connected
  BY <1>1 DEF Connected
<1> QED
  BY <1>1, <1>2, <1>3, <1>4, QuietStep

LEMMA DaemonStepInv ==
  ASSUME ConnInv, DaemonStep
  PROVE  ConnInv'
<1>1. CASE \E m \in Msg : DaemonReads(m)
  BY <1>1, DaemonReadsStep
<1>2. CASE \E n \in 1 .. 2 : DaemonReadsPart(n)
  BY <1>2, DaemonReadsPartStep
<1>3. CASE DaemonReadsEnd \/ DaemonWriteFails \/ WaitClose
  BY <1>3, DaemonCloseStep DEF DaemonReadsEnd, DaemonWriteFails, WaitClose
<1> QED
  BY <1>1, <1>2, <1>3, AcceptStep, LoopStep, DaemonWritesStep, SendIndStep, SendSlicedStep
     DEF DaemonStep

LEMMA InitConn == Init => ConnInv
<1> SUFFICES ASSUME Init PROVE ConnInv
  OBVIOUS
<1>1. Types
  <2>1. call \in Msg /\ call.type = "REQ"
    BY ConnectionAssumption DEF Init, Msg, Request
  <2>2. <<>> \in Seq(Part) /\ <<>> \in Seq(ReqPart) /\ <<>> \in Seq(1 .. MaxFrame) /\ Len(<<>>) = 0
    OBVIOUS
  <2>3. TypeOK
    <3>1. /\ call \in Msg
          /\ cbuf = <<>> /\ drd = <<>> /\ dwr = <<>> /\ down = <<>> /\ up = <<>>
          /\ ncall = 0 /\ shown = 0 /\ nframe = 0 /\ nind = 0
      BY <2>1 DEF Init
    <3>2. Len(cbuf) = 0 /\ Len(drd) = 0 /\ Len(dwr) = 0 /\ Len(down) = 0 /\ Len(up) = 0
      BY <2>2, <3>1
    <3>3. /\ DownCap \in Nat /\ UpCap \in Nat
          /\ MaxCall \in Nat /\ MaxFrame \in Nat /\ MaxInd \in Nat
      BY ConnectionAssumption
    <3>4. /\ Len(cbuf) < 3 /\ Len(drd) < 3 /\ Len(dwr) <= 3 /\ Len(down) <= DownCap
          /\ Len(up) <= UpCap
          /\ ncall \in 0 .. MaxCall /\ shown \in 0 .. MaxFrame
          /\ nframe \in 0 .. MaxFrame /\ nind \in 0 .. MaxInd
      BY <3>1, <3>2, <3>3
    <3>5. /\ cstate = "NULL" /\ cpc = "idle" /\ dstate = "none" /\ dpc = "select"
          /\ dsel = "rd" /\ cfd = FALSE /\ dfd = FALSE /\ ind = FALSE
      BY DEF Init
    <3> QED
      BY <3>1, <3>4, <3>5 DEF TypeOK
  <2> QED
    BY <2>1, <2>2, <2>3 DEF Init, Types
<1>2. Ends /\ ~Connected
  BY DEF Init, Ends, Connected
<1> QED
  BY <1>1, <1>2 DEF ConnInv, StreamOK

LEMMA NextConn ==
  ASSUME ConnInv, [Next]_vars
  PROVE  ConnInv'
<1>1. CASE UNCHANGED vars
  <2>1. UNCHANGED <<cstate, cpc, call, ncall, cbuf, cout, cfd, shown, dstate, dpc, dsel, drd, dwr,
                    dfd, queue, ind, nframe, nind, up, down>>
    BY <1>1 DEF vars, clientVars, daemonVars
  <2>2. Types'
    BY <2>1 DEF ConnInv, Types, TypeOK
  <2>3. Ends'
    BY <2>1 DEF ConnInv, Ends
  <2>4. Connected' => Connected
    BY <2>1 DEF Connected
  <2> QED
    BY <2>1, <2>2, <2>3, <2>4, QuietStep
<1>2. CASE ConnectTimeOut
  BY <1>2, DaemonCloseStep DEF ConnectTimeOut
<1> QED
  BY <1>1, <1>2, ClientStepInv, DaemonStepInv, CallStep, PublishStep, LoopStep DEF Next

-----------------------------------------------------------------------------
(***************************************************************************)
(* The other direction: what the daemon has read of a request, what the    *)
(* socket holds and what the client has still to write.                    *)
(***************************************************************************)
UpOK == cfd /\ dfd => Framed(Whole(drd, up, cout))

LEMMA UpTypes ==
  ASSUME Types
  PROVE  /\ drd \in Seq(ReqPart) /\ up \in Seq(ReqPart) /\ cout \in Seq(ReqPart)
         /\ drd \in Seq(Part) /\ up \in Seq(Part) /\ cout \in Seq(Part)
         /\ ReqPart \in SUBSET Part
<1>1. ReqPart \in SUBSET Part
  BY DEF ReqPart
<1>2. \A s \in Seq(ReqPart) : s \in Seq(Part)
  BY <1>1
<1> QED
  BY <1>1, <1>2 DEF Types

\* A request that is begun follows whole ones.
LEMMA BeginRequest ==
  ASSUME NEW d \in Seq(Part), NEW u \in Seq(Part), Framed(Whole(d, u, <<>>)),
         NEW m \in Msg
  PROVE  Framed(Whole(d, u, Parts(m)))
<1>1. PICK p : p = Parts(m)
  OBVIOUS
<1>2. p \in Seq(Part) /\ <<>> \in Seq(Part)
  BY <1>1, PartsFacts
<1>3. PICK s, x : s = Whole(d, u, <<>>) /\ x = Whole(d, u, p)
  OBVIOUS
<1>4. s \in Seq(Part) /\ x \in Seq(Part) /\ Joined(x, s, p)
  BY <1>2, <1>3, WholeJoined
<1>5. Framed(x)
  BY <1>1, <1>3, <1>4, FramedAppend
<1> QED
  BY <1>1, <1>3, <1>5, Zenon

\* The daemon has read the whole of a request: the next one begins.
LEMMA ReadsWhole ==
  ASSUME Types, NEW m \in Msg, DaemonReads(m)
  PROVE  \E x, t, r \in Seq(Part) :
           /\ Joined(Whole(drd, up, cout), x, r) /\ Whole(drd, up, cout) \in Seq(Part)
           /\ Len(x) = Size(m) /\ x[1][1] = m /\ x[1] \in ReqPart
           /\ r = Whole(<<>>, t, cout)
           /\ drd' = <<>> /\ up' = t /\ UNCHANGED <<cout, cfd, dfd>>
<1>1. PICK n \in {Readable(drd, up)} :
        Complete(drd \o First(up, n)) /\ MsgOf(drd \o First(up, n)) = m /\ up' = After(up, n)
  BY DEF DaemonReads
<1>2. PICK x, t : x = drd \o First(up, n) /\ t = After(up, n)
  OBVIOUS
<1>3. up # <<>> /\ (drd # <<>> => Len(drd) < Size(MsgOf(drd)))
  BY DEF DaemonReads, Types
<1>4. n \in 1 .. Readable(drd, up) /\ n \in 0 .. Len(up)
  <2>1. Readable(drd, up) \in 1 .. Len(up)
    BY <1>3, UpTypes, ReadableFacts
  <2> QED
    BY <2>1, <1>1
<1>5. x \in Seq(Part) /\ t \in Seq(Part) /\ x[1] \in ReqPart
  <2>1. x \in Seq(ReqPart) /\ t \in Seq(ReqPart) /\ x[1] \in ReqPart
    BY <1>2, <1>3, <1>4, UpTypes, ReadFacts
  <2> QED
    BY <2>1, UpTypes
<1>6. drd' = <<>> /\ up' = t /\ UNCHANGED <<cout, cfd, dfd>>
  <2>1. PICK type \in {"CNF", "REJ"}, state \in {"FORWARD", "WAIT_CLOSE", dstate} :
          Answer(m, type, state)
    BY DEF DaemonReads
  <2> QED
    BY <1>1, <1>2, <2>1 DEF Answer, clientVars
<1>7. PICK s, r : s = Whole(x, t, cout) /\ r = Whole(<<>>, t, cout)
  OBVIOUS
<1>8. s = Whole(drd, up, cout)
  <2>1. Whole(drd \o First(up, n), After(up, n), cout) = Whole(drd, up, cout)
    BY <1>4, UpTypes, WholeRead
  <2> QED
    BY <1>2, <1>7, <2>1, Zenon
<1>9. s \in Seq(Part) /\ r \in Seq(Part) /\ Joined(s, x, r)
  <2>1. <<>> \in Seq(Part) /\ cout \in Seq(Part)
    BY UpTypes
  <2> QED
    BY <1>5, <1>7, <2>1, WholeJoined
<1>10. Len(x) = Size(m) /\ x[1][1] = m
  BY <1>1, <1>2 DEF Complete, MsgOf
<1> QED
  BY <1>5, <1>6, <1>7, <1>8, <1>9, <1>10

LEMMA DaemonReadsUp ==
  ASSUME Types, UpOK, NEW m \in Msg, DaemonReads(m)
  PROVE  UpOK'
<1>1. PICK s : s = Whole(drd, up, cout)
  OBVIOUS
<1>2. PICK x, t, r \in Seq(Part) :
        /\ Joined(s, x, r) /\ s \in Seq(Part)
        /\ Len(x) = Size(m) /\ x[1][1] = m
        /\ r = Whole(<<>>, t, cout)
        /\ drd' = <<>> /\ up' = t /\ UNCHANGED <<cout, cfd, dfd>>
  BY <1>1, ReadsWhole
<1>3. ASSUME Framed(s)
      PROVE  Framed(r)
  BY <1>2, <1>3, FramedCut
<1>4. UpOK' = (cfd /\ dfd => Framed(r))
  BY <1>2 DEF UpOK
<1> QED
  BY <1>1, <1>3, <1>4, Zenon DEF UpOK

LEMMA ReadsPartWhole ==
  ASSUME Types, NEW n \in 1 .. 2, DaemonReadsPart(n)
  PROVE  Whole(drd', up', cout') = Whole(drd, up, cout)
<1>1. /\ up # <<>> /\ n \in 1 .. Readable(drd, up)
      /\ drd' = drd \o First(up, n) /\ up' = After(up, n)
      /\ UNCHANGED <<cout, cfd, dfd>>
  BY DEF DaemonReadsPart, clientVars
<1>2. n \in 0 .. Len(up)
  <2>1. drd # <<>> => Len(drd) < Size(MsgOf(drd))
    BY DEF Types
  <2>2. Readable(drd, up) \in 1 .. Len(up)
    BY <1>1, <2>1, UpTypes, ReadableFacts
  <2> QED
    BY <1>1, <2>2
<1>3. Whole(drd \o First(up, n), After(up, n), cout) = Whole(drd, up, cout)
  BY <1>2, UpTypes, WholeRead
<1> QED
  BY <1>1, <1>3, Zenon

\* A call begins with nothing left to be written.
LEMMA RequestUp ==
  ASSUME ConnInv, ConnInv', UpOK, Prepare \/ Connect
  PROVE  UpOK'
<1>1. CASE Prepare
  <2>1. /\ cpc = "wait_idle" /\ cout' = Parts(call) /\ UNCHANGED <<drd, up, cfd, dfd>>
    BY <1>1 DEF Prepare, daemonVars
  <2> SUFFICES ASSUME cfd, dfd PROVE Framed(Whole(drd', up', cout'))
    BY <2>1 DEF UpOK
  <2>2. cout = <<>> /\ call \in Msg
    BY <2>1 DEF ConnInv, Ends, Types, TypeOK
  <2>3. Framed(Whole(drd, up, <<>>))
    BY <2>2 DEF UpOK
  <2>4. Framed(Whole(drd, up, Parts(call)))
    BY <2>2, <2>3, UpTypes, BeginRequest DEF ConnInv
  <2> QED
    BY <2>1, <2>4, Zenon
<1>2. CASE Connect
  <2>1. drd' = <<>> /\ up' = <<>> /\ cout' = Parts(call')
    BY <1>2 DEF Connect, ConnInv, Ends
  <2>2. PICK m : m = call'
    OBVIOUS
  <2>3. m \in Msg /\ <<>> \in Seq(Part)
    BY <2>2 DEF ConnInv, Types, TypeOK
  <2>4. Framed(Whole(<<>>, <<>>, <<>>))
    BY EmptyWhole DEF Framed
  <2>5. Framed(Whole(<<>>, <<>>, Parts(m)))
    BY <2>3, <2>4, BeginRequest DEF ConnInv
  <2> QED
    BY <2>1, <2>2, <2>5, Zenon DEF UpOK
<1> QED
  BY <1>1, <1>2

\* All other steps leave that direction alone, or close one end.
LEMMA OtherUp ==
  ASSUME UpOK,
         \/ UNCHANGED <<drd, up, cout, cfd, dfd>>
         \/ ~cfd' \/ ~dfd'
  PROVE  UpOK'
  BY DEF UpOK

LEMMA NextUp ==
  ASSUME ConnInv, ConnInv', UpOK, [Next]_vars
  PROVE  UpOK'
<1> DEFINE Other == UNCHANGED <<drd, up, cout, cfd, dfd>> \/ ~cfd' \/ ~dfd'
<1>1. ASSUME NEW state, Close(state) PROVE Other
  BY <1>1 DEF Close
<1>2. ASSUME Fail
      PROVE  Other
  BY <1>1, <1>2 DEF Fail, daemonVars
<1>3. ASSUME NEW pc, NEW state, NEW frame, TakeIt(pc, state, frame) PROVE Other
  BY <1>3 DEF TakeIt, daemonVars
<1>4. ASSUME ClientStep, ~Prepare, ~ClientWrites
      PROVE  Other
  <2>1. ASSUME ClientReadsPart PROVE Other
    BY <2>1 DEF ClientReadsPart, daemonVars
  <2>2. ASSUME Lost PROVE Other
    BY <1>1, <1>2, <2>2 DEF Lost
  <2>3. ASSUME NEW m \in Msg, WaitIdleTakes(m) PROVE Other
    BY <1>1, <1>3, <2>3 DEF WaitIdleTakes
  <2>4. ASSUME NEW m \in Msg, RpcTakesOther(m) PROVE Other
    BY <1>2, <1>3, <2>4 DEF RpcTakesOther
  <2>5. ASSUME NEW m \in Msg, RpcTakesReply(m) PROVE Other
    BY <1>1, <1>3, <2>5 DEF RpcTakesReply
  <2>6. ASSUME NEW m \in Msg, ReadTakes(m) PROVE Other
    BY <1>1, <1>3, <2>6 DEF ReadTakes
  <2> QED
    BY <1>4, <2>1, <2>2, <2>3, <2>4, <2>5, <2>6 DEF ClientStep
<1>5. CASE ClientWrites
  <2>1. Whole(drd, up', cout') = Whole(drd, up, cout)
    BY <1>5, WriteFacts DEF ConnInv
  <2>2. UNCHANGED <<drd, cfd, dfd>>
    BY <1>5 DEF ClientWrites, daemonVars
  <2> QED
    BY <2>1, <2>2 DEF UpOK
<1>6. ASSUME (\E op \in Ops : CallBegin(op)) \/ ReadBegin \/ ReadTimeOut
      PROVE  Other
  BY <1>6 DEF CallBegin, ReadBegin, ReadTimeOut, daemonVars
<1>7. ASSUME StopAcq \/ WriteTimeOut \/ CallTimeOut
      PROVE  Other
  BY <1>1, <1>2, <1>7 DEF StopAcq, WriteTimeOut, CallTimeOut
<1>8. ASSUME DaemonClose
      PROVE  Other
  BY <1>8 DEF DaemonClose
<1>9. ASSUME Publish \/ ChannelChanged \/ ConnectTimeOut
      PROVE  Other
  BY <1>8, <1>9 DEF Publish, ChannelChanged, ConnectTimeOut, clientVars
<1>10. ASSUME \/ Accept \/ Select \/ DaemonReadsEnd \/ DaemonWriteFails \/ DaemonNoIo
              \/ WaitClose \/ ServeNothing
       PROVE  Other
  BY <1>8, <1>10 DEF Accept, Select, DaemonReadsEnd, DaemonWriteFails, DaemonNoIo, WaitClose,
                     ServeNothing, clientVars
<1>11. ASSUME DaemonWrites \/ SendInd \/ SendSliced
       PROVE  Other
  BY <1>8, <1>11 DEF DaemonWrites, SendInd, SendSliced, clientVars
<1>12. ASSUME UNCHANGED vars
       PROVE  Other
  BY <1>12 DEF vars, clientVars, daemonVars
<1>13. CASE \E n \in 1 .. 2 : DaemonReadsPart(n)
  <2>1. Whole(drd', up', cout') = Whole(drd, up, cout)
    BY <1>13, ReadsPartWhole DEF ConnInv
  <2>2. UNCHANGED <<cfd, dfd>>
    BY <1>13 DEF DaemonReadsPart, clientVars
  <2> QED
    BY <2>1, <2>2 DEF UpOK
<1>14. CASE \E m \in Msg : DaemonReads(m)
  BY <1>14, DaemonReadsUp DEF ConnInv
<1>15. CASE Prepare \/ Connect
  BY <1>15, RequestUp
<1>16. Other => UpOK'
  BY OtherUp
<1> HIDE DEF Other
<1>17. CASE ClientStep
  BY <1>4, <1>5, <1>15, <1>16, <1>17
<1>18. CASE DaemonStep
  BY <1>10, <1>11, <1>13, <1>14, <1>16, <1>18 DEF DaemonStep
<1> QED
  BY <1>6, <1>7, <1>9, <1>12, <1>15, <1>16, <1>17, <1>18 DEF Next

-----------------------------------------------------------------------------
LEMMA StreamIsWhole == Stream = Whole(cbuf, down, dwr) /\ UpStream = Whole(drd, up, cout)
  BY Zenon DEF Stream, UpStream, Whole

\* Neither end turns round in a message, and wherever a message is cut between
\* the two, what goes each way remains whole messages: readOff, readLen and
\* writeOff of proxy-msg.c are always those of the message that was begun.
THEOREM StreamFramed == Spec => []WellFramed
<1>1. Init => ConnInv /\ UpOK
  BY InitConn DEF Init, UpOK
<1>2. ConnInv /\ UpOK /\ [Next]_vars => ConnInv' /\ UpOK'
  BY NextConn, NextUp
<1>3. ConnInv /\ UpOK => WellFramed
  <2> SUFFICES ASSUME ConnInv, UpOK PROVE WellFramed
    OBVIOUS
  <2>1. Connected => Exclusive
    BY DEF ConnInv, Ends, Connected, Exclusive
  <2>2. Connected => Framed(Stream)
    BY StreamIsWhole DEF ConnInv, StreamOK
  <2>3. TypeOK
    BY DEF ConnInv, Types
  <2>4. Connected => Framed(UpStream)
    BY StreamIsWhole DEF UpOK, Connected
  <2>5. ASSUME NEW s \in {Stream, UpStream}
        PROVE  Connected => Framed(s)
    BY <2>2, <2>4, <2>5
  <2> QED
    BY <2>1, <2>3, <2>5, Zenon DEF WellFramed, Framed
<1> QED
  BY <1>1, <1>2, <1>3, PTL DEF Spec

\* No frame overtakes another one on its way from the queue to the client, and
\* none is shown twice, with frames sent directly, in parts, or after a message
\* that was put in between, and with the queue flushed by a service request.
THEOREM FramesStayInOrder == Spec => []FramesInOrder
<1>1. ConnInv /\ [Next]_vars => ConnInv'
  BY NextConn
<1>2. ConnInv => FramesInOrder
  <2> SUFFICES ASSUME ConnInv, Connected
               PROVE  \A ids : ids = [i \in DOMAIN Stream |-> Stream[i][1].id] =>
                        \A i \in DOMAIN Stream : Stream[i][1].type = "SLICED_IND" =>
                          /\ ids[i] > shown
                          /\ \A j \in i .. Len(Stream) :
                               Stream[j][1].type = "SLICED_IND" => ids[i] <= ids[j]
                          /\ \A k \in DOMAIN queue : ids[i] < queue[k]
    BY DEF FramesInOrder
  <2>1. PICK s : s = Stream
    OBVIOUS
  <2>2. s \in Seq(Part)
    <3>1. cbuf \in Seq(Part) /\ down \in Seq(Part) /\ dwr \in Seq(Part)
      BY DEF ConnInv, Types
    <3>2. Whole(cbuf, down, dwr) \in Seq(Part)
      BY <3>1, WholeJoined
    <3> QED
      BY <2>1, <3>2, StreamIsWhole
  <2>3. InOrder(s, queue, shown, nframe)
    BY <2>1, StreamIsWhole DEF ConnInv, StreamOK
  <2>4. DOMAIN s = 1 .. Len(s) /\ DOMAIN queue = 1 .. Len(queue) /\ shown \in Nat
    BY <2>2, ConnectionAssumption DEF ConnInv, Types, TypeOK
  <2>5. \A i \in 1 .. Len(s) : s[i][1].id \in Nat
    BY <2>2, MsgFacts DEF Part
  <2>6. ASSUME NEW ids, ids = [i \in DOMAIN s |-> s[i][1].id],
               NEW i \in DOMAIN s, s[i][1].type = "SLICED_IND"
        PROVE  /\ ids[i] > shown
               /\ \A j \in i .. Len(s) : s[j][1].type = "SLICED_IND" => ids[i] <= ids[j]
               /\ \A k \in DOMAIN queue : ids[i] < queue[k]
    <3>1. i \in 1 .. Len(s) /\ IsFrame(s[i]) /\ ids[i] = s[i][1].id
      BY <2>4, <2>6 DEF IsFrame
    <3>2. shown < s[i][1].id /\ \A k \in 1 .. Len(queue) : s[i][1].id < queue[k]
      BY <2>3, <3>1 DEF InOrder
    <3>3. ASSUME NEW j \in i .. Len(s), s[j][1].type = "SLICED_IND"
          PROVE  ids[i] <= ids[j]
      <4>1. j \in 1 .. Len(s) /\ IsFrame(s[j]) /\ ids[j] = s[j][1].id
        BY <2>4, <2>6, <3>1, <3>3 DEF IsFrame
      <4>2. CASE i = j
        BY <2>5, <3>1, <4>2
      <4>3. CASE i # j
        <5>1. i < j
          BY <3>1, <4>3
        <5> QED
          BY <2>3, <3>1, <4>1, <5>1 DEF InOrder
      <4> QED
        BY <4>2, <4>3
    <3>4. ids[i] > shown
      BY <2>4, <2>5, <3>1, <3>2
    <3> QED
      BY <2>4, <3>1, <3>2, <3>3, <3>4
  <2> QED
    BY <2>1, <2>6
<1> QED
  BY <1>1, <1>2, InitConn, PTL DEF Spec

-----------------------------------------------------------------------------
\* The parts of replies.
IsAnswer(p) == p[1].type \in {"CNF", "REJ"}
NoAnswer(s) == \A i \in 1 .. Len(s) : ~IsAnswer(s[i])

\* Nothing comes back to the client but at most one reply, to call c, of which
\* each part is there once.
Answering(s, c) ==
  /\ \A i \in 1 .. Len(s) :
       /\ s[i][1].type # "REQ"
       /\ IsAnswer(s[i]) => s[i][1].op = c.op /\ s[i][1].id = c.id
  /\ \A i, j \in 1 .. Len(s) : i < j /\ IsAnswer(s[i]) /\ IsAnswer(s[j]) => s[i][2] < s[j][2]

\* Before the connection is confirmed, nothing but the reply to "connect" can
\* be sent, and that only at its end; the daemon closes the connection under a
\* client only then.
Opening ==
  /\ ~dfd => dstate = "none"
  /\ dstate # "FORWARD" => queue = <<>> /\ ~ind
  /\ cfd /\ dstate # "FORWARD" =>
       /\ cbuf = <<>> /\ down = <<>>
       /\ call.op = "connect" /\ cstate = "WAIT_CON_CNF" /\ cpc \in {"write", "reply"}
  /\ cfd /\ dstate \in {"none", "WAIT_CON_REQ"} => dwr = <<>>
  /\ dstate = "WAIT_CLOSE" => dpc = "serve"
  /\ cfd /\ cstate = "WAIT_CON_CNF" => call.op = "connect"

\* No more than the request of call c.
Asking(s, c) == Len(s) <= 2 /\ \A i \in 1 .. Len(s) : s[i][1] = c

\* The request of the call, or its reply, is under way, and never both.
OneReply ==
  cfd /\ dfd =>
    /\ Asking(Whole(drd, up, cout), call)
    /\ Whole(drd, up, cout) # <<>> =>
         NoAnswer(Whole(cbuf, down, dwr)) /\ (cout = <<>> => cpc = "reply")
    /\ cpc = "write" => cout # <<>>
    /\ cpc # "reply" => NoAnswer(Whole(cbuf, down, dwr))
    /\ Answering(Whole(cbuf, down, dwr), call)

CallInv == ConnInv /\ Opening /\ OneReply

\* The parts that follow a message ...
LEMMA AnswerCut ==
  ASSUME NEW g \in Seq(Part), NEW t \in Seq(Part), NEW s \in Seq(Part), Joined(s, g, t), NEW c,
         Answering(s, c), NEW m \in Msg, Len(g) = Size(m),
         \A k \in 1 .. Size(m) : g[k] = <<m, k>>
  PROVE  /\ Answering(t, c)
         /\ NoAnswer(s) => NoAnswer(t) /\ m.type \notin {"CNF", "REJ"}
         /\ m.type # "REQ"
         /\ m.type \in {"CNF", "REJ"} => NoAnswer(t) /\ m.op = c.op
<1>1. PICK z : z = Size(m)
  OBVIOUS
<1>2. z \in {2, 3} /\ Len(g) = z /\ Len(s) = z + Len(t) /\ Len(t) \in Nat
  BY <1>1, MsgFacts DEF Joined
<1>3. s[1] = <<m, 1>> /\ s[z] = <<m, z>> /\ 1 \in 1 .. Len(s) /\ z \in 1 .. Len(s)
  BY <1>1, <1>2 DEF Joined
<1>4. \A i \in 1 .. Len(t) : t[i] = s[z + i] /\ z + i \in 1 .. Len(s) /\ z < z + i
  <2>1. \A i \in Len(g) + 1 .. Len(g) + Len(t) : s[i] = t[i - Len(g)]
    BY DEF Joined
  <2>2. ASSUME NEW i \in 1 .. Len(t)
        PROVE  /\ z + i \in Len(g) + 1 .. Len(g) + Len(t) /\ (z + i) - Len(g) = i
               /\ z + i \in 1 .. Len(s) /\ z < z + i
    BY <1>2
  <2> QED
    BY <2>1, <2>2
<1>5. Answering(t, c)
  <2>1. ASSUME NEW i \in 1 .. Len(t), NEW j \in 1 .. Len(t), i < j
        PROVE  z + i < z + j
    BY <1>2, <2>1
  <2>2. ASSUME NEW i \in 1 .. Len(t)
        PROVE  /\ t[i][1].type # "REQ"
               /\ IsAnswer(t[i]) => t[i][1].op = c.op /\ t[i][1].id = c.id
    <3>1. t[i] = s[z + i] /\ z + i \in 1 .. Len(s)
      BY <1>4, Zenon
    <3>2. \A j \in 1 .. Len(s) :
            /\ s[j][1].type # "REQ"
            /\ IsAnswer(s[j]) => s[j][1].op = c.op /\ s[j][1].id = c.id
      BY Zenon DEF Answering
    <3> QED
      BY <3>1, <3>2, Zenon
  <2>3. ASSUME NEW i \in 1 .. Len(t), NEW j \in 1 .. Len(t), i < j, IsAnswer(t[i]), IsAnswer(t[j])
        PROVE  t[i][2] < t[j][2]
    <3>1. /\ t[i] = s[z + i] /\ z + i \in 1 .. Len(s)
          /\ t[j] = s[z + j] /\ z + j \in 1 .. Len(s) /\ z + i < z + j
      BY <1>4, <2>1, <2>3
    <3>2. PICK u \in 1 .. Len(s) : u = z + i
      BY <3>1
    <3>3. PICK v \in 1 .. Len(s) : v = z + j
      BY <3>1
    <3>4. u < v /\ t[i] = s[u] /\ t[j] = s[v]
      BY <3>1, <3>2, <3>3
    <3> QED
      BY <2>3, <3>4 DEF Answering
  <2> QED
    BY <2>2, <2>3 DEF Answering
<1>6. ASSUME NoAnswer(s)
      PROVE  NoAnswer(t) /\ m.type \notin {"CNF", "REJ"}
  <2>0. s[1][1] = m
    BY <1>3
  <2>1. ~IsAnswer(s[1])
    BY <1>3, <1>6, Zenon DEF NoAnswer
  <2>2. \A i \in 1 .. Len(t) : ~IsAnswer(t[i])
    BY <1>4, <1>6, Zenon DEF NoAnswer
  <2> QED
    BY <2>0, <2>1, <2>2 DEF NoAnswer, IsAnswer
<1>7. m.type # "REQ" /\ (m.type \in {"CNF", "REJ"} => m.op = c.op)
  BY <1>3 DEF Answering, IsAnswer
<1>8. ASSUME m.type \in {"CNF", "REJ"}
      PROVE  NoAnswer(t)
  <2>1. z = 2
    BY <1>1, <1>8 DEF Size
  <2> SUFFICES ASSUME NEW i \in 1 .. Len(t), IsAnswer(t[i]) PROVE FALSE
    BY DEF NoAnswer
  <2>2. s[z][2] < s[z + i][2]
    BY <1>3, <1>4, <1>8 DEF Answering, IsAnswer
  <2>3. s[z][2] = 2 /\ t[i][2] \in 1 .. 3 /\ t[i][2] <= Size(t[i][1])
    BY <1>3, <2>1 DEF Part
  <2>4. Size(t[i][1]) = 2
    BY DEF IsAnswer, Size
  <2> QED
    BY <1>4, <2>2, <2>3, <2>4
<1> QED
  BY <1>5, <1>6, <1>7, <1>8

\* ... and a message that follows them.
LEMMA AnswerAppend ==
  ASSUME NEW s \in Seq(Part), NEW x \in Seq(Part), NEW c, NEW m \in Msg, Joined(x, s, Parts(m)),
         Answering(s, c), m.type # "REQ",
         m.type \in {"CNF", "REJ"} => NoAnswer(s) /\ m.op = c.op /\ m.id = c.id
  PROVE  /\ Answering(x, c)
         /\ NoAnswer(s) /\ m.type \notin {"CNF", "REJ"} => NoAnswer(x)
<1>1. PICK z, l : z = Size(m) /\ l = Len(s)
  OBVIOUS
<1>2. z \in {2, 3} /\ l \in Nat /\ Len(x) = l + z
  BY <1>1, MsgFacts, PartsFacts DEF Joined
<1>3. \A i \in 1 .. l : x[i] = s[i]
  BY <1>1 DEF Joined
<1>4. ASSUME NEW i \in 1 .. Len(x), ~(i <= l)
      PROVE  x[i] = <<m, i - l>>
  <2>1. i \in Len(s) + 1 .. Len(s) + Len(Parts(m)) /\ i - l \in 1 .. Size(m)
    BY <1>1, <1>2, <1>4, PartsFacts
  <2>2. x[i] = Parts(m)[i - l]
    BY <1>1, <2>1 DEF Joined
  <2> QED
    BY <2>1, <2>2, PartsFacts
<1>5. \A i \in 1 .. Len(x) : i <= l => i \in 1 .. l
  BY <1>2
<1>6. ASSUME NEW i \in 1 .. Len(x)
      PROVE  /\ x[i][1].type # "REQ"
             /\ IsAnswer(x[i]) => x[i][1].op = c.op /\ x[i][1].id = c.id
  <2>1. CASE i <= l
    BY <1>1, <1>3, <1>5, <2>1 DEF Answering
  <2>2. CASE ~(i <= l)
    BY <1>4, <2>2 DEF IsAnswer
  <2> QED
    BY <2>1, <2>2
<1>7. ASSUME NEW i \in 1 .. Len(x), NEW j \in 1 .. Len(x), i < j,
             IsAnswer(x[i]), IsAnswer(x[j])
      PROVE  x[i][2] < x[j][2]
  <2>1. CASE j <= l
    <3>1. i <= l
      BY <1>2, <1>7, <2>1
    <3> QED
      BY <1>1, <1>3, <1>5, <1>7, <2>1, <3>1 DEF Answering
  <2>2. CASE ~(j <= l)
    <3>1. x[j] = <<m, j - l>>
      BY <1>4, <2>2
    <3>2. m.type \in {"CNF", "REJ"}
      BY <1>7, <3>1 DEF IsAnswer
    <3>3. ~(i <= l)
      BY <1>1, <1>3, <1>5, <1>7, <3>2 DEF NoAnswer
    <3>4. x[i] = <<m, i - l>>
      BY <1>4, <3>3
    <3> QED
      BY <1>2, <1>7, <3>1, <3>4
  <2> QED
    BY <2>1, <2>2
<1>8. ASSUME NoAnswer(s), m.type \notin {"CNF", "REJ"}, NEW i \in 1 .. Len(x)
      PROVE  ~IsAnswer(x[i])
  <2>1. CASE i <= l
    BY <1>1, <1>3, <1>5, <1>8, <2>1 DEF NoAnswer
  <2>2. CASE ~(i <= l)
    BY <1>4, <1>8, <2>2 DEF IsAnswer
  <2> QED
    BY <2>1, <2>2
<1> QED
  BY <1>6, <1>7, <1>8 DEF Answering, NoAnswer


\* What is left when the client has taken a message.
LEMMA TakenAnswer ==
  ASSUME ConnInv, Connected, NEW m \in Msg, Completes(m),
         NEW t, t = After(down, Readable(cbuf, down)), NEW r, r = Whole(<<>>, t, dwr),
         NEW s, s = Whole(cbuf, down, dwr), Answering(s, call)
  PROVE  /\ Answering(r, call)
         /\ NoAnswer(s) => NoAnswer(r) /\ m.type \notin {"CNF", "REJ"}
         /\ m.type # "REQ"
         /\ m.type \in {"CNF", "REJ"} => NoAnswer(r) /\ m.op = call.op
<1>1. PICK g : g = Got
  OBVIOUS
<1>2. down # <<>> /\ Complete(g) /\ MsgOf(g) = m
  BY <1>1 DEF Completes
<1>3. /\ g \in Seq(Part) /\ t \in Seq(Part) /\ s = Whole(g, t, dwr)
  BY <1>1, <1>2, ClientRead DEF ConnInv
<1>4. dwr \in Seq(Part)
  BY DEF ConnInv, Types
<1>5. s \in Seq(Part) /\ r \in Seq(Part) /\ Joined(s, g, r)
  <2>1. Whole(g, t, dwr) \in Seq(Part) /\ Joined(Whole(g, t, dwr), g, Whole(<<>>, t, dwr))
    BY <1>3, <1>4, WholeJoined
  <2>2. <<>> \in Seq(Part)
    OBVIOUS
  <2>3. Whole(<<>>, t, dwr) \in Seq(Part)
    BY <1>3, <1>4, <2>2, WholeJoined
  <2> QED
    BY <1>3, <2>1, <2>3, Zenon
<1>6. Framed(s)
  BY DEF ConnInv, StreamOK
<1>7. Len(g) = Size(m) /\ g[1][1] = m
  BY <1>2 DEF Complete, MsgOf
<1>8. \A k \in 1 .. Size(m) : g[k] = <<m, k>>
  BY <1>3, <1>5, <1>6, <1>7, FramedCut
<1>9. g \in Seq(Part) /\ Len(g) = Size(m)
  BY <1>3, <1>7
<1> HIDE DEF Completes
<1> QED
  BY <1>5, <1>8, <1>9, AnswerCut

-----------------------------------------------------------------------------
\* A step which changes neither the call nor the stream.
LEMMA SameReply ==
  ASSUME OneReply, UNCHANGED <<call, cpc, cout, cfd, dfd, drd, up>>,
         Whole(cbuf', down', dwr') = Whole(cbuf, down, dwr)
  PROVE  OneReply'
<1>1. PICK s, r : s = Whole(cbuf, down, dwr) /\ r = Whole(drd, up, cout)
  OBVIOUS
<1>2. Whole(cbuf', down', dwr') = s /\ Whole(drd', up', cout') = r
  BY <1>1
<1> QED
  BY <1>1, <1>2 DEF OneReply

LEMMA CloseCall ==
  ASSUME CallInv, NEW state \in {"NULL", "ERROR"}, Close(state)
  PROVE  CallInv'
<1>1. ConnInv'
  BY CloseStep DEF CallInv
<1>2. Opening'
  BY DEF CallInv, Opening, Close, daemonVars
<1>3. OneReply'
  BY DEF OneReply, Close
<1> QED
  BY <1>1, <1>2, <1>3 DEF CallInv

\* The daemon closes the connection.
LEMMA DaemonCloseCall ==
  ASSUME CallInv, DaemonClose, cfd => dstate # "FORWARD"
  PROVE  CallInv'
<1>1. ConnInv'
  BY DaemonCloseStep DEF CallInv
<1>2. /\ dstate' = "none" /\ dfd' = FALSE /\ dwr' = <<>> /\ queue' = <<>> /\ ind' = FALSE
      /\ UNCHANGED <<cstate, cpc, call, cbuf, cfd, down>>
  BY DEF DaemonClose, clientVars
<1>3. Opening'
  BY <1>2 DEF CallInv, Opening
<1>4. OneReply'
  BY <1>2 DEF OneReply
<1> QED
  BY <1>1, <1>3, <1>4 DEF CallInv

\* A call fails: the connection is closed, unless there was none, or the request of
\* an ioctl was not written.
LEMMA FailCall ==
  ASSUME CallInv, Fail, cfd /\ dfd /\ call.op = "ioctl" => cpc = "write"
  PROVE  CallInv'
<1>1. CASE call.op # "ioctl"
  BY <1>1, CloseCall DEF Fail
<1>2. CASE call.op = "ioctl"
  <2>1. ConnInv'
    BY FailStep DEF CallInv
  <2>2. /\ cpc' = "idle"
        /\ UNCHANGED <<cstate, call, cbuf, cout, cfd, dstate, dpc, drd, dwr, dfd, queue, ind, up,
                       down>>
    BY <1>2 DEF Fail, daemonVars
  <2>3. Opening'
    BY <1>2, <2>2 DEF CallInv, Opening
  <2>4. OneReply'
    <3> SUFFICES ASSUME cfd, dfd PROVE OneReply'
      BY <2>2 DEF OneReply
    <3>1. PICK s, r : s = Whole(cbuf, down, dwr) /\ r = Whole(drd, up, cout)
      OBVIOUS
    <3>2. Whole(cbuf', down', dwr') = s /\ Whole(drd', up', cout') = r
      BY <2>2, <3>1
    <3>3. cpc = "write" /\ cout # <<>>
      BY <1>2 DEF CallInv, OneReply
    <3> QED
      BY <2>2, <3>1, <3>2, <3>3 DEF CallInv, OneReply
  <2> QED
    BY <2>1, <2>3, <2>4 DEF CallInv
<1> QED
  BY <1>1, <1>2

\* A client that reads something is connected, or closed.
LEMMA ReadsForward ==
  ASSUME CallInv, cfd, down # <<>>
  PROVE  dstate = "FORWARD" /\ dfd /\ Connected
  BY DEF CallInv, Opening, Connected

LEMMA TakeItCall ==
  ASSUME CallInv, NEW m \in Msg, Completes(m), cpc \in {"wait_idle", "reply", "read"},
         NEW pc \in {"idle", "wait_idle", "reply"},
         NEW state \in {"CAPTURING", "WAIT_IDLE", cstate},
         NEW frame, frame = shown \/ (m.type = "SLICED_IND" /\ frame = m.id),
         \/ cpc = "reply" /\ pc = "reply"
         \/ pc # "reply" /\ (cpc # "reply" \/ m.type \in {"CNF", "REJ"}),
         TakeIt(pc, state, frame)
  PROVE  CallInv'
<1>1. ConnInv'
  BY TakeItStep DEF CallInv
<1>2. PICK t : t = After(down, Readable(cbuf, down))
  OBVIOUS
<1>3. /\ down # <<>>
      /\ cbuf' = <<>> /\ down' = t /\ cpc' = pc /\ cstate' = state
      /\ UNCHANGED <<call, cout, cfd, dstate, dpc, drd, dwr, dfd, queue, ind, up>>
  BY <1>2 DEF TakeIt, Completes, daemonVars
<1>4. Opening'
  <2>1. cfd => dstate = "FORWARD"
    BY <1>3, ReadsForward
  <2> QED
    BY <1>3, <2>1 DEF CallInv, Opening
<1>5. OneReply'
  <2> SUFFICES ASSUME cfd, dfd
               PROVE  OneReply'
    BY <1>3 DEF OneReply
  <2>1. PICK r, s, u : /\ r = Whole(<<>>, t, dwr) /\ s = Whole(cbuf, down, dwr)
                       /\ u = Whole(drd, up, cout)
    OBVIOUS
  <2>2. /\ Asking(u, call)
        /\ u # <<>> => NoAnswer(s) /\ (cout = <<>> => cpc = "reply")
        /\ cpc # "reply" => NoAnswer(s)
        /\ Answering(s, call)
    BY <2>1 DEF CallInv, OneReply
  <2>3. cout = <<>>
    BY DEF CallInv, ConnInv, Ends
  <2>4. Whole(cbuf', down', dwr') = r /\ Whole(drd', up', cout') = u
    BY <1>3, <2>1
  <2>5. /\ Answering(r, call)
        /\ NoAnswer(s) => NoAnswer(r) /\ m.type \notin {"CNF", "REJ"}
        /\ m.type \in {"CNF", "REJ"} => NoAnswer(r)
    BY <1>2, <1>3, <2>1, <2>2, ReadsForward, TakenAnswer DEF CallInv
  <2>6. u # <<>> => pc = "reply" /\ NoAnswer(r)
    BY <2>2, <2>3, <2>5
  <2>7. pc # "reply" => NoAnswer(r)
    BY <2>2, <2>5
  <2> QED
    BY <1>3, <2>2, <2>3, <2>4, <2>5, <2>6, <2>7 DEF OneReply
<1> QED
  BY <1>1, <1>4, <1>5 DEF CallInv


-----------------------------------------------------------------------------
\* The steps of the client.
LEMMA ClientReadsPartCall ==
  ASSUME CallInv, ClientReadsPart
  PROVE  CallInv'
<1>1. ConnInv'
  BY ClientReadsPartStep DEF CallInv
<1>2. PICK t : t = After(down, Readable(cbuf, down))
  OBVIOUS
<1>3. /\ down # <<>> /\ cbuf' = Got /\ down' = t
      /\ UNCHANGED <<cstate, cpc, call, cout, cfd, dstate, dpc, drd, dwr, dfd, queue, ind, up>>
  BY <1>2 DEF ClientReadsPart, daemonVars
<1>4. Whole(Got, t, dwr) = Whole(cbuf, down, dwr)
  BY <1>2, <1>3, ClientRead DEF CallInv, ConnInv
<1>5. Opening'
  <2>1. cfd => dstate = "FORWARD"
    BY <1>3, ReadsForward
  <2> QED
    BY <1>3, <2>1 DEF CallInv, Opening
<1>6. OneReply'
  <2>1. Whole(cbuf', down', dwr') = Whole(cbuf, down, dwr)
    BY <1>3, <1>4
  <2> QED
    BY <1>3, <2>1, SameReply DEF CallInv
<1> QED
  BY <1>1, <1>5, <1>6 DEF CallInv

\* A request that is to be written.
LEMMA PartsAsking ==
  ASSUME NEW c \in Msg, c.type = "REQ"
  PROVE  Asking(Parts(c), c) /\ Parts(c) # <<>> /\ Parts(c) \in Seq(ReqPart)
<1>1. PICK p : p = Parts(c)
  OBVIOUS
<1>2. Size(c) = 2
  BY DEF Size
<1>3. p # <<>> /\ p \in Seq(ReqPart) /\ Len(p) = 2 /\ \A i \in 1 .. 2 : p[i] = <<c, i>>
  BY <1>1, <1>2, PartsFacts
<1>4. Asking(p, c)
  BY <1>3 DEF Asking
<1> QED
  BY <1>1, <1>3, <1>4

LEMMA AskingOnly ==
  ASSUME NEW p \in Seq(ReqPart)
  PROVE  Whole(<<>>, <<>>, p) = p
<1>1. PICK e : e = <<>> \o <<>>
  OBVIOUS
<1>2. e = <<>>
  <2>1. <<>> \in Seq(Part)
    OBVIOUS
  <2> QED
    BY <1>1, <2>1, ConcatEmptySeq, Zenon
<1>3. <<>> \o p = p
  BY ConcatEmptySeq
<1> QED
  BY <1>1, <1>2, <1>3, Zenon DEF Whole

LEMMA BeginAsking ==
  ASSUME Types, Whole(drd, up, <<>>) = <<>>, NEW c \in Msg, c.type = "REQ"
  PROVE  Whole(drd, up, Parts(c)) = Parts(c)
<1>1. PICK p, du : p = Parts(c) /\ du = drd \o up
  OBVIOUS
<1>2. du \in Seq(ReqPart) /\ p \in Seq(ReqPart)
  BY <1>1, PartsAsking DEF Types
<1>3. du \o <<>> = du
  BY <1>2, ConcatEmptySeq
<1>4. du = <<>>
  BY <1>1, <1>3, Zenon DEF Whole
<1>5. <<>> \o p = p
  BY <1>2, ConcatEmptySeq
<1>6. Whole(drd, up, p) = p
  BY <1>1, <1>4, <1>5, Zenon DEF Whole
<1> QED
  BY <1>1, <1>6, Zenon

LEMMA PrepareCall ==
  ASSUME CallInv, Prepare
  PROVE  CallInv'
<1>1. ConnInv'
  BY ClientStepInv DEF CallInv, ClientStep
<1>2. /\ cpc = "wait_idle" /\ cout' = Parts(call) /\ cpc' = "write"
      /\ cstate' \in {"WAIT_SRV_CNF", "WAIT_RPC_REPLY", cstate}
      /\ UNCHANGED <<call, cbuf, cfd, dstate, dpc, drd, dwr, dfd, queue, ind, up, down>>
  BY DEF Prepare, daemonVars
<1>3. Opening'
  BY <1>2 DEF CallInv, Opening
<1>4. OneReply'
  <2> SUFFICES ASSUME cfd, dfd PROVE OneReply'
    BY <1>2 DEF OneReply
  <2>1. PICK s, u : s = Whole(cbuf, down, dwr) /\ u = Whole(drd, up, cout)
    OBVIOUS
  <2>2. Whole(cbuf', down', dwr') = s
    BY <1>2, <2>1
  <2>3. cout = <<>>
    BY <1>2 DEF CallInv, ConnInv, Ends
  <2>4. u = <<>> /\ NoAnswer(s) /\ Answering(s, call)
    BY <1>2, <2>1, <2>3 DEF CallInv, OneReply
  <2>5. call \in Msg /\ call.type = "REQ"
    BY DEF CallInv, ConnInv, Types, TypeOK
  <2>6. Whole(drd, up, Parts(call)) = Parts(call)
    BY <2>1, <2>3, <2>4, <2>5, BeginAsking DEF CallInv, ConnInv
  <2>7. Whole(drd', up', cout') = Parts(call)
    BY <1>2, <2>6, Zenon
  <2>8. Asking(Parts(call), call) /\ cout' # <<>>
    BY <1>2, <2>5, PartsAsking
  <2> QED
    BY <1>2, <2>2, <2>4, <2>7, <2>8 DEF OneReply
<1> QED
  BY <1>1, <1>3, <1>4 DEF CallInv

LEMMA ClientWritesCall ==
  ASSUME CallInv, ClientWrites
  PROVE  CallInv'
<1>1. ConnInv'
  BY ClientStepInv DEF CallInv, ClientStep
<1>2. /\ cpc = "write" /\ dfd /\ cpc' = IF cout' = <<>> THEN "reply" ELSE "write"
      /\ UNCHANGED <<cstate, call, cbuf, cfd, dstate, dpc, drd, dwr, dfd, queue, ind, down>>
  BY DEF ClientWrites, daemonVars
<1>3. Opening'
  BY <1>2 DEF CallInv, Opening
<1>4. OneReply'
  <2> SUFFICES ASSUME cfd, dfd PROVE OneReply'
    BY <1>2 DEF OneReply
  <2>1. PICK s, u : s = Whole(cbuf, down, dwr) /\ u = Whole(drd, up, cout)
    OBVIOUS
  <2>2. Whole(cbuf', down', dwr') = s
    BY <1>2, <2>1
  <2>3. Whole(drd, up', cout') = u
    BY <2>1, WriteFacts DEF CallInv, ConnInv
  <2>4. Whole(drd', up', cout') = u
    BY <1>2, <2>3, Zenon
  <2>5. Asking(u, call) /\ NoAnswer(s) /\ Answering(s, call)
    BY <1>2, <2>1 DEF CallInv, OneReply
  <2> QED
    BY <1>2, <2>2, <2>4, <2>5 DEF OneReply
<1> QED
  BY <1>1, <1>3, <1>4 DEF CallInv

\* The end of a connection under a call: only "connect" is left.
LEMMA LostCall ==
  ASSUME CallInv, Lost
  PROVE  CallInv'
<1>1. ~dfd /\ (Fail \/ Close("ERROR"))
  BY DEF Lost
<1> QED
  BY <1>1, FailCall, CloseCall

\* A message that comes while a call waits to begin is no reply ...
LEMMA WaitIdleCall ==
  ASSUME CallInv, NEW m \in Msg, WaitIdleTakes(m)
  PROVE  CallInv'
<1>1. cpc = "wait_idle" /\ Completes(m)
  BY DEF WaitIdleTakes
<1>2. \/ TakeIt("wait_idle", cstate, shown) \/ TakeIt("idle", "WAIT_IDLE", shown)
      \/ Close("ERROR")
  BY DEF WaitIdleTakes
<1> QED
  BY <1>1, <1>2, TakeItCall, CloseCall

LEMMA ReadCall ==
  ASSUME CallInv, NEW m \in Msg, ReadTakes(m)
  PROVE  CallInv'
<1>1. cpc = "read" /\ Completes(m)
  BY DEF ReadTakes
<1>2. \/ m.type = "SLICED_IND" /\ TakeIt("idle", cstate, m.id)
      \/ TakeIt("idle", cstate, shown) \/ Close("ERROR")
  BY DEF ReadTakes
<1> QED
  BY <1>1, <1>2, TakeItCall, CloseCall

\* ... and while it waits for its reply, that is the only reply.
LEMMA RpcCall ==
  ASSUME CallInv, NEW m \in Msg, RpcTakesOther(m) \/ RpcTakesReply(m)
  PROVE  CallInv'
<1>1. cpc = "reply" /\ Completes(m)
  BY DEF RpcTakesOther, RpcTakesReply
<1>2. CASE RpcTakesReply(m)
  <2>1. m.type \in {"CNF", "REJ"}
    BY <1>2 DEF RpcTakesReply, IsReply
  <2>2. TakeIt("idle", "CAPTURING", shown) \/ Close("ERROR")
    BY <1>2 DEF RpcTakesReply
  <2> QED
    BY <1>1, <2>1, <2>2, TakeItCall, CloseCall
<1>3. CASE RpcTakesOther(m)
  <2>1. CASE TakeIt("reply", cstate, shown)
    BY <1>1, <2>1, TakeItCall
  <2>2. CASE Fail /\ ~(Asynchronous(m) /\ (m.type = "SLICED_IND" => cstate # "WAIT_CON_CNF"))
    <3>1. ASSUME cfd
          PROVE  call.op # "ioctl"
      <4>1. Connected /\ dfd
        BY <1>1, <3>1, ReadsForward DEF Completes
      <4>2. Answering(Whole(cbuf, down, dwr), call)
        BY <3>1, <4>1 DEF CallInv, OneReply
      <4>3. m.type # "REQ" /\ (m.type \in {"CNF", "REJ"} => m.op = call.op)
        BY <1>1, <4>1, <4>2, TakenAnswer DEF CallInv
      <4>4. Asynchronous(m)
        BY <1>3, <4>3 DEF RpcTakesOther, IsReply, Asynchronous, Msg, Frame, ChangeInd
      <4> QED
        BY <2>2, <3>1, <4>4 DEF CallInv, Opening
    <3> QED
      BY <1>1, <2>2, <3>1, FailCall
  <2> QED
    BY <1>3, <2>1, <2>2 DEF RpcTakesOther
<1> QED
  BY <1>2, <1>3


\* The calls begin, and time out.
LEMMA CallsCall ==
  ASSUME CallInv,
         \/ Connect \/ (\E op \in Ops : CallBegin(op)) \/ ReadBegin \/ StopAcq \/ ReadTimeOut
         \/ WriteTimeOut
         \/ CallTimeOut /\ "ioctl" \notin RpcLate
  PROVE  CallInv'
<1>1. CASE StopAcq
  BY <1>1, CloseCall DEF StopAcq
<1>2. CASE CallTimeOut /\ "ioctl" \notin RpcLate
  <2>1. Fail /\ call.op # "ioctl"
    BY <1>2 DEF CallTimeOut
  <2> QED
    BY <2>1, FailCall
<1>3. CASE ReadBegin \/ ReadTimeOut
  <2>1. ConnInv'
    BY <1>3, CallStep DEF CallInv
  <2>2. /\ cpc \in {"idle", "read"} /\ cpc' \in {"idle", "read"}
        /\ UNCHANGED <<cstate, call, cbuf, cout, cfd, dstate, dpc, drd, dwr, dfd, queue, ind, up, down>>
    BY <1>3 DEF ReadBegin, ReadTimeOut, daemonVars
  <2>3. Opening'
    BY <2>2 DEF CallInv, Opening
  <2>4. OneReply'
    <3>1. PICK s, u : s = Whole(cbuf, down, dwr) /\ u = Whole(drd, up, cout)
      OBVIOUS
    <3>2. Whole(cbuf', down', dwr') = s /\ Whole(drd', up', cout') = u
      BY <2>2, <3>1
    <3> QED
      BY <2>2, <3>1, <3>2 DEF CallInv, OneReply
  <2> QED
    BY <2>1, <2>3, <2>4 DEF CallInv
<1>4. CASE \E op \in Ops : CallBegin(op)
  <2>1. ConnInv'
    BY <1>4, CallStep DEF CallInv
  <2>2. /\ cpc = "idle" /\ cstate = "CAPTURING" /\ cout = <<>> /\ cpc' = "wait_idle"
        /\ \E op \in Ops : call' = Request(op, ncall')
        /\ UNCHANGED <<cstate, cbuf, cout, cfd, dstate, dpc, drd, dwr, dfd, queue, ind, up, down>>
    BY <1>4 DEF CallBegin, daemonVars
  <2>3. Opening'
    BY <2>2 DEF CallInv, Opening
  <2>4. OneReply'
    <3> SUFFICES ASSUME cfd, dfd PROVE OneReply'
      BY <2>2 DEF OneReply
    <3>1. PICK s, u : s = Whole(cbuf, down, dwr) /\ u = Whole(drd, up, cout)
      OBVIOUS
    <3>2. u = <<>> /\ NoAnswer(s) /\ Answering(s, call)
      BY <2>2, <3>1 DEF CallInv, OneReply
    <3>3. Answering(s, call') /\ Asking(<<>>, call')
      BY <3>2 DEF Answering, NoAnswer, Asking
    <3>4. Whole(cbuf', down', dwr') = s /\ Whole(drd', up', cout') = <<>>
      BY <2>2, <3>1, <3>2
    <3> QED
      BY <2>2, <3>2, <3>3, <3>4 DEF OneReply
  <2> QED
    BY <2>1, <2>3, <2>4 DEF CallInv
<1>5. CASE Connect
  <2>1. ConnInv'
    BY <1>5, CallStep DEF CallInv
  <2>2. /\ dstate = "none" /\ cstate' = "WAIT_CON_CNF" /\ cfd' = TRUE /\ dfd' = TRUE
        /\ call' = Request("connect", 0) /\ cout' = Parts(call') /\ cpc' = "write"
        /\ cbuf' = <<>> /\ up' = <<>> /\ down' = <<>>
        /\ UNCHANGED <<dstate, dpc, drd, dwr, queue, ind>>
    BY <1>5 DEF Connect
  <2>3. drd = <<>> /\ dwr = <<>>
    BY <2>2 DEF CallInv, ConnInv, Ends
  <2>4. Opening'
    BY <2>2, <2>3 DEF CallInv, Opening, Request
  <2>5. OneReply'
    <3>1. Whole(<<>>, <<>>, <<>>) = <<>>
      BY EmptyWhole
    <3>2. Whole(cbuf', down', dwr') = <<>>
      BY <2>2, <2>3, <3>1, Zenon
    <3>3. NoAnswer(<<>>) /\ Answering(<<>>, call')
      BY DEF NoAnswer, Answering
    <3>4. PICK c : c = call'
      OBVIOUS
    <3>5. c \in Msg /\ c.type = "REQ"
      BY <2>1, <3>4 DEF ConnInv, Types, TypeOK
    <3>6. Asking(Parts(c), c) /\ Parts(c) # <<>> /\ Parts(c) \in Seq(ReqPart)
      BY <3>5, PartsAsking
    <3>7. Whole(<<>>, <<>>, Parts(c)) = Parts(c)
      BY <3>6, AskingOnly
    <3>8. Whole(drd', up', cout') = Parts(c) /\ cout' = Parts(c)
      BY <2>2, <2>3, <3>4, <3>7, Zenon
    <3> QED
      BY <2>2, <3>2, <3>3, <3>4, <3>6, <3>8 DEF OneReply
  <2> QED
    BY <2>1, <2>4, <2>5 DEF CallInv
<1>6. CASE WriteTimeOut
  BY <1>6, FailCall DEF WriteTimeOut
<1> QED
  BY <1>1, <1>2, <1>3, <1>4, <1>5, <1>6

-----------------------------------------------------------------------------
\* The steps of the daemon.
LEMMA LoopCall ==
  ASSUME CallInv, Accept \/ Select \/ DaemonNoIo \/ ServeNothing \/ ChannelChanged \/ Publish
  PROVE  CallInv'
<1>1. ConnInv'
  BY AcceptStep, LoopStep, PublishStep DEF CallInv
<1>2. UNCHANGED <<cstate, cpc, call, cbuf, cout, cfd, drd, dwr, dfd, up, down>>
  BY DEF Accept, Select, DaemonNoIo, ServeNothing, ChannelChanged, Publish, clientVars
<1>3. Opening'
  <2>1. CASE Accept
    BY <1>2, <2>1 DEF CallInv, Opening, Accept
  <2>2. CASE Select \/ DaemonNoIo \/ ServeNothing
    BY <1>2, <2>2 DEF CallInv, Opening, Select, DaemonNoIo, ServeNothing
  <2>3. CASE ChannelChanged \/ Publish
    <3>1. dstate = "FORWARD" /\ dstate' = "FORWARD"
      BY <2>3 DEF ChannelChanged, Publish
    <3> QED
      BY <1>2, <3>1 DEF CallInv, Opening
  <2> QED
    BY <2>1, <2>2, <2>3
<1>4. OneReply'
  <2>1. Whole(cbuf', down', dwr') = Whole(cbuf, down, dwr)
    BY <1>2
  <2> QED
    BY <1>2, <2>1, SameReply DEF CallInv
<1> QED
  BY <1>1, <1>3, <1>4 DEF CallInv

LEMMA DaemonReadsPartCall ==
  ASSUME CallInv, NEW n \in 1 .. 2, DaemonReadsPart(n)
  PROVE  CallInv'
<1>1. ConnInv'
  BY DaemonReadsPartStep DEF CallInv
<1>2. /\ up # <<>> /\ dpc' = "serve"
      /\ UNCHANGED <<cstate, cpc, call, cbuf, cout, cfd, dstate, dwr, dfd, queue, ind, down>>
  BY DEF DaemonReadsPart, clientVars
<1>3. Opening'
  BY <1>2 DEF CallInv, Opening
<1>4. OneReply'
  <2>1. PICK s, u : s = Whole(cbuf, down, dwr) /\ u = Whole(drd, up, cout)
    OBVIOUS
  <2>2. Whole(cbuf', down', dwr') = s
    BY <1>2, <2>1
  <2>3. Whole(drd', up', cout') = u
    BY <2>1, ReadsPartWhole DEF CallInv, ConnInv
  <2> QED
    BY <1>2, <2>1, <2>2, <2>3 DEF CallInv, OneReply
<1> QED
  BY <1>1, <1>3, <1>4 DEF CallInv

LEMMA WholeLen ==
  ASSUME Types, NEW t \in Seq(Part)
  PROVE  Len(Whole(<<>>, t, cout)) = Len(t) + Len(cout)
<1>1. PICK e, c : e = <<>> \o t /\ c = cout
  OBVIOUS
<1>2. e = t
  BY <1>1, ConcatEmptySeq
<1>3. t \in Seq(Part) /\ c \in Seq(Part)
  BY <1>1, UpTypes
<1>4. Len(t \o c) = Len(t) + Len(c)
  BY <1>3
<1>5. Whole(<<>>, t, c) = t \o c
  BY <1>1, <1>2, Zenon DEF Whole
<1> QED
  BY <1>1, <1>4, <1>5

\* A complete request is that of the call, and nothing comes after it.
LEMMA DaemonReadsCall ==
  ASSUME CallInv, NEW m \in Msg, DaemonReads(m)
  PROVE  CallInv'
<1>1. ConnInv'
  BY DaemonReadsStep DEF CallInv
<1>2. PICK u : u = Whole(drd, up, cout)
  OBVIOUS
<1>3. PICK x, t, r \in Seq(Part) :
        /\ Joined(u, x, r) /\ u \in Seq(Part)
        /\ Len(x) = Size(m) /\ x[1][1] = m /\ x[1] \in ReqPart
        /\ r = Whole(<<>>, t, cout)
        /\ drd' = <<>> /\ up' = t /\ UNCHANGED <<cout, cfd, dfd>>
  BY <1>2, ReadsWhole DEF CallInv, ConnInv
<1>4. m.type = "REQ" /\ Size(m) = 2
  BY <1>3 DEF ReqPart, Size
<1>5. PICK type \in {"CNF", "REJ"}, state \in {"FORWARD", "WAIT_CLOSE", dstate} :
        /\ Answer(m, type, state)
        /\ IF m.op = "connect" THEN dstate = "WAIT_CON_REQ" /\ state # dstate ELSE state = dstate
  BY DEF DaemonReads
<1>6. PICK a : a = [m EXCEPT !.type = type]
  OBVIOUS
<1>7. a \in Msg /\ a.type = type /\ a.op = m.op /\ a.id = m.id
  BY <1>4, <1>6 DEF Msg, Frame, ChangeInd
<1>8. /\ dpc = "io" /\ dwr = <<>>
      /\ dstate' = state /\ dwr' = Parts(a) /\ drd' = <<>> /\ dpc' = "serve"
      /\ queue' = <<>> \/ queue' = queue
      /\ ind' => ind
      /\ UNCHANGED <<cstate, cpc, call, cbuf, cout, cfd, dfd, down>>
  BY <1>5, <1>6 DEF DaemonReads, Answer, clientVars
<1>9. dstate # "none" /\ dfd
  BY <1>8 DEF CallInv, ConnInv, Ends, Opening
<1>10. ASSUME cfd
       PROVE  m = call /\ r = <<>> /\ u # <<>> /\ cout = <<>>
  <2>1. Len(u) <= 2 /\ \A i \in 1 .. Len(u) : u[i][1] = call
    BY <1>2, <1>9, <1>10 DEF CallInv, OneReply, Asking
  <2>2. /\ Len(u) = 2 + Len(r) /\ Len(r) \in Nat
        /\ u[1] = x[1] /\ 1 \in 1 .. Len(u)
    BY <1>3, <1>4 DEF Joined
  <2>3. m = call /\ u # <<>> /\ Len(r) = 0
    BY <1>3, <2>1, <2>2
  <2>4. Len(t) + Len(cout) = 0
    BY <1>3, <2>3, WholeLen DEF CallInv, ConnInv
  <2> QED
    BY <2>3, <2>4, <1>3 DEF CallInv, ConnInv, Types
<1>11. Opening'
  <2>1. dstate' # "FORWARD" => queue' = <<>> /\ ~ind'
    BY <1>5, <1>8 DEF CallInv, Opening
  <2>2. cfd => /\ dstate \notin {"FORWARD", "WAIT_CON_REQ"} => FALSE
               /\ dstate = "WAIT_CON_REQ" => state \in {"FORWARD", "WAIT_CLOSE"}
    BY <1>5, <1>8, <1>9, <1>10 DEF CallInv, Opening, ConnInv, Types, TypeOK
  <2>3. dstate' # "none" /\ dfd'
    BY <1>5, <1>8, <1>9
  <2> QED
    BY <1>5, <1>8, <2>1, <2>2, <2>3 DEF CallInv, Opening
<1>12. OneReply'
  <2> SUFFICES ASSUME cfd PROVE OneReply'
    BY <1>8 DEF OneReply
  <2>1. Connected
    BY <1>9 DEF Connected
  <2>2. PICK s, y : s = Whole(cbuf, down, <<>>) /\ y = Whole(cbuf, down, Parts(a))
    OBVIOUS
  <2>3. cpc = "reply" /\ NoAnswer(s) /\ Answering(s, call)
    BY <1>2, <1>8, <1>9, <1>10, <2>2 DEF CallInv, OneReply
  <2>4. cbuf \in Seq(Part) /\ down \in Seq(Part) /\ <<>> \in Seq(Part)
    BY DEF CallInv, ConnInv, Types
  <2>5. Parts(a) \in Seq(Part)
    BY <1>7, PartsFacts
  <2>6. s \in Seq(Part) /\ y \in Seq(Part) /\ Joined(y, s, Parts(a))
    BY <2>2, <2>4, <2>5, WholeJoined
  <2>7. a.op = call.op /\ a.id = call.id /\ a.type # "REQ"
    BY <1>7, <1>10
  <2>8. Answering(y, call)
    BY <1>7, <2>3, <2>6, <2>7, AnswerAppend
  <2>9. Whole(cbuf', down', dwr') = y
    BY <1>8, <2>2
  <2>10. Whole(drd', up', cout') = <<>>
    BY <1>3, <1>10, Zenon
  <2>11. Asking(<<>>, call')
    BY DEF Asking
  <2>12. cpc' = "reply" /\ call' = call
    BY <1>8, <2>3
  <2> QED
    BY <2>8, <2>9, <2>10, <2>11, <2>12 DEF OneReply
<1> QED
  BY <1>1, <1>11, <1>12 DEF CallInv

\* What the daemon sends by itself comes between the replies.
LEMMA BeginCall ==
  ASSUME CallInv, cfd, dfd, dwr = <<>>, NEW m \in Msg, m.type \in {"SLICED_IND", "CHANGE_IND"},
         UNCHANGED <<call, cpc, cout, cfd, dfd, drd, up>>,
         Whole(cbuf', down', dwr') = Whole(cbuf, down, Parts(m))
  PROVE  OneReply'
<1>1. PICK s, y : s = Whole(cbuf, down, <<>>) /\ y = Whole(cbuf, down, Parts(m))
  OBVIOUS
<1>2. cbuf \in Seq(Part) /\ down \in Seq(Part) /\ <<>> \in Seq(Part) /\ Parts(m) \in Seq(Part)
  BY PartsFacts DEF CallInv, ConnInv, Types
<1>3. s \in Seq(Part) /\ y \in Seq(Part) /\ Joined(y, s, Parts(m))
  BY <1>1, <1>2, WholeJoined
<1>4. Whole(cbuf, down, dwr) = s
  BY <1>1
<1>5. Answering(s, call)
  BY <1>4 DEF CallInv, OneReply
<1>6. Answering(y, call) /\ (NoAnswer(s) => NoAnswer(y))
  BY <1>3, <1>5, AnswerAppend
<1>7. Whole(cbuf', down', dwr') = y
  BY <1>1
<1> QED
  BY <1>4, <1>6, <1>7 DEF CallInv, OneReply


LEMMA SendIndCall ==
  ASSUME CallInv, SendInd
  PROVE  CallInv'
<1>1. ConnInv'
  BY SendIndStep DEF CallInv
<1>2. /\ dwr = <<>> /\ ind /\ dwr' = Parts(ChangeInd) /\ ind' = FALSE
      /\ UNCHANGED <<cstate, cpc, call, cbuf, cout, cfd, dstate, drd, dfd, queue, up, down>>
  BY DEF SendInd, DaemonIdle, clientVars
<1>3. dstate = "FORWARD"
  BY <1>2 DEF CallInv, Opening
<1>4. Opening'
  BY <1>2, <1>3 DEF CallInv, Opening
<1>5. OneReply'
  <2> SUFFICES ASSUME cfd, dfd PROVE OneReply'
    BY <1>2 DEF OneReply
  <2>1. PICK m \in Msg : m = ChangeInd /\ m.type = "CHANGE_IND"
    BY MsgFacts DEF ChangeInd
  <2>2. Whole(cbuf', down', dwr') = Whole(cbuf, down, Parts(m))
    BY <1>2, <2>1
  <2> QED
    BY <1>2, <2>1, <2>2, BeginCall
<1> QED
  BY <1>1, <1>4, <1>5 DEF CallInv

LEMMA DaemonWritesCall ==
  ASSUME CallInv, DaemonWrites
  PROVE  CallInv'
<1>1. ConnInv'
  BY DaemonWritesStep DEF CallInv
<1>2. /\ dpc = "io" /\ dwr # <<>> /\ Send(dwr) /\ cfd
      /\ UNCHANGED <<cstate, cpc, call, cbuf, cout, cfd, dstate, drd, dfd, queue, ind, up>>
  BY DEF DaemonWrites, clientVars
<1>3. dstate = "FORWARD"
  BY <1>2 DEF CallInv, Opening, ConnInv, Types, TypeOK
<1>4. Opening'
  BY <1>2, <1>3 DEF CallInv, Opening
<1>5. OneReply'
  <2>1. dwr \in Seq(Part) /\ Len(dwr) <= 3 /\ Types
    BY DEF CallInv, ConnInv, Types, TypeOK
  <2>2. Whole(cbuf, down', dwr') = Whole(cbuf, down, dwr)
    BY <1>2, <2>1, SendFacts
  <2>3. Whole(cbuf', down', dwr') = Whole(cbuf, down, dwr)
    BY <1>2, <2>2
  <2> QED
    BY <1>2, <2>3, SameReply DEF CallInv
<1> QED
  BY <1>1, <1>4, <1>5 DEF CallInv

LEMMA SendSlicedCall ==
  ASSUME CallInv, SendSliced
  PROVE  CallInv'
<1>1. CASE ~cfd
  BY <1>1, DaemonCloseCall DEF SendSliced
<1>2. CASE cfd
  <2>1. ConnInv'
    BY SendSlicedStep DEF CallInv
  <2>2. PICK m : m = Frame(Head(queue))
    OBVIOUS
  <2>3. /\ dwr = <<>> /\ queue # <<>> /\ Send(Parts(m))
        /\ UNCHANGED <<cstate, cpc, call, cbuf, cout, cfd, dstate, drd, dfd, ind, up>>
    BY <1>2, <2>2 DEF SendSliced, DaemonIdle, clientVars
  <2>4. dstate = "FORWARD"
    BY <2>3 DEF CallInv, Opening
  <2>5. Opening'
    BY <2>3, <2>4 DEF CallInv, Opening
  <2>6. m \in Msg /\ m.type = "SLICED_IND"
    <3>1. MaxFrame \in Nat
      BY ConnectionAssumption
    <3>2. Head(queue) \in 1 .. MaxFrame
      BY <2>3, <3>1 DEF CallInv, ConnInv, Types
    <3> QED
      BY <2>2, <3>2, MsgFacts
  <2>7. Parts(m) \in Seq(Part) /\ Len(Parts(m)) <= 3
    BY <2>6, PartsFacts, MsgFacts
  <2>8. Whole(cbuf, down', dwr') = Whole(cbuf, down, Parts(m))
    BY <2>3, <2>7, SendFacts DEF CallInv, ConnInv
  <2>9. Whole(cbuf', down', dwr') = Whole(cbuf, down, Parts(m))
    BY <2>3, <2>8
  <2>10. dfd
    BY <2>4 DEF CallInv, Opening
  <2>11. OneReply'
    BY <1>2, <2>3, <2>6, <2>9, <2>10, BeginCall
  <2> QED
    BY <2>1, <2>5, <2>11 DEF CallInv
<1> QED
  BY <1>1, <1>2

LEMMA EndsCall ==
  ASSUME CallInv, DaemonReadsEnd \/ DaemonWriteFails \/ WaitClose \/ ConnectTimeOut
  PROVE  CallInv'
<1>1. DaemonClose /\ (cfd => dstate # "FORWARD")
  BY DEF DaemonReadsEnd, DaemonWriteFails, WaitClose, ConnectTimeOut
<1> QED
  BY <1>1, DaemonCloseCall

LEMMA InitCall == Init => CallInv
<1> SUFFICES ASSUME Init PROVE CallInv
  OBVIOUS
<1>1. Opening /\ OneReply
  BY DEF Init, Opening, OneReply
<1> QED
  BY <1>1, InitConn DEF CallInv

LEMMA NextCall ==
  ASSUME CallInv, [Next]_vars, "ioctl" \notin RpcLate
  PROVE  CallInv'
<1>1. CASE UNCHANGED vars
  <2>1. UNCHANGED <<cstate, cpc, call, cbuf, cout, cfd, dstate, dpc, drd, dwr, dfd, queue, ind,
                    up, down>>
    BY <1>1 DEF vars, clientVars, daemonVars
  <2>2. ConnInv'
    BY NextConn DEF CallInv
  <2>3. Opening'
    BY <2>1 DEF CallInv, Opening
  <2>4. OneReply'
    <3>1. Whole(cbuf', down', dwr') = Whole(cbuf, down, dwr)
      BY <2>1
    <3> QED
      BY <2>1, <3>1, SameReply DEF CallInv
  <2> QED
    BY <2>2, <2>3, <2>4 DEF CallInv
<1>2. CASE ClientStep
  BY <1>2, ClientReadsPartCall, PrepareCall, ClientWritesCall, LostCall, WaitIdleCall, RpcCall,
     ReadCall DEF ClientStep
<1>3. CASE DaemonStep
  BY <1>3, LoopCall, DaemonReadsPartCall, DaemonReadsCall, EndsCall, DaemonWritesCall,
     SendIndCall, SendSlicedCall DEF DaemonStep
<1> QED
  BY <1>1, <1>2, <1>3, CallsCall, LoopCall, EndsCall DEF Next

\* Whatever the client gives up waiting for, no reply is ever taken for that to a
\* later call: proxy_client_rpc looks at the type of a reply only, and it is right
\* as every call that fails closes the connection.  vbi_proxy_client_device_ioctl
\* does not, so that its replies must not be late.
THEOREM RepliesBelong ==
  ASSUME "ioctl" \notin RpcLate
  PROVE  Spec => []RepliesMatch
<1>1. CallInv /\ [Next]_vars => CallInv'
  BY NextCall
<1>2. CallInv => RepliesMatch
  <2> SUFFICES ASSUME CallInv, cfd, NEW i \in DOMAIN Stream, Stream[i][1].type \in {"CNF", "REJ"}
               PROVE  cpc = "reply" /\ Stream[i][1].op = call.op /\ Stream[i][1].id = call.id
    BY DEF RepliesMatch
  <2>1. PICK s : s = Stream
    OBVIOUS
  <2>2. s = Whole(cbuf, down, dwr)
    BY <2>1, StreamIsWhole
  <2>3. s \in Seq(Part)
    <3>1. cbuf \in Seq(Part) /\ down \in Seq(Part) /\ dwr \in Seq(Part)
      BY DEF CallInv, ConnInv, Types
    <3> QED
      BY <2>2, <3>1, WholeJoined
  <2>4. i \in 1 .. Len(s) /\ IsAnswer(s[i])
    BY <2>1, <2>3 DEF IsAnswer
  <2>5. CASE ~dfd
    <3>1. cbuf = <<>> /\ down = <<>> /\ dwr = <<>>
      BY <2>5 DEF CallInv, Opening
    <3>2. s = <<>>
      BY <2>2, <3>1, EmptyWhole, Zenon
    <3>3. Len(s) = 0
      BY <3>2
    <3> QED
      BY <2>4, <3>3
  <2>6. CASE dfd
    <3>1. (cpc # "reply" => NoAnswer(s)) /\ Answering(s, call)
      BY <2>2, <2>6 DEF CallInv, OneReply
    <3> QED
      BY <2>1, <2>4, <3>1 DEF NoAnswer, Answering
  <2> QED
    BY <2>5, <2>6
<1> QED
  BY <1>1, <1>2, InitCall, PTL DEF Spec
=============================================================================
