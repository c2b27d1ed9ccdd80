------------------------- MODULE ZappingFifoProofs --------------------------
(***************************************************************************)
(* The fifos of Zapping implement FrameStream and never recycle the end of *)
(* a stream, for any number of producers, consumers and buffers, if no     *)
(* consumer leaves: when one does, rem_consumer lowers the number of       *)
(* readers of buffers it has already returned, and with three consumers    *)
(* the invariants below do not survive that.                               *)
(*                                                                         *)
(* The counters of a queued buffer are exact: readers - dequeued consumers *)
(* have yet to read it and dequeued - enqueued are looking at it.  This is *)
(* why the consumer that brings enqueued up to readers is the last one,    *)
(* and why a buffer with enqueued >= dequeued may be taken away.           *)
(***************************************************************************)
EXTENDS ZappingFifo, SequenceLemmas, FiniteSetTheorems

\* A thread's slot is filled when it has a buffer on its way between two critical
\* sections, and only then; what send_full is about to queue was reset.
SlotOK ==
  \A t \in Thread :
    /\ pc[t] \in {"send", "return"} <=> slot[t] # NULL
    /\ pc[t] = "send" => dequeued[slot[t]] = 0 /\ enqueued[slot[t]] = 0

\* What a consumer dequeued last it still has.
RecentHeld == \A c \in Consumer : recent[c] # NULL => recent[c] \in hand[c]

\* What a consumer has in hand it has read.
HandBehind == \A c \in Consumer : hand[c] \cap Range(Ahead(c)) = {}

\* What the queue says of the consumers ...
QueueInv == RecentHeld /\ NextOnFull /\ HandBehind /\ Counted

\* ... and where the buffers are.
FifoInv == consumers = Consumer /\ OnePlace /\ SlotOK /\ QueueInv

\* A step of EofNotDropped.
EofKept ==
  \A c \in Consumer : \A b \in Range(Ahead(c)) :
    eof[b] /\ c \in consumers' => b \in Range(Ahead(c)') \cup hand'[c]

\* What every step of the fifo does.
GoodStep == FifoInv' /\ [Stream!Next]_(Stream!vars) /\ EofKept

-----------------------------------------------------------------------------
\* What is ahead of a consumer is the part of the queue from its pointer on.
LEMMA AheadFrom == \A c \in Consumer : Ahead(c) = From(full, next_buffer[c])
  BY DEF Ahead, From

\* The successor of a buffer on the full queue.
LEMMA SuccIs == \A b : Succ(b) = SuccIn(full, b, NULL)
  BY DEF Succ, SuccIn

\* Nothing is ahead of a consumer that points to the end of the queue.
LEMMA NullAhead ==
  ASSUME NEW q \in Seq(Buffer)
  PROVE  From(q, NULL) = <<>>
<1>1. NULL \notin Range(q)
  BY FifoAssumption DEF Range
<1> QED
  BY <1>1 DEF From

\* The buffers ahead of a consumer are its next one and those ahead of the
\* successor.
LEMMA AheadNext ==
  ASSUME NEW q \in Seq(Buffer), IsInjective(q), NEW b \in Range(q)
  PROVE  /\ From(q, b) # <<>> /\ Head(From(q, b)) = b
         /\ Tail(From(q, b)) = From(q, SuccIn(q, b, NULL))
         /\ From(q, b) = <<b>> \o From(q, SuccIn(q, b, NULL))
         /\ b \notin Range(From(q, SuccIn(q, b, NULL)))
         /\ Range(From(q, b)) = Range(From(q, SuccIn(q, b, NULL))) \cup {b}
<1>1. PICK i \in 1 .. Len(q) : q[i] = b
  BY RangeIndex
<1> DEFINE f == From(q, q[i])
<1>2. f # <<>> /\ Tail(f) = IF i < Len(q) THEN From(q, q[i + 1]) ELSE <<>>
  BY FromNext
<1>3. SuccIn(q, q[i], NULL) = IF i < Len(q) THEN q[i + 1] ELSE NULL
  BY SuccAt
<1>4. Tail(f) = From(q, SuccIn(q, q[i], NULL))
  BY <1>2, <1>3, NullAhead
<1>5. f \in Seq(Buffer) /\ IsInjective(f) /\ Len(f) = Len(q) - i + 1 /\ f[1] = q[i]
  <2>1. /\ f \in Seq(Buffer) /\ Len(f) = Len(q) - i + 1
        /\ \A j \in 1 .. Len(q) - i + 1 : f[j] = q[i + j - 1]
    BY FromAt
  <2>2. 1 \in 1 .. Len(q) - i + 1 /\ i + 1 - 1 = i
    OBVIOUS
  <2>3. f[1] = q[i]
    BY <2>1, <2>2
  <2> QED
    BY <2>1, <2>3, FromDistinct
<1> HIDE DEF f
<1>6. Head(f) = q[i] /\ f = <<q[i]>> \o Tail(f)
  BY <1>2, <1>5
<1>7. Range(Tail(f)) = Range(f) \ {Head(f)}
  BY <1>2, <1>5, TailDistinct
<1>8. Head(f) \in Range(f)
  BY <1>2, <1>5, <1>6, RangeIndex
<1> QED
  BY <1>1, <1>2, <1>4, <1>6, <1>7, <1>8 DEF f

\* RemoveFirst is the same in both modules.
LEMMA StreamRemoveFirst == \A s, e : Stream!RemoveFirst(s, e) = RemoveFirst(s, e)
  BY DEF Stream!RemoveFirst, RemoveFirst, Stream!RemoveAt, RemoveAt,
     Stream!SelectInSeq, SelectInSeq, Stream!Min, Min

\* Whatever else happens, when the queue, the pointers, the consumers' hands and
\* the counters of the queued buffers stay, the consumers notice nothing.
LEMMA QuietStep ==
  ASSUME QueueInv, full' = full, next_buffer' = next_buffer, recent' = recent,
         \A c \in Consumer : hand'[c] = hand[c],
         \A b \in Range(full) :
           readers'[b] = readers[b] /\ dequeued'[b] = dequeued[b] /\ enqueued'[b] = enqueued[b]
  PROVE  QueueInv' /\ [Stream!Next]_(Stream!vars) /\ EofKept
<1>1. \A c \in Consumer : Ahead(c)' = Ahead(c)
  BY DEF Ahead
<1>2. \A b : Succ(b)' = Succ(b)
  BY DEF Succ
<1>3. RecentHeld'
  BY DEF QueueInv, RecentHeld
<1>4. NextOnFull'
  BY <1>2 DEF QueueInv, NextOnFull
<1>5. HandBehind'
  BY <1>1 DEF QueueInv, HandBehind
<1>6. Counted'
  <2> SUFFICES ASSUME NEW b \in Range(full)
               PROVE  /\ readers[b] - dequeued[b]
                           = Cardinality({c \in Consumer : b \in Range(Ahead(c)')})
                      /\ dequeued[b] - enqueued[b]
                           = Cardinality({c \in Consumer : b \in hand'[c]})
                      /\ enqueued[b] < readers[b]
    BY DEF Counted
  <2>1. {c \in Consumer : b \in Range(Ahead(c)')} = {c \in Consumer : b \in Range(Ahead(c))}
    BY <1>1
  <2>2. {c \in Consumer : b \in hand'[c]} = {c \in Consumer : b \in hand[c]}
    OBVIOUS
  <2> QED
    BY <2>1, <2>2 DEF QueueInv, Counted
<1>7. UNCHANGED Stream!vars
  BY <1>1 DEF Stream!vars
<1>8. EofKept
  BY <1>1 DEF EofKept
<1> QED
  BY <1>3, <1>4, <1>5, <1>6, <1>7, <1>8 DEF QueueInv

-----------------------------------------------------------------------------
\* A producer gets an empty buffer.
LEMMA EmptyTaken ==
  ASSUME FifoInv, NEW p \in Producer, NEW b \in empty,
         slot[p] = NULL, waiting' \in Seq(Producer),
         empty' = empty \ {b}, GetBuffer(p, b),
         UNCHANGED <<full, next_buffer, readers, dequeued>>, ProducerWaits
  PROVE  GoodStep
<1>1. p \in Thread /\ p \notin Consumer /\ Consumer \subseteq Thread /\ Producer \subseteq Thread
  BY FifoAssumption DEF Thread
<1>2. TypeOK /\ b \in Buffer
  BY DEF FifoInv, OnePlace, TypeOK
<1>3. /\ hand' = [hand EXCEPT ![p] = @ \cup {b}] /\ hand \in [Thread -> SUBSET Buffer]
      /\ pc' = [pc EXCEPT ![p] = "run"] /\ pc \in [Thread -> Pc]
  BY <1>2 DEF GetBuffer, TypeOK
<1>4. TypeOK'
  BY <1>1, <1>2, <1>3 DEF TypeOK, Pc, ProducerWaits, listVars
<1>5. OnePlace'
  BY <1>1, <1>3, <1>4 DEF FifoInv, OnePlace, ProducerWaits
<1>6. SlotOK'
  BY <1>1, <1>3 DEF FifoInv, SlotOK, ProducerWaits
<1>7. \A c \in Consumer : hand'[c] = hand[c]
  BY <1>1, <1>3
<1>8. QueueInv' /\ [Stream!Next]_(Stream!vars) /\ EofKept
  BY <1>7, QuietStep DEF FifoInv, ProducerWaits
<1> QED
  BY <1>5, <1>6, <1>8 DEF GoodStep, FifoInv, ProducerWaits, listVars

\* A producer begins or stops to wait.
LEMMA WaitChanges ==
  ASSUME FifoInv, NEW p \in Producer, slot[p] = NULL, waiting' \in Seq(Producer),
         NEW s \in {"run", "colock", "asleep", "awake"}, pc' = [pc EXCEPT ![p] = s],
         UNCHANGED <<full, empty, next_buffer, readers, dequeued, hand>>, ProducerWaits
  PROVE  GoodStep
<1>1. p \in Thread
  BY DEF Thread
<1>2. TypeOK /\ pc \in [Thread -> Pc]
  BY DEF FifoInv, OnePlace, TypeOK
<1>3. TypeOK'
  BY <1>1, <1>2 DEF TypeOK, Pc, ProducerWaits, listVars
<1>4. OnePlace'
  BY <1>3 DEF FifoInv, OnePlace, ProducerWaits
<1>5. SlotOK'
  BY <1>1, <1>2 DEF FifoInv, SlotOK, ProducerWaits
<1>6. QueueInv' /\ [Stream!Next]_(Stream!vars) /\ EofKept
  BY QuietStep DEF FifoInv, ProducerWaits
<1> QED
  BY <1>4, <1>5, <1>6 DEF GoodStep, FifoInv, ProducerWaits, listVars

\* A buffer nobody looks at is taken away from the consumers that lag behind.
LEMMA UnlinkStep ==
  ASSUME FifoInv, NEW p \in Producer, slot[p] = NULL, waiting' \in Seq(Producer),
         Unlink(p), UNCHANGED empty, ProducerWaits
  PROVE  GoodStep
<1>1. p \in Thread /\ p \notin Consumer /\ Consumer \subseteq Thread /\ Producer \subseteq Thread
  BY FifoAssumption DEF Thread
<1>2. /\ TypeOK /\ OnePlace /\ consumers = Consumer
      /\ full \in Seq(Buffer) /\ IsInjective(full) /\ NULL \notin Buffer
      /\ next_buffer \in [Consumer -> Buffer \cup {NULL}]
  BY FifoAssumption DEF FifoInv, OnePlace, TypeOK
<1>3. PICK i \in 1 .. Len(full) :
        /\ Recyclable(full[i])
        /\ full' = RemoveAt(full, i)
        /\ next_buffer' = [c \in Consumer |->
             IF next_buffer[c] = full[i] THEN Succ(full[i]) ELSE next_buffer[c]]
        /\ readers' = [readers EXCEPT ![full[i]] = 0]
        /\ dequeued' = [dequeued EXCEPT ![full[i]] = 0]
        /\ GetBuffer(p, full[i])
  <2>1. PICK i \in DOMAIN full :
          /\ Recyclable(full[i])
          /\ full' = RemoveAt(full, i)
          /\ next_buffer' = [c \in Consumer |->
               IF next_buffer[c] = full[i] /\ c \in consumers THEN Succ(full[i])
               ELSE next_buffer[c]]
          /\ readers' = [readers EXCEPT ![full[i]] = 0]
          /\ dequeued' = [dequeued EXCEPT ![full[i]] = 0]
          /\ GetBuffer(p, full[i])
    BY Zenon DEF Unlink
  <2>2. i \in 1 .. Len(full)
    BY <1>2
  <2>3. next_buffer' = [c \in Consumer |->
          IF next_buffer[c] = full[i] THEN Succ(full[i]) ELSE next_buffer[c]]
    BY <1>2, <2>1, Zenon
  <2> QED
    BY <2>1, <2>2, <2>3, Zenon
<1> DEFINE b == full[i]
<1>4. /\ full' \in Seq(Buffer) /\ IsInjective(full') /\ Range(full') = Range(full) \ {b}
      /\ b \in Range(full) /\ b \in Buffer
  BY <1>2, <1>3, RemoveAtDistinct, RangeIndex
<1>5. /\ hand' = [hand EXCEPT ![p] = @ \cup {b}] /\ hand \in [Thread -> SUBSET Buffer]
      /\ pc' = [pc EXCEPT ![p] = "run"] /\ pc \in [Thread -> Pc]
  BY <1>2, <1>3 DEF GetBuffer, TypeOK
<1>6. ~eof[b] /\ enqueued[b] >= dequeued[b]
  BY <1>3 DEF Recyclable
<1>7. \A c \in Consumer : b \notin hand[c]
  <2> DEFINE H == {c \in Consumer : b \in hand[c]}
  <2>1. IsFiniteSet(H)
    BY FifoAssumption, FS_Subset
  <2>2. Cardinality(H) \in Nat /\ (Cardinality(H) = 0 <=> H = {})
    BY <2>1, FS_CardinalityType, FS_EmptySet
  <2>3. dequeued[b] - enqueued[b] = Cardinality(H)
    BY <1>4 DEF FifoInv, QueueInv, Counted
  <2>4. dequeued[b] \in Nat /\ enqueued[b] \in Nat
    BY <1>2, <1>4 DEF TypeOK
  <2> HIDE DEF H
  <2>5. H = {}
    BY <1>6, <2>2, <2>3, <2>4
  <2> QED
    BY <2>5 DEF H
<1>8. \A c \in Consumer : hand'[c] = hand[c] /\ recent'[c] = recent[c]
  BY <1>1, <1>5 DEF ProducerWaits
<1> HIDE DEF b
<1>9. Succ(b) \in Buffer \cup {NULL} /\ Succ(b) # b /\ (Succ(b) # NULL => Succ(b) \in Range(full))
  <2>1. Succ(b) = IF i < Len(full) THEN full[i + 1] ELSE NULL
    BY <1>2, SuccAt, SuccIs DEF b
  <2>2. CASE i < Len(full)
    <3>1. i + 1 \in 1 .. Len(full) /\ i \in DOMAIN full /\ i + 1 \in DOMAIN full /\ i + 1 # i
      BY <2>2
    <3>2. full[i + 1] # full[i] /\ full[i + 1] \in Range(full) /\ full[i + 1] \in Buffer
      BY <1>2, <3>1 DEF IsInjective, Range
    <3> QED
      BY <2>1, <2>2, <3>2 DEF b
  <2>3. CASE ~(i < Len(full))
    BY <1>2, <1>4, <2>1, <2>3
  <2> QED
    BY <2>2, <2>3
<1>10. TypeOK'
  <2>1. next_buffer' \in [Consumer -> Buffer \cup {NULL}]
    BY <1>2, <1>3, <1>9 DEF b
  <2>2. /\ hand' \in [Thread -> SUBSET Buffer] /\ pc' \in [Thread -> Pc]
        /\ readers' \in [Buffer -> Nat] /\ dequeued' \in [Buffer -> Nat]
    BY <1>2, <1>3, <1>4, <1>5 DEF TypeOK, Pc, b
  <2> QED
    BY <1>2, <1>4, <2>1, <2>2 DEF TypeOK, ProducerWaits, listVars
<1>11. OnePlace'
  BY <1>1, <1>2, <1>4, <1>5, <1>7, <1>8, <1>10 DEF OnePlace, ProducerWaits
<1>12. SlotOK'
  <2>1. \A t \in Thread : slot[t] # b
    BY <1>1, <1>2, <1>4 DEF OnePlace, TypeOK
  <2>2. readers' = [readers EXCEPT ![b] = 0] /\ dequeued' = [dequeued EXCEPT ![b] = 0]
    BY <1>3 DEF b
  <2> QED
    BY <1>1, <1>2, <1>4, <1>5, <2>1, <2>2 DEF FifoInv, SlotOK, TypeOK, ProducerWaits
<1>13. ASSUME NEW c \in Consumer
       PROVE  Ahead(c)' = RemoveFirst(Ahead(c), b)
  <2>1. Ahead(c)' = From(full', next_buffer'[c]) /\ Ahead(c) = From(full, next_buffer[c])
    BY AheadFrom DEF Ahead, From
  <2>2. next_buffer'[c] = IF next_buffer[c] = b THEN Succ(b) ELSE next_buffer[c]
    BY <1>3 DEF b
  <2>3. CASE next_buffer[c] # b
    BY <1>2, <1>3, <2>1, <2>2, <2>3, FromRemove DEF b
  <2>4. CASE next_buffer[c] = b
    <3> DEFINE f == From(full, b)
               g == From(full, Succ(b))
    <3>1. f = <<b>> \o g /\ b \notin Range(g) /\ Tail(f) = g
      BY <1>2, <1>4, AheadNext, SuccIs
    <3>2. f \in Seq(Buffer) /\ IsInjective(f) /\ g \in Seq(Buffer) /\ IsInjective(g)
      BY <1>2, FromDistinct
    <3>3. From(full', Succ(b)) = RemoveFirst(g, b)
      BY <1>2, <1>3, <1>9, FromRemove DEF b
    <3> HIDE DEF f, g
    <3>4. RemoveFirst(g, b) = g
      BY <3>1, <3>2, RemoveFirstNot
    <3>5. f[1] = b /\ 1 \in 1 .. Len(f)
      BY <1>4, <3>1, <3>2
    <3>6. RemoveFirst(f, b) = RemoveAt(f, 1)
      BY <3>2, <3>5, RemoveFirstAt
    <3>7. RemoveAt(f, 1) = g
      <4>1. /\ RemoveAt(f, 1) \in Seq(Buffer) /\ Len(RemoveAt(f, 1)) = Len(f) - 1
            /\ \A k \in 1 .. Len(f) - 1 :
                 RemoveAt(f, 1)[k] = IF k < 1 THEN f[k] ELSE f[k + 1]
        BY <3>2, <3>5, RemoveAtDistinct
      <4>2. Len(g) = Len(f) - 1 /\ \A k \in 1 .. Len(f) - 1 : g[k] = f[k + 1]
        BY <3>1, <3>2, <3>5
      <4>3. ASSUME NEW k \in 1 .. Len(f) - 1
            PROVE  RemoveAt(f, 1)[k] = g[k]
        <5>1. ~(k < 1)
          OBVIOUS
        <5> QED
          BY <4>1, <4>2, <5>1, Zenon
      <4> HIDE DEF f, g
      <4> QED
        BY <3>2, <4>1, <4>2, <4>3, SameSeq
    <3> QED
      BY <2>1, <2>2, <2>4, <3>3, <3>4, <3>6, <3>7 DEF f, g
  <2> QED
    BY <2>3, <2>4
<1>14. \A c \in Consumer : Range(Ahead(c)') = Range(Ahead(c)) \ {b}
  BY <1>2, <1>13, AheadFrom, FromDistinct, RemoveFirstRange
<1>15. NextOnFull'
  <2> SUFFICES ASSUME NEW c \in Consumer
               PROVE  /\ next_buffer'[c] # NULL => next_buffer'[c] \in Range(full')
                      /\ recent[c] # NULL => Succ(recent[c])' = next_buffer'[c]
    BY <1>8 DEF NextOnFull
  <2>1. next_buffer'[c] = IF next_buffer[c] = b THEN Succ(b) ELSE next_buffer[c]
    BY <1>3 DEF b
  <2>2. next_buffer[c] # NULL => next_buffer[c] \in Range(full)
    BY DEF FifoInv, QueueInv, NextOnFull
  <2>3. ASSUME recent[c] # NULL
        PROVE  Succ(recent[c])' = next_buffer'[c]
    <3>1. recent[c] \in hand[c] /\ Succ(recent[c]) = next_buffer[c]
      BY <2>3 DEF FifoInv, QueueInv, RecentHeld, NextOnFull
    <3>2. recent[c] \in Range(full) /\ recent[c] # b
      BY <1>2, <1>7, <3>1 DEF OnePlace
    <3> DEFINE x == recent[c]
    <3>3. SuccIn(full', x, NULL) = IF SuccIn(full, x, NULL) = b THEN SuccIn(full, b, NULL)
                                   ELSE SuccIn(full, x, NULL)
      BY <1>2, <1>3, <3>2, SuccRemove DEF b
    <3>4. Succ(recent[c])' = SuccIn(full', x, NULL)
      BY <1>8 DEF Succ, SuccIn
    <3> QED
      BY <2>1, <3>1, <3>3, <3>4, SuccIs
  <2> QED
    BY <1>4, <1>9, <2>1, <2>2, <2>3
<1>16. Counted'
  <2> SUFFICES ASSUME NEW x \in Range(full) \ {b}
               PROVE  /\ readers'[x] - dequeued'[x]
                           = Cardinality({c \in Consumer : x \in Range(Ahead(c)')})
                      /\ dequeued'[x] - enqueued[x]
                           = Cardinality({c \in Consumer : x \in hand'[c]})
                      /\ enqueued[x] < readers'[x]
    BY <1>4 DEF Counted, ProducerWaits
  <2>1. readers'[x] = readers[x] /\ dequeued'[x] = dequeued[x]
    BY <1>2, <1>3 DEF TypeOK, b
  <2>2. {c \in Consumer : x \in Range(Ahead(c)')} = {c \in Consumer : x \in Range(Ahead(c))}
    BY <1>14
  <2>3. {c \in Consumer : x \in hand'[c]} = {c \in Consumer : x \in hand[c]}
    BY <1>8
  <2> QED
    BY <2>1, <2>2, <2>3 DEF FifoInv, QueueInv, Counted
<1>17. HandBehind' /\ RecentHeld'
  BY <1>8, <1>14 DEF FifoInv, QueueInv, HandBehind, RecentHeld
<1>18. Stream!Drop(b)
  <2>1. \A c \in Consumer : Ahead(c)' = Stream!RemoveFirst(Ahead(c), b)
    BY <1>13, StreamRemoveFirst
  <2> QED
    BY <1>7, <1>8, <2>1 DEF Stream!Drop
<1>19. EofKept
  BY <1>6, <1>14 DEF EofKept
<1> QED
  BY <1>2, <1>4, <1>11, <1>12, <1>15, <1>16, <1>17, <1>18, <1>19
     DEF GoodStep, FifoInv, QueueInv, ProducerWaits, listVars, Stream!Next

\* A producer looks for an empty buffer, gets one, or takes one away, or waits.
LEMMA LookStep ==
  ASSUME FifoInv, NEW p \in Producer, slot[p] = NULL,
         NEW w \in Seq(Producer), Look(p, w) \/ Sleep(p, w), ProducerWaits
  PROVE  GoodStep
<1>1. CASE Sleep(p, w)
  <2>1. waiting' \in Seq(Producer)
    BY <1>1 DEF Sleep
  <2> QED
    BY <1>1, <2>1, WaitChanges DEF Sleep
<1>2. ASSUME NEW b \in empty, empty' = empty \ {b}, GetBuffer(p, b), waiting' = w,
             UNCHANGED <<full, next_buffer, readers, dequeued>>
      PROVE  GoodStep
  BY <1>2, EmptyTaken
<1>3. CASE Unlink(p) /\ waiting' = w /\ UNCHANGED empty
  BY <1>3, UnlinkStep
<1>4. CASE /\ pc' = [pc EXCEPT ![p] = "colock"] /\ waiting' = w
           /\ UNCHANGED <<full, empty, next_buffer, readers, dequeued, hand>>
  BY <1>4, WaitChanges
<1> QED
  BY <1>1, <1>2, <1>3, <1>4 DEF Look

\* wait_empty_buffer and recv_empty_buffer.
LEMMA WaitEmptySteps ==
  ASSUME FifoInv, NEW p \in Producer,
         \/ WaitEmpty(p) \/ CoLocked(p) \/ WakeProducer(p) \/ WaitEmptyTimeout(p)
         \/ RecvEmpty(p)
  PROVE  GoodStep
<1>1. waiting \in Seq(Producer) /\ p \in Thread
  BY DEF FifoInv, OnePlace, TypeOK, Thread
<1>2. pc[p] \notin {"send", "return"} /\ ProducerWaits
  BY DEF WaitEmpty, CoLocked, WakeProducer, WaitEmptyTimeout, RecvEmpty
<1>3. slot[p] = NULL
  BY <1>1, <1>2 DEF FifoInv, SlotOK
<1>4. CASE WaitEmpty(p)
  BY <1>1, <1>2, <1>3, <1>4, LookStep DEF WaitEmpty
<1>5. CASE CoLocked(p)
  <2>1. CASE Unlink(p) /\ UNCHANGED <<empty, waiting>>
    BY <1>1, <1>2, <1>3, <2>1, UnlinkStep
  <2>2. CASE Sleep(p, waiting)
    BY <1>1, <1>2, <1>3, <2>2, LookStep
  <2> QED
    BY <1>5, <2>1, <2>2 DEF CoLocked
<1>6. CASE WakeProducer(p)
  <2>1. CASE waiting # <<>> /\ Look(p, Tail(waiting))
    <3>1. Tail(waiting) \in Seq(Producer)
      BY <1>1, <2>1
    <3> QED
      BY <1>2, <1>3, <2>1, <3>1, LookStep
  <2>2. CASE /\ pc' = [pc EXCEPT ![p] = "asleep"]
             /\ UNCHANGED <<full, empty, waiting, next_buffer, readers, dequeued, hand>>
    BY <1>1, <1>2, <1>3, <2>2, WaitChanges
  <2> QED
    BY <1>6, <2>1, <2>2 DEF WakeProducer
<1>7. CASE WaitEmptyTimeout(p)
  <2>1. waiting' \in Seq(Producer)
    BY <1>1, <1>7 DEF WaitEmptyTimeout
  <2> QED
    BY <1>2, <1>3, <1>7, <2>1, WaitChanges DEF WaitEmptyTimeout
<1>8. CASE RecvEmpty(p)
  <2>1. PICK b \in empty : empty' = empty \ {b} /\ GetBuffer(p, b)
    BY <1>8 DEF RecvEmpty
  <2>2. waiting' \in Seq(Producer) /\ UNCHANGED <<full, next_buffer, readers, dequeued>>
    BY <1>1, <1>8 DEF RecvEmpty
  <2> QED
    BY <1>2, <1>3, <2>1, <2>2, EmptyTaken
<1> QED
  BY <1>4, <1>5, <1>6, <1>7, <1>8

\* A buffer that is on neither queue: what happens to its counters, no consumer
\* is concerned with.
LEMMA UngetEmptyStep ==
  ASSUME FifoInv, NEW p \in Producer, NEW b \in Buffer, UngetEmpty(p, b)
  PROVE  GoodStep
<1>1. p \in Thread /\ p \notin Consumer /\ Consumer \subseteq Thread /\ Producer \subseteq Thread
  BY FifoAssumption DEF Thread
<1>2. /\ TypeOK /\ OnePlace /\ b \in hand[p]
      /\ hand' = [hand EXCEPT ![p] = @ \ {b}] /\ hand \in [Thread -> SUBSET Buffer]
      /\ dequeued' = [dequeued EXCEPT ![b] = 0] /\ dequeued \in [Buffer -> Nat]
      /\ empty' = empty \cup {b}
  BY DEF FifoInv, OnePlace, UngetEmpty, TypeOK
<1>3. TypeOK'
  BY <1>1, <1>2 DEF TypeOK, UngetEmpty, ProducerWaits, listVars
<1>4. b \notin Range(full) /\ \A t \in Thread : slot[t] # NULL => slot[t] # b
  BY <1>1, <1>2 DEF OnePlace
<1>5. OnePlace'
  BY <1>1, <1>2, <1>3, <1>4 DEF OnePlace, UngetEmpty, ProducerWaits
<1>6. SlotOK'
  BY <1>2, <1>4 DEF FifoInv, SlotOK, UngetEmpty, ProducerWaits, TypeOK
<1>7. \A c \in Consumer : hand'[c] = hand[c]
  BY <1>1, <1>2
<1>8. \A x \in Range(full) : dequeued'[x] = dequeued[x]
  BY <1>2, <1>4
<1>9. QueueInv' /\ [Stream!Next]_(Stream!vars) /\ EofKept
  BY <1>7, <1>8, QuietStep DEF FifoInv, UngetEmpty, ProducerWaits
<1> QED
  BY <1>5, <1>6, <1>9 DEF GoodStep, FifoInv, UngetEmpty, ProducerWaits, listVars

\* send_full_buffer: the frame is on its way, or the end of the stream is
\* recorded.
LEMMA SendSteps ==
  ASSUME FifoInv, NEW p \in Producer, NEW b \in Buffer, SendData(p, b) \/ SendEof(p, b)
  PROVE  GoodStep
<1>1. p \in Thread /\ p \notin Consumer /\ Consumer \subseteq Thread /\ Producer \subseteq Thread
  BY FifoAssumption DEF Thread
<1>2. /\ TypeOK /\ OnePlace /\ NULL \notin Buffer
      /\ b \in hand[p] /\ pc[p] = "run" /\ slot[p] = NULL
      /\ hand' = [hand EXCEPT ![p] = @ \ {b}]
      /\ dequeued' = [dequeued EXCEPT ![b] = 0] /\ enqueued' = [enqueued EXCEPT ![b] = 0]
      /\ readers' \in {[readers EXCEPT ![b] = 0], [readers EXCEPT ![b] = 1]}
      /\ UNCHANGED <<full, listVars, waiting, next_buffer, recent>>
  BY <1>1, FifoAssumption DEF FifoInv, OnePlace, SlotOK, SendData, SendEof
<1>3. \/ /\ slot' = [slot EXCEPT ![p] = b] /\ pc' = [pc EXCEPT ![p] = "send"] /\ empty' = empty
      \/ /\ slot' = slot /\ pc' = Broadcast(Producer, pc) /\ empty' = empty \cup {b}
  BY DEF SendData, SendEof
<1>4. /\ hand \in [Thread -> SUBSET Buffer] /\ slot \in [Thread -> Buffer \cup {NULL}]
      /\ pc \in [Thread -> Pc] /\ readers \in [Buffer -> Nat]
      /\ dequeued \in [Buffer -> Nat] /\ enqueued \in [Buffer -> Nat] /\ empty \subseteq Buffer
  BY <1>2 DEF TypeOK
<1>5. TypeOK'
  <2>1. /\ hand' \in [Thread -> SUBSET Buffer] /\ slot' \in [Thread -> Buffer \cup {NULL}]
        /\ dequeued' \in [Buffer -> Nat] /\ enqueued' \in [Buffer -> Nat]
        /\ readers' \in [Buffer -> Nat] /\ empty' \subseteq Buffer
    BY <1>1, <1>2, <1>3, <1>4
  <2>2. pc' \in [Thread -> Pc]
    BY <1>1, <1>3, <1>4 DEF Pc, Broadcast
  <2>3. /\ eof' \in [Buffer -> BOOLEAN] /\ eof_sent' \in [Producer -> BOOLEAN]
        /\ eof_count' \in Nat
    <3>1. /\ eof \in [Buffer -> BOOLEAN] /\ eof_sent \in [Producer -> BOOLEAN]
          /\ eof_count \in Nat
      BY <1>2 DEF TypeOK
    <3>2. eof' \in [Buffer -> BOOLEAN] /\ eof_sent' \in [Producer -> BOOLEAN]
      BY <3>1 DEF SendData, SendEof
    <3>3. eof_count' = eof_count \/ eof_count' = eof_count + (IF eof_sent[p] THEN 0 ELSE 1)
      BY DEF SendData, SendEof
    <3> QED
      BY <3>1, <3>2, <3>3
  <2> QED
    BY <1>2, <2>1, <2>2, <2>3 DEF TypeOK, listVars
<1>6. b \notin Range(full) \cup empty /\ \A t \in Thread : slot[t] # b
  BY <1>1, <1>2 DEF OnePlace
<1>7. OnePlace'
  <2>1. CASE slot' = [slot EXCEPT ![p] = b] /\ empty' = empty
    <3>1. \A t \in Thread : /\ slot'[t] = IF t = p THEN b ELSE slot[t]
                            /\ hand'[t] = IF t = p THEN hand[p] \ {b} ELSE hand[t]
      BY <1>2, <1>4, <2>1
    <3>2. \A t \in Thread : t # p => b \notin hand[t]
      BY <1>1, <1>2, <1>6 DEF OnePlace, Thread
    <3>3. \A t, u \in Thread :
            /\ t # u /\ t \in Producer /\ u \in Producer => hand'[t] \cap hand'[u] = {}
            /\ slot'[t] # NULL => slot'[t] \notin Range(full) \cup empty \cup hand'[u]
            /\ t # u /\ slot'[t] # NULL => slot'[t] # slot'[u]
      BY <1>2, <1>6, <3>1, <3>2 DEF OnePlace
    <3>4. /\ \A t \in Producer : hand'[t] \cap (Range(full) \cup empty) = {}
          /\ \A c \in Consumer : hand'[c] \subseteq Range(full)
      BY <1>1, <1>2, <3>1 DEF OnePlace
    <3> QED
      BY <1>2, <1>5, <2>1, <3>3, <3>4 DEF OnePlace
  <2>2. CASE slot' = slot /\ empty' = empty \cup {b}
    BY <1>1, <1>2, <1>4, <1>5, <1>6, <2>2 DEF OnePlace
  <2> QED
    BY <1>3, <2>1, <2>2
<1>8. SlotOK'
  <2>1. CASE slot' = [slot EXCEPT ![p] = b] /\ pc' = [pc EXCEPT ![p] = "send"]
    BY <1>1, <1>2, <1>4, <1>6, <2>1 DEF FifoInv, SlotOK
  <2>2. CASE slot' = slot /\ pc' = Broadcast(Producer, pc)
    BY <1>1, <1>2, <1>4, <1>6, <2>2 DEF FifoInv, SlotOK, Broadcast
  <2> QED
    BY <1>3, <2>1, <2>2
<1>9. \A c \in Consumer : hand'[c] = hand[c]
  BY <1>1, <1>2, <1>4
<1>10. \A x \in Range(full) :
         readers'[x] = readers[x] /\ dequeued'[x] = dequeued[x] /\ enqueued'[x] = enqueued[x]
  <2>1. ASSUME NEW x \in Range(full)
        PROVE  readers'[x] = readers[x] /\ dequeued'[x] = dequeued[x] /\ enqueued'[x] = enqueued[x]
    <3>1. x # b /\ x \in Buffer
      BY <1>2, <1>6 DEF TypeOK, Range
    <3> QED
      BY <1>2, <1>4, <3>1
  <2> QED
    BY <2>1
<1>11. QueueInv' /\ [Stream!Next]_(Stream!vars) /\ EofKept
  BY <1>2, <1>9, <1>10, QuietStep DEF FifoInv
<1> QED
  BY <1>2, <1>7, <1>8, <1>11 DEF GoodStep, FifoInv, listVars

\* Without consumers the buffer goes straight back, ...
LEMMA LoopBackStep ==
  ASSUME FifoInv, NEW p \in Producer, LoopBack(p)
  PROVE  GoodStep
<1>1. p \in Thread
  BY DEF Thread
<1>2. /\ TypeOK /\ OnePlace /\ pc[p] = "send" /\ slot[p] # NULL
      /\ readers' = [readers EXCEPT ![slot[p]] = 0]
      /\ pc' = [pc EXCEPT ![p] = "return"]
      /\ UNCHANGED <<full, empty, listVars, waiting, eof_count, dequeued, enqueued, eof,
                     eof_sent, next_buffer, hand, recent, slot>>
  BY <1>1 DEF FifoInv, OnePlace, SlotOK, LoopBack
<1>3. TypeOK'
  BY <1>1, <1>2 DEF TypeOK, Pc, listVars
<1>4. OnePlace'
  BY <1>2, <1>3 DEF OnePlace
<1>5. SlotOK'
  BY <1>1, <1>2 DEF FifoInv, SlotOK, TypeOK
<1>6. \A x \in Range(full) : readers'[x] = readers[x]
  BY <1>1, <1>2 DEF OnePlace, TypeOK
<1>7. QueueInv' /\ [Stream!Next]_(Stream!vars) /\ EofKept
  BY <1>2, <1>6, QuietStep DEF FifoInv
<1> QED
  BY <1>2, <1>4, <1>5, <1>7 DEF GoodStep, FifoInv, listVars

\* ... to the empty queue, as all buffers do in the end.
LEMMA ReturnStep ==
  ASSUME FifoInv, NEW t \in Thread, ReturnEmpty(t)
  PROVE  GoodStep
<1> DEFINE b == slot[t]
<1>1. /\ TypeOK /\ OnePlace /\ b \in Buffer /\ b # NULL /\ NULL \notin Buffer
      /\ pc[t] = "return"
      /\ dequeued' = [dequeued EXCEPT ![b] = 0] /\ readers' = [readers EXCEPT ![b] = 0]
      /\ empty' = empty \cup {b}
      /\ slot' = [slot EXCEPT ![t] = NULL]
      /\ pc' = Broadcast(Producer, [pc EXCEPT ![t] = "run"])
      /\ UNCHANGED <<full, listVars, waiting, eof_count, enqueued, eof, eof_sent,
                     next_buffer, hand, recent>>
  BY FifoAssumption DEF FifoInv, OnePlace, SlotOK, ReturnEmpty, TypeOK
<1>2. /\ b \notin Range(full) \cup empty
      /\ \A u \in Thread : b \notin hand[u] /\ (u # t => slot[u] # b)
  BY <1>1 DEF OnePlace
<1>3. /\ slot \in [Thread -> Buffer \cup {NULL}] /\ pc \in [Thread -> Pc]
      /\ readers \in [Buffer -> Nat] /\ dequeued \in [Buffer -> Nat] /\ empty \subseteq Buffer
  BY <1>1 DEF TypeOK
<1> HIDE DEF b
<1>4. TypeOK'
  <2>1. /\ slot' \in [Thread -> Buffer \cup {NULL}] /\ readers' \in [Buffer -> Nat]
        /\ dequeued' \in [Buffer -> Nat] /\ empty' \subseteq Buffer
    BY <1>1, <1>3
  <2>2. pc' \in [Thread -> Pc]
    BY <1>1, <1>3 DEF Pc, Broadcast
  <2> QED
    BY <1>1, <2>1, <2>2 DEF TypeOK, listVars
<1>5. OnePlace'
  BY <1>1, <1>2, <1>3, <1>4, FifoAssumption DEF OnePlace, Thread
<1>6. SlotOK'
  BY <1>1, <1>2, <1>3 DEF FifoInv, SlotOK, Broadcast
<1>7. \A x \in Range(full) : readers'[x] = readers[x] /\ dequeued'[x] = dequeued[x]
  BY <1>1, <1>2, <1>3
<1>8. QueueInv' /\ [Stream!Next]_(Stream!vars) /\ EofKept
  BY <1>1, <1>7, QuietStep DEF FifoInv
<1> QED
  BY <1>1, <1>5, <1>6, <1>8 DEF GoodStep, FifoInv, listVars

-----------------------------------------------------------------------------
\* A frame is published to all consumers.
LEMMA EnqueueStep ==
  ASSUME FifoInv, NEW p \in Producer, Enqueue(p)
  PROVE  GoodStep
<1> DEFINE b == slot[p]
<1>1. p \in Thread /\ p \notin Consumer /\ Consumer \subseteq Thread /\ Producer \subseteq Thread
  BY FifoAssumption DEF Thread
<1>2. /\ TypeOK /\ OnePlace /\ consumers = Consumer /\ consumers # {} /\ NULL \notin Buffer
      /\ b \in Buffer /\ b # NULL /\ pc[p] = "send" /\ dequeued[b] = 0 /\ enqueued[b] = 0
      /\ readers' = [readers EXCEPT ![b] = Cardinality(Consumer)]
      /\ next_buffer' = [c \in Consumer |-> IF next_buffer[c] = NULL THEN b ELSE next_buffer[c]]
      /\ full' = Append(full, b)
      /\ slot' = [slot EXCEPT ![p] = NULL]
      /\ pc' = Broadcast(Consumer, [pc EXCEPT ![p] = "run"])
      /\ UNCHANGED <<empty, listVars, waiting, eof_count, dequeued, enqueued, eof, eof_sent,
                     hand, recent>>
  <2>1. b \in Buffer /\ b # NULL /\ dequeued[b] = 0 /\ enqueued[b] = 0
    BY <1>1 DEF FifoInv, OnePlace, SlotOK, Enqueue, TypeOK
  <2>2. next_buffer' = [c \in Consumer |->
          IF c \in consumers /\ next_buffer[c] = NULL THEN b ELSE next_buffer[c]]
    BY DEF Enqueue
  <2>3. consumers = Consumer
    BY DEF FifoInv
  <2>4. next_buffer' = [c \in Consumer |-> IF next_buffer[c] = NULL THEN b ELSE next_buffer[c]]
    BY <2>2, <2>3, Zenon
  <2> QED
    BY <2>1, <2>3, <2>4, FifoAssumption DEF FifoInv, OnePlace, Enqueue
<1>3. /\ b \notin Range(full) \cup empty
      /\ \A t \in Thread : b \notin hand[t] /\ (t # p => slot[t] # b)
  BY <1>1, <1>2 DEF OnePlace
<1>4. /\ full \in Seq(Buffer) /\ IsInjective(full)
      /\ next_buffer \in [Consumer -> Buffer \cup {NULL}]
      /\ slot \in [Thread -> Buffer \cup {NULL}] /\ pc \in [Thread -> Pc]
      /\ readers \in [Buffer -> Nat]
  BY <1>2 DEF OnePlace, TypeOK
<1> HIDE DEF b
<1>5. /\ full' \in Seq(Buffer) /\ IsInjective(full') /\ Range(full') = Range(full) \cup {b}
  BY <1>2, <1>3, <1>4, AppendDistinct
<1>6. Cardinality(Consumer) \in Nat /\ Cardinality(Consumer) > 0
  BY <1>2, FifoAssumption, FS_CardinalityType, FS_EmptySet
<1>7. TypeOK'
  <2>1. /\ next_buffer' \in [Consumer -> Buffer \cup {NULL}]
        /\ slot' \in [Thread -> Buffer \cup {NULL}] /\ readers' \in [Buffer -> Nat]
    BY <1>2, <1>4, <1>6
  <2>2. pc' \in [Thread -> Pc]
    BY <1>1, <1>2, <1>4 DEF Pc, Broadcast
  <2> QED
    BY <1>2, <1>5, <2>1, <2>2 DEF TypeOK, listVars
<1>8. OnePlace'
  BY <1>1, <1>2, <1>3, <1>4, <1>5, <1>7 DEF OnePlace
<1>9. SlotOK'
  BY <1>1, <1>2, <1>3, <1>4 DEF FifoInv, SlotOK, Broadcast
<1>10. ASSUME NEW c \in Consumer
       PROVE  Ahead(c)' = Append(Ahead(c), b) /\ Range(Ahead(c)') = Range(Ahead(c)) \cup {b}
              /\ b \notin Range(Ahead(c))
  <2>1. Ahead(c)' = From(full', next_buffer'[c]) /\ Ahead(c) = From(full, next_buffer[c])
    BY AheadFrom DEF Ahead, From
  <2>2. Ahead(c) \in Seq(Buffer) /\ IsInjective(Ahead(c)) /\ Range(Ahead(c)) \subseteq Range(full)
    BY <1>4, <2>1, FromRange, FromDistinct
  <2>3. Ahead(c)' = Append(Ahead(c), b)
    <3>1. CASE next_buffer[c] = NULL
      <4>1. Ahead(c) = <<>>
        BY <1>4, <2>1, <3>1, NullAhead
      <4>2. next_buffer'[c] = b
        BY <1>2, <3>1
      <4>3. From(full', b) = <<b>>
        BY <1>2, <1>3, <1>4, FromAppend
      <4> QED
        BY <2>1, <4>1, <4>2, <4>3
    <3>2. CASE next_buffer[c] # NULL
      <4>1. next_buffer[c] \in Range(full) /\ next_buffer'[c] = next_buffer[c]
        BY <1>2, <3>2 DEF FifoInv, QueueInv, NextOnFull
      <4> QED
        BY <1>2, <1>3, <1>4, <2>1, <4>1, FromAppend
    <3> QED
      BY <3>1, <3>2
  <2>4. b \notin Range(Ahead(c))
    BY <1>3, <2>2
  <2>5. Range(Append(Ahead(c), b)) = Range(Ahead(c)) \cup {b}
    BY <1>2, <2>2, <2>4, AppendDistinct
  <2> QED
    BY <2>3, <2>4, <2>5
<1>11. NextOnFull'
  <2> SUFFICES ASSUME NEW c \in Consumer
               PROVE  /\ next_buffer'[c] # NULL => next_buffer'[c] \in Range(full')
                      /\ recent[c] # NULL => Succ(recent[c])' = next_buffer'[c]
    BY <1>2 DEF NextOnFull
  <2>1. next_buffer'[c] = IF next_buffer[c] = NULL THEN b ELSE next_buffer[c]
    BY <1>2
  <2>2. next_buffer[c] # NULL => next_buffer[c] \in Range(full)
    BY DEF FifoInv, QueueInv, NextOnFull
  <2>3. ASSUME recent[c] # NULL
        PROVE  Succ(recent[c])' = next_buffer'[c]
    <3> DEFINE x == recent[c]
    <3>1. x \in hand[c] /\ Succ(x) = next_buffer[c]
      BY <2>3 DEF FifoInv, QueueInv, RecentHeld, NextOnFull
    <3>2. x \in Range(full)
      BY <1>2, <3>1 DEF OnePlace
    <3>3. SuccIn(full', x, NULL) = IF SuccIn(full, x, NULL) = NULL THEN b
                                   ELSE SuccIn(full, x, NULL)
      BY <1>2, <1>3, <1>4, <3>2, SuccAppend
    <3>4. Succ(x)' = SuccIn(full', x, NULL)
      BY <1>2 DEF Succ, SuccIn
    <3> QED
      BY <2>1, <3>1, <3>3, <3>4, SuccIs
  <2> QED
    BY <1>5, <2>1, <2>2, <2>3
<1>12. Counted'
  <2> SUFFICES ASSUME NEW x \in Range(full) \cup {b}
               PROVE  /\ readers'[x] - dequeued[x]
                           = Cardinality({c \in Consumer : x \in Range(Ahead(c)')})
                      /\ dequeued[x] - enqueued[x]
                           = Cardinality({c \in Consumer : x \in hand[c]})
                      /\ enqueued[x] < readers'[x]
    BY <1>2, <1>5 DEF Counted
  <2>1. CASE x = b
    <3>1. {c \in Consumer : x \in Range(Ahead(c)')} = Consumer
      BY <1>10, <2>1
    <3>2. {c \in Consumer : x \in hand[c]} = {}
      BY <1>1, <1>3, <2>1
    <3>3. readers'[x] = Cardinality(Consumer)
      BY <1>2, <1>4, <2>1
    <3>4. Cardinality({c \in Consumer : x \in hand[c]}) = 0
      BY <3>2, FS_EmptySet
    <3>5. dequeued[x] = 0 /\ enqueued[x] = 0
      BY <1>2, <2>1
    <3> QED
      <4>1. Cardinality({c \in Consumer : x \in Range(Ahead(c)')}) = Cardinality(Consumer)
        BY <3>1, Zenon
      <4> QED
        BY <1>6, <3>3, <3>4, <3>5, <4>1
  <2>2. CASE x # b
    <3>1. {c \in Consumer : x \in Range(Ahead(c)')} = {c \in Consumer : x \in Range(Ahead(c))}
      BY <1>10, <2>2
    <3>2. readers'[x] = readers[x] /\ x \in Range(full)
      BY <1>2, <1>4, <2>2 DEF Range
    <3> QED
      BY <3>1, <3>2 DEF FifoInv, QueueInv, Counted
  <2> QED
    BY <2>1, <2>2
<1>13. HandBehind' /\ RecentHeld'
  BY <1>1, <1>2, <1>3, <1>10 DEF FifoInv, QueueInv, HandBehind, RecentHeld
<1>14. Stream!Publish(b, Consumer)
  <2>1. Stream!Idle(b)
    BY <1>1, <1>3, <1>10 DEF Stream!Idle, Stream!Range, Range
  <2> QED
    BY <1>2, <1>10, <2>1 DEF Stream!Publish
<1>15. EofKept
  BY <1>10 DEF EofKept
<1> QED
  BY <1>2, <1>8, <1>9, <1>11, <1>12, <1>13, <1>14, <1>15
     DEF GoodStep, FifoInv, QueueInv, listVars, Stream!Next

\* A set of consumers and its members one by one.
LEMMA OneMore ==
  ASSUME NEW S \in SUBSET Consumer, NEW c \in Consumer, c \notin S
  PROVE  Cardinality(S) \in Nat /\ Cardinality(S \cup {c}) = Cardinality(S) + 1
<1>1. IsFiniteSet(S)
  BY FifoAssumption, FS_Subset
<1> QED
  BY <1>1, FS_CardinalityType, FS_AddElement

\* A consumer takes its next buffer.
LEMMA TakeFullStep ==
  ASSUME FifoInv, NEW c \in Consumer, TakeFull(c)
  PROVE  GoodStep
<1> DEFINE b == next_buffer[c]
<1>1. c \in Thread /\ c \notin Producer /\ Consumer \subseteq Thread
  BY FifoAssumption DEF Thread
<1>2. /\ TypeOK /\ OnePlace /\ consumers = Consumer /\ NULL \notin Buffer
      /\ b \in Buffer /\ b \in Range(full) /\ pc[c] \in {"run", "awake"}
      /\ next_buffer' = [next_buffer EXCEPT ![c] = Succ(b)]
      /\ dequeued' = [dequeued EXCEPT ![b] = @ + 1]
      /\ hand' = [hand EXCEPT ![c] = @ \cup {b}]
      /\ recent' = [recent EXCEPT ![c] = b]
      /\ pc' = [pc EXCEPT ![c] = "run"]
      /\ UNCHANGED <<full, empty, listVars, waiting, eof_count, readers, enqueued, eof,
                     eof_sent, slot>>
  BY FifoAssumption
     DEF FifoInv, QueueInv, OnePlace, NextOnFull, TakeFull, ConsumerOnly, TypeOK
<1>3. /\ full \in Seq(Buffer) /\ IsInjective(full)
      /\ next_buffer \in [Consumer -> Buffer \cup {NULL}]
      /\ hand \in [Thread -> SUBSET Buffer] /\ pc \in [Thread -> Pc]
      /\ dequeued \in [Buffer -> Nat] /\ recent \in [Consumer -> Buffer \cup {NULL}]
  BY <1>2 DEF OnePlace, TypeOK
<1> HIDE DEF b
<1>4. /\ Succ(b) = NULL \/ Succ(b) \in Range(full)
      /\ Range(full) \subseteq Buffer
  <2>1. PICK i \in 1 .. Len(full) : full[i] = b
    BY <1>2, <1>3, RangeIndex
  <2>2. Succ(b) = IF i < Len(full) THEN full[i + 1] ELSE NULL
    BY <1>3, <2>1, SuccAt, SuccIs
  <2>3. i < Len(full) => i + 1 \in 1 .. Len(full)
    BY <1>3
  <2> QED
    BY <1>3, <2>2, <2>3, RangeIndex DEF Range
<1>5. TypeOK'
  <2>1. /\ next_buffer' \in [Consumer -> Buffer \cup {NULL}] /\ dequeued' \in [Buffer -> Nat]
        /\ hand' \in [Thread -> SUBSET Buffer] /\ recent' \in [Consumer -> Buffer \cup {NULL}]
        /\ pc' \in [Thread -> Pc]
    BY <1>1, <1>2, <1>3, <1>4 DEF Pc
  <2> QED
    BY <1>2, <2>1 DEF TypeOK, listVars
<1>6. OnePlace'
  BY <1>1, <1>2, <1>3, <1>5 DEF OnePlace
<1>7. SlotOK'
  BY <1>1, <1>2, <1>3 DEF FifoInv, SlotOK, OnePlace
<1>8. \A d \in Consumer : d # c => Ahead(d)' = Ahead(d)
  BY <1>2, <1>3 DEF Ahead
<1>9. /\ Ahead(c) # <<>> /\ Head(Ahead(c)) = b /\ Ahead(c)' = Tail(Ahead(c))
      /\ b \notin Range(Ahead(c)') /\ Range(Ahead(c)) = Range(Ahead(c)') \cup {b}
  <2>1. Ahead(c) = From(full, b) /\ Ahead(c)' = From(full, Succ(b))
    BY <1>2, <1>3, AheadFrom DEF Ahead, From, b
  <2>2. /\ From(full, b) # <<>> /\ Head(From(full, b)) = b
        /\ Tail(From(full, b)) = From(full, SuccIn(full, b, NULL))
        /\ b \notin Range(From(full, SuccIn(full, b, NULL)))
        /\ Range(From(full, b)) = Range(From(full, SuccIn(full, b, NULL))) \cup {b}
    BY <1>2, <1>3, AheadNext
  <2>3. SuccIn(full, b, NULL) = Succ(b)
    BY SuccIs
  <2> QED
    BY <2>1, <2>2, <2>3, Zenon
<1>10. b \notin hand[c]
  BY <1>9 DEF FifoInv, QueueInv, HandBehind
<1>11. NextOnFull' /\ RecentHeld'
  <2>1. \A x : Succ(x)' = Succ(x)
    BY <1>2 DEF Succ
  <2> QED
    BY <1>1, <1>2, <1>3, <1>4, <2>1 DEF FifoInv, QueueInv, NextOnFull, RecentHeld
<1>12. HandBehind'
  <2>1. \A d \in Consumer : hand[d] \cap Range(Ahead(d)) = {}
    BY DEF FifoInv, QueueInv, HandBehind
  <2>2. hand' = [hand EXCEPT ![c] = hand[c] \cup {b}]
    BY <1>2
  <2>3. hand[c]' = hand[c] \cup {b} /\ \A d \in Consumer : d # c => hand[d]' = hand[d]
    BY <1>1, <1>3, <2>2
  <2>4. hand'[c] \cap Range(Ahead(c)') = {}
    BY <1>9, <2>1, <2>3
  <2>5. ASSUME NEW d \in Consumer, d # c
        PROVE  hand'[d] \cap Range(Ahead(d)') = {}
    BY <1>8, <2>1, <2>3, <2>5, Zenon
  <2> QED
    BY <2>4, <2>5, Zenon DEF HandBehind
<1>13. Counted'
  <2> SUFFICES ASSUME NEW x \in Range(full)
               PROVE  /\ readers[x] - dequeued'[x]
                           = Cardinality({d \in Consumer : x \in Range(Ahead(d)')})
                      /\ dequeued'[x] - enqueued[x]
                           = Cardinality({d \in Consumer : x \in hand'[d]})
                      /\ enqueued[x] < readers[x]
    BY <1>2 DEF Counted
  <2>0. /\ readers[x] - dequeued[x] = Cardinality({d \in Consumer : x \in Range(Ahead(d))})
        /\ dequeued[x] - enqueued[x] = Cardinality({d \in Consumer : x \in hand[d]})
        /\ enqueued[x] < readers[x]
        /\ readers[x] \in Nat /\ dequeued[x] \in Nat /\ enqueued[x] \in Nat
    BY <1>2, <1>4 DEF FifoInv, QueueInv, Counted, TypeOK
  <2>1. CASE x = b
    <3> DEFINE A == {d \in Consumer : x \in Range(Ahead(d)')}
               H == {d \in Consumer : x \in hand[d]}
    <3>1. {d \in Consumer : x \in Range(Ahead(d))} = A \cup {c} /\ c \notin A
      BY <1>8, <1>9, <2>1
    <3>2. {d \in Consumer : x \in hand'[d]} = H \cup {c} /\ c \notin H
      BY <1>1, <1>2, <1>3, <1>10, <2>1
    <3>3. /\ Cardinality(A) \in Nat /\ Cardinality(A \cup {c}) = Cardinality(A) + 1
          /\ Cardinality(H) \in Nat /\ Cardinality(H \cup {c}) = Cardinality(H) + 1
      BY <3>1, <3>2, OneMore
    <3>4. dequeued'[x] = dequeued[x] + 1
      BY <1>2, <1>3, <2>1
    <3>5. /\ readers[x] - dequeued[x] = Cardinality(A) + 1
          /\ dequeued[x] - enqueued[x] = Cardinality(H)
          /\ Cardinality({d \in Consumer : x \in hand'[d]}) = Cardinality(H) + 1
      BY <2>0, <3>1, <3>2, <3>3, Zenon
    <3> QED
      BY <2>0, <3>3, <3>4, <3>5
  <2>2. CASE x # b
    <3>1. {d \in Consumer : x \in Range(Ahead(d)')} = {d \in Consumer : x \in Range(Ahead(d))}
      BY <1>8, <1>9, <2>2
    <3>2. {d \in Consumer : x \in hand'[d]} = {d \in Consumer : x \in hand[d]}
      BY <1>1, <1>2, <1>3, <2>2
    <3>3. dequeued'[x] = dequeued[x]
      BY <1>2, <1>3, <1>4, <2>2
    <3> QED
      BY <2>0, <3>1, <3>2, <3>3
  <2> QED
    BY <2>1, <2>2
<1>14. Stream!Take(c)
  BY <1>1, <1>2, <1>3, <1>8, <1>9 DEF Stream!Take
<1>15. EofKept
  BY <1>1, <1>2, <1>3, <1>8, <1>9 DEF EofKept
<1> QED
  BY <1>2, <1>6, <1>7, <1>11, <1>12, <1>13, <1>14, <1>15
     DEF GoodStep, FifoInv, QueueInv, listVars, Stream!Next

\* A consumer that finds nothing to read, or gives up waiting.
LEMMA WaitFullSteps ==
  ASSUME FifoInv, NEW c \in Consumer, WaitFull(c) \/ WaitFullTimeout(c)
  PROVE  GoodStep
<1>1. c \in Thread
  BY DEF Thread
<1>2. /\ TypeOK /\ pc \in [Thread -> Pc]
      /\ pc[c] \notin {"send", "return"}
      /\ pc' = [pc EXCEPT ![c] = "asleep"] \/ pc' = [pc EXCEPT ![c] = "run"]
      /\ UNCHANGED <<full, readers, dequeued, enqueued, next_buffer, hand, recent, slot,
                     empty, listVars, waiting, eof_count, eof, eof_sent>>
  BY DEF FifoInv, OnePlace, TypeOK, WaitFull, WaitFullTimeout, ConsumerOnly
<1>3. TypeOK'
  BY <1>1, <1>2 DEF TypeOK, Pc, listVars
<1>4. OnePlace'
  BY <1>2, <1>3 DEF FifoInv, OnePlace
<1>5. SlotOK'
  BY <1>1, <1>2 DEF FifoInv, SlotOK
<1>6. QueueInv' /\ [Stream!Next]_(Stream!vars) /\ EofKept
  BY <1>2, QuietStep DEF FifoInv
<1> QED
  BY <1>2, <1>4, <1>5, <1>6 DEF GoodStep, FifoInv, listVars

\* A consumer puts the buffer it dequeued last back: it is ahead of it again.
LEMMA UngetFullStep ==
  ASSUME FifoInv, NEW c \in Consumer, UngetFull(c)
  PROVE  GoodStep
<1> DEFINE b == recent[c]
<1>1. c \in Thread /\ c \notin Producer /\ Consumer \subseteq Thread
  BY FifoAssumption DEF Thread
<1>2. /\ TypeOK /\ OnePlace /\ consumers = Consumer /\ NULL \notin Buffer
      /\ b \in hand[c] /\ b \in Range(full) /\ b \in Buffer /\ Succ(b) = next_buffer[c]
      /\ next_buffer' = [next_buffer EXCEPT ![c] = b]
      /\ dequeued' = [dequeued EXCEPT ![b] = @ - 1]
      /\ hand' = [hand EXCEPT ![c] = @ \ {b}]
      /\ recent' = [recent EXCEPT ![c] = NULL]
      /\ UNCHANGED <<full, readers, enqueued, pc, slot, empty, listVars, waiting, eof_count,
                     eof, eof_sent>>
  BY <1>1, FifoAssumption
     DEF FifoInv, QueueInv, OnePlace, NextOnFull, RecentHeld, UngetFull, ConsumerOnly, TypeOK
<1>3. /\ full \in Seq(Buffer) /\ IsInjective(full) /\ Range(full) \subseteq Buffer
      /\ next_buffer \in [Consumer -> Buffer \cup {NULL}]
      /\ hand \in [Thread -> SUBSET Buffer] /\ dequeued \in [Buffer -> Nat]
      /\ recent \in [Consumer -> Buffer \cup {NULL}]
  <2>1. TypeOK /\ IsInjective(full)
    BY <1>2, Zenon DEF OnePlace
  <2>2. Range(full) \subseteq Buffer
    BY <2>1 DEF TypeOK, Range
  <2> QED
    BY <2>1, <2>2 DEF TypeOK
<1> HIDE DEF b
<1>4. \A d \in Consumer : d # c => Ahead(d)' = Ahead(d)
  BY <1>2, <1>3 DEF Ahead
<1>5. /\ Ahead(c)' = <<b>> \o Ahead(c)
      /\ b \notin Range(Ahead(c)) /\ Range(Ahead(c)') = Range(Ahead(c)) \cup {b}
  <2>1. Ahead(c)' = From(full, b) /\ Ahead(c) = From(full, Succ(b))
    <3>1. next_buffer'[c] = b /\ full' = full
      BY <1>2, <1>3
    <3>2. Ahead(c)' = From(full', next_buffer'[c])
      BY DEF Ahead, From
    <3> QED
      BY <1>2, <3>1, <3>2, AheadFrom
  <2>2. /\ From(full, b) = <<b>> \o From(full, SuccIn(full, b, NULL))
        /\ b \notin Range(From(full, SuccIn(full, b, NULL)))
        /\ Range(From(full, b)) = Range(From(full, SuccIn(full, b, NULL))) \cup {b}
    BY <1>2, <1>3, AheadNext
  <2>3. SuccIn(full, b, NULL) = Succ(b)
    BY SuccIs
  <2> QED
    BY <2>1, <2>2, <2>3, Zenon
<1> DEFINE A(x) == {d \in Consumer : x \in Range(Ahead(d))}
           H(x) == {d \in Consumer : x \in hand'[d]}
<1>6. \A x \in Range(full) :
        /\ readers[x] - dequeued[x] = Cardinality(A(x))
        /\ dequeued[x] - enqueued[x] = Cardinality({d \in Consumer : x \in hand[d]})
        /\ enqueued[x] < readers[x]
        /\ readers[x] \in Nat /\ dequeued[x] \in Nat /\ enqueued[x] \in Nat
  BY <1>2, <1>3 DEF FifoInv, QueueInv, Counted, TypeOK
<1>7. /\ c \notin A(b) /\ {d \in Consumer : b \in Range(Ahead(d)')} = A(b) \cup {c}
      /\ c \notin H(b) /\ {d \in Consumer : b \in hand[d]} = H(b) \cup {c}
  BY <1>1, <1>2, <1>3, <1>4, <1>5
<1>8. /\ Cardinality(A(b)) \in Nat /\ Cardinality(A(b) \cup {c}) = Cardinality(A(b)) + 1
      /\ Cardinality(H(b)) \in Nat /\ Cardinality(H(b) \cup {c}) = Cardinality(H(b)) + 1
  BY <1>7, OneMore
<1>9. dequeued[b] - enqueued[b] = Cardinality(H(b)) + 1
  BY <1>2, <1>6, <1>7, <1>8, Zenon
<1>10. dequeued[b] - 1 \in Nat
  <2>1. dequeued[b] \in Nat /\ enqueued[b] \in Nat
    BY <1>2, <1>6
  <2> HIDE DEF H
  <2> QED
    BY <1>8, <1>9, <2>1
<1>11. TypeOK'
  <2>1. /\ next_buffer' \in [Consumer -> Buffer \cup {NULL}] /\ dequeued' \in [Buffer -> Nat]
        /\ hand' \in [Thread -> SUBSET Buffer] /\ recent' \in [Consumer -> Buffer \cup {NULL}]
    BY <1>1, <1>2, <1>3, <1>10
  <2> QED
    BY <1>2, <2>1 DEF TypeOK, listVars
<1>12. OnePlace'
  BY <1>1, <1>2, <1>3, <1>11 DEF OnePlace
<1>13. SlotOK'
  BY <1>1, <1>2, <1>3 DEF FifoInv, SlotOK, OnePlace
<1>14. NextOnFull' /\ RecentHeld'
  <2>1. \A x : Succ(x)' = Succ(x)
    BY <1>2 DEF Succ
  <2> QED
    BY <1>1, <1>2, <1>3, <2>1 DEF FifoInv, QueueInv, NextOnFull, RecentHeld
<1>15. HandBehind'
  BY <1>1, <1>2, <1>3, <1>4, <1>5 DEF FifoInv, QueueInv, HandBehind
<1>16. Counted'
  <2> SUFFICES ASSUME NEW x \in Range(full)
               PROVE  /\ readers[x] - dequeued'[x]
                           = Cardinality({d \in Consumer : x \in Range(Ahead(d)')})
                      /\ dequeued'[x] - enqueued[x] = Cardinality(H(x))
                      /\ enqueued[x] < readers[x]
    BY <1>2 DEF Counted
  <2>1. CASE x = b
    <3>1. dequeued'[b] = dequeued[b] - 1
      BY <1>2, <1>3
    <3>2. Cardinality({d \in Consumer : b \in Range(Ahead(d)')}) = Cardinality(A(b)) + 1
      BY <1>7, <1>8, Zenon
    <3>3. readers[b] - dequeued[b] = Cardinality(A(b))
      BY <1>2, <1>6
    <3>4. /\ enqueued[b] < readers[b]
          /\ readers[b] \in Nat /\ dequeued[b] \in Nat /\ enqueued[b] \in Nat
      BY <1>2, <1>6
    <3> HIDE DEF A, H
    <3>5. /\ readers[b] - dequeued'[b] = Cardinality(A(b)) + 1
          /\ dequeued'[b] - enqueued[b] = Cardinality(H(b))
      BY <1>8, <1>9, <3>1, <3>3, <3>4
    <3> QED
      BY <2>1, <3>2, <3>4, <3>5
  <2>2. CASE x # b
    <3>1. {d \in Consumer : x \in Range(Ahead(d)')} = A(x)
      BY <1>4, <1>5, <2>2
    <3>2. {d \in Consumer : x \in hand[d]} = H(x)
      BY <1>1, <1>2, <1>3, <2>2
    <3>3. dequeued'[x] = dequeued[x]
      BY <1>2, <1>3, <2>2
    <3> QED
      BY <1>6, <3>1, <3>2, <3>3
  <2> QED
    BY <2>1, <2>2
<1>17. PICK x \in Buffer : x = b
  BY <1>2
<1>18. EofKept
  BY <1>4, <1>5 DEF EofKept
<1>19. Stream!Unget(c, x)
  BY <1>1, <1>2, <1>3, <1>4, <1>5, <1>17 DEF Stream!Unget
<1>20. Stream!Next
  BY <1>19 DEF Stream!Next
<1> HIDE DEF A, H
<1> QED
  BY <1>2, <1>12, <1>13, <1>14, <1>15, <1>16, <1>18, <1>20
     DEF GoodStep, FifoInv, QueueInv, listVars

\* A consumer returns a buffer.  If it is the last one, nobody has the buffer
\* ahead or in hand, so that removing it from the queue is not noticed.
LEMMA SendEmptyStep ==
  ASSUME FifoInv, NEW c \in Consumer, NEW b \in Buffer, SendEmpty(c, b)
  PROVE  GoodStep
<1>1. c \in Thread /\ c \notin Producer /\ Consumer \subseteq Thread
  BY FifoAssumption DEF Thread
<1>2. /\ TypeOK /\ OnePlace /\ consumers = Consumer /\ NULL \notin Buffer
      /\ b \in hand[c] /\ b \in Range(full) /\ pc[c] = "run" /\ slot[c] = NULL
      /\ hand' = [hand EXCEPT ![c] = @ \ {b}]
      /\ recent' = [recent EXCEPT ![c] = IF @ = b THEN NULL ELSE @]
      /\ enqueued' = [enqueued EXCEPT ![b] = @ + 1]
      /\ UNCHANGED <<readers, dequeued, next_buffer, empty, listVars, waiting, eof_count, eof,
                     eof_sent>>
  BY <1>1, FifoAssumption DEF FifoInv, OnePlace, SlotOK, SendEmpty, ConsumerOnly
<1>3. /\ full \in Seq(Buffer) /\ IsInjective(full) /\ Range(full) \subseteq Buffer
      /\ next_buffer \in [Consumer -> Buffer \cup {NULL}]
      /\ hand \in [Thread -> SUBSET Buffer] /\ enqueued \in [Buffer -> Nat]
      /\ recent \in [Consumer -> Buffer \cup {NULL}]
      /\ pc \in [Thread -> Pc] /\ slot \in [Thread -> Buffer \cup {NULL}]
  <2>1. TypeOK /\ IsInjective(full)
    BY <1>2, Zenon DEF OnePlace
  <2>2. Range(full) \subseteq Buffer
    BY <2>1 DEF TypeOK, Range
  <2> QED
    BY <2>1, <2>2 DEF TypeOK
<1> DEFINE A(x) == {d \in Consumer : x \in Range(Ahead(d))}
           H(x) == {d \in Consumer : x \in hand'[d]}
<1>4. \A x \in Range(full) :
        /\ readers[x] - dequeued[x] = Cardinality(A(x))
        /\ dequeued[x] - enqueued[x] = Cardinality({d \in Consumer : x \in hand[d]})
        /\ enqueued[x] < readers[x]
        /\ readers[x] \in Nat /\ dequeued[x] \in Nat /\ enqueued[x] \in Nat
  BY <1>2, <1>3 DEF FifoInv, QueueInv, Counted, TypeOK
<1>5. c \notin H(b) /\ {d \in Consumer : b \in hand[d]} = H(b) \cup {c}
  BY <1>1, <1>2, <1>3
<1>6. /\ IsFiniteSet(A(b)) /\ Cardinality(A(b)) \in Nat /\ IsFiniteSet(H(b))
      /\ Cardinality(H(b)) \in Nat /\ Cardinality(H(b) \cup {c}) = Cardinality(H(b)) + 1
  BY <1>5, OneMore, FifoAssumption, FS_Subset, FS_CardinalityType
<1>7. dequeued[b] - enqueued[b] = Cardinality(H(b)) + 1
  BY <1>2, <1>4, <1>5, <1>6, Zenon
<1>8. enqueued'[b] = enqueued[b] + 1 /\ \A x \in Range(full) : x # b => enqueued'[x] = enqueued[x]
  BY <1>2, <1>3
<1>9. \A d \in Consumer : recent'[d] # NULL => recent'[d] = recent[d] /\ recent[d] # NULL
                                               /\ recent'[d] \in hand'[d]
  BY <1>1, <1>2, <1>3 DEF FifoInv, QueueInv, RecentHeld
<1>10. CASE enqueued'[b] >= readers[b]
  <2>1. full' = RemoveFirst(full, b)
        /\ slot' = [slot EXCEPT ![c] = b] /\ pc' = [pc EXCEPT ![c] = "return"]
    BY <1>10 DEF SendEmpty
  <2>2. A(b) = {} /\ H(b) = {}
    <3>1. /\ readers[b] - dequeued[b] = Cardinality(A(b)) /\ enqueued[b] < readers[b]
          /\ readers[b] \in Nat /\ dequeued[b] \in Nat /\ enqueued[b] \in Nat
      BY <1>2, <1>4
    <3>2. Cardinality(A(b)) = 0 /\ Cardinality(H(b)) = 0
      <4> HIDE DEF A, H
      <4> QED
        BY <1>6, <1>7, <1>8, <1>10, <3>1
    <3> HIDE DEF A, H
    <3> QED
      BY <1>6, <3>2, FS_EmptySet
  <2>3. \A d \in Consumer : b \notin Range(Ahead(d)) /\ b \notin hand'[d]
    BY <2>2
  <2>4. PICK i \in 1 .. Len(full) : full[i] = b
    BY <1>2, <1>3, RangeIndex
  <2>5. full' = RemoveAt(full, i)
    BY <1>3, <2>1, <2>4, RemoveFirstAt
  <2>6. /\ full' \in Seq(Buffer) /\ IsInjective(full') /\ Range(full') = Range(full) \ {b}
    BY <1>3, <2>4, <2>5, RemoveAtDistinct
  <2>7. ASSUME NEW d \in Consumer
        PROVE  next_buffer[d] # b /\ Ahead(d)' = Ahead(d)
    <3>1. Ahead(d)' = From(full', next_buffer[d]) /\ Ahead(d) = From(full, next_buffer[d])
      BY <1>2, AheadFrom DEF Ahead, From
    <3>2. next_buffer[d] # b
      <4> SUFFICES ASSUME next_buffer[d] = b PROVE FALSE
        OBVIOUS
      <4>0. full \in Seq(Buffer) /\ IsInjective(full) /\ b \in Range(full)
        BY <1>2, <1>3
      <4>1. Range(From(full, b)) = Range(From(full, SuccIn(full, b, NULL))) \cup {b}
        BY <4>0, AheadNext
      <4>2. b \in Range(Ahead(d))
        BY <3>1, <4>1
      <4> QED
        BY <2>3, <4>2
    <3>3. From(full', next_buffer[d]) = RemoveFirst(From(full, next_buffer[d]), b)
      BY <1>3, <2>4, <2>5, <3>2, FromRemove
    <3>4. From(full, next_buffer[d]) \in Seq(Buffer)
      BY <1>3, FromDistinct
    <3>5. RemoveFirst(From(full, next_buffer[d]), b) = From(full, next_buffer[d])
      BY <2>3, <3>1, <3>4, RemoveFirstNot
    <3> QED
      BY <3>1, <3>2, <3>3, <3>5
  <2>8. TypeOK'
    <3>1. /\ hand' \in [Thread -> SUBSET Buffer] /\ recent' \in [Consumer -> Buffer \cup {NULL}]
          /\ enqueued' \in [Buffer -> Nat]
          /\ pc' \in [Thread -> Pc] /\ slot' \in [Thread -> Buffer \cup {NULL}]
      BY <1>1, <1>2, <1>3, <2>1 DEF Pc
    <3> QED
      BY <1>2, <2>6, <3>1 DEF TypeOK, listVars
  <2>9. OnePlace'
    <3>1. \A t \in Thread : /\ slot'[t] = IF t = c THEN b ELSE slot[t]
                            /\ hand'[t] = IF t = c THEN hand[c] \ {b} ELSE hand[t]
      BY <1>2, <1>3, <2>1
    <3>2. \A t \in Thread : b \notin hand'[t] /\ slot[t] # b
      BY <1>2, <2>3, <3>1, <1>1 DEF OnePlace, Thread
    <3>3. \A t, u \in Thread :
            /\ t # u /\ t \in Producer /\ u \in Producer => hand'[t] \cap hand'[u] = {}
            /\ slot'[t] # NULL => slot'[t] \notin Range(full') \cup empty \cup hand'[u]
            /\ t # u /\ slot'[t] # NULL => slot'[t] # slot'[u]
      BY <1>1, <1>2, <2>6, <3>1, <3>2 DEF OnePlace
    <3>4. /\ Range(full') \cap empty = {}
          /\ \A t \in Producer : hand'[t] \cap (Range(full') \cup empty) = {}
          /\ \A d \in Consumer : hand'[d] \subseteq Range(full')
      BY <1>1, <1>2, <2>3, <2>6, <3>1 DEF OnePlace, Thread
    <3> QED
      BY <1>2, <2>6, <2>8, <3>3, <3>4 DEF OnePlace
  <2>10. SlotOK'
    <3>1. \A t \in Thread : slot[t] # b
      BY <1>1, <1>2 DEF OnePlace
    <3> QED
      BY <1>1, <1>2, <1>3, <2>1, <3>1 DEF FifoInv, SlotOK
  <2>11. NextOnFull'
    <3> SUFFICES ASSUME NEW d \in Consumer
                 PROVE  /\ next_buffer[d] # NULL => next_buffer[d] \in Range(full')
                        /\ recent'[d] # NULL => Succ(recent[d])' = next_buffer[d]
      BY <1>2 DEF NextOnFull
    <3>1. next_buffer[d] # NULL => next_buffer[d] \in Range(full')
      BY <2>6, <2>7 DEF FifoInv, QueueInv, NextOnFull
    <3>2. ASSUME recent'[d] # NULL
          PROVE  Succ(recent[d])' = next_buffer[d]
      <4> DEFINE x == recent[d]
      <4>1. x = recent'[d] /\ x \in hand'[d] /\ Succ(x) = next_buffer[d]
        BY <1>9, <3>2 DEF FifoInv, QueueInv, NextOnFull
      <4>2. x \in Range(full) /\ x # b
        BY <1>2, <2>3, <2>6, <2>9, <4>1 DEF OnePlace
      <4>3. SuccIn(full', x, NULL) = IF SuccIn(full, x, NULL) = b THEN SuccIn(full, b, NULL)
                                     ELSE SuccIn(full, x, NULL)
        BY <1>2, <1>3, <2>4, <2>5, <4>2, SuccRemove
      <4>4. SuccIn(full, x, NULL) = next_buffer[d] /\ next_buffer[d] # b
        BY <2>7, <4>1, SuccIs
      <4>5. Succ(recent[d])' = SuccIn(full', recent'[d], NULL)
        BY DEF Succ, SuccIn
      <4> QED
        BY <4>1, <4>3, <4>4, <4>5
    <3> QED
      BY <3>1, <3>2
  <2>12. HandBehind' /\ RecentHeld'
    BY <1>1, <1>2, <1>3, <1>9, <2>7 DEF FifoInv, QueueInv, HandBehind, RecentHeld
  <2>13. Counted'
    <3> SUFFICES ASSUME NEW x \in Range(full) \ {b}
                 PROVE  /\ readers[x] - dequeued[x]
                             = Cardinality({d \in Consumer : x \in Range(Ahead(d)')})
                        /\ dequeued[x] - enqueued'[x] = Cardinality(H(x))
                        /\ enqueued'[x] < readers[x]
      BY <1>2, <2>6 DEF Counted
    <3>1. {d \in Consumer : x \in Range(Ahead(d)')} = A(x)
      BY <2>7
    <3>2. {d \in Consumer : x \in hand[d]} = H(x)
      BY <1>1, <1>2, <1>3
    <3> QED
      BY <1>4, <1>8, <3>1, <3>2
  <2>14. Stream!Return(c, b)
    BY <1>1, <1>2, <1>3, <2>7 DEF Stream!Return
  <2>15. EofKept
    BY <2>7 DEF EofKept
  <2> QED
    BY <1>2, <2>9, <2>10, <2>11, <2>12, <2>13, <2>14, <2>15
       DEF GoodStep, FifoInv, QueueInv, listVars, Stream!Next
<1>11. CASE ~(enqueued'[b] >= readers[b])
  <2>1. UNCHANGED <<full, slot, pc>>
    BY <1>11 DEF SendEmpty
  <2>2. \A d \in Consumer : Ahead(d)' = Ahead(d)
    BY <1>2, <2>1 DEF Ahead
  <2>3. TypeOK'
    <3>1. /\ hand' \in [Thread -> SUBSET Buffer] /\ recent' \in [Consumer -> Buffer \cup {NULL}]
          /\ enqueued' \in [Buffer -> Nat]
      BY <1>1, <1>2, <1>3
    <3> QED
      BY <1>2, <2>1, <3>1 DEF TypeOK, listVars
  <2>4. OnePlace'
    BY <1>1, <1>2, <1>3, <2>1, <2>3 DEF OnePlace
  <2>5. SlotOK'
    <3>1. \A t \in Thread : slot[t] # b
      BY <1>1, <1>2 DEF OnePlace
    <3> QED
      BY <1>1, <1>2, <1>3, <2>1, <3>1 DEF FifoInv, SlotOK, TypeOK
  <2>6. NextOnFull'
    <3>1. \A x : Succ(x)' = Succ(x)
      BY <2>1 DEF Succ
    <3> QED
      BY <1>2, <1>9, <2>1, <3>1 DEF FifoInv, QueueInv, NextOnFull
  <2>7. HandBehind' /\ RecentHeld'
    BY <1>1, <1>2, <1>3, <1>9, <2>2 DEF FifoInv, QueueInv, HandBehind, RecentHeld
  <2>8. Counted'
    <3> SUFFICES ASSUME NEW x \in Range(full)
                 PROVE  /\ readers[x] - dequeued[x]
                             = Cardinality({d \in Consumer : x \in Range(Ahead(d)')})
                        /\ dequeued[x] - enqueued'[x] = Cardinality(H(x))
                        /\ enqueued'[x] < readers[x]
      BY <1>2, <2>1 DEF Counted
    <3>1. {d \in Consumer : x \in Range(Ahead(d)')} = A(x)
      BY <2>2
    <3>2. CASE x = b
      <4>1. readers[b] - dequeued[b] = Cardinality(A(b))
        BY <1>2, <1>4
      <4>2. readers[b] \in Nat /\ dequeued[b] \in Nat /\ enqueued[b] \in Nat
        BY <1>2, <1>4
      <4>3. Cardinality({d \in Consumer : b \in Range(Ahead(d)')}) = Cardinality(A(b))
        BY <3>1, <3>2, Zenon
      <4> HIDE DEF A, H
      <4>4. dequeued[b] - enqueued'[b] = Cardinality(H(b)) /\ enqueued'[b] < readers[b]
        BY <1>6, <1>7, <1>8, <1>11, <4>2
      <4> QED
        BY <3>2, <4>1, <4>3, <4>4
    <3>3. CASE x # b
      <4>1. {d \in Consumer : x \in hand[d]} = H(x)
        BY <1>1, <1>2, <1>3, <3>3
      <4> QED
        BY <1>4, <1>8, <3>1, <3>3, <4>1
    <3> QED
      BY <3>2, <3>3
  <2>9. Stream!Return(c, b)
    BY <1>1, <1>2, <1>3, <2>2 DEF Stream!Return
  <2>10. EofKept
    BY <2>2 DEF EofKept
  <2> QED
    BY <1>2, <2>4, <2>5, <2>6, <2>7, <2>8, <2>9, <2>10
       DEF GoodStep, FifoInv, QueueInv, listVars, Stream!Next
<1> QED
  BY <1>10, <1>11

\* Producers that come and go do not touch the queue.
LEMMA MemberSteps ==
  ASSUME FifoInv, NEW p \in Producer, RemProducer(p) \/ AddProducer(p)
  PROVE  GoodStep
<1>1. /\ TypeOK /\ OnePlace
      /\ UNCHANGED <<full, empty, consumers, waiting, bufferVars, next_buffer, hand, recent,
                     pc, slot>>
  BY DEF FifoInv, OnePlace, RemProducer, AddProducer
<1>2. /\ producers' \subseteq Producer /\ eof_count' \in Nat
      /\ eof_sent' \in [Producer -> BOOLEAN]
  <2>1. producers' \subseteq Producer /\ eof_sent' \in [Producer -> BOOLEAN]
    BY <1>1 DEF TypeOK, RemProducer, AddProducer
  <2>2. \/ eof_count' = eof_count
        \/ eof_count' = eof_count - 0
        \/ eof_count > 1 /\ eof_count' = eof_count - 1
    BY Zenon DEF RemProducer, AddProducer
  <2>3. eof_count' \in Nat
    BY <1>1, <2>2 DEF TypeOK
  <2> QED
    BY <2>1, <2>3
<1>3. TypeOK'
  BY <1>1, <1>2 DEF TypeOK, bufferVars
<1>4. OnePlace'
  BY <1>1, <1>3 DEF OnePlace
<1>5. SlotOK'
  BY <1>1 DEF FifoInv, SlotOK, bufferVars
<1>6. QueueInv' /\ [Stream!Next]_(Stream!vars) /\ EofKept
  BY <1>1, QuietStep DEF FifoInv, bufferVars
<1> QED
  BY <1>1, <1>4, <1>5, <1>6 DEF GoodStep, FifoInv

-----------------------------------------------------------------------------
\* The empty fifo.
LEMMA InitFifo == Init => FifoInv /\ Stream!Init
<1> SUFFICES ASSUME Init PROVE FifoInv /\ Stream!Init
  OBVIOUS
<1>1. /\ full = <<>> /\ full \in Seq(Buffer) /\ Range(full) = {} /\ IsInjective(full)
      /\ NULL \notin Buffer /\ Producer \cap Consumer = {}
  BY FifoAssumption DEF Init, Range, IsInjective
<1>2. TypeOK
  BY <1>1 DEF Init, TypeOK, Pc, Thread
<1>3. OnePlace
  BY <1>1, <1>2 DEF Init, OnePlace, Thread
<1>4. SlotOK /\ RecentHeld /\ NextOnFull
  BY DEF Init, SlotOK, RecentHeld, NextOnFull
<1>5. \A c \in Consumer : Ahead(c) = <<>> /\ Range(Ahead(c)) = {} /\ hand[c] = {}
  BY <1>1 DEF Ahead, Init, Thread
<1>6. HandBehind /\ Counted
  BY <1>1, <1>5 DEF HandBehind, Counted
<1>7. Stream!Init
  BY <1>5 DEF Stream!Init
<1> QED
  BY <1>2, <1>3, <1>4, <1>6, <1>7 DEF FifoInv, QueueInv, Init

\* Every step is good, if no consumer leaves.
LEMMA NextGood ==
  ASSUME Leavers \cap Consumer = {}, FifoInv, [Next]_vars
  PROVE  GoodStep
<1>1. ASSUME NEW p \in Producer, ProducerStep(p)
      PROVE  GoodStep
  BY <1>1, WaitEmptySteps, EnqueueStep, LoopBackStep, MemberSteps, UngetEmptyStep, SendSteps
     DEF ProducerStep
<1>2. ASSUME NEW c \in Consumer, ConsumerStep(c)
      PROVE  GoodStep
  <2>1. ~RemConsumer(c) /\ ~AddConsumer(c)
    BY DEF FifoInv, RemConsumer, AddConsumer
  <2> QED
    BY <1>2, <2>1, TakeFullStep, WaitFullSteps, UngetFullStep, SendEmptyStep DEF ConsumerStep
<1>3. ASSUME NEW t \in Thread, ReturnEmpty(t)
      PROVE  GoodStep
  BY <1>3, ReturnStep
<1>4. CASE UNCHANGED vars
  <2>1. TypeOK' /\ OnePlace' /\ SlotOK' /\ consumers' = consumers
    BY <1>4 DEF FifoInv, OnePlace, SlotOK, TypeOK, vars, listVars, bufferVars
  <2>2. QueueInv' /\ [Stream!Next]_(Stream!vars) /\ EofKept
    BY <1>4, QuietStep DEF FifoInv, vars, bufferVars
  <2> QED
    BY <2>1, <2>2 DEF GoodStep, FifoInv
<1> QED
  BY <1>1, <1>2, <1>3, <1>4 DEF Next

-----------------------------------------------------------------------------
\* The inductive invariant.
LEMMA FifoInvariant ==
  ASSUME Leavers \cap Consumer = {}
  PROVE  Spec => []FifoInv
<1>1. Init => FifoInv
  BY InitFifo
<1>2. FifoInv /\ [Next]_vars => FifoInv'
  BY NextGood DEF GoodStep
<1> QED
  BY <1>1, <1>2, PTL DEF Spec

\* No buffer is lost or in two places: wait_empty_buffer, send_full_buffer and
\* send_empty_buffer hand a buffer from one owner to the next, and what a
\* consumer looks at stays on the full queue, where unlink_full_buffer must not
\* take it.
THEOREM BufferInOnePlace ==
  ASSUME Leavers \cap Consumer = {}
  PROVE  Spec => []OnePlace
<1>1. FifoInv => OnePlace
  BY DEF FifoInv
<1> QED
  BY <1>1, FifoInvariant, PTL

\* c->next_buffer always points to a buffer on the full queue or to its end, and
\* to the successor of the buffer c dequeued last, as unget_full_buffer asserts,
\* whatever send_empty_buffer and unlink_full_buffer remove.
THEOREM PointersOnFull ==
  ASSUME Leavers \cap Consumer = {}
  PROVE  Spec => []NextOnFull
<1>1. FifoInv => NextOnFull
  BY DEF FifoInv, QueueInv
<1> QED
  BY <1>1, FifoInvariant, PTL

\* The counters consumers, dequeued and enqueued of a queued buffer are exact:
\* the consumer in send_empty_buffer that finds them equal is the last one.
THEOREM CountersExact ==
  ASSUME Leavers \cap Consumer = {}
  PROVE  Spec => []Counted
<1>1. FifoInv => Counted
  BY DEF FifoInv, QueueInv
<1> QED
  BY <1>1, FifoInvariant, PTL

\* Each consumer is given the buffers in the order in which send_full queued
\* them, each at most once, and a buffer is not filled again before every
\* consumer it was sent to has returned it or lost it to unlink_full_buffer.
THEOREM FifoImplementsStream ==
  ASSUME Leavers \cap Consumer = {}
  PROVE  Spec => ImplementsStream
<1>1. FifoInv /\ [Next]_vars => [Stream!Next]_(Stream!vars)
  BY NextGood DEF GoodStep
<1>2. Init => Stream!Init
  BY InitFifo
<1> QED
  BY <1>1, <1>2, FifoInvariant, PTL DEF Spec, ImplementsStream, Stream!Spec

\* A step of the fifo that changes nothing the consumers see keeps the promise
\* below as well.
LEMMA StepKeepsEof ==
  ASSUME Leavers \cap Consumer = {}, FifoInv, [Next]_vars
  PROVE  [EofKept]_vars
  BY NextGood DEF GoodStep

\* unlink_full_buffer never takes the end of the stream or an error away from a
\* consumer that has yet to read it.
THEOREM EofReachesConsumers ==
  ASSUME Leavers \cap Consumer = {}
  PROVE  Spec => EofNotDropped
<1>1. FifoInv /\ [Next]_vars => [EofKept]_vars
  BY StepKeepsEof
<1>2. Spec => [][EofKept]_vars
  BY <1>1, FifoInvariant, PTL DEF Spec
<1> QED
  BY <1>2 DEF EofNotDropped, EofKept
-----------------------------------------------------------------------------
(***************************************************************************)
(* The end of the stream comes last.  While all producers stay, eof_count  *)
(* is the number of those that have sent their end of stream; a buffer     *)
(* that reports it is passed on only when all have, and a producer that is *)
(* still about to queue a frame has not.                                   *)
(***************************************************************************)
EofSenders == {p \in Producer : eof_sent[p]}

EndInv ==
  /\ producers = Producer
  /\ eof_count = Cardinality(EofSenders)
  /\ \A p \in Producer : pc[p] = "send" =>
       IF eof[slot[p]] THEN EofSenders = Producer ELSE ~eof_sent[p]
  /\ \A b \in Range(full) : eof[b] => EofSenders = Producer

LEMMA InitEnd == Init => EndInv
<1> SUFFICES ASSUME Init PROVE EndInv
  OBVIOUS
<1>1. EofSenders = {} /\ Range(full) = {}
  BY DEF Init, EofSenders, Range
<1>2. Cardinality(EofSenders) = 0
  BY <1>1, FS_EmptySet
<1>3. \A p \in Producer : pc[p] # "send"
  BY DEF Init, Thread
<1> QED
  BY <1>1, <1>2, <1>3 DEF Init, EndInv

\* No step matters that sends nothing and queues nothing.
LEMMA EndUndisturbed ==
  ASSUME EndInv, UNCHANGED <<producers, eof_count, eof, eof_sent>>,
         \A p \in Producer : pc'[p] = "send" => pc[p] = "send" /\ slot'[p] = slot[p],
         Range(full') \subseteq Range(full)
  PROVE  EndInv'
<1>1. EofSenders' = EofSenders
  BY DEF EofSenders
<1> QED
  BY <1>1 DEF EndInv

\* What is queued behind the buffers there are was in the slot of its producer.
LEMMA EndEnqueue ==
  ASSUME FifoInv, EndInv, NEW p \in Producer, Enqueue(p)
  PROVE  EndInv'
<1>1. p \in Thread /\ p \notin Consumer /\ Producer \subseteq Thread
  BY FifoAssumption DEF Thread
<1>2. /\ pc \in [Thread -> Pc] /\ slot \in [Thread -> Buffer \cup {NULL}]
      /\ full \in Seq(Buffer) /\ slot[p] \in Buffer /\ pc[p] = "send"
      /\ full' = Append(full, slot[p])
      /\ slot' = [slot EXCEPT ![p] = NULL]
      /\ pc' = Broadcast(Consumer, [pc EXCEPT ![p] = "run"])
      /\ UNCHANGED <<producers, eof_count, eof, eof_sent>>
  BY <1>1 DEF FifoInv, OnePlace, TypeOK, SlotOK, Enqueue, listVars
<1>3. EofSenders' = EofSenders
  BY <1>2 DEF EofSenders
<1>4. ASSUME NEW b \in Range(full')
      PROVE  b \in Range(full) \/ b = slot[p]
  BY <1>2 DEF Range
<1>5. \A q \in Producer : pc'[q] = "send" => pc[q] = "send" /\ slot'[q] = slot[q]
  BY <1>1, <1>2 DEF Broadcast
<1> QED
  BY <1>2, <1>3, <1>4, <1>5 DEF EndInv

\* A frame is on its way only from a producer that has not ended its stream.
LEMMA EndSendData ==
  ASSUME FifoInv, EndInv, NEW p \in Producer, NEW b \in Buffer, SendData(p, b)
  PROVE  EndInv'
<1>1. p \in Thread /\ Producer \subseteq Thread
  BY DEF Thread
<1>2. /\ pc \in [Thread -> Pc] /\ slot \in [Thread -> Buffer \cup {NULL}]
      /\ eof \in [Buffer -> BOOLEAN] /\ full \in Seq(Buffer)
      /\ ~eof_sent[p] /\ eof' = [eof EXCEPT ![b] = FALSE]
      /\ slot' = [slot EXCEPT ![p] = b] /\ pc' = [pc EXCEPT ![p] = "send"]
      /\ UNCHANGED <<full, producers, eof_count, eof_sent>>
  BY DEF FifoInv, OnePlace, TypeOK, SendData, listVars
<1>3. b \notin Range(full) /\ \A t \in Thread : slot[t] # b
  BY <1>1, FifoAssumption DEF FifoInv, OnePlace, SendData
<1>4. EofSenders' = EofSenders
  BY <1>2 DEF EofSenders
<1>5. ASSUME NEW q \in Producer, pc'[q] = "send"
      PROVE  IF eof'[slot'[q]] THEN EofSenders = Producer ELSE ~eof_sent[q]
  <2>1. CASE q = p
    BY <1>1, <1>2, <2>1
  <2>2. CASE q # p
    <3>1. slot'[q] = slot[q] /\ slot[q] # b /\ pc[q] = "send"
      BY <1>1, <1>2, <1>3, <1>5, <2>2
    <3>2. slot[q] \in Buffer
      BY <1>1, <1>2, <3>1 DEF FifoInv, SlotOK
    <3>3. eof'[slot'[q]] = eof[slot[q]]
      BY <1>2, <3>1, <3>2
    <3> QED
      BY <3>1, <3>3 DEF EndInv
  <2> QED
    BY <2>1, <2>2
<1>6. ASSUME NEW x \in Range(full)
      PROVE  eof'[x] => EofSenders = Producer
  <2>1. x # b /\ x \in Buffer
    BY <1>2, <1>3 DEF Range
  <2> QED
    BY <1>2, <2>1 DEF EndInv
<1> QED
  BY <1>2, <1>4, <1>5, <1>6 DEF EndInv

\* The end of a stream is counted once for each producer, and passed on by the
\* last of them.
LEMMA EndSendEof ==
  ASSUME FifoInv, EndInv, NEW p \in Producer, NEW b \in Buffer, SendEof(p, b)
  PROVE  EndInv'
<1>1. p \in Thread /\ Producer \subseteq Thread
  BY DEF Thread
<1>2. /\ pc \in [Thread -> Pc] /\ slot \in [Thread -> Buffer \cup {NULL}]
      /\ eof \in [Buffer -> BOOLEAN] /\ eof_sent \in [Producer -> BOOLEAN]
      /\ full \in Seq(Buffer) /\ pc[p] = "run"
      /\ eof' = [eof EXCEPT ![b] = TRUE]
      /\ eof_sent' = [eof_sent EXCEPT ![p] = TRUE]
      /\ eof_count' = eof_count + (IF eof_sent[p] THEN 0 ELSE 1)
      /\ UNCHANGED <<full, producers>>
  BY DEF FifoInv, OnePlace, TypeOK, SendEof, listVars
<1>3. b \notin Range(full) /\ \A t \in Thread : slot[t] # b
  BY <1>1, FifoAssumption DEF FifoInv, OnePlace, SendEof
<1>4. EofSenders' = EofSenders \cup {p} /\ EofSenders \subseteq Producer
  BY <1>2 DEF EofSenders
<1>5. IsFiniteSet(EofSenders) /\ Cardinality(EofSenders) \in Nat
  BY <1>4, FifoAssumption, FS_Subset, FS_CardinalityType
<1>6. eof_count' = Cardinality(EofSenders')
  <2>1. p \in EofSenders <=> eof_sent[p]
    BY DEF EofSenders
  <2>2. Cardinality(EofSenders \cup {p})
          = IF p \in EofSenders THEN Cardinality(EofSenders) ELSE Cardinality(EofSenders) + 1
    BY <1>5, FS_AddElement
  <2> QED
    BY <1>2, <1>4, <1>5, <2>1, <2>2 DEF EndInv
<1>7. eof_count' >= Cardinality(Producer) => EofSenders' = Producer
  <2>1. EofSenders' \subseteq Producer
    BY <1>4
  <2>2. /\ IsFiniteSet(EofSenders') /\ Cardinality(EofSenders') <= Cardinality(Producer)
        /\ Cardinality(EofSenders') = Cardinality(Producer) => EofSenders' = Producer
    BY <2>1, FifoAssumption, FS_Subset
  <2>3. Cardinality(EofSenders') \in Nat /\ Cardinality(Producer) \in Nat
    BY <2>2, FifoAssumption, FS_CardinalityType
  <2> QED
    BY <1>6, <2>2, <2>3
<1>8. \/ /\ eof_count' >= Cardinality(Producer)
         /\ slot' = [slot EXCEPT ![p] = b] /\ pc' = [pc EXCEPT ![p] = "send"]
      \/ slot' = slot /\ pc' = Broadcast(Producer, pc)
  <2>1. \/ /\ ~(eof_count' < Cardinality(producers))
           /\ slot' = [slot EXCEPT ![p] = b] /\ pc' = [pc EXCEPT ![p] = "send"]
        \/ slot' = slot /\ pc' = Broadcast(Producer, pc)
    BY DEF SendEof
  <2>2. eof_count' \in Nat /\ Cardinality(Producer) \in Nat
    BY <1>4, <1>5, <1>6, FifoAssumption, FS_AddElement, FS_CardinalityType
  <2> QED
    BY <2>1, <2>2 DEF EndInv
<1>9. ASSUME NEW q \in Producer, pc'[q] = "send"
      PROVE  IF eof'[slot'[q]] THEN EofSenders' = Producer ELSE ~eof_sent'[q]
  <2>1. CASE q = p
    <3>1. slot'[q] = b /\ eof'[b] /\ EofSenders' = Producer
      BY <1>1, <1>2, <1>7, <1>8, <1>9, <2>1 DEF Broadcast
    <3> QED
      BY <3>1
  <2>2. CASE q # p
    <3>1. slot'[q] = slot[q] /\ slot[q] # b /\ pc[q] = "send"
      BY <1>1, <1>2, <1>3, <1>8, <1>9, <2>2 DEF Broadcast
    <3>2. slot[q] \in Buffer
      BY <1>1, <1>2, <3>1 DEF FifoInv, SlotOK
    <3>3. eof'[slot'[q]] = eof[slot[q]] /\ eof_sent'[q] = eof_sent[q]
      BY <1>2, <2>2, <3>1, <3>2
    <3>4. EofSenders = Producer => EofSenders' = Producer
      BY <1>4
    <3> QED
      BY <3>1, <3>3, <3>4 DEF EndInv
  <2> QED
    BY <2>1, <2>2
<1>10. ASSUME NEW x \in Range(full), eof'[x]
       PROVE  EofSenders' = Producer
  <2>1. x # b /\ x \in Buffer
    BY <1>2, <1>3 DEF Range
  <2>2. eof[x]
    BY <1>2, <1>10, <2>1
  <2> QED
    BY <1>4, <2>2 DEF EndInv
<1> QED
  BY <1>2, <1>6, <1>9, <1>10 DEF EndInv

\* What a step takes off the full queue or leaves there was on it: only send_full
\* adds to it.
LEMMA OnlyEnqueueAdds ==
  ASSUME FifoInv, [Next]_vars,
         \A p \in Producer : ~Enqueue(p)
  PROVE  Range(full') \subseteq Range(full)
<1>1. full \in Seq(Buffer) /\ IsInjective(full)
  BY DEF FifoInv, OnePlace, TypeOK
<1>2. ASSUME NEW p \in Producer, Unlink(p)
      PROVE  Range(full') \subseteq Range(full)
  <2>1. PICK i \in 1 .. Len(full) : full' = RemoveAt(full, i)
    <3>1. PICK i \in DOMAIN full : full' = RemoveAt(full, i)
      BY <1>2 DEF Unlink
    <3> QED
      BY <1>1, <3>1
  <2> QED
    BY <1>1, <2>1, RemoveAtDistinct
<1>3. ASSUME NEW p \in Producer, NEW w, Look(p, w)
      PROVE  Range(full') \subseteq Range(full)
  BY <1>2, <1>3 DEF Look, Sleep
<1>4. ASSUME NEW p \in Producer, ProducerStep(p)
      PROVE  Range(full') \subseteq Range(full)
  BY <1>2, <1>3, <1>4 DEF ProducerStep, WaitEmpty, CoLocked, WakeProducer, WaitEmptyTimeout,
     RecvEmpty, LoopBack, RemProducer, AddProducer, UngetEmpty, SendData, SendEof, Sleep
<1>5. ASSUME NEW c \in Consumer, NEW b \in Buffer, SendEmpty(c, b)
      PROVE  Range(full') \subseteq Range(full)
  <2>1. full' = full \/ full' = RemoveFirst(full, b)
    BY <1>5 DEF SendEmpty
  <2> QED
    BY <1>1, <2>1, RemoveFirstRange
<1>6. ASSUME NEW c \in Consumer, ConsumerStep(c)
      PROVE  Range(full') \subseteq Range(full)
  BY <1>5, <1>6 DEF ConsumerStep, TakeFull, WaitFull, WaitFullTimeout, UngetFull,
     RemConsumer, AddConsumer
<1> QED
  BY <1>4, <1>6 DEF Next, ReturnEmpty, vars

\* Every step keeps the record of the ends of the streams.
LEMMA NextEnd ==
  ASSUME Leavers = {}, FifoInv, EndInv, [Next]_vars
  PROVE  EndInv'
<1>0. /\ Producer \subseteq Thread /\ Consumer \subseteq Thread /\ Producer \cap Consumer = {}
      /\ pc \in [Thread -> Pc] /\ slot \in [Thread -> Buffer \cup {NULL}]
  BY FifoAssumption DEF Thread, FifoInv, OnePlace, TypeOK
<1>1. ASSUME NEW p \in Producer, Enqueue(p)
      PROVE  EndInv'
  BY <1>1, EndEnqueue
<1>2. ASSUME \A p \in Producer : ~Enqueue(p)
      PROVE  EndInv'
  <2>1. Range(full') \subseteq Range(full)
    BY <1>2, OnlyEnqueueAdds
  <2>2. ASSUME UNCHANGED <<producers, eof_count, eof, eof_sent>>,
               \A p \in Producer : pc'[p] = "send" => pc[p] = "send" /\ slot'[p] = slot[p]
        PROVE  EndInv'
    BY <2>1, <2>2, EndUndisturbed
  <2>3. ASSUME NEW p \in Producer, ProducerWaits, NEW s \in {"run", "colock", "asleep"},
               pc' = [pc EXCEPT ![p] = s]
        PROVE  EndInv'
    BY <1>0, <2>2, <2>3 DEF ProducerWaits, listVars
  <2>4. ASSUME NEW p \in Producer, NEW w, Look(p, w) \/ Sleep(p, w) \/ Unlink(p), ProducerWaits
        PROVE  EndInv'
    BY <2>3, <2>4 DEF Look, Sleep, Unlink, GetBuffer
  <2>5. ASSUME NEW p \in Producer,
               WaitEmpty(p) \/ CoLocked(p) \/ WakeProducer(p) \/ WaitEmptyTimeout(p) \/ RecvEmpty(p)
        PROVE  EndInv'
    BY <2>3, <2>4, <2>5 DEF WaitEmpty, CoLocked, WakeProducer, WaitEmptyTimeout, RecvEmpty,
       GetBuffer
  <2>6. ASSUME NEW p \in Producer, LoopBack(p)
        PROVE  EndInv'
    BY <1>0, <2>2, <2>6 DEF LoopBack, listVars
  <2>7. ASSUME NEW p \in Producer, NEW b \in Buffer, UngetEmpty(p, b)
        PROVE  EndInv'
    BY <2>2, <2>7 DEF UngetEmpty, ProducerWaits, listVars
  <2>8. ASSUME NEW p \in Producer
        PROVE  ~RemProducer(p) /\ ~AddProducer(p)
    BY DEF EndInv, RemProducer, AddProducer
  <2>9. ASSUME NEW p \in Producer, ProducerStep(p)
        PROVE  EndInv'
    BY <1>2, <2>5, <2>6, <2>7, <2>8, <2>9, EndSendData, EndSendEof DEF ProducerStep
  <2>10. ASSUME NEW c \in Consumer, NEW b \in Buffer, SendEmpty(c, b)
         PROVE  EndInv'
    <3>1. \A p \in Producer : pc'[p] = pc[p] /\ slot'[p] = slot[p]
      BY <1>0, <2>10 DEF SendEmpty
    <3> QED
      BY <2>2, <2>10, <3>1 DEF SendEmpty, ConsumerOnly, listVars
  <2>11. ASSUME NEW c \in Consumer,
                TakeFull(c) \/ WaitFull(c) \/ WaitFullTimeout(c) \/ UngetFull(c)
         PROVE  EndInv'
    <3>1. \A p \in Producer : pc'[p] = pc[p] /\ slot'[p] = slot[p]
      BY <1>0, <2>11 DEF TakeFull, WaitFull, WaitFullTimeout, UngetFull
    <3> QED
      BY <2>2, <2>11, <3>1 DEF TakeFull, WaitFull, WaitFullTimeout, UngetFull, ConsumerOnly,
         listVars
  <2>12. ASSUME NEW c \in Consumer
         PROVE  ~RemConsumer(c) /\ ~AddConsumer(c)
    BY DEF FifoInv, RemConsumer, AddConsumer
  <2>13. ASSUME NEW t \in Thread, ReturnEmpty(t)
         PROVE  EndInv'
    <3>1. \A p \in Producer : pc'[p] = "send" => pc[p] = "send" /\ slot'[p] = slot[p]
      BY <1>0, <2>13 DEF ReturnEmpty, Broadcast
    <3> QED
      BY <2>2, <2>13, <3>1 DEF ReturnEmpty, listVars
  <2>14. CASE UNCHANGED vars
    BY <2>2, <2>14 DEF vars, listVars, bufferVars
  <2> QED
    BY <2>9, <2>10, <2>11, <2>12, <2>13, <2>14 DEF Next, ConsumerStep
<1> QED
  BY <1>1, <1>2

\* A step of EofIsLast.
EndKept ==
  \A c \in Consumer : Len(Ahead(c)) > 0 /\ eof[Last(Ahead(c))]
    => ~\E b \in Buffer : ~eof[b] /\ Ahead(c)' = Append(Ahead(c), b)

\* What a consumer gets behind what it has ahead was not on the queue before.
LEMMA NewIsEnqueued ==
  ASSUME FifoInv, FifoInv', [Stream!Next]_(Stream!vars),
         NEW c \in Consumer, NEW b \in Buffer, Ahead(c) # <<>>,
         Ahead(c)' = Append(Ahead(c), b), b # Last(Ahead(c))
  PROVE  b \in Range(full') /\ b \notin Range(full)
<1>0. /\ full \in Seq(Buffer) /\ IsInjective(full)
      /\ full' \in Seq(Buffer) /\ IsInjective(full')
  BY DEF FifoInv, OnePlace, TypeOK
<1>1. \A d \in Consumer : Ahead(d) \in Seq(Buffer) /\ IsInjective(Ahead(d))
  BY <1>0, AheadFrom, FromDistinct
<1>2. IsInjective(Ahead(c)') /\ Ahead(c)' \in Seq(Buffer) /\ Range(Ahead(c)') \subseteq Range(full')
  <2>1. Ahead(c)' = From(full', next_buffer'[c])
    BY AheadFrom DEF Ahead, From
  <2> QED
    BY <1>0, <2>1, FromDistinct, FromRange
<1>3. PICK A \in Seq(Buffer) : A = Ahead(c)
  BY <1>1
<1>4. IsInjective(Append(A, b)) /\ b \in Range(Append(A, b)) /\ Len(A) > 0 /\ b # A[Len(A)]
  BY <1>2, <1>3 DEF Range, Last
<1>5. b \notin Range(A)
  <2> SUFFICES ASSUME NEW i \in 1 .. Len(A), A[i] = b PROVE FALSE
    BY DEF Range
  <2>1. /\ i \in DOMAIN Append(A, b) /\ Len(A) + 1 \in DOMAIN Append(A, b) /\ i # Len(A) + 1
        /\ Append(A, b)[i] = b /\ Append(A, b)[Len(A) + 1] = b
    OBVIOUS
  <2> QED
    BY <1>4, <2>1 DEF IsInjective
<1>6. b \in Range(full')
  BY <1>2, <1>3, <1>4
<1>7. ~(Range(Ahead(c)') \subseteq Range(Ahead(c)))
  BY <1>3, <1>4, <1>5
<1>8. \A x \in Buffer : ~Stream!Drop(x)
  <2> SUFFICES ASSUME NEW x \in Buffer, Stream!Drop(x) PROVE FALSE
    OBVIOUS
  <2>1. Ahead(c)' = RemoveFirst(Ahead(c), x)
    BY StreamRemoveFirst DEF Stream!Drop
  <2>2. Range(Ahead(c)') \subseteq Range(Ahead(c))
    BY <1>1, <2>1, RemoveFirstRange
  <2> QED
    BY <1>7, <2>2
<1>9. \A r \in Consumer : ~Stream!Take(r) /\ ~Stream!Skip(r)
  <2> SUFFICES ASSUME NEW r \in Consumer, Stream!Take(r) \/ Stream!Skip(r) PROVE FALSE
    OBVIOUS
  <2>1. Ahead(c)' = Ahead(c) \/ (Ahead(c) # <<>> /\ Ahead(c)' = Tail(Ahead(c)))
    BY DEF Stream!Take, Stream!Skip
  <2>2. Range(Ahead(c)') \subseteq Range(Ahead(c))
    BY <1>1, <2>1, TailDistinct
  <2> QED
    BY <1>7, <2>2
<1>10. \A r \in Consumer, x \in Buffer : ~Stream!Return(r, x)
  <2> SUFFICES ASSUME NEW r \in Consumer, NEW x \in Buffer, Stream!Return(r, x) PROVE FALSE
    OBVIOUS
  <2>1. Ahead(c)' = Ahead(c)
    BY DEF Stream!Return
  <2> QED
    BY <1>7, <2>1
<1>11. \A r \in Consumer, x \in Buffer : ~Stream!Unget(r, x)
  <2> SUFFICES ASSUME NEW r \in Consumer, NEW x \in Buffer, Stream!Unget(r, x) PROVE FALSE
    OBVIOUS
  <2>1. Ahead(c)' = Ahead(c) \/ Ahead(c)' = <<x>> \o Ahead(c)
    BY DEF Stream!Unget
  <2>2. Append(A, b) = <<x>> \o A
    BY <1>3, <1>7, <2>1
  <2>3. Append(A, b)[Len(A) + 1] = b /\ (<<x>> \o A)[Len(A) + 1] = A[Len(A)]
    BY <1>4
  <2> QED
    BY <1>4, <2>2, <2>3
<1>12. \A R \in SUBSET Consumer : ~Stream!Flush(R)
  <2> SUFFICES ASSUME NEW R \in SUBSET Consumer, Stream!Flush(R) PROVE FALSE
    OBVIOUS
  <2>1. Ahead(c)' = <<>> \/ Ahead(c)' = Ahead(c)
    BY DEF Stream!Flush
  <2>2. Ahead(c)' # <<>>
    BY <1>3
  <2> QED
    BY <1>7, <2>1, <2>2
<1>13. ~UNCHANGED Stream!vars
  <2> SUFFICES ASSUME UNCHANGED Stream!vars PROVE FALSE
    OBVIOUS
  <2>1. Ahead(c)' = Ahead(c)
    BY DEF Stream!vars
  <2> QED
    BY <1>7, <2>1
<1>14. PICK x \in Buffer, R \in SUBSET Consumer : Stream!Publish(x, R)
  BY <1>8, <1>9, <1>10, <1>11, <1>12, <1>13 DEF Stream!Next
<1>15. x = b
  <2>1. Ahead(c)' = Ahead(c) \/ Ahead(c)' = Append(Ahead(c), x)
    BY <1>14 DEF Stream!Publish
  <2>2. Append(A, b) = Append(A, x)
    BY <1>3, <1>7, <2>1
  <2>3. Append(A, b)[Len(A) + 1] = b /\ Append(A, x)[Len(A) + 1] = x
    OBVIOUS
  <2> QED
    BY <2>2, <2>3
<1>16. \A d \in Consumer : b \notin Range(Ahead(d)) /\ b \notin hand[d]
  <2>1. Stream!Idle(b)
    BY <1>14, <1>15 DEF Stream!Publish
  <2> QED
    BY <2>1 DEF Stream!Idle, Stream!Range, Range
<1>17. b \notin Range(full)
  <2> SUFFICES ASSUME b \in Range(full) PROVE FALSE
    OBVIOUS
  <2>1. {d \in Consumer : b \in Range(Ahead(d))} = {} /\ {d \in Consumer : b \in hand[d]} = {}
    BY <1>16
  <2>2. readers[b] - dequeued[b] = 0 /\ dequeued[b] - enqueued[b] = 0 /\ enqueued[b] < readers[b]
    BY <2>1, FS_EmptySet DEF FifoInv, QueueInv, Counted
  <2>3. readers[b] \in Nat /\ dequeued[b] \in Nat /\ enqueued[b] \in Nat
    BY DEF FifoInv, OnePlace, TypeOK
  <2> QED
    BY <2>2, <2>3
<1> QED
  BY <1>6, <1>17

\* No step appends a frame to what ends with the end of the stream.
LEMMA StepEndsStream ==
  ASSUME Leavers = {}, FifoInv, EndInv, [Next]_vars
  PROVE  EndKept
<1>1. FifoInv' /\ [Stream!Next]_(Stream!vars)
  BY NextGood DEF GoodStep
<1> SUFFICES ASSUME NEW c \in Consumer, Len(Ahead(c)) > 0, eof[Last(Ahead(c))],
                    NEW b \in Buffer, ~eof[b], Ahead(c)' = Append(Ahead(c), b)
             PROVE  FALSE
  BY DEF EndKept
<1>2. full \in Seq(Buffer) /\ IsInjective(full)
  BY DEF FifoInv, OnePlace, TypeOK
<1>3. Ahead(c) \in Seq(Buffer) /\ Range(Ahead(c)) \subseteq Range(full)
  BY <1>2, AheadFrom, FromRange
<1>4. Last(Ahead(c)) \in Range(full) /\ Ahead(c) # <<>>
  <2>1. Len(Ahead(c)) \in 1 .. Len(Ahead(c)) /\ Ahead(c) # <<>>
    BY <1>3
  <2>2. Ahead(c)[Len(Ahead(c))] \in Range(Ahead(c))
    BY <1>3, <2>1, RangeIndex
  <2> QED
    BY <1>3, <2>1, <2>2 DEF Last
<1>5. EofSenders = Producer
  BY <1>4 DEF EndInv
<1>6. b \in Range(full') /\ b \notin Range(full)
  BY <1>1, <1>4, NewIsEnqueued
<1>7. PICK p \in Producer : Enqueue(p)
  BY <1>6, OnlyEnqueueAdds
<1>8. b = slot[p] /\ pc[p] = "send"
  BY <1>2, <1>6, <1>7 DEF Enqueue, Range
<1>9. eof_sent[p]
  BY <1>5 DEF EofSenders
<1> QED
  BY <1>8, <1>9 DEF EndInv

\* send_full_buffer passes the end of the stream on when all producers have sent
\* one, and no producer sends a frame after its own: nothing follows the end of
\* the stream, however the producers' critical sections interleave.
THEOREM EofComesLast ==
  ASSUME Leavers = {}
  PROVE  Spec => EofIsLast
<1>1. FifoInv /\ EndInv /\ [Next]_vars => EndInv' /\ [EndKept]_vars
  BY NextEnd, StepEndsStream
<1>2. Init => EndInv
  BY InitEnd
<1>3. Leavers \cap Consumer = {}
  OBVIOUS
<1>4. Spec => []FifoInv
  BY <1>3, FifoInvariant
<1>5. Spec => [][EndKept]_vars
  BY <1>1, <1>2, <1>4, PTL DEF Spec
<1> QED
  BY <1>5 DEF EofIsLast, EndKept
=============================================================================
