----------------------------- MODULE ZappingFifo -----------------------------
(***************************************************************************)
(* The buffered fifos of Zapping (zapping/common/fifo.c, fifo.h; rte's     *)
(* mp1e has a copy).  Buffers travel from the empty queue through a        *)
(* producer to the full queue, which every consumer reads with a pointer   *)
(* of its own; the last consumer to return a buffer sends it back.  When   *)
(* no buffer is empty, a producer may take one away from the consumers     *)
(* that lag behind.                                                        *)
(*                                                                         *)
(* Each producer and each consumer is used by one thread, and a thread's   *)
(* step is one critical section of the mutexes pro (empty, producers) and  *)
(* con (full, consumers, the counters of the buffers).  The broadcast that *)
(* follows a critical section only makes sleepers look again and is part   *)
(* of it.  Out of the queues' data the model keeps whether a buffer        *)
(* reports the end of the stream or an error (used <= 0).                  *)
(***************************************************************************)
EXTENDS Integers, Sequences, FiniteSets, SequencesExt

CONSTANTS
  Producer,    \* zf_producer objects
  Consumer,    \* zf_consumer objects
  Buffer,
  NULL,        \* the end of f->full, as a next_buffer pointer
  Leavers,     \* the producers and consumers that may be removed and added again
  TimedWait,   \* the producers that wait with a timeout
  Eof,         \* the producers that may end the stream
  MaxHeld      \* buffers a producer holds at a time: all of Zapping's hold one

ASSUME FifoAssumption ==
  /\ IsFiniteSet(Producer) /\ IsFiniteSet(Consumer) /\ IsFiniteSet(Buffer)
  /\ NULL \notin Buffer /\ Producer \cap Consumer = {}
  /\ Leavers \subseteq Producer \cup Consumer
  /\ TimedWait \subseteq Producer /\ Eof \subseteq Producer
  /\ MaxHeld \in Nat \ {0}

VARIABLES
  \* zf_fifo
  full,        \* the full queue
  empty,       \* the empty queue: which of its buffers is taken is irrelevant
  producers,   \* members of f->producers
  consumers,   \* members of f->consumers
  waiting,     \* f->producer->list, first come first served
  eof_count,
  \* zf_buffer
  readers,     \* b->consumers, for which the buffer was sent
  dequeued, enqueued,
  eof,         \* b->used <= 0
  \* zf_producer, zf_consumer
  eof_sent, next_buffer,
  \* the threads
  hand,        \* the buffers dequeued and not returned, by thread
  recent,      \* the buffer a consumer dequeued last, until it returns it
  pc,          \* where the thread is
  slot         \* the buffer on its way between two critical sections

listVars   == <<producers, consumers>>
bufferVars == <<readers, dequeued, enqueued, eof>>
vars == <<full, empty, listVars, waiting, eof_count, bufferVars, eof_sent,
          next_buffer, hand, recent, pc, slot>>

Thread == Producer \cup Consumer
Pc == {"run", "colock", "asleep", "awake", "send", "return"}

Init ==
  /\ full = <<>> /\ empty = Buffer
  /\ producers = Producer /\ consumers = Consumer
  /\ waiting = <<>> /\ eof_count = 0
  /\ readers = [b \in Buffer |-> 0]
  /\ dequeued = [b \in Buffer |-> 0] /\ enqueued = [b \in Buffer |-> 0]
  /\ eof = [b \in Buffer |-> TRUE]
  /\ eof_sent = [p \in Producer |-> FALSE]
  /\ next_buffer = [c \in Consumer |-> NULL]
  /\ hand = [t \in Thread |-> {}]
  /\ recent = [c \in Consumer |-> NULL]
  /\ pc = [t \in Thread |-> "run"]
  /\ slot = [t \in Thread |-> NULL]

\* b->node.succ of a buffer on the full queue.
Succ(b) ==
  IF \E i \in 1 .. Len(full) - 1 : full[i] = b
  THEN full[1 + CHOOSE i \in 1 .. Len(full) - 1 : full[i] = b]
  ELSE NULL

\* pthread_cond_broadcast wakes the threads of T that sleep.
Broadcast(T, p0) == [t \in Thread |-> IF t \in T /\ p0[t] = "asleep" THEN "awake" ELSE p0[t]]

-----------------------------------------------------------------------------
(***************************************************************************)
(* Producers: wait_empty_buffer.                                           *)
(***************************************************************************)

\* Mutant: an end of stream is recycled as well.
RecyclableEof(b) ==
  /\ Cardinality(consumers) >= 2
  /\ enqueued[b] >= dequeued[b] /\ 2 * enqueued[b] >= readers[b]

\* Mutant: a buffer a consumer is looking at is recycled.
RecyclableInUse(b) ==
  /\ Cardinality(consumers) >= 2
  /\ 2 * enqueued[b] >= readers[b] /\ ~eof[b]

\* What unlink_full_buffer takes: a buffer no consumer is looking at and half of
\* them have returned.
Recyclable(b) ==
  /\ Cardinality(consumers) >= 2
  /\ enqueued[b] >= dequeued[b] /\ 2 * enqueued[b] >= readers[b]
  /\ ~eof[b]

GetBuffer(p, b) ==
  /\ hand' = [hand EXCEPT ![p] = @ \cup {b}]
  /\ pc' = [pc EXCEPT ![p] = "run"]

\* Mutant: the consumers that would read the buffer next keep their pointers.
UnlinkLeavesPointers(p) ==
  \E i \in DOMAIN full :
    /\ Recyclable(full[i]) /\ \A j \in 1 .. i - 1 : ~Recyclable(full[j])
    /\ full' = RemoveAt(full, i)
    /\ UNCHANGED next_buffer
    /\ readers' = [readers EXCEPT ![full[i]] = 0]
    /\ dequeued' = [dequeued EXCEPT ![full[i]] = 0]
    /\ GetBuffer(p, full[i])

\* unlink_full_buffer: the oldest such buffer.
Unlink(p) ==
  \E i \in DOMAIN full :
    /\ Recyclable(full[i]) /\ \A j \in 1 .. i - 1 : ~Recyclable(full[j])
    /\ full' = RemoveAt(full, i)
    /\ next_buffer' = [c \in Consumer |->
         IF next_buffer[c] = full[i] /\ c \in consumers THEN Succ(full[i]) ELSE next_buffer[c]]
    /\ readers' = [readers EXCEPT ![full[i]] = 0]
    /\ dequeued' = [dequeued EXCEPT ![full[i]] = 0]
    /\ GetBuffer(p, full[i])

NothingToUnlink == \A i \in DOMAIN full : ~Recyclable(full[i])

\* The producer queues up and sleeps.
Sleep(p, w) ==
  /\ waiting' = Append(w, p)
  /\ pc' = [pc EXCEPT ![p] = "asleep"]
  /\ UNCHANGED <<full, empty, next_buffer, readers, dequeued, hand>>

\* The loop body: an empty buffer, or one unlinked from the full queue, or wait.
\* For the second the mutex con is needed too; if it is not free, mutex_co_lock
\* gives up pro until it has got both.
Look(p, w) ==
  \/ \E b \in empty :
       /\ empty' = empty \ {b} /\ GetBuffer(p, b) /\ waiting' = w
       /\ UNCHANGED <<full, next_buffer, readers, dequeued>>
  \/ empty = {} /\ Unlink(p) /\ waiting' = w /\ UNCHANGED empty
  \/ empty = {} /\ NothingToUnlink /\ Sleep(p, w)
  \/ /\ empty = {} /\ pc' = [pc EXCEPT ![p] = "colock"] /\ waiting' = w
     /\ UNCHANGED <<full, empty, next_buffer, readers, dequeued, hand>>

ProducerWaits ==
  UNCHANGED <<listVars, eof_count, enqueued, eof, eof_sent, recent, slot>>

\* wait_empty_buffer is called: whoever finds others waiting queues up.
WaitEmpty(p) ==
  /\ pc[p] = "run" /\ p \in producers /\ Cardinality(hand[p]) < MaxHeld
  /\ IF waiting # <<>> THEN Sleep(p, waiting) ELSE Look(p, waiting)
  /\ ProducerWaits

\* Both mutexes are locked; f->empty is not looked at again.
CoLocked(p) ==
  /\ pc[p] = "colock"
  /\ \/ Unlink(p) /\ UNCHANGED <<empty, waiting>>
     \/ NothingToUnlink /\ Sleep(p, waiting)
  /\ ProducerWaits

\* A woken producer goes on if it is the first in line, and sleeps otherwise.
WakeProducer(p) ==
  /\ pc[p] = "awake" /\ p \in Producer
  /\ IF waiting # <<>> /\ Head(waiting) = p
     THEN Look(p, Tail(waiting))
     ELSE /\ pc' = [pc EXCEPT ![p] = "asleep"]
          /\ UNCHANGED <<full, empty, waiting, next_buffer, readers, dequeued, hand>>
  /\ ProducerWaits

\* The timeout is reached: rem_head, whoever is the first in line.
WaitEmptyTimeout(p) ==
  /\ p \in TimedWait /\ pc[p] \in {"asleep", "awake"}
  /\ waiting' = IF waiting = <<>> THEN <<>> ELSE Tail(waiting)
  /\ pc' = [pc EXCEPT ![p] = "run"]
  /\ UNCHANGED <<full, empty, next_buffer, readers, dequeued, hand>>
  /\ ProducerWaits

\* recv_empty_buffer does not wait.
RecvEmpty(p) ==
  /\ pc[p] = "run" /\ p \in producers /\ Cardinality(hand[p]) < MaxHeld
  /\ \E b \in empty : empty' = empty \ {b} /\ GetBuffer(p, b)
  /\ UNCHANGED <<full, waiting, next_buffer, readers, dequeued>>
  /\ ProducerWaits

\* unget_empty_buffer wakes nobody.
UngetEmpty(p, b) ==
  /\ pc[p] = "run" /\ b \in hand[p]
  /\ hand' = [hand EXCEPT ![p] = @ \ {b}]
  /\ dequeued' = [dequeued EXCEPT ![b] = 0]
  /\ empty' = empty \cup {b}
  /\ UNCHANGED <<full, waiting, next_buffer, readers, pc>>
  /\ ProducerWaits

-----------------------------------------------------------------------------
(***************************************************************************)
(* Producers: send_full_buffer.                                            *)
(***************************************************************************)
\* Mutant: the first end of stream is passed on.
SendEofAtOnce(p, b) ==
  /\ pc[p] = "run" /\ b \in hand[p] /\ p \in Eof
  /\ hand' = [hand EXCEPT ![p] = @ \ {b}]
  /\ eof' = [eof EXCEPT ![b] = TRUE]
  /\ eof_sent' = [eof_sent EXCEPT ![p] = TRUE]
  /\ eof_count' = eof_count + (IF eof_sent[p] THEN 0 ELSE 1)
  /\ slot' = [slot EXCEPT ![p] = b] /\ pc' = [pc EXCEPT ![p] = "send"]
  /\ UNCHANGED <<full, empty, listVars, waiting, readers, dequeued, enqueued, next_buffer, recent>>

\* An end of stream (or an error) is recorded until all producers have sent one.
SendEof(p, b) ==
  /\ pc[p] = "run" /\ b \in hand[p] /\ p \in Eof
  /\ hand' = [hand EXCEPT ![p] = @ \ {b}]
  /\ eof' = [eof EXCEPT ![b] = TRUE]
  /\ eof_sent' = [eof_sent EXCEPT ![p] = TRUE]
  /\ eof_count' = eof_count + (IF eof_sent[p] THEN 0 ELSE 1)
  /\ dequeued' = [dequeued EXCEPT ![b] = 0]
  /\ enqueued' = [enqueued EXCEPT ![b] = 0]
  /\ IF eof_count' < Cardinality(producers)
     THEN /\ empty' = empty \cup {b} /\ pc' = Broadcast(Producer, pc)
          /\ readers' = [readers EXCEPT ![b] = 0]
          /\ UNCHANGED slot
     ELSE /\ slot' = [slot EXCEPT ![p] = b] /\ pc' = [pc EXCEPT ![p] = "send"]
          /\ readers' = [readers EXCEPT ![b] = 1]
          /\ UNCHANGED empty
  /\ UNCHANGED <<full, listVars, waiting, next_buffer, recent>>

\* A frame.  Sending one after the end of the stream is not permitted.
SendData(p, b) ==
  /\ pc[p] = "run" /\ b \in hand[p] /\ ~eof_sent[p]
  /\ hand' = [hand EXCEPT ![p] = @ \ {b}]
  /\ eof' = [eof EXCEPT ![b] = FALSE]
  /\ readers' = [readers EXCEPT ![b] = 1]
  /\ dequeued' = [dequeued EXCEPT ![b] = 0]
  /\ enqueued' = [enqueued EXCEPT ![b] = 0]
  /\ slot' = [slot EXCEPT ![p] = b] /\ pc' = [pc EXCEPT ![p] = "send"]
  /\ UNCHANGED <<full, empty, listVars, waiting, eof_count, eof_sent, next_buffer, recent>>

\* Mutant: the consumers that wait are not told.
EnqueueSilent(p) ==
  /\ pc[p] = "send" /\ consumers # {}
  /\ LET b == slot[p] IN
     /\ readers' = [readers EXCEPT ![b] = Cardinality(consumers)]
     /\ next_buffer' = [c \in Consumer |->
          IF c \in consumers /\ next_buffer[c] = NULL THEN b ELSE next_buffer[c]]
     /\ full' = Append(full, b)
     /\ slot' = [slot EXCEPT ![p] = NULL]
     /\ pc' = [pc EXCEPT ![p] = "run"]
  /\ UNCHANGED <<empty, listVars, waiting, eof_count, dequeued, enqueued, eof, eof_sent,
                 hand, recent>>

\* Mutant: only the consumers that have nothing to read are counted.
EnqueueIdleOnly(p) ==
  /\ pc[p] = "send" /\ consumers # {}
  /\ LET b == slot[p] IN
     /\ readers' = [readers EXCEPT ![b] = Cardinality({c \in consumers : next_buffer[c] = NULL})]
     /\ next_buffer' = [c \in Consumer |->
          IF c \in consumers /\ next_buffer[c] = NULL THEN b ELSE next_buffer[c]]
     /\ full' = Append(full, b)
     /\ slot' = [slot EXCEPT ![p] = NULL]
     /\ pc' = Broadcast(Consumer, [pc EXCEPT ![p] = "run"])
  /\ UNCHANGED <<empty, listVars, waiting, eof_count, dequeued, enqueued, eof, eof_sent,
                 hand, recent>>

\* send_full: the buffer is queued for the consumers there are, ...
Enqueue(p) ==
  /\ pc[p] = "send" /\ consumers # {}
  /\ LET b == slot[p] IN
     /\ readers' = [readers EXCEPT ![b] = Cardinality(consumers)]
     /\ next_buffer' = [c \in Consumer |->
          IF c \in consumers /\ next_buffer[c] = NULL THEN b ELSE next_buffer[c]]
     /\ full' = Append(full, b)
     /\ slot' = [slot EXCEPT ![p] = NULL]
     /\ pc' = Broadcast(Consumer, [pc EXCEPT ![p] = "run"])
  /\ UNCHANGED <<empty, listVars, waiting, eof_count, dequeued, enqueued, eof, eof_sent,
                 hand, recent>>

\* ... or sent back at once.
LoopBack(p) ==
  /\ pc[p] = "send" /\ consumers = {}
  /\ readers' = [readers EXCEPT ![slot[p]] = 0]
  /\ pc' = [pc EXCEPT ![p] = "return"]
  /\ UNCHANGED <<full, empty, listVars, waiting, eof_count, dequeued, enqueued, eof,
                 eof_sent, next_buffer, hand, recent, slot>>

\* send_empty_unbuffered, for the consumer that was the last to return a buffer
\* and for a producer without consumers.
ReturnEmpty(t) ==
  /\ pc[t] = "return"
  /\ LET b == slot[t] IN
     /\ dequeued' = [dequeued EXCEPT ![b] = 0]
     /\ readers' = [readers EXCEPT ![b] = 0]
     /\ empty' = empty \cup {b}
     /\ slot' = [slot EXCEPT ![t] = NULL]
     /\ pc' = Broadcast(Producer, [pc EXCEPT ![t] = "run"])
  /\ UNCHANGED <<full, listVars, waiting, eof_count, enqueued, eof, eof_sent,
                 next_buffer, hand, recent>>

-----------------------------------------------------------------------------
(***************************************************************************)
(* Consumers.                                                              *)
(***************************************************************************)
ConsumerOnly ==
  UNCHANGED <<empty, listVars, waiting, eof_count, eof, eof_sent>>

\* wait_full_buffer and recv_full_buffer, when there is a buffer.
TakeFull(c) ==
  /\ pc[c] \in {"run", "awake"} /\ c \in consumers /\ next_buffer[c] # NULL
  /\ LET b == next_buffer[c] IN
     /\ next_buffer' = [next_buffer EXCEPT ![c] = Succ(b)]
     /\ dequeued' = [dequeued EXCEPT ![b] = @ + 1]
     /\ hand' = [hand EXCEPT ![c] = @ \cup {b}]
     /\ recent' = [recent EXCEPT ![c] = b]
     /\ pc' = [pc EXCEPT ![c] = "run"]
  /\ UNCHANGED <<full, readers, enqueued, slot>> /\ ConsumerOnly

\* wait_full_buffer, when there is none.
WaitFull(c) ==
  /\ pc[c] \in {"run", "awake"} /\ c \in consumers /\ next_buffer[c] = NULL
  /\ pc' = [pc EXCEPT ![c] = "asleep"]
  /\ UNCHANGED <<full, readers, dequeued, enqueued, next_buffer, hand, recent, slot>>
  /\ ConsumerOnly

\* wait_full_buffer_timeout returns NULL.
WaitFullTimeout(c) ==
  /\ pc[c] \in {"asleep", "awake"} /\ c \in Consumer
  /\ pc' = [pc EXCEPT ![c] = "run"]
  /\ UNCHANGED <<full, readers, dequeued, enqueued, next_buffer, hand, recent, slot>>
  /\ ConsumerOnly

\* unget_full_buffer: the buffer dequeued last is put back.
UngetFull(c) ==
  /\ pc[c] = "run" /\ c \in Consumer /\ recent[c] # NULL
  /\ LET b == recent[c] IN
     /\ next_buffer' = [next_buffer EXCEPT ![c] = b]
     /\ dequeued' = [dequeued EXCEPT ![b] = @ - 1]
     /\ hand' = [hand EXCEPT ![c] = @ \ {b}]
  /\ recent' = [recent EXCEPT ![c] = NULL]
  /\ UNCHANGED <<full, readers, enqueued, pc, slot>> /\ ConsumerOnly

\* Mutant: the buffer is returned by the first consumer that is done with it.
SendEmptyFirst(c, b) ==
  /\ pc[c] = "run" /\ c \in Consumer /\ b \in hand[c]
  /\ hand' = [hand EXCEPT ![c] = @ \ {b}]
  /\ recent' = [recent EXCEPT ![c] = IF @ = b THEN NULL ELSE @]
  /\ enqueued' = [enqueued EXCEPT ![b] = @ + 1]
  /\ IF enqueued'[b] >= dequeued[b]
     THEN /\ full' = RemoveFirst(full, b)
          /\ slot' = [slot EXCEPT ![c] = b] /\ pc' = [pc EXCEPT ![c] = "return"]
     ELSE UNCHANGED <<full, slot, pc>>
  /\ UNCHANGED <<readers, dequeued, next_buffer>> /\ ConsumerOnly

\* send_empty_buffer: the last of the consumers takes the buffer off the full
\* queue and will put it on the empty queue.
SendEmpty(c, b) ==
  /\ pc[c] = "run" /\ c \in Consumer /\ b \in hand[c]
  /\ hand' = [hand EXCEPT ![c] = @ \ {b}]
  /\ recent' = [recent EXCEPT ![c] = IF @ = b THEN NULL ELSE @]
  /\ enqueued' = [enqueued EXCEPT ![b] = @ + 1]
  /\ IF enqueued'[b] >= readers[b]
     THEN /\ full' = RemoveFirst(full, b)
          /\ slot' = [slot EXCEPT ![c] = b] /\ pc' = [pc EXCEPT ![c] = "return"]
     ELSE UNCHANGED <<full, slot, pc>>
  /\ UNCHANGED <<readers, dequeued, next_buffer>> /\ ConsumerOnly

-----------------------------------------------------------------------------
(***************************************************************************)
(* Members come and go, after they have returned all buffers.              *)
(***************************************************************************)
RemConsumer(c) ==
  /\ c \in Leavers \cap consumers /\ pc[c] = "run" /\ hand[c] = {}
  /\ consumers' = consumers \ {c}
  /\ readers' = [b \in Buffer |-> IF b \in Range(full) THEN Cardinality(consumers')
                                  ELSE readers[b]]
  /\ next_buffer' = [next_buffer EXCEPT ![c] = NULL]
  /\ UNCHANGED <<full, empty, producers, waiting, eof_count, dequeued, enqueued, eof,
                 eof_sent, hand, recent, pc, slot>>

\* "Finished fifos are inhibited for new consumers."
AddConsumer(c) ==
  /\ c \in Consumer \ consumers
  /\ eof_count <= Cardinality(consumers)
  /\ consumers' = consumers \cup {c}
  /\ UNCHANGED <<full, empty, producers, waiting, eof_count, bufferVars, eof_sent,
                 next_buffer, hand, recent, pc, slot>>

\* "Pretend we didn't attempt an eof, and when we really sent eofs remember it."
RemProducer(p) ==
  /\ p \in Leavers \cap producers /\ pc[p] = "run" /\ hand[p] = {}
  /\ producers' = producers \ {p}
  /\ eof_count' = eof_count - (IF eof_count > 1 /\ eof_sent[p] THEN 1 ELSE 0)
  /\ eof_sent' = [eof_sent EXCEPT ![p] = FALSE]
  /\ UNCHANGED <<full, empty, consumers, waiting, bufferVars, next_buffer, hand, recent,
                 pc, slot>>

\* "Finished fifos remain finished."
AddProducer(p) ==
  /\ p \in Producer \ producers
  /\ eof_count <= Cardinality(consumers)
  /\ producers' = producers \cup {p}
  /\ UNCHANGED <<full, empty, consumers, waiting, eof_count, bufferVars, eof_sent,
                 next_buffer, hand, recent, pc, slot>>

-----------------------------------------------------------------------------
ProducerStep(p) ==
  \/ WaitEmpty(p) \/ CoLocked(p) \/ WakeProducer(p) \/ WaitEmptyTimeout(p)
  \/ RecvEmpty(p) \/ Enqueue(p) \/ LoopBack(p)
  \/ RemProducer(p) \/ AddProducer(p)
  \/ \E b \in Buffer : UngetEmpty(p, b) \/ SendData(p, b) \/ SendEof(p, b)

ConsumerStep(c) ==
  \/ TakeFull(c) \/ WaitFull(c) \/ WaitFullTimeout(c) \/ UngetFull(c)
  \/ RemConsumer(c) \/ AddConsumer(c)
  \/ \E b \in Buffer : SendEmpty(c, b)

Next ==
  \/ \E p \in Producer : ProducerStep(p)
  \/ \E c \in Consumer : ConsumerStep(c)
  \/ \E t \in Thread : ReturnEmpty(t)

Spec == Init /\ [][Next]_vars

(***************************************************************************)
(* Fairness.  A critical section that was begun is finished, a woken       *)
(* thread runs, consumers take the buffers there are and return those they *)
(* have, if they wait with buffers in hand then not for ever, and a        *)
(* producer sends the buffers it has got.                                  *)
(***************************************************************************)
InCall(t) ==
  \/ ReturnEmpty(t)
  \/ t \in Producer /\ (CoLocked(t) \/ WakeProducer(t) \/ Enqueue(t) \/ LoopBack(t))

FairSpec ==
  /\ Spec
  /\ \A t \in Thread : WF_vars(InCall(t))
  /\ \A p \in Producer : SF_vars(\E b \in Buffer : SendData(p, b))
  /\ \A c \in Consumer :
       /\ SF_vars(TakeFull(c)) /\ WF_vars(hand[c] # {} /\ WaitFullTimeout(c))
       /\ SF_vars(\E b \in Buffer : SendEmpty(c, b))

-----------------------------------------------------------------------------
\* Every variable has its type.
TypeOK ==
  /\ full \in Seq(Buffer) /\ empty \subseteq Buffer
  /\ producers \subseteq Producer /\ consumers \subseteq Consumer
  /\ waiting \in Seq(Producer) /\ eof_count \in Nat
  /\ readers \in [Buffer -> Nat]
  /\ dequeued \in [Buffer -> Nat] /\ enqueued \in [Buffer -> Nat]
  /\ eof \in [Buffer -> BOOLEAN] /\ eof_sent \in [Producer -> BOOLEAN]
  /\ next_buffer \in [Consumer -> Buffer \cup {NULL}]
  /\ hand \in [Thread -> SUBSET Buffer]
  /\ recent \in [Consumer -> Buffer \cup {NULL}]
  /\ pc \in [Thread -> Pc] /\ slot \in [Thread -> Buffer \cup {NULL}]

\* The buffers a consumer has yet to read.
Ahead(c) ==
  IF next_buffer[c] \in Range(full)
  THEN SubSeq(full, CHOOSE i \in DOMAIN full : full[i] = next_buffer[c], Len(full))
  ELSE <<>>

\* Every variable keeps its type, and a buffer is in one place: on one of the queues, with one producer, or on its
\* way between the queues; what a consumer has is still on the full queue.
OnePlace ==
  /\ TypeOK
  /\ IsInjective(full) /\ Range(full) \cap empty = {}
  /\ \A t \in Producer : hand[t] \cap (Range(full) \cup empty) = {}
  /\ \A t, u \in Thread :
       /\ t # u /\ t \in Producer /\ u \in Producer => hand[t] \cap hand[u] = {}
       /\ slot[t] # NULL => slot[t] \notin Range(full) \cup empty \cup hand[u]
       /\ t # u /\ slot[t] # NULL => slot[t] # slot[u]
  /\ \A c \in Consumer : hand[c] \subseteq Range(full)

\* "c->next_buffer points to the next buffer in fifo->full to be dequeued": no
\* consumer is left behind on another queue, and the buffer it dequeued last can
\* be put back, as unget_full_buffer asserts that nothing between the two has been
\* skipped.
NextOnFull ==
  \A c \in Consumer :
    /\ next_buffer[c] # NULL => next_buffer[c] \in Range(full)
    /\ recent[c] # NULL => Succ(recent[c]) = next_buffer[c]

\* The counters of a queued buffer say who has yet to read it and who is looking
\* at it, while the consumers stay.
Counted ==
  \A b \in Range(full) :
    /\ readers[b] - dequeued[b] = Cardinality({c \in Consumer : b \in Range(Ahead(c))})
    /\ dequeued[b] - enqueued[b] = Cardinality({c \in Consumer : b \in hand[c]})
    /\ enqueued[b] < readers[b]

\* The fifo implements FrameStream: "consumers are guaranteed to receive buffers
\* in sent order", and a buffer is not reused before all are done with it.
Stream == INSTANCE FrameStream
  WITH Reader <- Consumer,
       pend   <- [c \in Consumer |-> Ahead(c)],
       hand   <- [c \in Consumer |-> hand[c]]

ImplementsStream == Stream!Spec

\* Recycling never costs a consumer the end of the stream or an error ("to avoid
\* consumers miss this information").
EofNotDropped ==
  [][\A c \in Consumer : \A b \in Range(Ahead(c)) :
       eof[b] /\ c \in consumers' => b \in Range(Ahead(c)') \cup hand'[c]]_vars

\* "When a fifo has multiple producers the EOF will be recorded until all
\* producers sent EOF": nothing is sent after the end of the stream.
EofIsLast ==
  [][\A c \in Consumer : Len(Ahead(c)) > 0 /\ eof[Last(Ahead(c))]
       => ~\E b \in Buffer : ~eof[b] /\ Ahead(c)' = Append(Ahead(c), b)]_vars

\* Every frame is read by every consumer it was sent to, or recycled: nobody
\* sleeps through the news.
FrameServed ==
  \A c \in Consumer, b \in Buffer : b \in Range(Ahead(c)) ~> b \notin Range(Ahead(c))

\* wait_empty_buffer: "Suspends execution of the calling thread until an empty
\* buffer becomes available".
ProducerServed == \A p \in Producer : pc[p] = "asleep" ~> pc[p] = "run"
=============================================================================
