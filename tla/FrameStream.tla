---------------------------- MODULE FrameStream ----------------------------
(***************************************************************************)
(* What a queue of shared buffers promises, whatever its data structures:  *)
(* a frame is written to a buffer nobody uses, every reader it is          *)
(* published to is shown it exactly once and in the order of publication,  *)
(* unless the queue takes it away from the reader before it was shown, and *)
(* the buffer is not written again before all of them are done with it.    *)
(*                                                                         *)
(* The slicer queue of the VBI proxy daemon (ProxyQueue) and the buffered  *)
(* fifos of Zapping (ZappingFifo) implement it.                            *)
(***************************************************************************)
EXTENDS Sequences, SequencesExt

CONSTANTS Reader, Buffer

VARIABLES
  pend,   \* the frames each reader has yet to be shown, oldest first
  hand    \* the buffers each reader is looking at

vars == <<pend, hand>>

Init ==
  /\ pend = [r \in Reader |-> <<>>]
  /\ hand = [r \in Reader |-> {}]

\* Nobody needs what the buffer contains.
Idle(b) == \A r \in Reader : b \notin Range(pend[r]) \cup hand[r]

\* A new frame for the readers R.
Publish(b, R) ==
  /\ Idle(b) /\ R # {}
  /\ pend' = [r \in Reader |-> IF r \in R THEN Append(pend[r], b) ELSE pend[r]]
  /\ UNCHANGED hand

\* The reader is shown its oldest frame ...
Take(r) ==
  /\ pend[r] # <<>>
  /\ pend' = [pend EXCEPT ![r] = Tail(@)]
  /\ hand' = [hand EXCEPT ![r] = @ \cup {Head(pend[r])}]

\* ... and is done with a frame ...
Return(r, b) ==
  /\ b \in hand[r]
  /\ hand' = [hand EXCEPT ![r] = @ \ {b}]
  /\ UNCHANGED pend

\* ... or wants to see it again later.
Unget(r, b) ==
  /\ b \in hand[r]
  /\ hand' = [hand EXCEPT ![r] = @ \ {b}]
  /\ pend' = [pend EXCEPT ![r] = <<b>> \o @]

\* A frame nobody looks at is taken away from the readers who were not shown it.
Drop(b) ==
  /\ \A r \in Reader : b \notin hand[r]
  /\ pend' = [r \in Reader |-> RemoveFirst(pend[r], b)]
  /\ UNCHANGED hand

\* One reader loses its oldest frame.
Skip(r) ==
  /\ pend[r] # <<>>
  /\ pend' = [pend EXCEPT ![r] = Tail(@)]
  /\ UNCHANGED hand

\* The readers R lose everything they were not shown.
Flush(R) ==
  /\ pend' = [r \in Reader |-> IF r \in R THEN <<>> ELSE pend[r]]
  /\ UNCHANGED hand

Next ==
  \/ \E b \in Buffer : Drop(b) \/ \E R \in SUBSET Reader : Publish(b, R)
  \/ \E R \in SUBSET Reader : Flush(R)
  \/ \E r \in Reader :
       \/ Take(r) \/ Skip(r)
       \/ \E b \in Buffer : Return(r, b) \/ Unget(r, b)

Spec == Init /\ [][Next]_vars
=============================================================================
