-------------------------- MODULE ProxyQueueProofs --------------------------
(***************************************************************************)
(* Theorems about the slicer queue, for any number of clients and buffers. *)
(*                                                                         *)
(* The types and the partition of the buffers hold however the daemon is   *)
(* run.  The reference counts are right, and the queue implements the      *)
(* abstract FrameStream, when the main loop serves the device (~UseThread) *)
(* and the driver does not revoke services (StableServices).               *)
(***************************************************************************)
EXTENDS ProxyQueue, SequenceLemmas, FiniteSetTheorems

\* The program counters agree with the buffer and the client worked on.
ControlOK ==
  /\ tmp # NULL <=> apc \in {"read", "append"}
  /\ capture <=> apc # "off"
  /\ mpc \notin {"loop", "update_close"} => cur \in Client

TypeInv == TypeOK /\ ControlOK

-----------------------------------------------------------------------------
\* The pointer p_next of a buffer is a buffer or NULL.
LEMMA NextOfType ==
  ASSUME sliced \in Seq(Buffer), NEW b
  PROVE  NextOf(b) \in Buffer \cup {NULL}
<1>1. CASE \E i \in 1 .. Len(sliced) - 1 : sliced[i] = b
  <2> DEFINE k == CHOOSE i \in 1 .. Len(sliced) - 1 : sliced[i] = b
  <2>1. k \in 1 .. Len(sliced) - 1
    BY <1>1
  <2>2. 1 + k \in 1 .. Len(sliced)
    BY <2>1
  <2>3. sliced[1 + k] \in Buffer
    BY <2>2
  <2> QED
    BY <1>1, <2>3 DEF NextOf
<1>2. CASE ~ \E i \in 1 .. Len(sliced) - 1 : sliced[i] = b
  BY <1>2 DEF NextOf
<1> QED
  BY <1>1, <1>2

\* release_sliced keeps the types of what it changes.
LEMMA ReleaseType ==
  ASSUME TypeOK, NEW c \in Client, Release(c)
  PROVE  /\ ptr' \in [Client -> Buffer \cup {NULL}]
         /\ ref' \in [Buffer -> Nat]
         /\ sliced' \in Seq(Buffer) /\ free' \subseteq Buffer
         /\ fault' \in Faults
<1>1. fault' \in Faults
  BY DEF Release, ReleaseFault, Faults
<1>2. CASE fault' # "none"
  BY <1>1, <1>2 DEF Release, TypeOK
<1>3. CASE fault' = "none"
  <2>1. ptr[c] \in Buffer /\ ptr[c] # NULL
    BY <1>3 DEF Release, ReleaseFault, TypeOK
  <2>2. NextOf(ptr[c]) \in Buffer \cup {NULL}
    BY NextOfType DEF TypeOK
  <2>3. ptr' \in [Client -> Buffer \cup {NULL}]
    BY <1>3, <2>2 DEF Release, TypeOK
  <2>4. ref' \in [Buffer -> Nat]
    BY <1>3, <2>1 DEF Release, TypeOK
  <2>5. CASE ref[ptr[c]] <= 1
    <3>1. HeadPtr = ptr[c]
      BY <1>3, <2>5, <2>1 DEF Release, ReleaseFault
    <3>2. sliced # <<>>
      BY <3>1, <2>1 DEF HeadPtr
    <3>3. sliced' = Tail(sliced) /\ free' = free \cup {ptr[c]}
      BY <1>3, <2>5 DEF Release
    <3> QED
      BY <1>1, <2>1, <2>3, <2>4, <3>2, <3>3 DEF TypeOK
  <2>6. CASE ~(ref[ptr[c]] <= 1)
    BY <1>1, <1>3, <2>3, <2>4, <2>6 DEF Release, TypeOK
  <2> QED
    BY <2>5, <2>6
<1> QED
  BY <1>2, <1>3

\* The number of receivers of a frame is a natural number.
LEMMA ReceiversFinite ==
  ASSUME TypeOK
  PROVE  IsFiniteSet(Receivers) /\ Cardinality(Receivers) \in Nat
<1>1. Receivers \subseteq Client
  BY DEF Receivers, TypeOK, Range
<1> QED
  BY <1>1, ConstAssumption, FS_Subset, FS_CardinalityType

-----------------------------------------------------------------------------
\* release_sliced moves a buffer from the head of the queue to p_free, if any.
LEMMA ReleasePartition ==
  ASSUME TypeOK, Partition, NEW c \in Client, Release(c), UNCHANGED <<capture, tmp>>
  PROVE  Partition'
<1>1. CASE fault' # "none"
  BY <1>1 DEF Release, Partition, IsInjective, Range
<1>2. CASE fault' = "none" /\ ref[ptr[c]] <= 1
  <2>1. ptr[c] # NULL /\ HeadPtr = ptr[c]
    BY <1>2 DEF Release, ReleaseFault
  <2>2. sliced # <<>> /\ ptr[c] = Head(sliced)
    BY <2>1 DEF HeadPtr
  <2>3. sliced' = Tail(sliced) /\ free' = free \cup {Head(sliced)}
    BY <1>2, <2>2 DEF Release
  <2>4. IsInjective(sliced') /\ Range(sliced') = Range(sliced) \ {Head(sliced)}
    BY <2>2, <2>3, TailDistinct DEF Partition, TypeOK
  <2>5. Head(sliced) \in Range(sliced)
    BY <2>2 DEF Range, TypeOK
  <2> QED
    BY <2>2, <2>3, <2>4, <2>5 DEF Partition
<1>3. CASE fault' = "none" /\ ~(ref[ptr[c]] <= 1)
  BY <1>3 DEF Release, Partition, IsInjective, Range
<1> QED
  BY <1>1, <1>2, <1>3

\* All buffers queue_allocate may leave in p_free are outside the queue.
LEMMA AllocatedOutside ==
  ASSUME NEW F, NEW f \in Allocated(F)
  PROVE  f \subseteq Buffer \ Range(sliced)
  BY DEF Allocated

PartInv == TypeInv /\ Partition

LEMMA InitPart == Init => PartInv
<1> SUFFICES ASSUME Init PROVE PartInv
  OBVIOUS
<1>1. TypeOK
  <2>1. clnts \in Seq(Client) /\ IsInjective(clnts)
    BY DEF Init, IsInjective
  <2>2. sliced \in Seq(Buffer) /\ walk \in Seq(Client)
    BY DEF Init
  <2>3. /\ forward \in [Client -> BOOLEAN] /\ want \in [Client -> BOOLEAN]
        /\ active \in [Client -> BOOLEAN]
        /\ ptr \in [Client -> Buffer \cup {NULL}] /\ ref \in [Buffer -> Nat]
    BY DEF Init
  <2> QED
    BY <2>1, <2>2, <2>3, Zenon DEF Init, TypeOK, AcqPc, MainPc, Faults
<1>2. Partition
  <2>1. IsInjective(sliced) /\ Range(sliced) = {}
    BY DEF Init, IsInjective, Range
  <2> QED
    BY <2>1 DEF Init, Partition
<1> QED
  BY <1>1, <1>2 DEF Init, PartInv, TypeInv, ControlOK

\* The types and the partition of the buffers survive vbi_proxyd_update_services.
LEMMA UpdatePart ==
  ASSUME PartInv, NEW new, UpdateServices(new), UNCHANGED <<clnts, forward, ptr>>
  PROVE  /\ capture' \in BOOLEAN
         /\ sliced' \in Seq(Buffer) /\ free' \subseteq Buffer /\ tmp' \in Buffer \cup {NULL}
         /\ ref' \in [Buffer -> Nat]
         /\ want' \in [Client -> BOOLEAN] /\ active' \in [Client -> BOOLEAN]
         /\ apc' \in AcqPc
         /\ tmp' # NULL <=> apc' \in {"read", "append"}
         /\ capture' <=> apc' # "off"
         /\ Partition'
<1>1. CASE UpdateClosed
  BY <1>1 DEF UpdateClosed, devVars, PartInv, TypeInv, TypeOK, ControlOK, Partition,
              IsInjective, Range
<1>2. ASSUME NEW g \in DeviceGrants(new), UpdateOpen(new, g)
      PROVE  /\ capture' \in BOOLEAN
             /\ sliced' \in Seq(Buffer) /\ free' \subseteq Buffer /\ tmp' \in Buffer \cup {NULL}
             /\ ref' \in [Buffer -> Nat]
             /\ want' \in [Client -> BOOLEAN] /\ active' \in [Client -> BOOLEAN]
             /\ apc' \in AcqPc
             /\ tmp' # NULL <=> apc' \in {"read", "append"}
             /\ capture' <=> apc' # "off"
             /\ Partition'
  <2>1. want' \in [Client -> BOOLEAN] /\ active' \in [Client -> BOOLEAN]
    <3>1. \A c \in Client : (c \in g) \in BOOLEAN
      OBVIOUS
    <3>2. want \in [Client -> BOOLEAN] /\ active \in [Client -> BOOLEAN]
      BY DEF PartInv, TypeInv, TypeOK
    <3>3. /\ \A c \in Client : (IF c = new THEN c \in g ELSE want[c]) \in BOOLEAN
          /\ \A c \in Client : (IF c \in Range(clnts) /\ forward[c]
                               THEN c \in g ELSE active[c]) \in BOOLEAN
      BY <3>1, <3>2, Zenon
    <3> QED
      BY <1>2, <3>3, Zenon DEF UpdateOpen, StopAcquisition
  <2>2. ref' \in [Buffer -> Nat] /\ tmp' = NULL
    BY <1>2 DEF UpdateOpen, StopAcquisition, PartInv, TypeInv, TypeOK
  <2>3. CASE g # {}
    <3>1. capture' = TRUE /\ apc' = "idle" /\ sliced' = sliced
      BY <1>2, <2>3 DEF UpdateOpen, StopAcquisition
    <3>2. free' \subseteq Buffer \ Range(sliced)
      BY <1>2, <2>3, AllocatedOutside DEF UpdateOpen, StopAcquisition
    <3>3. NULL \notin Range(sliced)
      BY ConstAssumption DEF PartInv, TypeInv, TypeOK, Range
    <3>4. Partition'
      BY <2>2, <3>1, <3>2, <3>3, ConstAssumption DEF Partition, PartInv
    <3> QED
      BY <2>1, <2>2, <3>1, <3>2, <3>4 DEF AcqPc, PartInv, TypeInv, TypeOK
  <2>4. CASE g = {}
    <3>1. capture' = FALSE /\ apc' = "off" /\ sliced' = <<>> /\ free' = {}
      BY <1>2, <2>4 DEF UpdateOpen, StopAcquisition
    <3>2. IsInjective(sliced') /\ Range(sliced') = {}
      BY <3>1 DEF IsInjective, Range
    <3>3. Partition'
      BY <2>2, <3>1, <3>2 DEF Partition
    <3>4. sliced' \in Seq(Buffer) /\ free' \subseteq Buffer
      BY <3>1
    <3> QED
      BY <2>1, <2>2, <3>1, <3>3, <3>4, Zenon DEF AcqPc
  <2> QED
    BY <2>3, <2>4
<1> QED
  BY <1>1, <1>2 DEF UpdateServices

\* Every step preserves the types and the partition of the buffers.
LEMMA NextPart == PartInv /\ [Next]_vars => PartInv'
<1> SUFFICES ASSUME PartInv, [Next]_vars PROVE PartInv'
  OBVIOUS
<1>0. TypeOK /\ ControlOK /\ Partition
  BY DEF PartInv, TypeInv
<1> USE DEF PartInv, TypeInv
<1>1. CASE GetFree
  <2>1. ASSUME NEW b \in free, free' = free \ {b}, tmp' = b,
               ref' = [ref EXCEPT ![b] = 0], apc' = "read"
        PROVE  PartInv'
    <3>1. b \in Buffer /\ b # NULL
      BY <1>0, <2>1, ConstAssumption DEF TypeOK
    <3>2. TypeOK'
      BY <1>0, <1>1, <2>1, <3>1 DEF GetFree, TypeOK, AcqPc, clntVars, mainVars
    <3>3. ControlOK' /\ Partition'
      BY <1>0, <1>1, <2>1, <3>1
         DEF GetFree, TypeOK, ControlOK, Partition, mainVars
    <3> QED
      BY <3>2, <3>3
  <2>2. CASE free = {} /\ apc' = "force" /\ UNCHANGED <<free, tmp, ref>>
    <3>1. TypeOK'
      BY <1>0, <1>1, <2>2 DEF GetFree, TypeOK, AcqPc, clntVars, mainVars
    <3> QED
      BY <1>0, <1>1, <2>2, <3>1 DEF GetFree, ControlOK, Partition, mainVars
  <2> QED
    BY <1>1, <2>1, <2>2 DEF GetFree, TakeFree
<1>2. CASE ForceFree
  <2>1. TypeOK'
    BY <1>0, <1>2 DEF ForceFree, TypeOK, AcqPc, devVars, clntVars, mainVars
  <2> QED
    BY <1>0, <1>2, <2>1 DEF ForceFree, ControlOK, Partition, devVars, clntVars, mainVars
<1>3. CASE ForceFreeClient
  <2>1. Head(walk) \in Client /\ walk' \in Seq(Client)
    BY <1>0, <1>3 DEF ForceFreeClient, TypeOK
  <2>2. CASE Release(Head(walk))
    <3>1. TypeOK'
      BY <1>0, <1>3, <2>1, <2>2, ReleaseType DEF ForceFreeClient, TypeOK, mainVars
    <3>2. Partition'
      BY <1>0, <1>3, <2>1, <2>2, ReleasePartition DEF ForceFreeClient
    <3> QED
      BY <1>0, <1>3, <3>1, <3>2 DEF ForceFreeClient, ControlOK, mainVars
  <2>3. CASE UNCHANGED <<ptr, ref, sliced, free, fault>>
    <3>1. TypeOK'
      BY <1>0, <1>3, <2>1, <2>3 DEF ForceFreeClient, TypeOK, mainVars
    <3> QED
      BY <1>0, <1>3, <2>3, <3>1 DEF ForceFreeClient, ControlOK, Partition, mainVars
  <2> QED
    BY <1>3, <2>2, <2>3 DEF ForceFreeClient
<1>4. CASE ForceFreeDone
  <2>1. TypeOK'
    BY <1>0, <1>4 DEF ForceFreeDone, TypeOK, AcqPc, devVars, clntVars, mainVars
  <2> QED
    BY <1>0, <1>4, <2>1 DEF ForceFreeDone, ControlOK, Partition, devVars, mainVars
<1>5. CASE GetFreeAgain
  <2>1. ASSUME NEW b \in free, free' = free \ {b}, tmp' = b,
               ref' = [ref EXCEPT ![b] = 0], apc' = "read"
        PROVE  PartInv'
    <3>1. b \in Buffer /\ b # NULL
      BY <1>0, <2>1, ConstAssumption DEF TypeOK
    <3>2. TypeOK'
      BY <1>0, <1>5, <2>1, <3>1 DEF GetFreeAgain, TypeOK, AcqPc, clntVars, mainVars
    <3>3. ControlOK' /\ Partition'
      BY <1>0, <1>5, <2>1, <3>1
         DEF GetFreeAgain, TypeOK, ControlOK, Partition, mainVars
    <3> QED
      BY <3>2, <3>3
  <2>2. CASE free = {} /\ apc' = "idle" /\ UNCHANGED <<free, tmp, ref>>
    <3>1. TypeOK'
      BY <1>0, <1>5, <2>2 DEF GetFreeAgain, TypeOK, AcqPc, clntVars, mainVars
    <3> QED
      BY <1>0, <1>5, <2>2, <3>1 DEF GetFreeAgain, ControlOK, Partition, mainVars
  <2> QED
    BY <1>5, <2>1, <2>2 DEF GetFreeAgain, TakeFree
<1>6. CASE ReadFrame
  <2>1. tmp \in Buffer
    BY <1>0, <1>6 DEF ReadFrame, TypeOK, ControlOK
  <2>2. ref' \in [Buffer -> Nat]
    BY <1>0, <1>6, <2>1, ReceiversFinite DEF ReadFrame, TypeOK
  <2>3. ptr' \in [Client -> Buffer \cup {NULL}]
    BY <1>0, <1>6, <2>1 DEF ReadFrame, TypeOK
  <2>4. TypeOK'
    BY <1>0, <1>6, <2>2, <2>3 DEF ReadFrame, TypeOK, AcqPc, mainVars
  <2> QED
    BY <1>0, <1>6, <2>4 DEF ReadFrame, ControlOK, Partition, mainVars
<1>7. CASE ReadNothing
  <2>1. TypeOK'
    BY <1>0, <1>7 DEF ReadNothing, TypeOK, AcqPc, devVars, clntVars, mainVars
  <2> QED
    BY <1>0, <1>7, <2>1 DEF ReadNothing, ControlOK, Partition, devVars, mainVars
<1>8. CASE AppendFrame
  <2>1. tmp \in Buffer
    BY <1>0, <1>8 DEF AppendFrame, TypeOK, ControlOK
  <2>2. capture
    BY <1>0, <1>8 DEF AppendFrame, ControlOK
  <2>a. /\ sliced \in Seq(Buffer) /\ IsInjective(sliced) /\ tmp \notin Range(sliced)
        /\ free \subseteq Buffer
    BY <1>0 DEF TypeOK, Partition
  <2>b. /\ Append(sliced, tmp) \in Seq(Buffer) /\ IsInjective(Append(sliced, tmp))
        /\ Range(Append(sliced, tmp)) = Range(sliced) \cup {tmp}
    BY <2>1, <2>a, AppendDistinct
  <2>c. \/ ref[tmp] > 0 /\ sliced' = Append(sliced, tmp) /\ free' = free
        \/ ~(ref[tmp] > 0) /\ sliced' = sliced /\ free' = free \cup {tmp}
    BY <1>8 DEF AppendFrame
  <2>3. sliced' \in Seq(Buffer) /\ free' \subseteq Buffer
    BY <2>1, <2>a, <2>b, <2>c
  <2>4. TypeOK'
    BY <1>0, <1>8, <2>3 DEF AppendFrame, TypeOK, AcqPc, clntVars, mainVars
  <2>5. NULL \notin Range(sliced')
    BY <2>3, ConstAssumption DEF Range
  <2>6. CASE ref[tmp] > 0
    <3>1. /\ IsInjective(sliced') /\ Range(sliced') = Range(sliced) \cup {tmp}
          /\ free' = free
      BY <2>b, <2>c, <2>6
    <3>2. Partition'
      BY <1>0, <1>8, <2>2, <2>3, <2>5, <3>1, ConstAssumption DEF AppendFrame, Partition
    <3> QED
      BY <1>0, <1>8, <2>4, <3>2 DEF AppendFrame, ControlOK, mainVars
  <2>7. CASE ~(ref[tmp] > 0)
    <3>1. sliced' = sliced /\ free' = free \cup {tmp}
      BY <1>8, <2>7 DEF AppendFrame
    <3>2. Partition'
      BY <1>0, <1>8, <2>2, <2>3, <2>5, <3>1, ConstAssumption DEF AppendFrame, Partition
    <3> QED
      BY <1>0, <1>8, <2>4, <3>2 DEF AppendFrame, ControlOK, mainVars
  <2> QED
    BY <2>6, <2>7
<1>9. CASE FlushClient
  <2>1. cur \in Client /\ Release(cur)
    BY <1>0, <1>9 DEF FlushClient, ControlOK
  <2>2. TypeOK'
    BY <1>0, <1>9, <2>1, ReleaseType DEF FlushClient, TypeOK, acqVars, mainVars
  <2>3. Partition'
    BY <1>0, <1>9, <2>1, ReleasePartition DEF FlushClient
  <2> QED
    BY <1>0, <1>9, <2>2, <2>3 DEF FlushClient, ControlOK, acqVars, mainVars
<1>10. CASE FlushDone
  <2>1. cur \in Client
    BY <1>0, <1>10 DEF FlushDone, ControlOK
  <2>2. TypeOK'
    BY <1>0, <1>10, <2>1 DEF FlushDone, GoTo, TypeOK, MainPc, devVars, clntVars, acqVars
  <2> QED
    BY <1>0, <1>10, <2>1, <2>2
       DEF FlushDone, GoTo, ControlOK, Partition, devVars, acqVars
<1>11. CASE TakeServiceReq
  <2>1. TypeOK'
    BY <1>0, <1>11, UpdatePart DEF TakeServiceReq, GoTo, TypeOK, MainPc
  <2>2. Partition'
    BY <1>0, <1>11, UpdatePart DEF TakeServiceReq
  <2>3. ControlOK'
    BY <1>0, <1>11, UpdatePart DEF TakeServiceReq, GoTo, ControlOK
  <2> QED
    BY <2>1, <2>2, <2>3
<1>12. CASE TakeConnectReq
  <2>1. mpc' \in {"loop", "flush_close"} /\ cur' \in Client \cup {NULL}
    BY <1>0, <1>12 DEF TakeConnectReq, GoTo, ControlOK
  <2>2. TypeOK'
    BY <1>0, <1>12, <2>1, UpdatePart DEF TakeConnectReq, TypeOK, MainPc
  <2>3. Partition'
    BY <1>0, <1>12, UpdatePart DEF TakeConnectReq
  <2>4. ControlOK'
    BY <1>0, <1>12, UpdatePart DEF TakeConnectReq, GoTo, ControlOK
  <2> QED
    BY <2>2, <2>3, <2>4
<1>13. CASE Unlink
  <2>1. cur \in Client
    BY <1>0, <1>13 DEF Unlink, ControlOK
  <2>2. clnts' \in Seq(Client) /\ IsInjective(clnts')
    BY <1>0, <1>13, RemoveAtDistinct DEF Unlink, TypeOK
  <2>3. /\ forward' \in [Client -> BOOLEAN] /\ want' \in [Client -> BOOLEAN]
        /\ active' \in [Client -> BOOLEAN] /\ ptr' \in [Client -> Buffer \cup {NULL}]
    BY <1>0, <1>13 DEF Unlink, TypeOK
  <2>4. mpc' \in {"loop", "update_close"} /\ cur' = NULL
    BY <1>13 DEF Unlink, GoTo
  <2>5. TypeOK'
    BY <1>0, <1>13, <2>2, <2>3, <2>4 DEF Unlink, TypeOK, MainPc, devVars, acqVars
  <2> QED
    BY <1>0, <1>13, <2>4, <2>5 DEF Unlink, ControlOK, Partition, devVars, acqVars
<1>14. CASE UpdateAfterClose
  <2>1. TypeOK'
    BY <1>0, <1>14, UpdatePart DEF UpdateAfterClose, GoTo, TypeOK, MainPc
  <2>2. Partition'
    BY <1>0, <1>14, UpdatePart DEF UpdateAfterClose
  <2>3. ControlOK'
    BY <1>0, <1>14, UpdatePart DEF UpdateAfterClose, GoTo, ControlOK
  <2> QED
    BY <2>1, <2>2, <2>3
<1>15. CASE SendDone
  <2>1. cur \in Client /\ Release(cur)
    BY <1>0, <1>15 DEF SendDone, ControlOK
  <2>2. TypeOK'
    BY <1>0, <1>15, <2>1, ReleaseType DEF SendDone, GoTo, TypeOK, MainPc, acqVars
  <2>3. Partition'
    BY <1>0, <1>15, <2>1, ReleasePartition DEF SendDone
  <2> QED
    BY <1>0, <1>15, <2>2, <2>3 DEF SendDone, GoTo, ControlOK, acqVars
<1>16. CASE ChannelFlush
  <2>1. Range(sliced) \subseteq Buffer
    BY <1>0 DEF TypeOK, Range
  <2>2. IsInjective(sliced') /\ Range(sliced') = {}
    BY <1>16 DEF ChannelFlush, IsInjective, Range
  <2>3. sliced' \in Seq(Buffer) /\ ptr' \in [Client -> Buffer \cup {NULL}]
    BY <1>16 DEF ChannelFlush
  <2>4. TypeOK'
    BY <1>0, <1>16, <2>1, <2>3 DEF ChannelFlush, TypeOK, acqVars, mainVars
  <2>5. Partition'
    BY <1>0, <1>16, <2>2 DEF ChannelFlush, Partition
  <2> QED
    BY <1>0, <1>16, <2>4, <2>5 DEF ChannelFlush, ControlOK, acqVars, mainVars
<1>17. ASSUME NEW c \in Client, AddConnection(c) PROVE PartInv'
  <2>1. clnts' \in Seq(Client) /\ IsInjective(clnts')
    BY <1>0, <1>17, AppendDistinct DEF AddConnection, TypeOK
  <2>2. TypeOK'
    BY <1>0, <1>17, <2>1 DEF AddConnection, TypeOK, devVars, acqVars, mainVars
  <2> QED
    BY <1>0, <1>17, <2>2 DEF AddConnection, ControlOK, Partition, devVars, acqVars, mainVars
<1>18. ASSUME NEW c \in Client, Close(c) PROVE PartInv'
  <2>1. TypeOK'
    BY <1>0, <1>18 DEF Close, GoTo, TypeOK, MainPc, devVars, clntVars, acqVars
  <2> QED
    BY <1>0, <1>18, <2>1 DEF Close, GoTo, ControlOK, Partition, devVars, acqVars
<1>19. ASSUME NEW c \in Client, SendSliced(c) PROVE PartInv'
  <2>1. TypeOK'
    BY <1>0, <1>19 DEF SendSliced, GoTo, TypeOK, MainPc, devVars, clntVars, acqVars
  <2> QED
    BY <1>0, <1>19, <2>1 DEF SendSliced, GoTo, ControlOK, Partition, devVars, acqVars
<1>20. ASSUME NEW c \in Client, NEW s \in BOOLEAN, ConnectReq(c, s) PROVE PartInv'
  <2>1. forward' \in [Client -> BOOLEAN] /\ want' \in [Client -> BOOLEAN]
    BY <1>0, <1>20 DEF ConnectReq, TypeOK
  <2>2. TypeOK'
    BY <1>0, <1>20, <2>1 DEF ConnectReq, GoTo, TypeOK, MainPc, devVars, acqVars
  <2> QED
    BY <1>0, <1>20, <2>2 DEF ConnectReq, GoTo, ControlOK, Partition, devVars, acqVars
<1>21. ASSUME NEW c \in Client, NEW r \in BOOLEAN, NEW s \in BOOLEAN, ServiceReq(c, r, s)
       PROVE  PartInv'
  <2>1. want' \in [Client -> BOOLEAN]
    BY <1>0, <1>21 DEF ServiceReq, TypeOK
  <2>2. TypeOK'
    BY <1>0, <1>21, <2>1 DEF ServiceReq, GoTo, TypeOK, MainPc, devVars, acqVars
  <2> QED
    BY <1>0, <1>21, <2>2 DEF ServiceReq, GoTo, ControlOK, Partition, devVars, acqVars
<1>22. CASE UNCHANGED vars
  <2>1. TypeOK'
    BY <1>0, <1>22 DEF vars, TypeOK, devVars, clntVars, acqVars, mainVars
  <2> QED
    BY <1>0, <1>22, <2>1
       DEF vars, ControlOK, Partition, devVars, clntVars, acqVars, mainVars
<1> QED
  BY <1>1, <1>2, <1>3, <1>4, <1>5, <1>6, <1>7, <1>8, <1>9, <1>10, <1>11, <1>12,
     <1>13, <1>14, <1>15, <1>16, <1>17, <1>18, <1>19, <1>20, <1>21, <1>22
     DEF Next, ForwardData, FinishHandler, StartHandler

\* Type correctness of the daemon's queue, in both modes, for any driver.
THEOREM TypeCorrect == Spec => []TypeOK
<1>1. PartInv => TypeOK
  BY DEF PartInv, TypeInv
<1> QED
  BY <1>1, InitPart, NextPart, PTL DEF Spec

\* No buffer is ever in two places, in both modes, for any driver: even where
\* the acquisition thread races the main thread, no buffer is queued twice,
\* freed while queued, or filled while a client may read it from the queue.
THEOREM BuffersPartitioned == Spec => []Partition
<1>1. PartInv => Partition
  BY DEF PartInv
<1> QED
  BY <1>1, InitPart, NextPart, PTL DEF Spec

-----------------------------------------------------------------------------
(***************************************************************************)
(* The reference counts.                                                   *)
(***************************************************************************)

\* Only connected clients receive data, while the device is open, and they
\* have asked for it - or are just about to ask for something else.
ActiveOK ==
  \A c \in Client : active[c] =>
    /\ capture /\ c \in Range(clnts) /\ forward[c]
    /\ want[c] \/ (cur = c /\ mpc \in {"flush_srv", "update_srv"})

\* Only clients that receive data have something to process.
PendingActive == \A c \in Client : ptr[c] # NULL => active[c]

\* The message handlers do not run inside forward_data.
ExclusiveOK == mpc # "loop" => apc \in {"off", "idle"}

\* The queue of a client is empty before its services change.
FlushedOK == mpc \in {"update_srv", "update_con", "unlink"} => ptr[cur] = NULL

\* A buffer that is being filled has no references.
FreshOK == apc = "read" => ref[tmp] = 0

RefInv ==
  /\ PartInv /\ RefCount /\ NoDangling /\ NoBadRelease
  /\ ActiveOK /\ PendingActive /\ ExclusiveOK /\ FlushedOK /\ FreshOK

-----------------------------------------------------------------------------
\* Positions in a queue without repetitions.
LEMMA AfterIndex ==
  ASSUME NEW S, NEW q \in Seq(S), IsInjective(q),
         NEW i \in 1 .. Len(q), NEW j \in 1 .. Len(q)
  PROVE  AtOrAfter(q, q[i], q[j]) <=> i <= j
  BY DEF AtOrAfter, IsInjective

LEMMA AfterMember ==
  ASSUME NEW q, NEW p, NEW b, AtOrAfter(q, p, b)
  PROVE  p \in Range(q) /\ b \in Range(q)
  BY DEF AtOrAfter, Range

\* A new last element changes nothing for the others and comes after all.
LEMMA AfterAppend ==
  ASSUME NEW S, NEW q \in Seq(S), IsInjective(q), NEW e \in S, e \notin Range(q), NEW p
  PROVE  /\ \A b \in Range(q) : AtOrAfter(Append(q, e), p, b) <=> AtOrAfter(q, p, b)
         /\ p \in Range(q) \cup {e} => AtOrAfter(Append(q, e), p, e)
<1> DEFINE a == Append(q, e)
<1>1. /\ a \in Seq(S) /\ Len(a) = Len(q) + 1 /\ Len(q) \in Nat
      /\ \A k \in 1 .. Len(q) : a[k] = q[k]
      /\ a[Len(q) + 1] = e
  BY AppendDistinct
<1>2. DOMAIN a = 1 .. Len(q) + 1 /\ DOMAIN q = 1 .. Len(q)
  BY <1>1
<1> HIDE DEF a
<1>3. ASSUME NEW b \in Range(q)
      PROVE  AtOrAfter(a, p, b) <=> AtOrAfter(q, p, b)
  <2>1. ASSUME NEW i \in DOMAIN a, NEW j \in DOMAIN a, i <= j, a[i] = p, a[j] = b
        PROVE  i \in DOMAIN q /\ j \in DOMAIN q /\ q[i] = p /\ q[j] = b
    <3>1. j # Len(q) + 1
      BY <1>1, <1>3, <2>1
    <3> QED
      BY <1>1, <1>2, <2>1, <3>1
  <2>2. ASSUME NEW i \in DOMAIN q, NEW j \in DOMAIN q, i <= j, q[i] = p, q[j] = b
        PROVE  i \in DOMAIN a /\ j \in DOMAIN a /\ a[i] = p /\ a[j] = b
    BY <1>1, <1>2, <2>2
  <2> QED
    BY <2>1, <2>2, Zenon DEF AtOrAfter
<1>4. ASSUME p \in Range(q) \cup {e}
      PROVE  AtOrAfter(a, p, e)
  <2>1. Range(a) = Range(q) \cup {e}
    BY AppendDistinct DEF a
  <2>2. PICK i \in DOMAIN a : a[i] = p
    BY <1>4, <2>1 DEF Range
  <2>3. i <= Len(q) + 1 /\ Len(q) + 1 \in DOMAIN a
    BY <1>1, <1>2
  <2> QED
    BY <1>1, <2>2, <2>3 DEF AtOrAfter
<1> QED
  BY <1>3, <1>4 DEF a

\* Without the head, nothing changes for the other elements.
LEMMA AfterTail ==
  ASSUME NEW S, NEW q \in Seq(S), IsInjective(q), q # <<>>,
         NEW p, p # Head(q), NEW b \in Range(Tail(q))
  PROVE  AtOrAfter(Tail(q), p, b) <=> AtOrAfter(q, p, b)
<1> DEFINE t == Tail(q)
<1>1. /\ t \in Seq(S) /\ Len(t) = Len(q) - 1 /\ Len(q) \in Nat \ {0}
      /\ \A k \in 1 .. Len(q) - 1 : t[k] = q[k + 1]
      /\ Head(q) = q[1] /\ Range(t) = Range(q) \ {Head(q)}
  BY TailDistinct
<1>2. DOMAIN t = 1 .. Len(q) - 1 /\ DOMAIN q = 1 .. Len(q)
  BY <1>1
<1>3. b # q[1]
  BY <1>1
<1> HIDE DEF t
<1>4. ASSUME NEW i \in DOMAIN t, NEW j \in DOMAIN t, i <= j, t[i] = p, t[j] = b
      PROVE  /\ i + 1 \in DOMAIN q /\ j + 1 \in DOMAIN q /\ i + 1 <= j + 1
             /\ q[i + 1] = p /\ q[j + 1] = b
  BY <1>1, <1>2, <1>4
<1>5. ASSUME NEW i \in DOMAIN q, NEW j \in DOMAIN q, i <= j, q[i] = p, q[j] = b
      PROVE  /\ i - 1 \in DOMAIN t /\ j - 1 \in DOMAIN t /\ i - 1 <= j - 1
             /\ t[i - 1] = p /\ t[j - 1] = b
  <2>1. i # 1 /\ j # 1
    BY <1>1, <1>3, <1>5
  <2>2. i - 1 \in 1 .. Len(q) - 1 /\ j - 1 \in 1 .. Len(q) - 1
    BY <1>1, <1>2, <2>1
  <2>3. t[i - 1] = q[(i - 1) + 1] /\ t[j - 1] = q[(j - 1) + 1]
    BY <1>1, <2>2
  <2> QED
    BY <1>1, <1>2, <1>5, <2>2, <2>3
<1> QED
  BY <1>4, <1>5 DEF AtOrAfter, t

\* p_next of a queued buffer is the one at the following position.
LEMMA NextOfIndex ==
  ASSUME sliced \in Seq(Buffer), IsInjective(sliced), NEW k \in 1 .. Len(sliced)
  PROVE  NextOf(sliced[k]) = IF k < Len(sliced) THEN sliced[k + 1] ELSE NULL
<1>1. CASE k < Len(sliced)
  <2> DEFINE m == CHOOSE i \in 1 .. Len(sliced) - 1 : sliced[i] = sliced[k]
  <2>1. k \in 1 .. Len(sliced) - 1
    BY <1>1
  <2>a. \E i \in 1 .. Len(sliced) - 1 : sliced[i] = sliced[k]
    BY <2>1
  <2>2. m \in 1 .. Len(sliced) - 1 /\ sliced[m] = sliced[k]
    BY <2>a, Zenon
  <2>3. m \in DOMAIN sliced /\ k \in DOMAIN sliced
    BY <2>2
  <2>4. m = k
    BY <2>2, <2>3 DEF IsInjective
  <2>5. NextOf(sliced[k]) = sliced[1 + m]
    BY <2>a, Zenon DEF NextOf
  <2> HIDE DEF m
  <2>6. 1 + m = k + 1
    BY <2>4
  <2> QED
    BY <1>1, <2>5, <2>6
<1>2. CASE k = Len(sliced)
  <2>1. ~ \E i \in 1 .. Len(sliced) - 1 : sliced[i] = sliced[k]
    BY <1>2 DEF IsInjective
  <2> QED
    BY <1>2, <2>1 DEF NextOf
<1> QED
  BY <1>1, <1>2

\* The holders of a buffer are finitely many.
LEMMA HoldersFinite ==
  ASSUME NEW b
  PROVE  IsFiniteSet(Holders(b)) /\ Cardinality(Holders(b)) \in Nat
<1>1. Holders(b) \subseteq Client
  BY DEF Holders
<1> QED
  BY <1>1, ConstAssumption, FS_Subset, FS_CardinalityType

(***************************************************************************)
(* release_sliced, called for a client with pending data while no frame is *)
(* between its two critical sections, keeps the counts right and does not  *)
(* fail.  If the client is the last holder of its first buffer, that       *)
(* buffer is the head of the queue: the head has a holder too, which comes *)
(* to the released buffer later and hence holds it.                        *)
(***************************************************************************)
LEMMA ReleaseRef ==
  ASSUME PartInv, RefCount, NoDangling, apc # "append", apc' = apc,
         NEW c \in Client, ptr[c] # NULL, Release(c)
  PROVE  fault' = "none" /\ RefCount' /\ NoDangling'
<1> DEFINE q == sliced
           H(x) == {d \in Client : AtOrAfter(q, ptr[d], x)}
<1>1. /\ q \in Seq(Buffer) /\ IsInjective(q) /\ ref \in [Buffer -> Nat]
      /\ ptr \in [Client -> Buffer \cup {NULL}]
  BY DEF PartInv, TypeInv, TypeOK, Partition
<1>2. /\ \A x \in Range(q) : ref[x] > 0 /\ ref[x] = Cardinality(H(x))
      /\ \A d \in Client : ptr[d] # NULL => ptr[d] \in Range(q)
  BY DEF RefCount, NoDangling, Queue, Holders
<1>3. \A x : IsFiniteSet(H(x)) /\ H(x) = Holders(x)
  BY HoldersFinite DEF Holders, Queue
<1>a. PICK b \in Buffer : b = ptr[c]
  BY <1>1
<1>4. PICK k \in 1 .. Len(q) : b = q[k]
  BY <1>1, <1>2, <1>a, RangeIndex
<1>5. b \in Buffer /\ b \in Range(q) /\ c \in H(b)
  <2>1. b \in Buffer /\ b \in Range(q)
    BY <1>1, <1>2, <1>a
  <2>2. AtOrAfter(q, q[k], q[k])
    BY <1>1, AfterIndex
  <2> QED
    BY <1>4, <1>a, <2>1, <2>2
<1>6. NextOf(b) = IF k < Len(q) THEN q[k + 1] ELSE NULL
  BY <1>1, <1>4, NextOfIndex
<1>7. ASSUME ref[b] <= 1
      PROVE  H(b) = {c} /\ q # <<>> /\ b = Head(q) /\ HeadPtr = b /\ k = 1
  <2>1. Cardinality(H(b)) = 1
    BY <1>1, <1>2, <1>5, <1>7
  <2>2. H(b) = {c}
    <3>1. \E x : H(b) = {x}
      BY <1>3, <2>1, FS_Singleton
    <3> QED
      BY <1>5, <3>1
  <2>3. 1 \in 1 .. Len(q) /\ q # <<>> /\ Head(q) = q[1]
    BY <1>1, <1>4
  <2>4. q[1] \in Range(q)
    BY <1>1, <2>3, RangeIndex
  <2>5. H(q[1]) # {}
    <3>1. Cardinality(H(q[1])) > 0
      BY <1>2, <2>4, Zenon
    <3>2. Cardinality({}) = 0
      BY FS_EmptySet
    <3> HIDE DEF H
    <3> QED
      BY <3>1, <3>2
  <2>6. PICK d \in Client : AtOrAfter(q, ptr[d], q[1])
    BY <2>5
  <2>7. ptr[d] \in Range(q)
    BY <2>6, AfterMember
  <2>8. PICK m \in 1 .. Len(q) : ptr[d] = q[m]
    BY <1>1, <2>7, RangeIndex
  <2>9. m <= 1
    BY <1>1, <2>3, <2>6, <2>8, AfterIndex
  <2>10. m <= k
    BY <2>9
  <2>11. AtOrAfter(q, ptr[d], b)
    BY <1>1, <1>4, <2>8, <2>10, AfterIndex
  <2>12. d = c
    BY <2>2, <2>11
  <2>13. q[m] = q[k] /\ m \in DOMAIN q /\ k \in DOMAIN q
    BY <1>1, <1>4, <1>a, <2>8, <2>12
  <2>14. k = 1
    BY <1>1, <2>9, <2>13 DEF IsInjective
  <2> QED
    BY <1>4, <2>2, <2>3, <2>14 DEF HeadPtr
<1>8. fault' = "none"
  BY <1>5, <1>7, <1>a, ConstAssumption DEF Release, ReleaseFault
<1>9. /\ ptr' = [ptr EXCEPT ![c] = NextOf(b)]
      /\ ref' = [ref EXCEPT ![b] = ref[b] - 1]
      /\ ref[b] <= 1 => sliced' = Tail(sliced)
      /\ ~(ref[b] <= 1) => sliced' = sliced
  <2>1. ref[b] > 0
    BY <1>2, <1>5
  <2> QED
    BY <1>8, <1>a, <2>1 DEF Release
<1>10. Queue' = sliced'
  BY DEF Queue
<1>11. \A x : Holders(x)' = {d \in Client : AtOrAfter(sliced', ptr'[d], x)}
  BY <1>10 DEF Holders
<1>12. \A d \in Client : d # c => ptr'[d] = ptr[d]
  BY <1>1, <1>9
<1>13. ptr'[c] = IF k < Len(q) THEN q[k + 1] ELSE NULL
  BY <1>1, <1>6, <1>9
\* What remains for c: all it held, except b.
<1>14. ASSUME NEW x \in Range(q)
       PROVE  AtOrAfter(q, ptr'[c], x) <=> (c \in H(x) /\ x # b)
  <2>1. PICK j \in 1 .. Len(q) : x = q[j]
    BY <1>1, RangeIndex
  <2>2. c \in H(x) <=> k <= j
    BY <1>1, <1>4, <1>a, <2>1, AfterIndex
  <2>3. x # b <=> j # k
    BY <1>1, <1>4, <2>1 DEF IsInjective
  <2>4. CASE k < Len(q)
    <3>1. k + 1 \in 1 .. Len(q)
      BY <1>1, <2>4
    <3>2. AtOrAfter(q, q[k + 1], x) <=> k + 1 <= j
      BY <1>1, <2>1, <3>1, AfterIndex
    <3> QED
      BY <1>13, <2>2, <2>3, <2>4, <3>2
  <2>5. CASE ~(k < Len(q))
    <3>1. k = Len(q) /\ ptr'[c] = NULL
      BY <1>1, <1>13, <2>5
    <3>2. NULL \notin Range(q)
      BY <1>1, ConstAssumption DEF Range
    <3>3. ~AtOrAfter(q, ptr'[c], x)
      BY <3>1, <3>2, AfterMember
    <3> QED
      BY <1>1, <2>2, <2>3, <3>1, <3>3
  <2> QED
    BY <2>4, <2>5
<1> HIDE DEF q, H
<1>15. CASE ~(ref[b] <= 1)
  <2>1. sliced' = q
    BY <1>9, <1>15 DEF q
  <2>2. ASSUME NEW x \in Range(q), x # b
        PROVE  Holders(x)' = H(x) /\ ref'[x] = ref[x]
    <3>1. \A d \in Client : AtOrAfter(sliced', ptr'[d], x) <=> d \in H(x)
      BY <1>12, <1>14, <2>1, <2>2 DEF H
    <3>2. x \in Buffer
      BY <1>1, <2>2 DEF Range
    <3> QED
      BY <1>1, <1>9, <1>11, <2>2, <3>1, <3>2 DEF H
  <2>3. Holders(b)' = H(b) \ {c}
    <3>1. \A d \in Client : AtOrAfter(sliced', ptr'[d], b) <=> d \in H(b) /\ d # c
      BY <1>5, <1>12, <1>14, <2>1 DEF H
    <3> QED
      BY <1>11, <3>1 DEF H
  <2>4. Cardinality(Holders(b)') = Cardinality(H(b)) - 1
    BY <1>3, <1>5, <2>3, FS_RemoveElement
  <2>5. ref'[b] > 0 /\ ref'[b] = Cardinality(Holders(b)')
    BY <1>1, <1>2, <1>5, <1>9, <1>15, <2>4
  <2>6. RefCount'
    BY <1>2, <1>10, <2>1, <2>2, <2>5 DEF RefCount
  <2>7. NoDangling'
    <3>1. ptr'[c] # NULL => ptr'[c] \in Range(q)
      BY <1>1, <1>13, RangeIndex DEF q
    <3> QED
      BY <1>2, <1>10, <1>12, <2>1, <3>1 DEF NoDangling
  <2> QED
    BY <1>8, <2>6, <2>7
<1>16. CASE ref[b] <= 1
  <2>1. H(b) = {c} /\ q # <<>> /\ b = Head(q) /\ k = 1
    BY <1>7, <1>16
  <2>2. sliced' = Tail(q)
    BY <1>9, <1>16 DEF q
  <2>3. Range(sliced') = Range(q) \ {b}
    BY <1>1, <2>1, <2>2, TailDistinct
  <2>4. \A d \in Client : d # c => ptr'[d] # b
    <3> SUFFICES ASSUME NEW d \in Client, ptr[d] = b, d # c PROVE FALSE
      BY <1>12
    <3>1. AtOrAfter(q, b, b)
      BY <1>5, <1>a DEF H
    <3>2. d \in H(b)
      BY <1>a, <3>1 DEF H
    <3> QED
      BY <2>1, <3>2
  <2>5. ptr'[c] # b
    BY <1>1, <1>4, <1>5, <1>13, ConstAssumption DEF IsInjective
  <2>6. ASSUME NEW x \in Range(sliced')
        PROVE  Holders(x)' = H(x) /\ ref'[x] = ref[x]
    <3>1. x \in Range(q) /\ x # b
      BY <2>3
    <3>2. \A d \in Client : AtOrAfter(sliced', ptr'[d], x) <=> AtOrAfter(q, ptr'[d], x)
      BY <1>1, <2>1, <2>2, <2>4, <2>5, AfterTail
    <3>3. \A d \in Client : AtOrAfter(sliced', ptr'[d], x) <=> d \in H(x)
      BY <1>12, <1>14, <3>1, <3>2 DEF H
    <3>4. x \in Buffer
      BY <1>1, <3>1 DEF Range
    <3> QED
      BY <1>1, <1>9, <1>11, <3>1, <3>3, <3>4 DEF H
  <2>7. RefCount'
    BY <1>2, <1>10, <2>3, <2>6 DEF RefCount
  <2>8. NoDangling'
    <3>1. ptr'[c] # NULL => ptr'[c] \in Range(q)
      BY <1>1, <1>13, RangeIndex DEF q
    <3>2. \A d \in Client : ptr'[d] # NULL => ptr'[d] \in Range(q)
      BY <1>2, <1>12, <3>1
    <3> QED
      BY <1>10, <2>3, <2>4, <2>5, <3>2 DEF NoDangling
  <2> QED
    BY <1>8, <2>7, <2>8
<1> QED
  BY <1>15, <1>16

-----------------------------------------------------------------------------
\* A step that leaves the queue, the pointers into it and the counts of its
\* buffers alone.
LEMMA SameQueue ==
  ASSUME RefCount, NoDangling, Queue' = Queue, ptr' = ptr,
         \A x \in Range(Queue) : ref'[x] = ref[x]
  PROVE  RefCount' /\ NoDangling'
<1>1. \A x : Holders(x)' = Holders(x)
  BY DEF Holders
<1> QED
  BY <1>1 DEF RefCount, NoDangling

\* The receivers of a frame are the clients with active services.
LEMMA ReceiversActive ==
  ASSUME ActiveOK, TypeOK
  PROVE  Receivers = {c \in Client : active[c]}
<1>1. Range(clnts) \subseteq Client
  BY DEF TypeOK, Range
<1> QED
  BY <1>1 DEF Receivers, ActiveOK

\* vbi_proxyd_update_services leaves every client with pending data active, so
\* that the queue is empty when the acquisition is stopped.
LEMMA UpdateRef ==
  ASSUME StableServices, RefInv, mpc # "loop", cur' = NULL \/ cur' = cur,
         NEW new \in Client \cup {NULL}, new # NULL => new = cur /\ ptr[cur] = NULL,
         mpc # "flush_srv", mpc = "update_srv" => new = cur,
         UpdateServices(new), UNCHANGED <<clnts, forward, ptr>>
  PROVE  /\ RefCount' /\ NoDangling' /\ PendingActive'
         /\ \A c \in Client : active'[c] => capture' /\ c \in Range(clnts) /\ forward[c] /\ want'[c]
         /\ apc' \in {"off", "idle"}
<1>1. apc \in {"off", "idle"} /\ Queue = sliced
  BY DEF RefInv, ExclusiveOK, Queue
<1>2. /\ active \in [Client -> BOOLEAN] /\ want \in [Client -> BOOLEAN]
      /\ ActiveOK /\ PendingActive /\ RefCount /\ NoDangling
  BY DEF RefInv, PartInv, TypeInv, TypeOK
<1>3. CASE UpdateClosed
  <2>1. Queue' = Queue
    BY <1>3 DEF UpdateClosed, devVars, Queue
  <2>2. RefCount' /\ NoDangling'
    BY <1>2, <1>3, <2>1, SameQueue DEF UpdateClosed, devVars
  <2>3. \A c \in Client : ~active'[c]
    BY <1>2, <1>3 DEF UpdateClosed, ActiveOK
  <2>4. PendingActive'
    BY <1>2, <1>3 DEF UpdateClosed, PendingActive
  <2> QED
    BY <1>1, <1>3, <2>2, <2>3, <2>4 DEF UpdateClosed
<1>4. ASSUME NEW g \in DeviceGrants(new), UpdateOpen(new, g)
      PROVE  /\ RefCount' /\ NoDangling' /\ PendingActive'
             /\ \A c \in Client : active'[c] => capture' /\ c \in Range(clnts) /\ forward[c] /\ want'[c]
             /\ apc' \in {"off", "idle"}
  <2>1. /\ g \subseteq Wanting
        /\ \A c \in Wanting : c # new /\ active[c] => c \in g
    BY DEF DeviceGrants
  <2>2. /\ active' = [c \in Client |-> IF c \in Range(clnts) /\ forward[c]
                                     THEN c \in g ELSE active[c]]
        /\ want' = [c \in Client |-> IF c = new THEN c \in g ELSE want[c]]
        /\ ref' = ref
    BY <1>4 DEF UpdateOpen, StopAcquisition
  <2>3. \A c \in Client : ptr[c] # NULL => c \in g
    <3> SUFFICES ASSUME NEW c \in Client, ptr[c] # NULL PROVE c \in g
      OBVIOUS
    <3>1. c # new /\ active[c]
      BY <1>2, ConstAssumption DEF PendingActive
    <3>2. c \in Range(clnts) /\ forward[c] /\ want[c]
      BY <1>2, <3>1, ConstAssumption DEF ActiveOK
    <3> QED
      BY <2>1, <3>1, <3>2 DEF Wanting
  <2>4. PendingActive'
    <3> SUFFICES ASSUME NEW c \in Client, ptr[c] # NULL PROVE active'[c]
      BY DEF PendingActive
    <3>1. c \in g /\ c \in Range(clnts) /\ forward[c]
      BY <2>1, <2>3 DEF Wanting
    <3> QED
      BY <2>2, <3>1
  <2>5. \A c \in Client : active'[c] => c \in g /\ c \in Range(clnts) /\ forward[c] /\ want'[c]
    <3> SUFFICES ASSUME NEW c \in Client, active'[c]
                 PROVE  c \in g /\ c \in Range(clnts) /\ forward[c] /\ want'[c]
      OBVIOUS
    <3>1. c \in Range(clnts) /\ forward[c] /\ c \in g
      BY <1>2, <2>2 DEF ActiveOK
    <3>2. want[c]
      BY <2>1, <3>1 DEF Wanting
    <3> QED
      BY <2>2, <3>1, <3>2
  <2>6. CASE g # {}
    <3>1. capture' = TRUE /\ apc' = "idle" /\ sliced' = sliced
      BY <1>4, <2>6 DEF UpdateOpen, StopAcquisition
    <3>2. Queue' = Queue
      BY <1>1, <3>1 DEF Queue
    <3>3. RefCount' /\ NoDangling'
      BY <1>2, <2>2, <3>2, SameQueue
    <3> QED
      BY <2>4, <2>5, <3>1, <3>3
  <2>7. CASE g = {}
    <3>1. apc' = "off" /\ sliced' = <<>>
      BY <1>4, <2>7 DEF UpdateOpen, StopAcquisition
    <3>2. Queue' = <<>> /\ Range(Queue') = {}
      BY <3>1 DEF Queue, Range
    <3>3. RefCount' /\ NoDangling'
      BY <2>3, <2>7, <3>2 DEF RefCount, NoDangling
    <3> QED
      BY <2>4, <2>5, <2>7, <3>1, <3>3
  <2> QED
    BY <2>6, <2>7
<1> QED
  BY <1>3, <1>4 DEF UpdateServices

\* forward_data counts a new frame for all active clients; those with nothing
\* pending start with it, the others come to it after what they have pending.
LEMMA ReadRef ==
  ASSUME RefInv, ReadFrame
  PROVE  RefCount' /\ NoDangling'
<1>1. /\ tmp \in Buffer /\ tmp \notin Range(sliced) /\ tmp' = tmp /\ tmp # NULL
      /\ sliced \in Seq(Buffer) /\ IsInjective(sliced) /\ sliced' = sliced
      /\ ref \in [Buffer -> Nat] /\ ref[tmp] = 0
      /\ Queue = sliced /\ apc' = "append"
  BY ConstAssumption
     DEF RefInv, PartInv, TypeInv, TypeOK, ControlOK, Partition, FreshOK, ReadFrame, Queue
<1> DEFINE R == Receivers
<1>2. IsFiniteSet(R) /\ Cardinality(R) \in Nat /\ R = {c \in Client : active[c]}
  BY ReceiversFinite, ReceiversActive DEF RefInv, PartInv, TypeInv
<1>3. \A c \in Client : ptr[c] # NULL => c \in R
  BY <1>2 DEF RefInv, PendingActive
<1> HIDE DEF R
<1>4. /\ ref' = [ref EXCEPT ![tmp] = Cardinality(R)]
      /\ ptr' = [c \in Client |-> IF c \in R /\ ptr[c] = NULL THEN tmp ELSE ptr[c]]
  <2>1. ref[tmp] + Cardinality(Receivers) = Cardinality(R)
    BY <1>1, <1>2 DEF R
  <2>2. ref' = [ref EXCEPT ![tmp] = ref[tmp] + Cardinality(Receivers)]
    BY DEF ReadFrame
  <2> QED
    BY <2>1, <2>2 DEF ReadFrame, R
<1>5. \A x \in Range(sliced) : ref'[x] = ref[x] /\ x # tmp
  BY <1>1, <1>4 DEF Range
<1>6. CASE R = {}
  <2>1. Cardinality(R) = 0
    BY <1>6, FS_EmptySet
  <2>2. Queue' = Queue
    BY <1>1, <1>4, <2>1 DEF Queue
  <2>3. ptr' = ptr
    BY <1>4, <1>6 DEF RefInv, PartInv, TypeInv, TypeOK
  <2> QED
    BY <1>1, <1>5, <2>2, <2>3, SameQueue DEF RefInv
<1>7. CASE R # {}
  <2>1. Cardinality(R) > 0
    BY <1>2, <1>7, FS_EmptySet
  <2>2. Queue' = Append(sliced, tmp)
    BY <1>1, <1>4, <2>1 DEF Queue
  <2>3. Range(Queue') = Range(sliced) \cup {tmp}
    BY <1>1, <2>2, AppendDistinct
  <2>4. \A x : Holders(x)' = {c \in Client : AtOrAfter(Append(sliced, tmp), ptr'[c], x)}
    BY <2>2 DEF Holders
  <2>5. \A c \in Client : ptr'[c] # NULL <=> c \in R
    BY <1>1, <1>3, <1>4
  <2>6. \A c \in Client : ptr'[c] # NULL => ptr'[c] \in Range(sliced) \cup {tmp}
    BY <1>1, <1>4 DEF RefInv, NoDangling
  <2>7. ASSUME NEW x \in Range(sliced)
        PROVE  Holders(x)' = Holders(x)
    <3>1. ASSUME NEW c \in Client
          PROVE  AtOrAfter(Append(sliced, tmp), ptr'[c], x) <=> AtOrAfter(sliced, ptr[c], x)
      <4>1. AtOrAfter(Append(sliced, tmp), ptr'[c], x) <=> AtOrAfter(sliced, ptr'[c], x)
        BY <1>1, AfterAppend
      <4>2. CASE c \in R /\ ptr[c] = NULL
        <5>1. ptr'[c] = tmp
          BY <1>4, <4>2
        <5>2. NULL \notin Range(sliced) /\ tmp \notin Range(sliced)
          BY <1>1, ConstAssumption DEF Range
        <5> QED
          BY <4>1, <4>2, <5>1, <5>2, AfterMember
      <4>3. CASE ~(c \in R /\ ptr[c] = NULL)
        BY <1>4, <4>1, <4>3
      <4> QED
        BY <4>2, <4>3
    <3> QED
      BY <1>1, <2>4, <3>1 DEF Holders
  <2>8. \A x : x = tmp => Holders(x)' = R
    <3> SUFFICES ASSUME NEW x, x = tmp PROVE Holders(x)' = R
      OBVIOUS
    <3>1. ASSUME NEW c \in R PROVE AtOrAfter(Append(sliced, tmp), ptr'[c], x)
      <4>1. ptr'[c] \in Range(sliced) \cup {tmp}
        BY <1>2, <2>5, <2>6
      <4> QED
        BY <1>1, <4>1, AfterAppend
    <3>2. ASSUME NEW c \in Client, AtOrAfter(Append(sliced, tmp), ptr'[c], x) PROVE c \in R
      <4>1. ptr'[c] \in Range(sliced) \cup {tmp}
        BY <2>2, <2>3, <3>2, AfterMember
      <4>2. ptr'[c] # NULL
        BY <1>1, <4>1, ConstAssumption DEF Range
      <4> QED
        BY <2>5, <4>2
    <3> QED
      BY <1>2, <2>4, <3>1, <3>2
  <2>9. ASSUME NEW x \in Range(Queue')
        PROVE  ref'[x] > 0 /\ ref'[x] = Cardinality(Holders(x)')
    <3>1. CASE x = tmp
      <4>1. ref'[x] = Cardinality(R)
        BY <1>1, <1>4, <3>1
      <4> QED
        BY <2>1, <2>8, <3>1, <4>1
    <3>2. CASE x \in Range(sliced)
      BY <1>1, <1>5, <2>7, <3>2 DEF RefInv, RefCount
    <3> QED
      BY <2>3, <3>1, <3>2
  <2> QED
    BY <2>3, <2>6, <2>9 DEF RefCount, NoDangling
<1> QED
  BY <1>6, <1>7

-----------------------------------------------------------------------------
LEMMA InitRef == Init => RefInv
<1> SUFFICES ASSUME Init PROVE RefInv
  OBVIOUS
<1>1. PartInv
  BY InitPart
<1>2. Queue = <<>> /\ Range(Queue) = {}
  BY DEF Init, Queue, Range
<1>3. RefCount /\ NoDangling /\ NoBadRelease
  BY <1>2 DEF Init, RefCount, NoDangling, NoBadRelease
<1> QED
  BY <1>1, <1>3
     DEF Init, RefInv, ActiveOK, PendingActive, ExclusiveOK, FlushedOK, FreshOK

\* What the steps that do not touch the clients have in common.
LEMMA ClientFrame ==
  ASSUME ActiveOK, PendingActive, UNCHANGED <<capture, clntVars, mpc, cur>>
  PROVE  ActiveOK' /\ PendingActive'
  BY DEF ActiveOK, PendingActive, clntVars

\* Steps of forward_data.
LEMMA ForwardRef ==
  ASSUME ~UseThread, RefInv, ForwardData, fault = "none", PartInv'
  PROVE  RefInv'
<1>0. /\ TypeOK /\ ControlOK /\ Partition /\ RefCount /\ NoDangling
      /\ ActiveOK /\ PendingActive /\ ExclusiveOK /\ FlushedOK /\ FreshOK
  BY DEF RefInv, PartInv, TypeInv
\* forward_data runs from the main loop, and stays there.
<1>a. mpc = "loop" /\ mpc' = mpc /\ cur' = cur /\ capture' = capture
  <2>1. mpc = "loop"
    BY <1>0 DEF ForwardData, GetFree, ForceFree, ForceFreeClient, ForceFreeDone,
                GetFreeAgain, ReadFrame, ReadNothing, AppendFrame, AcqMayRun, ExclusiveOK
  <2> QED
    BY <2>1 DEF ForwardData, GetFree, ForceFree, ForceFreeClient, ForceFreeDone,
                GetFreeAgain, ReadFrame, ReadNothing, AppendFrame, mainVars, devVars
<1>b. ExclusiveOK' /\ FlushedOK'
  BY <1>a DEF ExclusiveOK, FlushedOK
<1>c. SUFFICES /\ RefCount' /\ NoDangling' /\ NoBadRelease'
               /\ ActiveOK' /\ PendingActive' /\ FreshOK'
  BY <1>b DEF RefInv
<1>1. CASE GetFree \/ GetFreeAgain
  <2>0. /\ apc \in {"idle", "retry"} /\ apc' # "append" /\ sliced' = sliced
        /\ UNCHANGED <<clntVars, fault>>
    BY <1>1 DEF GetFree, GetFreeAgain, TakeFree
  <2>1. ActiveOK' /\ PendingActive' /\ NoBadRelease'
    BY <1>0, <1>a, <2>0, ClientFrame DEF NoBadRelease, RefInv
  <2>2. Queue' = sliced /\ Queue = sliced /\ ptr' = ptr
    BY <2>0 DEF Queue, clntVars
  <2>3. ASSUME NEW b \in free, tmp' = b, ref' = [ref EXCEPT ![b] = 0], apc' = "read"
        PROVE  RefCount' /\ NoDangling' /\ FreshOK'
    <3>1. \A x \in Range(sliced) : ref'[x] = ref[x]
      BY <1>0, <2>3 DEF Partition, TypeOK, Range
    <3>2. RefCount' /\ NoDangling'
      BY <1>0, <2>2, <3>1, SameQueue
    <3> QED
      BY <1>0, <2>3, <3>2 DEF FreshOK, TypeOK
  <2>4. CASE apc' # "read" /\ ref' = ref
    <3>1. RefCount' /\ NoDangling'
      BY <1>0, <2>2, <2>4, SameQueue
    <3>2. FreshOK'
      BY <2>4 DEF FreshOK
    <3> QED
      BY <3>1, <3>2, <2>1
  <2> QED
    BY <1>1, <2>1, <2>3, <2>4 DEF GetFree, GetFreeAgain, TakeFree
<1>2. CASE ForceFree \/ ForceFreeDone
  <2>0. /\ apc \in {"force", "walk"} /\ apc' \in {"walk", "retry"}
        /\ UNCHANGED <<devVars, clntVars, fault>>
    BY <1>2 DEF ForceFree, ForceFreeDone
  <2>1. ActiveOK' /\ PendingActive' /\ NoBadRelease' /\ FreshOK'
    BY <1>0, <1>a, <2>0, ClientFrame DEF NoBadRelease, RefInv, FreshOK
  <2>2. Queue' = Queue /\ ptr' = ptr /\ ref' = ref
    BY <2>0 DEF Queue, clntVars, devVars
  <2> QED
    BY <1>0, <2>1, <2>2, SameQueue
<1>3. CASE ForceFreeClient
  <2>0. /\ apc = "walk" /\ apc' = apc /\ Head(walk) \in Client
        /\ UNCHANGED <<clnts, forward, want, active>>
    BY <1>0, <1>3 DEF ForceFreeClient, TypeOK
  <2>1. FreshOK'
    BY <2>0 DEF FreshOK
  <2>2. ActiveOK'
    BY <1>0, <1>a, <2>0 DEF ActiveOK
  <2>3. CASE Release(Head(walk)) /\ ptr[Head(walk)] # NULL
    <3>1. fault' = "none" /\ RefCount' /\ NoDangling'
      BY <1>0, <2>0, <2>3, ReleaseRef DEF RefInv
    <3>2. \A d \in Client : ptr'[d] # NULL => active[d]
      BY <1>0, <2>0, <2>3 DEF Release, PendingActive, TypeOK
    <3> QED
      BY <2>0, <2>1, <2>2, <3>1, <3>2 DEF NoBadRelease, PendingActive
  <2>4. CASE Release(Head(walk)) /\ ptr[Head(walk)] = NULL
    <3>1. fault' = "null" /\ UNCHANGED <<ptr, ref, sliced, free>>
      BY <2>4 DEF Release, ReleaseFault
    <3>2. Queue' = Queue
      BY <2>0, <3>1 DEF Queue
    <3>3. RefCount' /\ NoDangling'
      BY <1>0, <3>1, <3>2, SameQueue
    <3> QED
      BY <1>0, <2>0, <2>1, <2>2, <3>1, <3>3 DEF NoBadRelease, PendingActive
  <2>5. CASE UNCHANGED <<ptr, ref, sliced, free, fault>>
    <3>1. Queue' = Queue
      BY <2>0, <2>5 DEF Queue
    <3>2. RefCount' /\ NoDangling'
      BY <1>0, <2>5, <3>1, SameQueue
    <3> QED
      BY <1>0, <2>0, <2>1, <2>2, <2>5, <3>2 DEF NoBadRelease, PendingActive, RefInv
  <2> QED
    BY <1>3, <2>3, <2>4, <2>5 DEF ForceFreeClient
<1>4. CASE ReadFrame
  <2>1. RefCount' /\ NoDangling'
    BY <1>4, ReadRef
  <2>2. ActiveOK' /\ NoBadRelease' /\ FreshOK'
    BY <1>0, <1>4, <1>a DEF ReadFrame, ActiveOK, NoBadRelease, FreshOK, RefInv
  <2>3. Receivers = {c \in Client : active[c]}
    BY <1>0, ReceiversActive
  <2>4. PendingActive'
    BY <1>0, <1>4, <2>3 DEF ReadFrame, PendingActive
  <2> QED
    BY <2>1, <2>2, <2>4
<1>5. CASE ReadNothing
  <2>0. UNCHANGED <<devVars, clntVars, fault>> /\ apc' = "append" /\ apc = "read"
    BY <1>5 DEF ReadNothing
  <2>1. ActiveOK' /\ PendingActive' /\ NoBadRelease' /\ FreshOK'
    BY <1>0, <1>a, <2>0, ClientFrame DEF NoBadRelease, RefInv, FreshOK
  <2>2. Queue' = Queue /\ ptr' = ptr /\ ref' = ref
    BY <1>0, <2>0 DEF Queue, FreshOK, clntVars, devVars
  <2> QED
    BY <1>0, <2>1, <2>2, SameQueue
<1>6. CASE AppendFrame
  <2>0. UNCHANGED <<ref, clntVars, fault>> /\ apc' = "idle" /\ apc = "append"
    BY <1>6 DEF AppendFrame
  <2>1. ActiveOK' /\ PendingActive' /\ NoBadRelease' /\ FreshOK'
    BY <1>0, <1>a, <2>0, ClientFrame DEF NoBadRelease, RefInv, FreshOK
  <2>2. Queue' = Queue /\ ptr' = ptr
    BY <1>6, <2>0 DEF Queue, AppendFrame, clntVars
  <2> QED
    BY <1>0, <2>0, <2>1, <2>2, SameQueue
<1> QED
  BY <1>1, <1>2, <1>3, <1>4, <1>5, <1>6 DEF ForwardData

\* Steps of the main thread.  None of them runs inside forward_data.
LEMMA MainRef ==
  ASSUME ~UseThread, StableServices, RefInv, FinishHandler \/ StartHandler,
         fault = "none", PartInv'
  PROVE  RefInv'
<1>0. /\ TypeOK /\ ControlOK /\ Partition /\ RefCount /\ NoDangling
      /\ ActiveOK /\ PendingActive /\ ExclusiveOK /\ FlushedOK /\ FreshOK
  BY DEF RefInv, PartInv, TypeInv
<1>a. apc \in {"off", "idle"}
  BY <1>0 DEF FinishHandler, StartHandler, FlushClient, FlushDone, TakeServiceReq,
     TakeConnectReq, Unlink, UpdateAfterClose, SendDone, ChannelFlush, AddConnection,
     Close, SendSliced, ConnectReq, ServiceReq, AtLoop, MainMayRun, ExclusiveOK
<1>b. SUFFICES /\ RefCount' /\ NoDangling' /\ NoBadRelease'
               /\ ActiveOK' /\ PendingActive' /\ FlushedOK'
               /\ apc' \in {"off", "idle"}
  BY DEF RefInv, ExclusiveOK, FreshOK
<1>c. Queue = sliced
  BY <1>a DEF Queue
\* A client releases the buffer it points to, if any.
<1>d. ASSUME NEW c \in Client, Release(c), UNCHANGED <<capture, clnts, forward, want, active, apc>>,
             mpc \notin {"flush_srv"} => mpc' \notin {"flush_srv", "update_srv"},
             mpc \in {"flush_srv"} => mpc' = mpc /\ cur' = cur,
             mpc # "update_srv"
      PROVE  RefCount' /\ NoDangling' /\ NoBadRelease' /\ ActiveOK' /\ PendingActive'
  <2>1. ActiveOK'
    BY <1>0, <1>d DEF ActiveOK
  <2>2. PendingActive'
    <3>1. ptr[c] = NULL => ptr' = ptr
      BY <1>d DEF Release, ReleaseFault
    <3>2. \A d \in Client : d # c => ptr'[d] = ptr[d]
      BY <1>0, <1>d DEF Release, TypeOK
    <3> QED
      BY <1>0, <1>d, <3>1, <3>2 DEF PendingActive
  <2>3. CASE ptr[c] # NULL
    <3>1. fault' = "none" /\ RefCount' /\ NoDangling'
      BY <1>0, <1>a, <1>d, <2>3, ReleaseRef DEF RefInv
    <3> QED
      BY <2>1, <2>2, <3>1 DEF NoBadRelease
  <2>4. CASE ptr[c] = NULL
    <3>1. fault' = "null" /\ UNCHANGED <<ptr, ref, sliced, free>>
      BY <1>d, <2>4 DEF Release, ReleaseFault
    <3>2. Queue' = Queue
      BY <1>a, <1>d, <3>1 DEF Queue
    <3>3. RefCount' /\ NoDangling'
      BY <1>0, <3>1, <3>2, SameQueue
    <3> QED
      BY <2>1, <2>2, <3>1, <3>3 DEF NoBadRelease
  <2> QED
    BY <2>3, <2>4
\* A step that leaves the queue and the pointers into it alone.
<1>e. ASSUME UNCHANGED <<sliced, ref, ptr, apc, fault>>
      PROVE  RefCount' /\ NoDangling' /\ NoBadRelease' /\ apc' \in {"off", "idle"}
  <2>1. Queue' = Queue
    BY <1>a, <1>e DEF Queue
  <2>2. RefCount' /\ NoDangling'
    BY <1>0, <1>e, <2>1, SameQueue
  <2> QED
    BY <1>a, <1>e, <2>2 DEF NoBadRelease, RefInv
<1>1. CASE FlushClient
  <2>1. cur \in Client
    BY <1>0, <1>1 DEF FlushClient, ControlOK
  <2>2. RefCount' /\ NoDangling' /\ NoBadRelease' /\ ActiveOK' /\ PendingActive'
    BY <1>1, <1>d, <2>1 DEF FlushClient, acqVars, mainVars
  <2> QED
    BY <1>1, <1>a, <2>2 DEF FlushClient, acqVars, mainVars, FlushedOK
<1>2. CASE SendDone
  <2>1. cur \in Client
    BY <1>0, <1>2 DEF SendDone, ControlOK
  <2>2. RefCount' /\ NoDangling' /\ NoBadRelease' /\ ActiveOK' /\ PendingActive'
    BY <1>2, <1>d, <2>1 DEF SendDone, acqVars, GoTo
  <2> QED
    BY <1>2, <1>a, <2>2 DEF SendDone, acqVars, GoTo, FlushedOK
<1>3. CASE FlushDone
  <2>1. RefCount' /\ NoDangling' /\ NoBadRelease' /\ apc' \in {"off", "idle"}
    BY <1>3, <1>e DEF FlushDone, devVars, clntVars, acqVars
  <2>2. ActiveOK' /\ PendingActive'
    BY <1>0, <1>3 DEF FlushDone, GoTo, devVars, clntVars, ActiveOK, PendingActive
  <2>3. FlushedOK'
    BY <1>3 DEF FlushDone, GoTo, clntVars, FlushedOK
  <2> QED
    BY <2>1, <2>2, <2>3
<1>4. CASE TakeServiceReq \/ TakeConnectReq \/ UpdateAfterClose
  <2> DEFINE new == IF mpc = "update_close" THEN NULL ELSE cur
  <2>1. /\ mpc \in {"update_srv", "update_con", "update_close"}
        /\ mpc' \in {"loop", "flush_close"} /\ (cur' = NULL \/ cur' = cur)
        /\ UpdateServices(new)
        /\ UNCHANGED <<clnts, forward, ptr, fault>>
    BY <1>4 DEF TakeServiceReq, TakeConnectReq, UpdateAfterClose, GoTo
  <2>2. new \in Client \cup {NULL} /\ (new # NULL => new = cur /\ ptr[cur] = NULL)
    BY <1>0, <2>1 DEF ControlOK, FlushedOK
  <2>3. mpc = "update_srv" => new = cur
    OBVIOUS
  <2> HIDE DEF new
  <2>4. /\ RefCount' /\ NoDangling' /\ PendingActive'
        /\ \A c \in Client : active'[c] => capture' /\ c \in Range(clnts) /\ forward[c] /\ want'[c]
        /\ apc' \in {"off", "idle"}
    BY <2>1, <2>2, <2>3, UpdateRef
  <2>5. ActiveOK'
    BY <2>1, <2>4 DEF ActiveOK
  <2> QED
    BY <2>1, <2>4, <2>5 DEF NoBadRelease, RefInv, FlushedOK
<1>5. CASE Unlink
  <2>0. /\ cur \in Client /\ ptr[cur] = NULL
        /\ mpc' \in {"loop", "update_close"} /\ mpc = "unlink"
    BY <1>0, <1>5 DEF Unlink, ControlOK, FlushedOK, GoTo
  <2>1. ptr' = ptr
    BY <1>0, <1>5, <2>0 DEF Unlink, TypeOK
  <2>2. RefCount' /\ NoDangling' /\ NoBadRelease' /\ apc' \in {"off", "idle"}
    BY <1>5, <1>e, <2>1 DEF Unlink, devVars, acqVars
  <2>3. \A c \in Client : c # cur =>
          active'[c] = active[c] /\ forward'[c] = forward[c] /\ want'[c] = want[c]
    BY <1>0, <1>5 DEF Unlink, TypeOK
  <2>4. ~active'[cur]
    BY <1>0, <1>5, <2>0 DEF Unlink, TypeOK
  <2>5. PICK i \in DOMAIN clnts : clnts[i] = cur /\ clnts' = RemoveAt(clnts, i)
    BY <1>5 DEF Unlink
  <2>6. Range(clnts') = Range(clnts) \ {cur}
    BY <1>0, <2>5, RemoveAtDistinct DEF TypeOK
  <2>7. ActiveOK'
    BY <1>0, <1>5, <2>0, <2>3, <2>4, <2>6 DEF Unlink, devVars, ActiveOK
  <2>8. PendingActive'
    BY <1>0, <2>0, <2>1, <2>3 DEF PendingActive
  <2> QED
    BY <2>0, <2>2, <2>7, <2>8 DEF FlushedOK
<1>6. CASE ChannelFlush
  <2>1. /\ sliced' = <<>> /\ (\A c \in Client : ptr'[c] = NULL)
        /\ mpc = "loop" /\ UNCHANGED <<capture, clnts, forward, want, active, apc, mpc, cur, fault>>
    BY <1>6 DEF ChannelFlush, AtLoop, acqVars, mainVars
  <2>2. Queue' = <<>> /\ Range(Queue') = {}
    BY <1>a, <2>1 DEF Queue, Range
  <2>3. RefCount' /\ NoDangling' /\ PendingActive'
    BY <2>1, <2>2 DEF RefCount, NoDangling, PendingActive
  <2> QED
    BY <1>0, <1>a, <2>1, <2>3 DEF ActiveOK, FlushedOK, NoBadRelease, RefInv
<1>7. ASSUME NEW c \in Client, AddConnection(c) \/ Close(c) \/ SendSliced(c)
      PROVE  /\ RefCount' /\ NoDangling' /\ NoBadRelease'
             /\ ActiveOK' /\ PendingActive' /\ FlushedOK' /\ apc' \in {"off", "idle"}
  <2>1. /\ UNCHANGED <<sliced, ref, ptr, apc, fault, capture, forward, want, active>>
        /\ mpc = "loop" /\ mpc' \in {"loop", "flush_close", "sent"}
    BY <1>7 DEF AddConnection, Close, SendSliced, AtLoop, GoTo, devVars, clntVars, acqVars, mainVars
  <2>2. Range(clnts) \subseteq Range(clnts')
    <3>1. CASE AddConnection(c)
      <4>1. c \notin Range(clnts) /\ clnts' = Append(clnts, c)
        BY <3>1 DEF AddConnection
      <4> QED
        BY <1>0, <4>1, AppendDistinct DEF TypeOK
    <3>2. CASE Close(c) \/ SendSliced(c)
      BY <3>2 DEF Close, SendSliced, clntVars
    <3> QED
      BY <1>7, <3>1, <3>2
  <2>3. RefCount' /\ NoDangling' /\ NoBadRelease' /\ apc' \in {"off", "idle"}
    BY <1>e, <2>1
  <2>4. ActiveOK' /\ PendingActive' /\ FlushedOK'
    BY <1>0, <2>1, <2>2 DEF ActiveOK, PendingActive, FlushedOK
  <2> QED
    BY <2>3, <2>4
<1>8. ASSUME NEW c \in Client, NEW s \in BOOLEAN, ConnectReq(c, s)
      PROVE  /\ RefCount' /\ NoDangling' /\ NoBadRelease'
             /\ ActiveOK' /\ PendingActive' /\ FlushedOK' /\ apc' \in {"off", "idle"}
  <2>1. RefCount' /\ NoDangling' /\ NoBadRelease' /\ apc' \in {"off", "idle"}
    BY <1>8, <1>e DEF ConnectReq, devVars, acqVars
  <2>2. ~active[c] /\ ptr[c] = NULL
    BY <1>0, <1>8 DEF ConnectReq, ActiveOK, PendingActive
  <2>3. \A d \in Client : d # c => forward'[d] = forward[d] /\ want'[d] = want[d]
    BY <1>0, <1>8 DEF ConnectReq, TypeOK
  <2>4. ActiveOK' /\ PendingActive' /\ FlushedOK'
    BY <1>0, <1>8, <2>2, <2>3
       DEF ConnectReq, AtLoop, GoTo, devVars, ActiveOK, PendingActive, FlushedOK
  <2> QED
    BY <2>1, <2>4
<1>9. ASSUME NEW c \in Client, NEW r \in BOOLEAN, NEW s \in BOOLEAN, ServiceReq(c, r, s)
      PROVE  /\ RefCount' /\ NoDangling' /\ NoBadRelease'
             /\ ActiveOK' /\ PendingActive' /\ FlushedOK' /\ apc' \in {"off", "idle"}
  <2>1. RefCount' /\ NoDangling' /\ NoBadRelease' /\ apc' \in {"off", "idle"}
    BY <1>9, <1>e DEF ServiceReq, devVars, acqVars
  <2>2. \A d \in Client : d # c => want'[d] = want[d]
    BY <1>0, <1>9 DEF ServiceReq, TypeOK
  <2>3. ActiveOK' /\ PendingActive' /\ FlushedOK'
    BY <1>0, <1>9, <2>2
       DEF ServiceReq, AtLoop, GoTo, devVars, ActiveOK, PendingActive, FlushedOK
  <2> QED
    BY <2>1, <2>3
<1> QED
  BY <1>1, <1>2, <1>3, <1>4, <1>5, <1>6, <1>7, <1>8, <1>9 DEF FinishHandler, StartHandler

LEMMA NextRef ==
  ASSUME ~UseThread, StableServices
  PROVE  RefInv /\ [Next]_vars => RefInv'
<1> SUFFICES ASSUME RefInv, [Next]_vars PROVE RefInv'
  OBVIOUS
<1>1. PartInv'
  BY NextPart DEF RefInv
<1>2. CASE Next
  BY <1>1, <1>2, ForwardRef, MainRef DEF Next
<1>3. CASE UNCHANGED vars
  <2>1. UNCHANGED <<capture, sliced, free, tmp, ref, clnts, forward, want, active, ptr,
                    apc, mpc, cur, fault>>
    BY <1>3 DEF vars, devVars, clntVars, acqVars, mainVars
  <2>2. Queue' = Queue
    BY <2>1 DEF Queue
  <2>3. RefCount' /\ NoDangling'
    BY <2>1, <2>2, SameQueue DEF RefInv
  <2> QED
    BY <1>1, <2>1, <2>3
       DEF RefInv, NoBadRelease, ActiveOK, PendingActive, ExclusiveOK, FlushedOK, FreshOK
<1> QED
  BY <1>2, <1>3

-----------------------------------------------------------------------------
\* A frame is kept exactly as long as some client has to process it: the count
\* of a queued buffer is the number of clients whose pending data it belongs
\* to, however many clients, buffers, forced releases, service changes and
\* channel changes there are, and even if memory is short.
THEOREM RefCountCorrect ==
  ASSUME ~UseThread, StableServices
  PROVE  Spec => []RefCount
<1>1. RefInv => RefCount
  BY DEF RefInv
<1> QED
  BY <1>1, InitRef, NextRef, PTL DEF Spec

\* No client ever points to a buffer outside the queue.
THEOREM PointersQueued ==
  ASSUME ~UseThread, StableServices
  PROVE  Spec => []NoDangling
<1>1. RefInv => NoDangling
  BY DEF RefInv
<1> QED
  BY <1>1, InitRef, NextRef, PTL DEF Spec

\* release_sliced never touches a freed buffer, and its assertion that the
\* buffer which becomes free is the oldest one never fails.
THEOREM ReleasesAreSound ==
  ASSUME ~UseThread, StableServices
  PROVE  Spec => []NoBadRelease
<1>1. RefInv => NoBadRelease
  BY DEF RefInv
<1> QED
  BY <1>1, InitRef, NextRef, PTL DEF Spec

-----------------------------------------------------------------------------
\* Until update_services is run for the clients that remain, an open device has
\* a client which receives data.
DeviceUsed == capture /\ mpc # "update_close" => \E c \in Client : active[c]

LEMMA UpdateUsed ==
  ASSUME TypeOK, NEW new \in Client \cup {NULL}, UpdateServices(new)
  PROVE  capture' => \E c \in Client : active'[c]
<1>1. CASE UpdateClosed
  BY <1>1 DEF UpdateClosed, devVars
<1>2. ASSUME NEW g \in DeviceGrants(new), UpdateOpen(new, g), capture'
      PROVE  \E c \in Client : active'[c]
  <2>1. g # {} /\ g \subseteq Wanting
    BY <1>2 DEF DeviceGrants, UpdateOpen, StopAcquisition
  <2>2. PICK c \in g : TRUE
    BY <2>1
  <2>3. c \in Client /\ c \in Range(clnts) /\ forward[c]
    BY <2>1, <2>2 DEF Wanting, TypeOK, Range
  <2>4. active'[c] = (c \in g)
    BY <1>2, <2>3 DEF UpdateOpen
  <2> QED
    BY <2>2, <2>3, <2>4
<1> QED
  BY <1>1, <1>2 DEF UpdateServices

LEMMA NextUsed ==
  ASSUME RefInv, DeviceUsed, [Next]_vars
  PROVE  DeviceUsed'
<1>0. TypeOK /\ ControlOK
  BY DEF RefInv, PartInv, TypeInv
<1>a. ASSUME capture' = capture, active' = active, mpc # "update_close"
      PROVE  DeviceUsed'
  BY <1>a DEF DeviceUsed
<1>b. ASSUME NEW new \in Client \cup {NULL}, UpdateServices(new)
      PROVE  DeviceUsed'
  BY <1>0, <1>b, UpdateUsed DEF DeviceUsed
<1>1. CASE ForwardData
  <2>1. capture' = capture /\ active' = active /\ mpc' = mpc
    BY <1>1 DEF ForwardData, GetFree, TakeFree, ForceFree, ForceFreeClient, ForceFreeDone,
       GetFreeAgain, ReadFrame, ReadNothing, AppendFrame, devVars, clntVars, mainVars
  <2> QED
    BY <2>1 DEF DeviceUsed
<1>2. CASE TakeServiceReq \/ TakeConnectReq
  <2>1. UpdateServices(cur) /\ cur \in Client \cup {NULL}
    BY <1>0, <1>2 DEF TakeServiceReq, TakeConnectReq, TypeOK
  <2> QED
    BY <1>b, <2>1
<1>3. CASE UpdateAfterClose
  <2>1. UpdateServices(NULL)
    BY <1>3 DEF UpdateAfterClose
  <2> QED
    BY <1>b, <2>1
<1>4. CASE Unlink
  <2>1. /\ capture' = capture /\ mpc = "unlink"
        /\ active' = [active EXCEPT ![cur] = FALSE]
        /\ active[cur] => mpc' = "update_close"
    BY <1>4 DEF Unlink, GoTo, devVars
  <2>2. active \in [Client -> BOOLEAN]
    BY <1>0 DEF TypeOK
  <2>3. CASE active[cur]
    BY <2>1, <2>3 DEF DeviceUsed
  <2>4. CASE ~active[cur]
    <3>1. \A c \in Client : active[c] => active'[c]
      BY <2>1, <2>2, <2>4
    <3> QED
      BY <2>1, <3>1 DEF DeviceUsed
  <2> QED
    BY <2>3, <2>4
<1>5. CASE FlushClient \/ FlushDone \/ SendDone \/ ChannelFlush
  <2>1. capture' = capture /\ active' = active /\ mpc # "update_close"
    BY <1>5 DEF FlushClient, FlushDone, SendDone, ChannelFlush, AtLoop, devVars, clntVars
  <2> QED
    BY <1>a, <2>1
<1>6. ASSUME NEW c \in Client, AddConnection(c) \/ Close(c) \/ SendSliced(c)
      PROVE  DeviceUsed'
  <2>1. capture' = capture /\ active' = active /\ mpc # "update_close"
    BY <1>6 DEF AddConnection, Close, SendSliced, AtLoop, devVars, clntVars
  <2> QED
    BY <1>a, <2>1
<1>7. ASSUME NEW c \in Client, NEW r \in BOOLEAN, NEW s \in BOOLEAN,
             ConnectReq(c, s) \/ ServiceReq(c, r, s)
      PROVE  DeviceUsed'
  <2>1. capture' = capture /\ active' = active /\ mpc # "update_close"
    BY <1>7 DEF ConnectReq, ServiceReq, AtLoop, devVars
  <2> QED
    BY <1>a, <2>1
<1>8. CASE UNCHANGED vars
  BY <1>8 DEF DeviceUsed, vars, devVars, clntVars, mainVars
<1> QED
  BY <1>1, <1>2, <1>3, <1>4, <1>5, <1>6, <1>7, <1>8 DEF Next, FinishHandler, StartHandler

\* The device is open only while a client receives data: whichever way the last
\* one leaves or gives up its services, the acquisition is stopped.
THEOREM DeviceClosesWithLastClient ==
  ASSUME ~UseThread, StableServices
  PROVE  Spec => []LastClientStops
<1>1. Init => RefInv /\ DeviceUsed
  BY InitRef DEF Init, DeviceUsed
<1>2. RefInv /\ DeviceUsed /\ [Next]_vars => RefInv' /\ DeviceUsed'
  BY NextRef, NextUsed
<1>3. RefInv /\ DeviceUsed => LastClientStops
  BY DEF RefInv, ActiveOK, DeviceUsed, LastClientStops
<1> QED
  BY <1>1, <1>2, <1>3, PTL DEF Spec

-----------------------------------------------------------------------------
(***************************************************************************)
(* The slicer queue implements FrameStream, under the same conditions as   *)
(* the reference counts: every client is shown the frames it was counted   *)
(* for, in the order they were read, it is the frame which was sent that   *)
(* is released, and a buffer is not filled while it is being sent to a     *)
(* client or a client has it ahead of it.  Nor does the daemon crash on    *)
(* the way, as long as memory lasts.                                       *)
(*                                                                         *)
(* What a client has ahead of it is the part of the queue from its pointer *)
(* on; SequenceLemmas says how that part changes when the queue gets a new *)
(* last buffer, loses its first one, or the pointer moves to the next.     *)
(***************************************************************************)

LEMMA AheadFrom == \A c \in Client : Ahead(c) = From(Queue, ptr[c])
  BY DEF Ahead, From

\* Between send_sliced and release_sliced the client's pointer stays where it is.
SentOK == mpc = "sent" => sent = ptr[cur] /\ ptr[cur] # NULL

StreamInv == RefInv /\ SentOK

-----------------------------------------------------------------------------
\* Steps that leave the queue and the pointers alone, and send nothing, cannot be
\* seen.
LEMMA SameAhead ==
  ASSUME Queue' = Queue, ptr' = ptr, mpc # "sent", mpc' # "sent"
  PROVE  UNCHANGED Stream!vars
<1>1. \A c \in Client : Ahead(c)' = Ahead(c)
  BY DEF Ahead
<1> QED
  BY <1>1 DEF Sending, Stream!vars

\* Nothing is ahead of a client without a pointer.
LEMMA NullAhead ==
  ASSUME NEW q \in Seq(Buffer)
  PROVE  From(q, NULL) = <<>>
<1>1. NULL \notin Range(q)
  BY ConstAssumption DEF Range
<1> QED
  BY <1>1 DEF From

\* release_sliced takes the first frame from the client, and nothing from the
\* others: when it also takes the buffer out of the queue, nobody points there.
LEMMA ReleaseAhead ==
  ASSUME PartInv, RefCount, NoDangling, apc # "append", apc' = apc,
         NEW c \in Client, ptr[c] # NULL, Release(c)
  PROVE  /\ Ahead(c) # <<>>
         /\ \A d \in Client : Ahead(d)' = IF d = c THEN Tail(Ahead(c)) ELSE Ahead(d)
<1> DEFINE q == sliced
           b == ptr[c]
<1>1. fault' = "none" /\ NoDangling'
  BY ReleaseRef
<1>2. /\ q \in Seq(Buffer) /\ IsInjective(q) /\ ref \in [Buffer -> Nat]
      /\ ptr \in [Client -> Buffer \cup {NULL}]
      /\ Queue = q /\ Queue' = sliced'
  BY DEF PartInv, TypeInv, TypeOK, Partition, Queue
<1>3. b \in Range(q)
  BY <1>2 DEF NoDangling
<1>4. PICK k \in 1 .. Len(q) : q[k] = b
  BY <1>2, <1>3, RangeIndex
<1>5. /\ ptr' = [ptr EXCEPT ![c] = NextOf(b)]
      /\ ref[b] <= 1 => sliced' = Tail(sliced) /\ HeadPtr = b
      /\ ~(ref[b] <= 1) => sliced' = sliced
  BY <1>1 DEF Release, ReleaseFault
<1>6. NextOf(b) = IF k < Len(q) THEN q[k + 1] ELSE NULL
  <2>1. NextOf(sliced[k]) = IF k < Len(sliced) THEN sliced[k + 1] ELSE NULL
    BY <1>2, <1>4, NextOfIndex
  <2> QED
    BY <1>4, <2>1
<1> HIDE DEF q, b
<1>7. From(q, b) # <<>> /\ From(q, NextOf(b)) = Tail(From(q, b))
  <2>1. /\ From(q, q[k]) # <<>>
        /\ Tail(From(q, q[k])) = IF k < Len(q) THEN From(q, q[k + 1]) ELSE <<>>
    BY <1>2, <1>4, FromNext
  <2> QED
    BY <1>2, <1>4, <1>6, <2>1, NullAhead
<1>8. ASSUME NEW d \in Client
      PROVE  From(sliced', ptr'[d]) = From(q, ptr'[d])
  <2>1. CASE ref[b] <= 1
    <3>1. sliced' = Tail(q) /\ HeadPtr = b /\ b # NULL
      BY <1>5, <2>1 DEF q, b
    <3>2. q # <<>> /\ b = Head(q)
      BY <3>1 DEF HeadPtr, q
    <3>3. Range(sliced') = Range(q) \ {b}
      BY <1>2, <3>1, <3>2, TailDistinct
    <3>4. ptr'[d] # b
      BY <1>1, <1>2, <3>1, <3>3 DEF NoDangling
    <3> QED
      BY <1>2, <3>1, <3>2, <3>4, FromTail
  <2>2. CASE ~(ref[b] <= 1)
    BY <1>5, <2>2 DEF q
  <2> QED
    BY <2>1, <2>2
<1>9. ASSUME NEW d \in Client
      PROVE  Ahead(d)' = IF d = c THEN Tail(Ahead(c)) ELSE Ahead(d)
  <2>1. Ahead(d)' = From(q, ptr'[d])
    BY <1>2, <1>8 DEF Ahead, From
  <2>2. Ahead(c) = From(q, b) /\ Ahead(d) = From(q, ptr[d])
    BY <1>2, AheadFrom DEF b
  <2>3. ptr'[d] = IF d = c THEN NextOf(b) ELSE ptr[d]
    BY <1>2, <1>5
  <2> QED
    BY <1>7, <2>1, <2>2, <2>3
<1>10. Ahead(c) # <<>>
  BY <1>2, <1>7, AheadFrom DEF b
<1> QED
  BY <1>9, <1>10

\* The first frame a client has ahead of it is the one it points to.
LEMMA AheadHead ==
  ASSUME PartInv, NoDangling, apc # "append", NEW c \in Client, ptr[c] # NULL
  PROVE  Ahead(c) # <<>> /\ Head(Ahead(c)) = ptr[c]
<1> DEFINE q == sliced
           p == ptr[c]
<1>1. q \in Seq(Buffer) /\ IsInjective(q) /\ Queue = q
  BY DEF PartInv, TypeInv, TypeOK, Partition, Queue
<1>2. p \in Range(q) /\ Ahead(c) = From(q, p)
  BY <1>1, AheadFrom DEF NoDangling
<1> HIDE DEF q, p
<1>3. PICK k \in 1 .. Len(q) : q[k] = p
  BY <1>1, <1>2, RangeIndex
<1>4. /\ From(q, q[k]) \in Seq(Buffer) /\ Len(From(q, q[k])) = Len(q) - k + 1
      /\ \A j \in 1 .. Len(q) - k + 1 : From(q, q[k])[j] = q[k + j - 1]
  BY <1>1, FromAt
<1>5. 1 \in 1 .. Len(q) - k + 1 /\ k + 1 - 1 = k
  BY <1>1
<1>6. From(q, q[k])[1] = q[k] /\ Len(From(q, q[k])) # 0
  BY <1>4, <1>5
<1>7. Head(From(q, q[k])) = q[k] /\ From(q, q[k]) # <<>>
  BY <1>4, <1>6
<1> QED
  BY <1>2, <1>3, <1>7 DEF p

\* A release after a transmission returns the frame that was sent.
LEMMA SendReturns ==
  ASSUME PartInv, RefCount, NoDangling, SentOK, apc # "append", apc' = apc,
         mpc = "sent", mpc' # "sent", cur \in Client, Release(cur)
  PROVE  Stream!Return(cur, sent)
<1>1. sent = ptr[cur] /\ ptr[cur] # NULL
  BY DEF SentOK
<1>2. \A d \in Client : Ahead(d)' = IF d = cur THEN Tail(Ahead(cur)) ELSE Ahead(d)
  BY <1>1, ReleaseAhead
<1>3. \A d \in Client : Sending(d) <=> d = cur
  BY DEF Sending
<1>4. \A d \in Client : ~Sending(d)'
  BY DEF Sending
<1> QED
  BY <1>2, <1>3, <1>4 DEF Stream!Return

\* Sending a frame shows it to the client.
LEMMA SendTakes ==
  ASSUME PartInv, NoDangling, apc # "append", mpc = "loop", NEW c \in Client, SendSliced(c)
  PROVE  Stream!Take(c)
<1>1. /\ ptr[c] # NULL /\ sent' = ptr[c] /\ mpc' = "sent" /\ cur' = c
      /\ Queue' = Queue /\ ptr' = ptr
  BY DEF SendSliced, GoTo, devVars, clntVars, acqVars, Queue
<1>2. \A d \in Client : Ahead(d)' = Ahead(d)
  BY <1>1 DEF Ahead
<1>3. Ahead(c) # <<>> /\ Head(Ahead(c)) = ptr[c]
  BY <1>1, AheadHead
<1>4. \A d \in Client : ~Sending(d) /\ (Sending(d)' <=> d = c)
  BY <1>1 DEF Sending
<1> QED
  BY <1>1, <1>2, <1>3, <1>4 DEF Stream!Take

\* Any other release takes a frame from the client, or is the crash it ends in.
LEMMA ReleaseStep ==
  ASSUME PartInv, RefCount, NoDangling, apc # "append", apc' = apc,
         mpc # "sent", mpc' # "sent", NEW c \in Client, Release(c)
  PROVE  [Stream!Next]_(Stream!vars)
<1>1. CASE ptr[c] # NULL
  <2>1. /\ Ahead(c) # <<>>
        /\ \A d \in Client : Ahead(d)' = IF d = c THEN Tail(Ahead(c)) ELSE Ahead(d)
    BY <1>1, ReleaseAhead
  <2>2. Stream!Skip(c)
    BY <2>1 DEF Sending, Stream!Skip
  <2> QED
    BY <2>2 DEF Stream!Next
<1>2. CASE ptr[c] = NULL
  <2>1. UNCHANGED <<ptr, sliced>>
    BY <1>2 DEF Release, ReleaseFault
  <2>2. Queue' = Queue
    BY <2>1 DEF Queue
  <2> QED
    BY <2>1, <2>2, SameAhead
<1> QED
  BY <1>1, <1>2

\* A frame that is read is published to the clients it is counted for, in a
\* buffer which none of them has ahead of it.
LEMMA ReadPublishes ==
  ASSUME RefInv, ReadFrame
  PROVE  [Stream!Next]_(Stream!vars)
<1> DEFINE R == Receivers
           a == Append(sliced, tmp)
<1>1. /\ tmp \in Buffer /\ tmp \notin Range(sliced) /\ tmp' = tmp /\ tmp # NULL
      /\ sliced \in Seq(Buffer) /\ IsInjective(sliced) /\ sliced' = sliced
      /\ ref \in [Buffer -> Nat] /\ ref[tmp] = 0
      /\ ptr \in [Client -> Buffer \cup {NULL}]
      /\ Queue = sliced /\ apc' = "append"
  BY ConstAssumption
     DEF RefInv, PartInv, TypeInv, TypeOK, ControlOK, Partition, FreshOK, ReadFrame, Queue
<1>0. mpc # "sent" /\ mpc' # "sent"
  BY DEF RefInv, ExclusiveOK, ReadFrame, mainVars
<1>2. IsFiniteSet(R) /\ Cardinality(R) \in Nat /\ R = {c \in Client : active[c]}
  BY ReceiversFinite, ReceiversActive DEF RefInv, PartInv, TypeInv
<1>3. \A c \in Client : ptr[c] # NULL => c \in R /\ ptr[c] \in Range(sliced)
  BY <1>1, <1>2 DEF RefInv, PendingActive, NoDangling
<1>4. /\ ref'[tmp] = Cardinality(R)
      /\ ptr' = [c \in Client |-> IF c \in R /\ ptr[c] = NULL THEN tmp ELSE ptr[c]]
  BY <1>1, <1>2 DEF ReadFrame
<1>5. a \in Seq(Buffer)
  BY <1>1
<1> HIDE DEF R, a
<1>6. CASE R = {}
  <2>1. Queue' = Queue
    BY <1>1, <1>4, <1>6, FS_EmptySet DEF Queue
  <2>2. ptr' = ptr
    BY <1>1, <1>4, <1>6
  <2> QED
    BY <1>0, <2>1, <2>2, SameAhead
<1>7. CASE R # {}
  <2>1. Cardinality(R) > 0
    BY <1>2, <1>7, FS_EmptySet
  <2>2. Queue' = a
    BY <1>1, <1>4, <2>1 DEF Queue, a
  <2>3. /\ From(a, tmp) = <<tmp>>
        /\ \A p \in Range(sliced) : From(a, p) = Append(From(sliced, p), tmp)
    BY <1>1, FromAppend DEF a
  <2>4. ASSUME NEW c \in Client
        PROVE  /\ Ahead(c)' = IF c \in R THEN Append(Ahead(c), tmp) ELSE Ahead(c)
               /\ tmp \notin Range(Ahead(c))
    <3>1. Ahead(c)' = From(a, ptr'[c])
      BY <2>2 DEF Ahead, From
    <3>2. Ahead(c) = From(sliced, ptr[c])
      BY <1>1, AheadFrom
    <3>3. tmp \notin Range(Ahead(c))
      BY <1>1, <3>2, FromRange
    <3>4. CASE ptr[c] # NULL
      BY <1>3, <1>4, <2>3, <3>1, <3>2, <3>3, <3>4
    <3>5. CASE ptr[c] = NULL /\ c \in R
      <4>1. ptr'[c] = tmp /\ Ahead(c) = <<>>
        BY <1>1, <1>4, <3>2, <3>5, NullAhead
      <4> QED
        BY <2>3, <3>1, <3>3, <3>5, <4>1
    <3>6. CASE ptr[c] = NULL /\ c \notin R
      <4>1. ptr'[c] = NULL
        BY <1>4, <3>6
      <4> QED
        BY <1>1, <1>5, <3>1, <3>2, <3>3, <3>6, <4>1, NullAhead
    <3> QED
      BY <3>4, <3>5, <3>6
  <2>5. Stream!Idle(tmp)
    BY <1>0, <2>4 DEF Sending, Stream!Idle, Stream!Range, Range
  <2>6. \A c \in Client : ~Sending(c) /\ ~Sending(c)'
    BY <1>0 DEF Sending
  <2>7. Stream!Publish(tmp, R)
    BY <1>7, <2>4, <2>5, <2>6 DEF Stream!Publish
  <2>8. R \in SUBSET Client
    BY <1>2
  <2> QED
    BY <1>1, <2>7, <2>8 DEF Stream!Next
<1> QED
  BY <1>6, <1>7

\* A channel change takes everything from all clients.
LEMMA FlushStep ==
  ASSUME ~UseThread, RefInv, ChannelFlush
  PROVE  [Stream!Next]_(Stream!vars)
<1>1. /\ sliced' = <<>> /\ ptr' = [c \in Client |-> NULL] /\ apc' = apc /\ apc # "append"
      /\ mpc # "sent" /\ mpc' # "sent"
  BY DEF ChannelFlush, AtLoop, MainMayRun, acqVars, mainVars
<1>2. Queue' = <<>>
  BY <1>1 DEF Queue
<1>3. \A c \in Client : Ahead(c)' = <<>>
  BY <1>2 DEF Ahead, Range
<1>4. Stream!Flush(Client)
  BY <1>1, <1>3 DEF Sending, Stream!Flush
<1> QED
  BY <1>4 DEF Stream!Next

\* When services change no client loses or gains a frame: if the acquisition
\* stops, there was none left.
LEMMA UpdateStep ==
  ASSUME StableServices, RefInv, apc \in {"off", "idle"},
         NEW new \in Client \cup {NULL}, new # NULL => new = cur /\ ptr[cur] = NULL,
         mpc \notin {"flush_srv", "sent"}, mpc = "update_srv" => new = cur, mpc' # "sent",
         UpdateServices(new), ptr' = ptr
  PROVE  UNCHANGED Stream!vars
<1>1. /\ active \in [Client -> BOOLEAN] /\ ActiveOK /\ PendingActive /\ Queue = sliced
      /\ sliced \in Seq(Buffer)
  BY DEF RefInv, PartInv, TypeInv, TypeOK, Queue
<1>2. CASE UpdateClosed
  <2>1. Queue' = Queue
    BY <1>2 DEF UpdateClosed, devVars, Queue
  <2> QED
    BY <2>1, SameAhead
<1>3. ASSUME NEW g \in DeviceGrants(new), UpdateOpen(new, g)
      PROVE  UNCHANGED Stream!vars
  <2>1. CASE g # {}
    <3>1. Queue' = Queue
      BY <1>1, <1>3, <2>1 DEF UpdateOpen, StopAcquisition, Queue
    <3> QED
      BY <3>1, SameAhead
  <2>2. CASE g = {}
    <3>1. \A c \in Client : ptr[c] = NULL
      <4> SUFFICES ASSUME NEW c \in Client, ptr[c] # NULL PROVE c \in g
        BY <2>2
      <4>1. c # new /\ active[c]
        BY <1>1, ConstAssumption DEF PendingActive
      <4>2. c \in Range(clnts) /\ forward[c] /\ want[c]
        BY <1>1, <4>1, ConstAssumption DEF ActiveOK
      <4> QED
        BY <4>1, <4>2 DEF Wanting, DeviceGrants
    <3>2. Queue' = <<>>
      BY <1>3, <2>2 DEF UpdateOpen, StopAcquisition, Queue
    <3>3. ASSUME NEW c \in Client PROVE Ahead(c)' = Ahead(c)
      <4>1. Ahead(c) = <<>>
        BY <1>1, <3>1, AheadFrom, NullAhead
      <4>2. Ahead(c)' = From(<<>>, ptr'[c])
        BY <3>2 DEF Ahead, From
      <4>3. From(<<>>, ptr'[c]) = <<>>
        BY DEF From, Range
      <4> QED
        BY <4>1, <4>2, <4>3
    <3> QED
      BY <3>3 DEF Sending, Stream!vars
  <2> QED
    BY <2>1, <2>2
<1> QED
  BY <1>2, <1>3 DEF UpdateServices

-----------------------------------------------------------------------------
LEMMA InitStream == Init => Stream!Init
<1> SUFFICES ASSUME Init PROVE Stream!Init
  OBVIOUS
<1>1. Queue = <<>>
  BY DEF Init, Queue
<1>2. \A c \in Client : Ahead(c) = <<>>
  BY <1>1 DEF Ahead, Range
<1> QED
  BY <1>2 DEF Init, Sending, Stream!Init

LEMMA ForwardStream ==
  ASSUME ~UseThread, RefInv, ForwardData
  PROVE  [Stream!Next]_(Stream!vars)
<1>0. TypeOK /\ PartInv /\ RefCount /\ NoDangling /\ FreshOK
  BY DEF RefInv, PartInv, TypeInv
<1>a. mpc # "sent" /\ mpc' # "sent"
  BY DEF RefInv, ExclusiveOK, ForwardData, GetFree, AcqMayRun, GetFreeAgain, ForceFree,
     ForceFreeClient, ForceFreeDone, ReadFrame, ReadNothing, AppendFrame, mainVars
<1>1. CASE ReadFrame
  BY <1>1, ReadPublishes
<1>2. CASE ForceFreeClient
  <2>1. /\ apc = "walk" /\ apc' = apc /\ Head(walk) \in Client
        /\ Release(Head(walk)) \/ UNCHANGED <<ptr, sliced>>
    BY <1>0, <1>2 DEF ForceFreeClient, TypeOK
  <2>2. CASE Release(Head(walk))
    BY <1>0, <2>1, <2>2, <1>a, ReleaseStep
  <2>3. CASE UNCHANGED <<ptr, sliced>>
    <3>1. Queue' = Queue
      BY <2>1, <2>3 DEF Queue
    <3> QED
      BY <2>3, <3>1, <1>a, SameAhead
  <2> QED
    BY <2>1, <2>2, <2>3
<1>3. CASE GetFree \/ GetFreeAgain \/ ForceFree \/ ForceFreeDone
  <2>1. /\ apc # "append" /\ apc' # "append" /\ UNCHANGED <<ptr, sliced>>
    BY <1>3 DEF GetFree, GetFreeAgain, TakeFree, ForceFree, ForceFreeDone, devVars, clntVars
  <2>2. Queue' = Queue
    BY <2>1 DEF Queue
  <2> QED
    BY <2>1, <2>2, <1>a, SameAhead
<1>4. CASE ReadNothing
  <2>1. Queue' = Queue /\ ptr' = ptr
    BY <1>0, <1>4 DEF ReadNothing, Queue, FreshOK, devVars, clntVars
  <2> QED
    BY <2>1, <1>a, SameAhead
<1>5. CASE AppendFrame
  <2>1. Queue' = Queue /\ ptr' = ptr
    BY <1>5 DEF AppendFrame, Queue, clntVars
  <2> QED
    BY <2>1, <1>a, SameAhead
<1> QED
  BY <1>1, <1>2, <1>3, <1>4, <1>5 DEF ForwardData

LEMMA MainStream ==
  ASSUME ~UseThread, StableServices, StreamInv, FinishHandler \/ StartHandler
  PROVE  [Stream!Next]_(Stream!vars)
<1>0. /\ TypeOK /\ ControlOK /\ RefInv /\ PartInv /\ RefCount /\ NoDangling
      /\ ExclusiveOK /\ FlushedOK /\ SentOK
  BY DEF StreamInv, RefInv, PartInv, TypeInv
<1>a. apc \in {"off", "idle"}
  BY <1>0 DEF FinishHandler, StartHandler, FlushClient, FlushDone, TakeServiceReq,
     TakeConnectReq, Unlink, UpdateAfterClose, SendDone, ChannelFlush, AddConnection,
     Close, SendSliced, ConnectReq, ServiceReq, AtLoop, MainMayRun, ExclusiveOK
<1>b. ASSUME UNCHANGED <<sliced, ptr, apc>>, mpc # "sent", mpc' # "sent"
      PROVE  UNCHANGED Stream!vars
  <2>1. Queue' = Queue
    BY <1>a, <1>b DEF Queue
  <2> QED
    BY <1>b, <2>1, SameAhead
<1>1. CASE FlushClient
  <2>1. /\ cur \in Client /\ Release(cur) /\ apc' = apc
        /\ mpc # "sent" /\ mpc' # "sent"
    BY <1>0, <1>1 DEF FlushClient, ControlOK, acqVars, mainVars
  <2> QED
    BY <1>0, <1>a, <2>1, ReleaseStep
<1>c. CASE SendDone
  <2>1. /\ cur \in Client /\ Release(cur) /\ apc' = apc
        /\ mpc = "sent" /\ mpc' # "sent"
    BY <1>0, <1>c DEF SendDone, ControlOK, acqVars, GoTo
  <2>2. Stream!Return(cur, sent) /\ sent \in Buffer
    BY <1>0, <1>a, <2>1, SendReturns DEF TypeOK, SentOK
  <2> QED
    BY <2>1, <2>2 DEF Stream!Next
<1>2. CASE TakeServiceReq \/ TakeConnectReq \/ UpdateAfterClose
  <2> DEFINE new == IF mpc = "update_close" THEN NULL ELSE cur
  <2>1. /\ mpc \in {"update_srv", "update_con", "update_close"} /\ mpc' # "sent"
        /\ UpdateServices(new) /\ ptr' = ptr
    BY <1>2 DEF TakeServiceReq, TakeConnectReq, UpdateAfterClose, GoTo
  <2>2. new \in Client \cup {NULL} /\ (new # NULL => new = cur /\ ptr[cur] = NULL)
    BY <1>0, <2>1 DEF ControlOK, FlushedOK
  <2>3. mpc = "update_srv" => new = cur
    OBVIOUS
  <2> HIDE DEF new
  <2> QED
    BY <1>0, <1>a, <2>1, <2>2, <2>3, UpdateStep
<1>3. CASE Unlink
  <2>1. ptr' = ptr
    BY <1>0, <1>3 DEF Unlink, TypeOK, FlushedOK
  <2> QED
    BY <1>3, <1>b, <2>1 DEF Unlink, GoTo, devVars, acqVars
<1>4. CASE ChannelFlush
  BY <1>0, <1>4, FlushStep
<1>5. CASE FlushDone
  BY <1>5, <1>b DEF FlushDone, GoTo, devVars, clntVars, acqVars
<1>6. ASSUME NEW c \in Client, AddConnection(c) \/ Close(c)
      PROVE  UNCHANGED <<sliced, ptr, apc>> /\ mpc # "sent" /\ mpc' # "sent"
  BY <1>6 DEF AddConnection, Close, AtLoop, GoTo, devVars, clntVars, acqVars, mainVars
<1>d. ASSUME NEW c \in Client, SendSliced(c)
      PROVE  [Stream!Next]_(Stream!vars)
  <2>1. Stream!Take(c)
    BY <1>0, <1>a, <1>d, SendTakes DEF SendSliced, AtLoop
  <2> QED
    BY <2>1 DEF Stream!Next
<1>7. ASSUME NEW c \in Client, NEW r \in BOOLEAN, NEW s \in BOOLEAN,
             ConnectReq(c, s) \/ ServiceReq(c, r, s)
      PROVE  UNCHANGED <<sliced, ptr, apc>> /\ mpc # "sent" /\ mpc' # "sent"
  BY <1>7 DEF ConnectReq, ServiceReq, AtLoop, GoTo, devVars, acqVars
<1> QED
  BY <1>1, <1>c, <1>d, <1>2, <1>3, <1>4, <1>5, <1>6, <1>7, <1>b DEF FinishHandler, StartHandler

\* The pointer of a client a frame is being sent to is not moved.
LEMMA NextSent ==
  ASSUME ~UseThread, StreamInv, [Next]_vars
  PROVE  SentOK'
<1>1. ExclusiveOK /\ SentOK
  BY DEF StreamInv, RefInv
<1>2. CASE ForwardData
  BY <1>1, <1>2 DEF ExclusiveOK, SentOK, ForwardData, GetFree, AcqMayRun, GetFreeAgain,
     ForceFree, ForceFreeClient, ForceFreeDone, ReadFrame, ReadNothing, AppendFrame, mainVars
<1>3. CASE FinishHandler
  BY <1>3 DEF SentOK, FinishHandler, FlushClient, FlushDone, TakeServiceReq, TakeConnectReq,
     Unlink, UpdateAfterClose, SendDone, GoTo, mainVars
<1>4. CASE StartHandler
  BY <1>4 DEF SentOK, StartHandler, ChannelFlush, AddConnection, Close, SendSliced,
     ConnectReq, ServiceReq, AtLoop, GoTo, clntVars, mainVars
<1>5. CASE UNCHANGED vars
  BY <1>1, <1>5 DEF SentOK, vars, clntVars, mainVars
<1> QED
  BY <1>2, <1>3, <1>4, <1>5 DEF Next

LEMMA InitSent == Init => SentOK
  BY DEF Init, SentOK

-----------------------------------------------------------------------------
\* Every client is shown the frames it was counted for in the order in which
\* they were read, each at most once, and no buffer is filled while it is being
\* sent or a client has it ahead of it, however many clients and buffers there
\* are, whatever services they ask for, even if memory is short.
THEOREM QueueImplementsStream ==
  ASSUME ~UseThread, StableServices
  PROVE  Spec => ImplementsStream
<1>1. StreamInv /\ [Next]_vars => [Stream!Next]_(Stream!vars)
  <2> SUFFICES ASSUME StreamInv, [Next]_vars PROVE [Stream!Next]_(Stream!vars)
    OBVIOUS
  <2>1. CASE Next
    BY <2>1, ForwardStream, MainStream DEF Next, StreamInv
  <2>2. CASE UNCHANGED vars
    <3>1. Queue' = Queue /\ UNCHANGED <<ptr, mpc, cur, sent>>
      BY <2>2 DEF vars, devVars, clntVars, acqVars, mainVars, Queue
    <3>2. \A c \in Client : Ahead(c)' = Ahead(c) /\ (Sending(c)' <=> Sending(c))
      BY <3>1 DEF Ahead, Sending
    <3> QED
      BY <3>1, <3>2 DEF Stream!vars
  <2> QED
    BY <2>1, <2>2
<1>2. StreamInv /\ [Next]_vars => StreamInv'
  BY NextRef, NextSent DEF StreamInv
<1>3. Init => StreamInv
  BY InitRef, InitSent DEF StreamInv
<1> QED
  BY <1>1, <1>2, <1>3, InitStream, PTL DEF Spec, ImplementsStream, Stream!Spec
-----------------------------------------------------------------------------
(***************************************************************************)
(* The daemon never dereferences a null pointer.  What could is the loop   *)
(* of force_free: it compares the pointer of every client with the head of *)
(* the queue, which is NULL, like the pointer of a client with nothing to  *)
(* process, once the queue is empty.  It never gets empty: with a client   *)
(* there are at least two buffers, all of them queued when the loop is     *)
(* begun, and the loop frees at most one, because the client from which    *)
(* the head was taken now holds the buffer behind it and is not visited    *)
(* again.                                                                  *)
(***************************************************************************)

\* The buffers queue_allocate has made.
Stock == Range(sliced) \cup free \cup ({tmp} \ {NULL})

TwoBuffers == capture => Cardinality(Stock) >= 2

\* What the loop still finds: two buffers, or one of a client it has passed.
WalkOK ==
  apc = "walk" =>
    /\ IsInjective(walk)
    /\ \/ Len(sliced) >= 2
       \/ sliced # <<>> /\ \E d \in Client \ Range(walk) : ptr[d] = Head(sliced)

CrashInv == StreamInv /\ TwoBuffers /\ WalkOK

\* A finite set of natural numbers has a largest element.
LEMMA FiniteMax ==
  ASSUME NEW S \in SUBSET Nat, IsFiniteSet(S), S # {}
  PROVE  Max(S) \in S /\ \A y \in S : Max(S) >= y
<1> DEFINE N == {n \in Nat : \A s \in SUBSET Nat :
                   IsFiniteSet(s) /\ s # {} /\ Cardinality(s) = n
                     => \E x \in s : \A y \in s : x >= y}
<1>1. 0 \in N
  BY FS_EmptySet
<1>2. ASSUME NEW n \in Nat, n \in N
      PROVE  n + 1 \in N
  <2> SUFFICES ASSUME NEW s \in SUBSET Nat, IsFiniteSet(s), s # {}, Cardinality(s) = n + 1
               PROVE  \E x \in s : \A y \in s : x >= y
    OBVIOUS
  <2>1. PICK e \in s : TRUE
    OBVIOUS
  <2>2. IsFiniteSet(s \ {e}) /\ Cardinality(s \ {e}) = n
    <3>1. /\ IsFiniteSet(s \ {e})
          /\ Cardinality(s \ {e}) = IF e \in s THEN Cardinality(s) - 1 ELSE Cardinality(s)
      BY FS_RemoveElement
    <3>2. (n + 1) - 1 = n
      OBVIOUS
    <3> QED
      BY <3>1, <3>2
  <2>3. CASE s \ {e} = {}
    BY <2>3
  <2>4. CASE s \ {e} # {}
    <3>1. PICK x \in s \ {e} : \A y \in s \ {e} : x >= y
      BY <1>2, <2>2, <2>4
    <3>2. CASE x >= e
      BY <3>1, <3>2
    <3>3. CASE ~(x >= e)
      <4>1. \A y \in s : e >= y
        BY <3>1, <3>3
      <4> QED
        BY <4>1
    <3> QED
      BY <3>2, <3>3
  <2> QED
    BY <2>3, <2>4
<1>3. Nat \subseteq N
  <2> HIDE DEF N
  <2> QED
    BY <1>1, <1>2, NatSetInduction
<1>4. Cardinality(S) \in N
  BY <1>3, FS_CardinalityType
<1>5. \E x \in S : \A y \in S : x >= y
  BY <1>4
<1> QED
  BY <1>5, Zenon DEF Max

\* The queue holds as many buffers as it is long.
LEMMA QueueCardinality ==
  ASSUME NEW q \in Seq(Buffer), IsInjective(q)
  PROVE  IsFiniteSet(Range(q)) /\ Cardinality(Range(q)) = Len(q)
<1>1. q \in Bijection(1 .. Len(q), Range(q))
  <2>1. q \in [1 .. Len(q) -> Range(q)] /\ \A b \in Range(q) : \E i \in 1 .. Len(q) : q[i] = b
    BY DEF Range
  <2>2. \A i, j \in 1 .. Len(q) : q[i] = q[j] => i = j
    BY DEF IsInjective
  <2> QED
    BY <2>1, <2>2 DEF Bijection, Injection, Surjection
<1>2. IsFiniteSet(1 .. Len(q)) /\ Cardinality(1 .. Len(q)) = Len(q)
  <2>1. 1 \in Int /\ Len(q) \in Int /\ Len(q) >= 0
    OBVIOUS
  <2>2. /\ IsFiniteSet(1 .. Len(q))
        /\ Cardinality(1 .. Len(q)) = IF 1 > Len(q) THEN 0 ELSE Len(q) - 1 + 1
    BY <2>1, FS_Interval
  <2> QED
    BY <2>1, <2>2
<1> QED
  BY <1>1, <1>2, FS_Bijection DEF ExistsBijection

\* queue_allocate wants a buffer for each connection and one more.
LEMMA NeedTwo ==
  ASSUME TypeOK, NEW c \in Range(clnts)
  PROVE  NeedBuffers \in Nat /\ NeedBuffers >= 2
<1> DEFINE D == {d \in Range(clnts) : forward[d]}
           I == {ClientBuffers[d] : d \in D}
<1>1. D \subseteq Client /\ Len(clnts) \in Nat /\ Len(clnts) >= 1
  BY DEF TypeOK, Range
<1>2. IsFiniteSet(D)
  BY <1>1, ConstAssumption, FS_Subset
<1>3. I \subseteq Nat
  BY <1>1, ConstAssumption
<1>4. IsFiniteSet(I)
  <2>1. [d \in D |-> ClientBuffers[d]] \in Surjection(D, I)
    BY DEF Surjection
  <2> HIDE DEF D, I
  <2> QED
    BY <1>2, <2>1, FS_Surjection
<1>5. IsFiniteSet({MinBuffers} \cup I) /\ {MinBuffers} \cup I \in SUBSET Nat
  <2>1. IsFiniteSet(I \cup {MinBuffers}) /\ I \cup {MinBuffers} = {MinBuffers} \cup I
    BY <1>4, FS_AddElement
  <2> QED
    BY <1>3, <2>1, ConstAssumption
<1>6. Max({MinBuffers} \cup I) \in Nat /\ Max({MinBuffers} \cup I) >= MinBuffers
  <2> HIDE DEF I
  <2> QED
    BY <1>5, FiniteMax
<1>7. NeedBuffers = Len(clnts) + Max({MinBuffers} \cup I)
  BY DEF NeedBuffers
<1> HIDE DEF I
<1> QED
  BY <1>1, <1>6, <1>7, ConstAssumption

\* A step that moves buffers about keeps them.
LEMMA StockKept ==
  ASSUME PartInv, NEW c \in Client, Release(c), UNCHANGED <<tmp, capture>>
  PROVE  Stock' = Stock
<1>1. /\ sliced \in Seq(Buffer) /\ IsInjective(sliced)
  BY DEF PartInv, TypeInv, TypeOK, Partition
<1>2. CASE fault' = "none" /\ ref[ptr[c]] <= 1
  <2>1. ptr[c] # NULL /\ HeadPtr = ptr[c]
    BY <1>2 DEF Release, ReleaseFault
  <2>2. sliced # <<>> /\ ptr[c] = Head(sliced)
    BY <2>1 DEF HeadPtr
  <2>3. sliced' = Tail(sliced) /\ free' = free \cup {Head(sliced)}
    BY <1>2, <2>2 DEF Release
  <2>4. Range(sliced') = Range(sliced) \ {Head(sliced)}
    BY <1>1, <2>2, <2>3, TailDistinct
  <2>5. Head(sliced) \in Range(sliced)
    BY <1>1, <2>2 DEF Range
  <2> QED
    BY <2>3, <2>4, <2>5 DEF Stock
<1>3. CASE ~(fault' = "none" /\ ref[ptr[c]] <= 1)
  <2>1. sliced' = sliced /\ free' = free
    BY <1>3 DEF Release
  <2> QED
    BY <2>1 DEF Stock
<1> QED
  BY <1>2, <1>3

\* Every update of the services leaves at least two buffers to an open device.
LEMMA UpdateStock ==
  ASSUME ~MallocMayFail, PartInv, TwoBuffers, NEW new \in Client \cup {NULL}, UpdateServices(new)
  PROVE  capture' => Cardinality(Stock') >= 2
<1>0. /\ TypeOK /\ sliced \in Seq(Buffer) /\ IsInjective(sliced) /\ free \subseteq Buffer
      /\ tmp \in Buffer \cup {NULL}
  BY DEF PartInv, TypeInv, TypeOK, Partition
<1>1. CASE UpdateClosed
  BY <1>1 DEF UpdateClosed, devVars
<1>2. ASSUME NEW g \in DeviceGrants(new), UpdateOpen(new, g), capture'
      PROVE  Cardinality(Stock') >= 2
  <2>1. g # {} /\ g \subseteq Wanting
    BY <1>2 DEF DeviceGrants, UpdateOpen, StopAcquisition
  <2>2. PICK c \in Range(clnts) : TRUE
    BY <2>1 DEF Wanting
  <2>3. NeedBuffers \in Nat /\ NeedBuffers >= 2
    BY <1>0, <2>2, NeedTwo
  <2>4. sliced' = sliced /\ tmp' = NULL /\ free' \in Allocated(free \cup ({tmp} \ {NULL}))
    BY <1>2, <2>1 DEF UpdateOpen
  <2>5. /\ free' \subseteq Buffer \ Range(sliced)
        /\ Cardinality(free') = IF Len(sliced) < NeedBuffers THEN NeedBuffers - Len(sliced) ELSE 0
    BY <2>4 DEF Allocated
  <2>6. IsFiniteSet(Range(sliced)) /\ Cardinality(Range(sliced)) = Len(sliced)
    BY <1>0, QueueCardinality
  <2>7. IsFiniteSet(free')
    BY <2>5, ConstAssumption, FS_Subset
  <2>8. Range(sliced) \cap free' = {} /\ Cardinality({}) = 0
    BY <2>5, FS_EmptySet
  <2>9. Cardinality(Range(sliced) \cup free')
          = Cardinality(Range(sliced)) + Cardinality(free') - Cardinality(Range(sliced) \cap free')
    BY <2>6, <2>7, FS_Union
  <2>10. Cardinality(Range(sliced) \cup free') >= 2
    <3>1. PICK n \in Nat : n = NeedBuffers
      BY <2>3
    <3>2. PICK l \in Nat : l = Len(sliced)
      BY <1>0
    <3>3. PICK u : u = Cardinality(Range(sliced) \cup free')
      OBVIOUS
    <3>4. u = l + (IF l < n THEN n - l ELSE 0) - 0
      BY <2>5, <2>6, <2>8, <2>9, <3>1, <3>2, <3>3
    <3>5. n >= 2
      BY <2>3, <3>1
    <3>6. u >= 2
      BY <3>4, <3>5
    <3> QED
      BY <3>3, <3>6
  <2>11. Stock' = Range(sliced) \cup free'
    BY <2>4 DEF Stock
  <2> QED
    BY <2>10, <2>11
<1> QED
  BY <1>1, <1>2 DEF UpdateServices

\* A client whose first buffer is the head keeps it in the queue.
LEMMA TwoHold ==
  ASSUME PartInv, RefCount, apc = "walk", sliced # <<>>,
         NEW c \in Client, NEW d \in Client, c # d,
         ptr[c] = Head(sliced), ptr[d] = Head(sliced)
  PROVE  ref[Head(sliced)] > 1
<1> DEFINE b == Head(sliced)
<1>1. Queue = sliced /\ sliced \in Seq(Buffer) /\ b \in Range(sliced) /\ ref[b] \in Nat
  BY DEF Queue, PartInv, TypeInv, TypeOK, Range
<1>2. c \in Holders(b) /\ d \in Holders(b)
  <2>1. 1 \in DOMAIN sliced /\ sliced[1] = b
    BY <1>1
  <2> QED
    BY <1>1, <2>1 DEF Holders, AtOrAfter
<1>3. IsFiniteSet(Holders(b)) /\ Cardinality(Holders(b)) \in Nat
  BY HoldersFinite
<1>4. {c, d} \subseteq Holders(b) /\ Cardinality({c, d}) = 2
  <2>1. {c, d} = {c} \cup {d} /\ IsFiniteSet({c}) /\ Cardinality({c}) = 1
    BY FS_Singleton
  <2>2. d \notin {c}
    OBVIOUS
  <2>3. Cardinality({c} \cup {d}) = IF d \in {c} THEN 1 ELSE 1 + 1
    BY <2>1, FS_AddElement, Zenon
  <2>4. Cardinality({c} \cup {d}) = 1 + 1
    BY <2>2, <2>3
  <2>5. Cardinality({c, d}) = 1 + 1
    BY <2>1, <2>4, Zenon
  <2>6. {c, d} \subseteq Holders(b)
    BY <1>2
  <2> QED
    BY <2>5, <2>6
<1>5. Cardinality({c, d}) <= Cardinality(Holders(b))
  BY <1>3, <1>4, FS_Subset
<1>6. ref[b] = Cardinality(Holders(b))
  BY <1>1 DEF RefCount
<1> QED
  BY <1>1, <1>3, <1>4, <1>5, <1>6

\* One client is visited by the loop of force_free.
LEMMA WalkStep ==
  ASSUME CrashInv, fault # "null", ForceFreeClient
  PROVE  fault' # "null" /\ WalkOK'
<1> DEFINE c == Head(walk)
<1>1. /\ PartInv /\ RefCount /\ NoDangling /\ apc = "walk" /\ apc' = "walk"
      /\ walk # <<>> /\ walk' = Tail(walk) /\ walk \in Seq(Client) /\ IsInjective(walk)
      /\ sliced \in Seq(Buffer) /\ IsInjective(sliced) /\ NULL \notin Buffer
      /\ ptr \in [Client -> Buffer \cup {NULL}] /\ ref \in [Buffer -> Nat] /\ fault \in Faults
  BY ConstAssumption DEF CrashInv, StreamInv, RefInv, WalkOK, ForceFreeClient, PartInv, TypeInv,
     TypeOK, Partition, acqVars
<1>2. /\ c \in Client /\ IsInjective(Tail(walk)) /\ c \notin Range(Tail(walk))
      /\ Range(Tail(walk)) \subseteq Range(walk) /\ c \in Range(walk)
  <2>1. IsInjective(Tail(walk)) /\ Range(Tail(walk)) = Range(walk) \ {c}
    BY <1>1, TailDistinct
  <2>2. c \in Client /\ c = walk[1] /\ 1 \in 1 .. Len(walk)
    BY <1>1
  <2>3. c \in Range(walk)
    BY <1>1, <2>2, RangeIndex
  <2> QED
    BY <2>1, <2>2, <2>3
<1>3. sliced # <<>> /\ Head(sliced) \in Buffer /\ HeadPtr = Head(sliced)
  BY <1>1 DEF CrashInv, WalkOK, HeadPtr
<1>4. CASE ptr[c] # HeadPtr
  <2>1. UNCHANGED <<ptr, ref, sliced, free, fault>>
    BY <1>4 DEF ForceFreeClient
  <2>2. WalkOK'
    BY <1>1, <1>2, <2>1 DEF CrashInv, WalkOK
  <2> QED
    BY <2>1, <2>2
<1>5. CASE ptr[c] = HeadPtr
  <2>1. Release(c) /\ ptr[c] = Head(sliced) /\ ptr[c] # NULL /\ ptr[c] \in Buffer
    BY <1>1, <1>3, <1>5 DEF ForceFreeClient
  <2>2. fault' = "none"
    BY <1>1, <1>2, <2>1, ReleaseRef
  <2>3. ptr' = [ptr EXCEPT ![c] = NextOf(ptr[c])]
    BY <2>1, <2>2 DEF Release
  <2>4. CASE ref[ptr[c]] <= 1
    <3>1. sliced' = Tail(sliced)
      BY <2>1, <2>2, <2>4 DEF Release
    <3>2. ~ \E d \in Client \ Range(walk) : ptr[d] = Head(sliced)
      <4>1. ASSUME NEW d \in Client \ Range(walk), ptr[d] = Head(sliced)
            PROVE  FALSE
        <5>1. d # c
          BY <1>2
        <5>2. ref[Head(sliced)] > 1
          BY <1>1, <1>2, <1>3, <2>1, <4>1, <5>1, TwoHold
        <5> QED
          BY <1>1, <1>3, <2>1, <2>4, <5>2
      <4> QED
        BY <4>1
    <3>3. Len(sliced) >= 2
      BY <1>1, <3>2 DEF CrashInv, WalkOK
    <3>4. NextOf(sliced[1]) = sliced[2]
      <4>1. 1 \in 1 .. Len(sliced) /\ 1 < Len(sliced)
        BY <1>1, <3>3
      <4> QED
        BY <1>1, <4>1, NextOfIndex
    <3>5. sliced' # <<>> /\ Head(sliced') = sliced[2]
      <4>1. /\ Len(Tail(sliced)) = Len(sliced) - 1
            /\ \A k \in 1 .. Len(sliced) - 1 : Tail(sliced)[k] = sliced[k + 1]
            /\ Tail(sliced) \in Seq(Buffer)
        BY <1>1, <1>3, TailDistinct
      <4>2. 1 \in 1 .. Len(sliced) - 1 /\ 1 + 1 = 2
        BY <1>1, <3>3
      <4>3. Tail(sliced)[1] = sliced[1 + 1]
        BY <4>1, <4>2
      <4>4. Len(Tail(sliced)) # 0
        BY <1>1, <3>3, <4>1
      <4>5. Tail(sliced) # <<>>
        <5>1. Len(<<>>) = 0
          OBVIOUS
        <5> QED
          BY <4>4, <5>1, Zenon
      <4> QED
        BY <3>1, <4>1, <4>2, <4>3, <4>5
    <3>6. ptr'[c] = Head(sliced')
      BY <1>1, <1>2, <1>3, <2>1, <2>3, <3>4, <3>5
    <3> QED
      BY <1>1, <1>2, <2>2, <3>5, <3>6 DEF WalkOK
  <2>5. CASE ~(ref[ptr[c]] <= 1)
    <3>1. sliced' = sliced
      BY <2>1, <2>2, <2>5 DEF Release
    <3>2. ASSUME NEW d \in Client \ Range(walk), ptr[d] = Head(sliced)
          PROVE  d \in Client \ Range(walk') /\ ptr'[d] = Head(sliced)
      BY <1>1, <1>2, <2>3, <3>2
    <3> QED
      BY <1>1, <1>2, <2>2, <3>1, <3>2 DEF CrashInv, WalkOK
  <2> QED
    BY <2>2, <2>4, <2>5
<1> QED
  BY <1>4, <1>5

\* The loop is begun when every buffer is in the queue.
LEMMA WalkBegins ==
  ASSUME CrashInv, ForceFree
  PROVE  WalkOK'
<1> SUFFICES ASSUME apc' = "walk" PROVE WalkOK'
  BY DEF WalkOK
<1>1. /\ apc = "force" /\ free = {} /\ walk' = clnts /\ sliced' = sliced
      /\ sliced \in Seq(Buffer) /\ IsInjective(sliced) /\ IsInjective(clnts)
  BY DEF ForceFree, CrashInv, StreamInv, RefInv, PartInv, TypeInv, TypeOK, Partition, devVars
<1>2. tmp = NULL /\ capture
  BY <1>1 DEF CrashInv, StreamInv, RefInv, PartInv, TypeInv, ControlOK
<1>3. Stock = Range(sliced)
  BY <1>1, <1>2 DEF Stock
<1>4. Len(sliced) >= 2
  BY <1>1, <1>2, <1>3, QueueCardinality DEF CrashInv, TwoBuffers
<1> QED
  BY <1>1, <1>4 DEF WalkOK

\* Every step keeps the invariant and dereferences no null pointer.
LEMMA NextCrash ==
  ASSUME ~UseThread, StableServices, ~MallocMayFail, CrashInv, fault # "null", [Next]_vars
  PROVE  CrashInv' /\ fault' # "null"
<1>0. /\ StreamInv' /\ PartInv /\ PartInv' /\ TypeOK /\ ControlOK /\ ExclusiveOK
      /\ sliced \in Seq(Buffer) /\ IsInjective(sliced)
  BY NextRef, NextSent DEF CrashInv, StreamInv, RefInv, PartInv, TypeInv, Partition, TypeOK
<1>a. ASSUME apc' # "walk", Stock' = Stock, capture' = capture
      PROVE  TwoBuffers' /\ WalkOK'
  BY <1>a DEF CrashInv, TwoBuffers, WalkOK
<1>b. ASSUME NEW c \in Client, Release(c), ptr[c] # NULL, apc # "append", UNCHANGED <<tmp, capture, apc>>
      PROVE  Stock' = Stock /\ fault' # "null"
  BY <1>0, <1>b, StockKept, ReleaseRef DEF CrashInv, StreamInv, RefInv
<1>c. ASSUME NEW new \in Client \cup {NULL}, UpdateServices(new), mpc # "loop"
      PROVE  TwoBuffers' /\ WalkOK'
  <2>1. TwoBuffers'
    BY <1>0, <1>c, UpdateStock DEF CrashInv, TwoBuffers
  <2>2. apc' # "walk"
    BY <1>0, <1>c DEF UpdateServices, UpdateClosed, UpdateOpen, StopAcquisition, ExclusiveOK
  <2> QED
    BY <2>1, <2>2 DEF WalkOK
<1>1. CASE GetFree \/ GetFreeAgain
  <2>1. apc' # "walk" /\ capture' = capture /\ sliced' = sliced /\ fault' = fault /\ tmp = NULL
    BY <1>0, <1>1 DEF GetFree, GetFreeAgain, TakeFree, ControlOK
  <2>2. Stock' = Stock
    BY <1>0, <1>1, <2>1, ConstAssumption DEF GetFree, GetFreeAgain, TakeFree, Stock, TypeOK, devVars
  <2> QED
    BY <1>0, <1>a, <2>1, <2>2 DEF CrashInv
<1>2. CASE ForceFree
  <2>1. TwoBuffers' /\ fault' = fault
    BY <1>2 DEF CrashInv, TwoBuffers, ForceFree, Stock, devVars
  <2> QED
    BY <1>0, <1>2, <2>1, WalkBegins DEF CrashInv
<1>3. CASE ForceFreeClient
  <2>1. WalkOK' /\ fault' # "null"
    BY <1>3, WalkStep
  <2>2. UNCHANGED <<tmp, capture>> /\ Head(walk) \in Client
    BY <1>0, <1>3 DEF ForceFreeClient, TypeOK
  <2>3. Stock' = Stock
    <3>1. CASE Release(Head(walk))
      BY <1>0, <2>2, <3>1, StockKept
    <3>2. CASE UNCHANGED <<ptr, ref, sliced, free, fault>>
      BY <2>2, <3>2 DEF Stock
    <3> QED
      BY <1>3, <3>1, <3>2 DEF ForceFreeClient
  <2> QED
    BY <1>0, <2>1, <2>2, <2>3 DEF CrashInv, TwoBuffers
<1>4. CASE ForceFreeDone \/ ReadFrame \/ ReadNothing
  <2>1. apc' # "walk" /\ UNCHANGED <<capture, sliced, free, tmp, fault>>
    BY <1>4 DEF ForceFreeDone, ReadFrame, ReadNothing, devVars
  <2> QED
    BY <1>0, <1>a, <2>1 DEF CrashInv, Stock
<1>5. CASE AppendFrame
  <2>1. /\ apc' # "walk" /\ UNCHANGED <<capture, fault>> /\ tmp' = NULL /\ tmp \in Buffer
        /\ \/ sliced' = Append(sliced, tmp) /\ free' = free
           \/ sliced' = sliced /\ free' = free \cup {tmp}
    BY <1>0, <1>5 DEF AppendFrame, ControlOK, TypeOK
  <2>2. Range(Append(sliced, tmp)) = Range(sliced) \cup {tmp}
    <3>1. tmp \notin Range(sliced)
      BY <1>0 DEF PartInv, Partition
    <3> QED
      BY <1>0, <2>1, <3>1, AppendDistinct
  <2>3. Stock' = Stock
    BY <2>1, <2>2, ConstAssumption DEF Stock
  <2> QED
    BY <1>0, <1>a, <2>1, <2>3 DEF CrashInv
<1>6. CASE FlushClient \/ SendDone
  <2>1. /\ mpc # "loop" /\ cur \in Client /\ ptr[cur] # NULL /\ Release(cur)
        /\ UNCHANGED <<tmp, capture, apc>>
    BY <1>0, <1>6 DEF FlushClient, SendDone, ControlOK, CrashInv, StreamInv, SentOK, acqVars
  <2>2. apc \in {"off", "idle"}
    BY <1>0, <2>1 DEF ExclusiveOK
  <2>3. Stock' = Stock /\ fault' # "null"
    BY <1>b, <2>1, <2>2
  <2> QED
    BY <1>0, <1>a, <2>1, <2>2, <2>3 DEF CrashInv
<1>7. CASE TakeServiceReq \/ TakeConnectReq
  <2>1. UpdateServices(cur) /\ cur \in Client \cup {NULL} /\ mpc # "loop" /\ fault' = fault
    BY <1>0, <1>7 DEF TakeServiceReq, TakeConnectReq, TypeOK
  <2> QED
    BY <1>0, <1>c, <2>1 DEF CrashInv
<1>8. CASE UpdateAfterClose
  <2>1. UpdateServices(NULL) /\ mpc # "loop" /\ fault' = fault
    BY <1>8 DEF UpdateAfterClose
  <2> QED
    BY <1>0, <1>c, <2>1 DEF CrashInv
<1>9. CASE FlushDone \/ Unlink
  <2>1. /\ mpc # "loop" /\ UNCHANGED <<capture, sliced, free, tmp, apc, fault>>
    BY <1>9 DEF FlushDone, Unlink, devVars, acqVars
  <2>2. apc' # "walk" /\ Stock' = Stock
    BY <1>0, <2>1 DEF ExclusiveOK, Stock
  <2> QED
    BY <1>0, <1>a, <2>1, <2>2 DEF CrashInv
<1>10. CASE ChannelFlush
  <2>1. /\ apc' # "walk" /\ UNCHANGED <<capture, tmp, fault>> /\ AtLoop
        /\ free' = free \cup Range(sliced) /\ sliced' = <<>>
    BY <1>10 DEF ChannelFlush, AtLoop, MainMayRun, acqVars
  <2>2. Stock' = Stock
    BY <2>1 DEF Stock, Range
  <2> QED
    BY <1>0, <1>a, <2>1, <2>2 DEF CrashInv
<1>11. ASSUME NEW c \in Client, AddConnection(c) \/ Close(c) \/ SendSliced(c)
       PROVE  CrashInv' /\ fault' # "null"
  <2>1. /\ apc' # "walk" /\ UNCHANGED <<capture, sliced, free, tmp, fault>>
    BY <1>11 DEF AddConnection, Close, SendSliced, AtLoop, MainMayRun, acqVars, devVars
  <2> QED
    BY <1>0, <1>a, <2>1 DEF CrashInv, Stock
<1>12. ASSUME NEW c \in Client, NEW r \in BOOLEAN, NEW s \in BOOLEAN,
              ConnectReq(c, s) \/ ServiceReq(c, r, s)
       PROVE  CrashInv' /\ fault' # "null"
  <2>1. /\ apc' # "walk" /\ UNCHANGED <<capture, sliced, free, tmp, fault>>
    BY <1>12 DEF ConnectReq, ServiceReq, AtLoop, MainMayRun, acqVars, devVars
  <2> QED
    BY <1>0, <1>a, <2>1 DEF CrashInv, Stock
<1>13. CASE UNCHANGED vars
  <2>1. UNCHANGED <<capture, sliced, free, tmp, fault, apc, walk, ptr>>
    BY <1>13 DEF vars, devVars, acqVars, clntVars
  <2> QED
    BY <1>0, <2>1 DEF CrashInv, TwoBuffers, WalkOK, Stock
<1> QED
  BY <1>1, <1>2, <1>3, <1>4, <1>5, <1>6, <1>7, <1>8, <1>9, <1>10, <1>11, <1>12, <1>13
     DEF Next, ForwardData, FinishHandler, StartHandler

\* No null or dangling pointer is dereferenced and no assertion of release_sliced
\* fails, as long as memory lasts: neither the handlers nor the loop of force_free
\* release a buffer for a client that has none.
THEOREM DaemonDoesNotCrash ==
  ASSUME ~UseThread, StableServices, ~MallocMayFail
  PROVE  Spec => []NoFault
<1>1. Init => CrashInv /\ fault # "null"
  BY InitRef, InitSent DEF Init, CrashInv, StreamInv, TwoBuffers, WalkOK
<1>2. CrashInv /\ fault # "null" /\ [Next]_vars => CrashInv' /\ (fault # "null")'
  BY NextCrash
<1>3. CrashInv /\ fault # "null" => NoFault
  BY DEF CrashInv, StreamInv, RefInv, PartInv, TypeInv, TypeOK, Faults, NoBadRelease, NoFault
<1> QED
  BY <1>1, <1>2, <1>3, PTL DEF Spec
=============================================================================
