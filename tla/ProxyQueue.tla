----------------------------- MODULE ProxyQueue -----------------------------
(***************************************************************************)
(* The slicer output queue of one capture device of the VBI proxy daemon   *)
(* (vbi/daemon/proxyd.c).                                                  *)
(*                                                                         *)
(* A frame read from the device is stored once, in a buffer taken from     *)
(* p_free, and appended to p_sliced.  Every client that receives data      *)
(* holds a pointer req->p_sliced to the first buffer it has not yet        *)
(* processed; ref_count counts the clients that still need the buffer.     *)
(* The buffer returns to p_free when the count drops to zero.  When p_free *)
(* runs dry, vbi_proxy_queue_force_free takes the oldest frame away from   *)
(* the clients that block it.                                              *)
(*                                                                         *)
(* Two program counters run through the code: apc is inside                *)
(* vbi_proxyd_forward_data, mpc inside the message handlers.  Devices that *)
(* support select() are served by the main loop, so that the two never     *)
(* overlap; for the others (UseThread) forward_data runs in a thread of    *)
(* its own and the two interleave at the granularity of the mutexes        *)
(* clnt_mutex and queue_mutex.  A loop that runs under a mutex is one step *)
(* per iteration, with the mutex held in between.                          *)
(***************************************************************************)
EXTENDS Integers, Sequences, FiniteSets, SequencesExt

CONSTANTS
  Client,          \* connections (PROXY_CLNT), reused after a close
  Buffer,          \* memory for queue elements (PROXY_QUEUE)
  NULL,            \* the null pointer
  MinBuffers,      \* opt_buffer_count
  ClientBuffers,   \* connect_req.buffer_count of each client
  UseThread,       \* the device does not support select()
  StableServices,  \* the driver never revokes a service it has granted
  MallocMayFail    \* malloc() in queue_allocate may return NULL

\* opt_buffer_count is checked by the option parser to be at least 1.
ASSUME ConstAssumption ==
  /\ IsFiniteSet(Client) /\ IsFiniteSet(Buffer)
  /\ NULL \notin Client /\ NULL \notin Buffer
  /\ MinBuffers \in Nat \ {0}
  /\ ClientBuffers \in [Client -> Nat]
  /\ UseThread \in BOOLEAN
  /\ StableServices \in BOOLEAN
  /\ MallocMayFail \in BOOLEAN

VARIABLES
  \* PROXY_DEV
  capture,   \* p_capture # NULL
  sliced,    \* p_sliced, head first
  free,      \* p_free: its order is irrelevant
  tmp,       \* p_tmp_buf
  \* PROXY_QUEUE
  ref,       \* ref_count
  \* PROXY_CLNT
  clnts,     \* the list proxy.p_clnts
  forward,   \* state = REQ_STATE_FORWARD
  want,      \* some services[strict] # 0
  active,    \* all_services # 0
  ptr,       \* req->p_sliced
  \* control
  apc,       \* where forward_data is
  walk,      \* clients still to be visited by the loop of force_free
  mpc, cur,  \* where the main thread is, and the client it works on
  sent,      \* the buffer send_sliced copied into a message
  fault      \* the daemon crashed, and on what

devVars  == <<capture, sliced, free, tmp, ref>>
clntVars == <<clnts, forward, want, active, ptr>>
acqVars  == <<apc, walk>>
mainVars == <<mpc, cur, sent>>
vars     == <<devVars, clntVars, acqVars, mainVars, fault>>

AcqPc  == {"off", "idle", "force", "walk", "retry", "read", "append"}
Faults == {"none", "null", "dangling", "assert"}
MainPc == {"loop", "sent", "flush_srv", "flush_close", "unlink",
           "update_con", "update_srv", "update_close"}

Init ==
  /\ capture = FALSE /\ sliced = <<>> /\ free = {} /\ tmp = NULL
  /\ ref     = [b \in Buffer |-> 0]
  /\ clnts   = <<>>
  /\ forward = [c \in Client |-> FALSE]
  /\ want    = [c \in Client |-> FALSE]
  /\ active  = [c \in Client |-> FALSE]
  /\ ptr     = [c \in Client |-> NULL]
  /\ apc = "off" /\ walk = <<>>
  /\ mpc = "loop" /\ cur = NULL /\ sent = NULL
  /\ fault = "none"

-----------------------------------------------------------------------------
\* The locks.  In select mode the main loop runs one of the two at a time.

AcqMayRun  == UseThread \/ mpc = "loop"
MainMayRun == UseThread \/ apc \in {"off", "idle"}

\* queue_mutex is held across iterations by the loop of force_free and by the
\* flush loops of vbi_proxyd_close and of the service request.
HeldByAcq  == apc = "walk"
HeldByMain == mpc \in {"flush_srv", "flush_close"}

\* The head of p_sliced, as the C pointer is read.
HeadPtr == IF sliced = <<>> THEN NULL ELSE Head(sliced)

\* b->p_next for a buffer in use: NULL for the tail and for p_tmp_buf.
NextOf(b) ==
  IF \E i \in 1 .. Len(sliced) - 1 : sliced[i] = b
  THEN sliced[1 + CHOOSE i \in 1 .. Len(sliced) - 1 : sliced[i] = b]
  ELSE NULL

-----------------------------------------------------------------------------
(***************************************************************************)
(* vbi_proxy_queue_release_sliced: one client is done with its first       *)
(* buffer.  The code dereferences req->p_sliced unconditionally and        *)
(* asserts that a buffer nobody needs any more is the head of the queue.   *)
(***************************************************************************)
ReleaseFault(b) ==
  IF b = NULL THEN "null"
  ELSE IF b \notin Range(sliced) \cup free \cup {tmp} THEN "dangling"
  ELSE IF ref[b] <= 1 /\ HeadPtr # b THEN "assert"
  ELSE "none"

Release(c) ==
  /\ fault' = ReleaseFault(ptr[c])
  /\ IF fault' # "none"
     THEN UNCHANGED <<ptr, ref, sliced, free>>
     ELSE LET b == ptr[c] IN
          /\ ptr' = [ptr EXCEPT ![c] = NextOf(b)]
          /\ ref' = [ref EXCEPT ![b] = IF @ > 0 THEN @ - 1 ELSE 0]
          /\ IF ref[b] <= 1
             THEN sliced' = Tail(sliced) /\ free' = free \cup {b}
             ELSE UNCHANGED <<sliced, free>>

-----------------------------------------------------------------------------
\* vbi_proxyd_forward_data

\* vbi_proxy_queue_get_free, when p_free is not empty.
TakeFree ==
  \E b \in free :
    /\ free' = free \ {b}
    /\ tmp' = b
    /\ ref' = [ref EXCEPT ![b] = 0]
    /\ apc' = "read"

\* The first attempt to get a buffer.
GetFree ==
  /\ apc = "idle" /\ AcqMayRun /\ ~HeldByMain
  /\ \/ TakeFree
     \/ free = {} /\ apc' = "force" /\ UNCHANGED <<free, tmp, ref>>
  /\ UNCHANGED <<capture, sliced, clntVars, walk, mainVars, fault>>

\* Mutant: nothing is taken away from a slow client.
ForceFreeNothing ==
  /\ apc = "force" /\ ~HeldByMain
  /\ apc' = "retry"
  /\ UNCHANGED <<devVars, clntVars, walk, mainVars, fault>>

\* vbi_proxy_queue_force_free: take the locks, look at the queues again.
ForceFree ==
  /\ apc = "force" /\ ~HeldByMain
  /\ IF free = {} /\ sliced # <<>>
     THEN apc' = "walk" /\ walk' = clnts
     ELSE apc' = "retry" /\ UNCHANGED walk
  /\ UNCHANGED <<devVars, clntVars, mainVars, fault>>

\* One iteration of its loop over the clients, which compares with the
\* current head of the queue.
ForceFreeClient ==
  /\ apc = "walk" /\ walk # <<>>
  /\ walk' = Tail(walk)
  /\ IF ptr[Head(walk)] = HeadPtr
     THEN Release(Head(walk))
     ELSE UNCHANGED <<ptr, ref, sliced, free, fault>>
  /\ UNCHANGED <<capture, tmp, clnts, forward, want, active, apc, mainVars>>

ForceFreeDone ==
  /\ apc = "walk" /\ walk = <<>>
  /\ apc' = "retry"
  /\ UNCHANGED <<devVars, clntVars, walk, mainVars, fault>>

\* The second attempt; without a buffer the frame is not read ("queue overflow").
GetFreeAgain ==
  /\ apc = "retry" /\ ~HeldByMain
  /\ \/ TakeFree
     \/ free = {} /\ apc' = "idle" /\ UNCHANGED <<free, tmp, ref>>
  /\ UNCHANGED <<capture, sliced, clntVars, walk, mainVars, fault>>

\* Mutant: clients without services are counted too.
ReceiversConnected == {c \in Range(clnts) : forward[c]}

\* The clients that are to receive the next frame.
Receivers == {c \in Range(clnts) : forward[c] /\ active[c]}

\* Mutant: a client still behind jumps to the new frame.
ReadFrameJumps ==
  /\ apc = "read" /\ ~HeldByMain
  /\ ref' = [ref EXCEPT ![tmp] = @ + Cardinality(Receivers)]
  /\ ptr' = [c \in Client |-> IF c \in Receivers THEN tmp ELSE ptr[c]]
  /\ apc' = "append"
  /\ UNCHANGED <<capture, sliced, free, tmp, clnts, forward, want, active,
                 walk, mainVars, fault>>

\* vbi_capture_read returned a frame: it is shared among the receivers.
ReadFrame ==
  /\ apc = "read" /\ ~HeldByMain
  /\ ref' = [ref EXCEPT ![tmp] = @ + Cardinality(Receivers)]
  /\ ptr' = [c \in Client |->
               IF c \in Receivers /\ ptr[c] = NULL THEN tmp ELSE ptr[c]]
  /\ apc' = "append"
  /\ UNCHANGED <<capture, sliced, free, tmp, clnts, forward, want, active,
                 walk, mainVars, fault>>

\* vbi_capture_read returned an error or no data.
ReadNothing ==
  /\ apc = "read" /\ apc' = "append"
  /\ UNCHANGED <<devVars, clntVars, walk, mainVars, fault>>

\* The last critical section: the buffer is queued or, unwanted, freed.
AppendFrame ==
  /\ apc = "append" /\ ~HeldByMain
  /\ IF ref[tmp] > 0
     THEN sliced' = Append(sliced, tmp) /\ UNCHANGED free
     ELSE free' = free \cup {tmp} /\ UNCHANGED sliced
  /\ tmp' = NULL
  /\ apc' = "idle"
  /\ UNCHANGED <<capture, ref, clntVars, walk, mainVars, fault>>

-----------------------------------------------------------------------------
\* vbi_proxyd_update_services and what it calls

\* vbi_proxy_queue_allocate: the number of buffers wanted for the connected
\* clients.  buffer_count is zero until the connect request.
NeedBuffers ==
  Len(clnts) + Max({MinBuffers} \cup
                   {ClientBuffers[c] : c \in {d \in Range(clnts) : forward[d]}})

\* Possible values of p_free after queue_allocate, given p_free before.  All
\* free buffers are given back first when there are too many in total.
Allocated(free0) ==
  LET used == Len(sliced)
      kept == IF Cardinality(free0) + used > NeedBuffers THEN {} ELSE free0
      goal == IF used < NeedBuffers THEN NeedBuffers - used ELSE 0
  IN {f \in SUBSET (Buffer \ Range(sliced)) :
        /\ kept \subseteq f
        /\ Cardinality(f) <= goal
        /\ ~MallocMayFail => Cardinality(f) = goal}

Wanting == {c \in Range(clnts) : forward[c] /\ want[c]}

\* vbi_capture_update_services: the clients for which at least one of their
\* services can be decoded.  A client other than the requesting one may only
\* lose all its services when the norm changed (~StableServices).
DeviceGrants(new) ==
  {g \in SUBSET Wanting :
     StableServices => \A c \in Wanting \ {new} : active[c] => c \in g}

\* vbi_proxy_start_acquisition failed, or there was nothing to start it for.
UpdateClosed ==
  /\ ~capture
  /\ UNCHANGED <<devVars, want, active, apc>>

\* Mutant: buffers that outlive the acquisition.
StopKeepsFree ==
  /\ capture' = FALSE /\ apc' = "off"
  /\ sliced' = <<>> /\ tmp' = NULL /\ UNCHANGED free

\* vbi_proxy_stop_acquisition frees all buffers; the one an acquisition thread
\* was about to fill is freed by vbi_proxyd_acq_thread_cleanup.
StopAcquisition ==
  /\ capture' = FALSE /\ apc' = "off"
  /\ sliced' = <<>> /\ free' = {} /\ tmp' = NULL

\* The services are passed to the open device (opened now if it was not); the
\* acquisition is stopped when no service remains.  An acquisition thread has
\* been cancelled before, at a point where it holds no lock.  With a new request
\* the services which were refused are forgotten.
UpdateOpen(new, g) ==
  /\ capture \/ \E c \in Range(clnts) : want[c]
  /\ apc \in {"off", "idle", "read"}
  /\ active' = [c \in Client |-> IF c \in Range(clnts) /\ forward[c]
                                 THEN c \in g ELSE active[c]]
  /\ want' = [c \in Client |-> IF c = new THEN c \in g ELSE want[c]]
  /\ UNCHANGED ref
  /\ IF g # {}
     THEN /\ capture' = TRUE /\ apc' = "idle"
          /\ free' \in Allocated(free \cup ({tmp} \ {NULL}))
          /\ tmp' = NULL
          /\ UNCHANGED sliced
     ELSE StopAcquisition

UpdateServices(new) ==
  \/ UpdateClosed
  \/ \E g \in DeviceGrants(new) : UpdateOpen(new, g)

-----------------------------------------------------------------------------
\* The main thread.  Each handler starts from the main loop.

AtLoop == mpc = "loop" /\ MainMayRun
GoTo(pc, c) == mpc' = pc /\ cur' = c

\* vbi_proxyd_add_connection appends the client to the list.
AddConnection(c) ==
  /\ AtLoop /\ ~HeldByAcq
  /\ c \notin Range(clnts)
  /\ clnts' = Append(clnts, c)
  /\ UNCHANGED <<devVars, forward, want, active, ptr, acqVars, mainVars, fault>>

\* MSG_TYPE_CONNECT_REQ, with or without services.
ConnectReq(c, services) ==
  /\ AtLoop
  /\ c \in Range(clnts) /\ ~forward[c]
  /\ forward' = [forward EXCEPT ![c] = TRUE]
  /\ want' = [want EXCEPT ![c] = services]
  /\ GoTo("update_con", c)
  /\ UNCHANGED <<devVars, clnts, active, ptr, acqVars, sent, fault>>

\* Mutant: the pending data of the client is not flushed.
ServiceReqNoFlush(c, reset, services) ==
  /\ AtLoop /\ ~HeldByAcq
  /\ c \in Range(clnts) /\ forward[c]
  /\ want' = [want EXCEPT ![c] = services \/ (@ /\ ~reset)]
  /\ GoTo("update_srv", c)
  /\ UNCHANGED <<devVars, clnts, forward, active, ptr, acqVars, sent, fault>>

\* MSG_TYPE_SERVICE_REQ: the client's queue is flushed first.
ServiceReq(c, reset, services) ==
  /\ AtLoop /\ ~HeldByAcq
  /\ c \in Range(clnts) /\ forward[c]
  /\ want' = [want EXCEPT ![c] = services \/ (@ /\ ~reset)]
  /\ GoTo("flush_srv", c)
  /\ UNCHANGED <<devVars, clnts, forward, active, ptr, acqVars, sent, fault>>

\* vbi_proxyd_close: after an I/O error, a rejected message or a timeout, or
\* because the client hung up.
Close(c) ==
  /\ AtLoop /\ ~HeldByAcq
  /\ c \in Range(clnts)
  /\ GoTo("flush_close", c)
  /\ UNCHANGED <<devVars, clntVars, acqVars, sent, fault>>

\* while (req->p_sliced != NULL) vbi_proxy_queue_release_sliced(req);
FlushClient ==
  /\ mpc \in {"flush_srv", "flush_close"}
  /\ ptr[cur] # NULL
  /\ Release(cur)
  /\ UNCHANGED <<capture, tmp, clnts, forward, want, active, acqVars, mainVars>>

FlushDone ==
  /\ mpc \in {"flush_srv", "flush_close"}
  /\ ptr[cur] = NULL
  /\ GoTo(IF mpc = "flush_srv" THEN "update_srv" ELSE "unlink", cur)
  /\ UNCHANGED <<devVars, clntVars, acqVars, sent, fault>>

\* vbi_proxyd_take_service_req for a service request: granted or rejected, the
\* client stays connected.
TakeServiceReq ==
  /\ mpc = "update_srv"
  /\ UpdateServices(cur)
  /\ GoTo("loop", NULL)
  /\ UNCHANGED <<clnts, forward, ptr, walk, sent, fault>>

\* The same for a connect request: the client is rejected and the connection
\* dropped if it got none of the services it asked for, or if the device could
\* not be started for anyone.
TakeConnectReq ==
  /\ mpc = "update_con"
  /\ UpdateServices(cur)
  /\ IF \/ want[cur] /\ ~active'[cur]
        \/ ~capture' /\ \E c \in Range(clnts) : want[c]
     THEN GoTo("flush_close", cur)
     ELSE GoTo("loop", NULL)
  /\ UNCHANGED <<clnts, forward, ptr, walk, sent, fault>>

\* The closed client leaves the list; the others' services are applied again
\* if it had any.
Unlink ==
  /\ mpc = "unlink" /\ ~HeldByAcq
  /\ \E i \in DOMAIN clnts : clnts[i] = cur /\ clnts' = RemoveAt(clnts, i)
  /\ forward' = [forward EXCEPT ![cur] = FALSE]
  /\ want' = [want EXCEPT ![cur] = FALSE]
  /\ active' = [active EXCEPT ![cur] = FALSE]
  /\ ptr' = [ptr EXCEPT ![cur] = NULL]
  /\ IF active[cur] THEN GoTo("update_close", NULL) ELSE GoTo("loop", NULL)
  /\ UNCHANGED <<devVars, acqVars, sent, fault>>

UpdateAfterClose ==
  /\ mpc = "update_close"
  /\ UpdateServices(NULL)
  /\ GoTo("loop", NULL)
  /\ UNCHANGED <<clnts, forward, ptr, walk, sent, fault>>

\* Mutant: the head of the queue is sent, whoever it is for.
SendSlicedHead(c) ==
  /\ AtLoop
  /\ c \in Range(clnts) /\ ptr[c] # NULL
  /\ sent' = HeadPtr
  /\ GoTo("sent", c)
  /\ UNCHANGED <<devVars, clntVars, acqVars, fault>>

\* vbi_proxyd_send_sliced copies the client's first buffer without a lock ...
SendSliced(c) ==
  /\ AtLoop
  /\ c \in Range(clnts) /\ ptr[c] # NULL
  /\ sent' = ptr[c]
  /\ GoTo("sent", c)
  /\ UNCHANGED <<devVars, clntVars, acqVars, fault>>

\* ... and the caller then releases, with the lock, the client's first buffer.
SendDone ==
  /\ mpc = "sent" /\ ~HeldByAcq
  /\ Release(cur)
  /\ sent' = NULL
  /\ GoTo("loop", NULL)
  /\ UNCHANGED <<capture, tmp, clnts, forward, want, active, acqVars>>

\* Mutant: the clients keep their pointers into the emptied queue.
ChannelFlushKeepsPointers ==
  /\ AtLoop /\ ~HeldByAcq
  /\ capture /\ \E c \in Range(clnts) : forward[c]
  /\ free' = free \cup Range(sliced)
  /\ sliced' = <<>>
  /\ UNCHANGED <<capture, tmp, ref, clntVars, acqVars, mainVars, fault>>

\* vbi_proxyd_channel_flush, when a client reports a channel change:
\* vbi_proxy_queue_release_all empties the queue of the open device.
ChannelFlush ==
  /\ AtLoop /\ ~HeldByAcq
  /\ capture /\ \E c \in Range(clnts) : forward[c]
  /\ free' = free \cup Range(sliced)
  /\ sliced' = <<>>
  /\ ptr' = [c \in Client |-> NULL]
  /\ UNCHANGED <<capture, tmp, ref, clnts, forward, want, active, acqVars,
                 mainVars, fault>>

-----------------------------------------------------------------------------
ForwardData ==
  \/ GetFree \/ ForceFree \/ ForceFreeClient \/ ForceFreeDone \/ GetFreeAgain
  \/ ReadFrame \/ ReadNothing \/ AppendFrame

\* The steps by which a handler that has been started gets back to the loop.
FinishHandler ==
  \/ FlushClient \/ FlushDone \/ TakeServiceReq \/ TakeConnectReq
  \/ Unlink \/ UpdateAfterClose \/ SendDone

StartHandler ==
  \/ ChannelFlush
  \/ \E c \in Client :
       \/ AddConnection(c) \/ Close(c) \/ SendSliced(c)
       \/ \E s \in BOOLEAN : ConnectReq(c, s)
       \/ \E r, s \in BOOLEAN : ServiceReq(c, r, s)

Next == fault = "none" /\ (ForwardData \/ FinishHandler \/ StartHandler)

Spec == Init /\ [][Next]_vars

(***************************************************************************)
(* Fairness.  The handlers do not block, and every pass of main_loop       *)
(* serves the device before it turns to the clients; the device is assumed *)
(* to deliver frames for ever.                                             *)
(***************************************************************************)
FairSpec ==
  /\ Spec
  /\ WF_vars(fault = "none" /\ FinishHandler)
  /\ SF_vars(fault = "none" /\ GetFree)
  /\ WF_vars(/\ fault = "none"
             /\ ForceFree \/ ForceFreeClient \/ ForceFreeDone \/ GetFreeAgain)
  /\ SF_vars(fault = "none" /\ ReadFrame)
  /\ WF_vars(fault = "none" /\ AppendFrame)

-----------------------------------------------------------------------------
\* Every variable has its type, and a client is linked only once.
TypeOK ==
  /\ capture \in BOOLEAN
  /\ sliced \in Seq(Buffer) /\ free \subseteq Buffer /\ tmp \in Buffer \cup {NULL}
  /\ ref \in [Buffer -> Nat]
  /\ clnts \in Seq(Client) /\ IsInjective(clnts)
  /\ forward \in [Client -> BOOLEAN] /\ want \in [Client -> BOOLEAN]
  /\ active \in [Client -> BOOLEAN]
  /\ ptr \in [Client -> Buffer \cup {NULL}]
  /\ apc \in AcqPc /\ walk \in Seq(Client)
  /\ mpc \in MainPc /\ cur \in Client \cup {NULL} /\ sent \in Buffer \cup {NULL}
  /\ fault \in Faults

\* No null or dangling pointer is dereferenced, and the assertions of
\* release_sliced never fail.
NoFault == fault = "none"

\* The part of NoFault that does not depend on the number of buffers: a buffer
\* is released only while it is in the queue, and when its last client is done
\* with it, it is the oldest one.
NoBadRelease == fault \notin {"dangling", "assert"}

\* The queue including the frame whose readers have been counted but which is
\* appended only in the next critical section.
Queue == IF apc = "append" /\ ref[tmp] > 0 THEN Append(sliced, tmp) ELSE sliced

\* In the list q, b is at or after the element p.
AtOrAfter(q, p, b) == \E i, j \in DOMAIN q : i <= j /\ q[i] = p /\ q[j] = b

\* The clients that still have to process b.
Holders(b) == {c \in Client : AtOrAfter(Queue, ptr[c], b)}

\* A buffer is kept exactly as long as some client has to process it: the
\* reference count of every queued buffer is the number of clients which have
\* it ahead of them, and it is not zero.
RefCount ==
  \A b \in Range(Queue) : ref[b] > 0 /\ ref[b] = Cardinality(Holders(b))

\* "a buffer is not released from the slicer queue until all clients have
\* processed it's data; client structs hold a pointer to the first unprocessed
\* buffer in the queue": no client points outside the queue.
NoDangling == \A c \in Client : ptr[c] # NULL => ptr[c] \in Range(Queue)

\* A buffer is in one place at a time, and none outlives the acquisition.
Partition ==
  /\ IsInjective(sliced)
  /\ Range(sliced) \cap free = {} /\ tmp \notin Range(sliced) \cup free
  /\ ~capture => sliced = <<>> /\ free = {} /\ tmp = NULL

\* The device is closed when the last client which receives data has gone.
LastClientStops ==
  mpc = "loop" /\ capture => \E c \in Range(clnts) : active[c]

(***************************************************************************)
(* The queue implements FrameStream.  What a client has ahead of it is the *)
(* part of the queue from its pointer on; while a frame is being sent the  *)
(* client is shown it, and only the rest is pending.                       *)
(***************************************************************************)
Ahead(c) ==
  IF ptr[c] \in Range(Queue)
  THEN SubSeq(Queue, CHOOSE i \in DOMAIN Queue : Queue[i] = ptr[c], Len(Queue))
  ELSE <<>>

Sending(c) == mpc = "sent" /\ cur = c

Stream == INSTANCE FrameStream
  WITH Reader <- Client,
       pend   <- [c \in Client |-> IF Sending(c) THEN Tail(Ahead(c)) ELSE Ahead(c)],
       hand   <- [c \in Client |-> IF Sending(c) THEN {sent} ELSE {}]

\* Every client is shown each frame it was counted for once, in the order they
\* were read, unless force_free or a flush takes it away before; the frame it is
\* shown is the one that is released afterwards; and a buffer is not filled again
\* while a client is shown it or has it ahead of it.
ImplementsStream == Stream!Spec

\* However slow a client is, every frame leaves the queue.
QueueDrains == \A b \in Buffer : b \in Range(sliced) ~> b \notin Range(sliced)
=============================================================================
