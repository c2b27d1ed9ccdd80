-------------------------- MODULE ProxyConnection --------------------------
(***************************************************************************)
(* One connection between a client (vbi/src/proxy-client.c) and the proxy  *)
(* daemon (vbi/daemon/proxyd.c), over a stream socket which may take or    *)
(* give a part of a message (vbi/src/proxy-msg.c).                         *)
(*                                                                         *)
(* Each end has one I/O state for both directions: bytes of the message it *)
(* is reading and of the message it is writing.  The daemon's main loop    *)
(* serves the connection in three steps: it chooses the direction for      *)
(* select(), does one read() or write(), and prepares what it has to send. *)
(* The client's functions block in select().  The assertions of the code   *)
(* are compiled out here, all but "writeLen == 0" of the next call after   *)
(* an ioctl that was not written; which of them fail the README says.      *)
(*                                                                         *)
(* A message is cut into a header and a body of one or two parts, and the  *)
(* socket carries the parts <<message, 1>>, <<message, 2>>, ...            *)
(***************************************************************************)
EXTENDS FiniteSets, Naturals, SequencesExt

CONSTANTS
  Ops,            \* the calls a client makes besides "connect"
  RpcLate,        \* the calls whose reply may take longer than 5 seconds
  UpCap,          \* bound: parts the socket holds on the way to the daemon
  DownCap,        \* bound: parts the socket holds on the way to the client
  MaxCall,        \* bound: calls during a connection
  MaxFrame,       \* bound: frames captured during a connection
  MaxInd          \* bound: changes of the channel by other clients during it

ASSUME ConnectionAssumption ==
  /\ Ops \subseteq {"service", "token", "notify", "ioctl"}
  /\ RpcLate \subseteq Ops \cup {"connect"}
  /\ UpCap \in Nat \ {0} /\ DownCap \in Nat \ {0}
  /\ MaxCall \in Nat /\ MaxFrame \in Nat /\ MaxInd \in Nat

Request(op, n) == [type |-> "REQ", op |-> op, id |-> n]
Frame(n)       == [type |-> "SLICED_IND", op |-> "none", id |-> n]
ChangeInd      == [type |-> "CHANGE_IND", op |-> "none", id |-> 0]
Msg == [type : {"REQ", "CNF", "REJ"}, op : Ops \cup {"connect"}, id : 0 .. MaxCall]
         \cup {Frame(n) : n \in 1 .. MaxFrame} \cup {ChangeInd}

Size(m)  == IF m.type = "SLICED_IND" THEN 3 ELSE 2
Parts(m) == [k \in 1 .. Size(m) |-> <<m, k>>]
MsgOf(buf) == buf[1][1]
\* readOff and readLen
Needs(buf) == Size(MsgOf(buf)) - Len(buf)
Complete(buf) == buf # <<>> /\ Len(buf) = Size(MsgOf(buf))

VARIABLES
  \* the client
  cstate,         \* PROXY_CLIENT_STATE
  cpc,            \* what its thread waits for
  call,           \* the request of the current call
  ncall,
  cbuf,           \* what it has read of a message
  cout,           \* what it has to write of one
  cfd,            \* its end of the socket is open
  shown,          \* the last frame it has got
  \* the daemon
  dstate,         \* REQ_STATE
  dpc, dsel,      \* its place in the main loop; what it selects for
  drd, dwr, dfd,
  queue,          \* the frames from p_sliced on
  ind,            \* chn_status_ind is set
  nframe, nind,
  \* the socket
  up, down

clientVars == <<cstate, cpc, call, ncall, cbuf, cout, cfd, shown>>
daemonVars == <<dstate, dpc, dsel, drd, dwr, dfd, queue, ind, nframe, nind>>
vars == <<clientVars, daemonVars, up, down>>

Init ==
  /\ cstate = "NULL" /\ cpc = "idle" /\ call = Request("connect", 0) /\ ncall = 0
  /\ cbuf = <<>> /\ cout = <<>> /\ cfd = FALSE /\ shown = 0
  /\ dstate = "none" /\ dpc = "select" /\ dsel = "rd"
  /\ drd = <<>> /\ dwr = <<>> /\ dfd = FALSE
  /\ queue = <<>> /\ ind = FALSE /\ nframe = 0 /\ nind = 0
  /\ up = <<>> /\ down = <<>>

\* How much of a message can be read at once: its header, then what there is of
\* its body.
Readable(buf, sock) ==
  IF buf = <<>> THEN Min({Size(MsgOf(sock)), Len(sock)}) ELSE Min({Needs(buf), Len(sock)})
First(s, n) == SubSeq(s, 1, n)
After(s, n) == SubSeq(s, n + 1, Len(s))

-----------------------------------------------------------------------------
(***************************************************************************)
(* The client.                                                             *)
(***************************************************************************)
\* proxy_client_close
Close(state) ==
  /\ cstate' = state /\ cfd' = FALSE /\ cbuf' = <<>> /\ cout' = <<>>
  /\ cpc' = "idle" /\ down' = <<>>
  /\ UNCHANGED <<call, ncall, shown, daemonVars, up>>

\* Mutant: no call closes the connection.
FailStays ==
  /\ cpc' = "idle" /\ cstate' = "CAPTURING"
  /\ UNCHANGED <<call, ncall, cbuf, cout, cfd, shown, daemonVars, up, down>>

\* The failure labels: all calls close the connection but device_ioctl.
Fail ==
  IF call.op = "ioctl"
  THEN /\ cpc' = "idle"
       /\ UNCHANGED <<cstate, call, ncall, cbuf, cout, cfd, shown, daemonVars, up, down>>
  ELSE Close("ERROR")

\* proxy_client_start_acq.  (The model connects again when the daemon has freed
\* its record of the last connection.)
Connect ==
  /\ cpc = "idle" /\ cstate \in {"NULL", "ERROR"} /\ dstate = "none" /\ ~dfd
  /\ cstate' = "WAIT_CON_CNF" /\ cfd' = TRUE /\ dfd' = TRUE
  /\ call' = Request("connect", 0) /\ ncall' = 0 /\ cout' = Parts(call') /\ cpc' = "write"
  /\ cbuf' = <<>> /\ shown' = 0
  /\ up' = <<>> /\ down' = <<>> /\ nframe' = 0 /\ nind' = 0
  /\ UNCHANGED <<dstate, dpc, dsel, drd, dwr, queue, ind>>

\* A call begins with proxy_client_wait_idle, which asserts that nothing is left to
\* be written.
CallBegin(op) ==
  /\ cpc = "idle" /\ cstate = "CAPTURING" /\ cout = <<>> /\ ncall < MaxCall
  /\ ncall' = ncall + 1 /\ call' = Request(op, ncall') /\ cpc' = "wait_idle"
  /\ UNCHANGED <<cstate, cbuf, cout, cfd, shown, daemonVars, up, down>>

\* Mutant: the rest of a message that is being read is left for later.
PrepareAtOnce ==
  /\ cpc = "wait_idle"
  /\ cout' = Parts(call) /\ cpc' = "write"
  /\ cstate' = CASE call.op = "service" -> "WAIT_SRV_CNF"
                 [] call.op \in {"token", "notify"} -> "WAIT_RPC_REPLY"
                 [] OTHER -> cstate
  /\ UNCHANGED <<call, ncall, cbuf, cfd, shown, daemonVars, up, down>>

\* vbi_proxy_msg_write, when nothing is being read.
Prepare ==
  /\ cpc = "wait_idle" /\ cbuf = <<>>
  /\ cout' = Parts(call) /\ cpc' = "write"
  /\ cstate' = CASE call.op = "service" -> "WAIT_SRV_CNF"
                 [] call.op \in {"token", "notify"} -> "WAIT_RPC_REPLY"
                 [] OTHER -> cstate
  /\ UNCHANGED <<call, ncall, cbuf, cfd, shown, daemonVars, up, down>>

\* vbi_proxy_msg_handle_read: what one call adds to the message.
Got == cbuf \o First(down, Readable(cbuf, down))

ClientReadsPart ==
  /\ cpc \in {"wait_idle", "reply", "read"} /\ (cpc = "wait_idle" => cbuf # <<>>)
  /\ down # <<>> /\ ~Complete(Got)
  /\ cbuf' = Got /\ down' = After(down, Readable(cbuf, down))
  /\ UNCHANGED <<cstate, cpc, call, ncall, cout, cfd, shown, daemonVars, up>>

\* The last part of message m.
Completes(m) == down # <<>> /\ Complete(Got) /\ MsgOf(Got) = m
TakeIt(pc, state, frame) ==
  /\ cbuf' = <<>> /\ down' = After(down, Readable(cbuf, down))
  /\ cpc' = pc /\ cstate' = state /\ shown' = frame
  /\ UNCHANGED <<call, ncall, cout, cfd, daemonVars, up>>

Asynchronous(m) == m.type \in {"SLICED_IND", "CHANGE_IND"}

\* What wait_idle waited for is discarded - a late reply, though, is an error, and
\* the state is still WAIT_IDLE then.
WaitIdleTakes(m) ==
  /\ cpc = "wait_idle" /\ cbuf # <<>> /\ Completes(m)
  /\ IF Asynchronous(m) THEN TakeIt("wait_idle", cstate, shown)
     ELSE IF call.op = "ioctl" THEN TakeIt("idle", "WAIT_IDLE", shown)
     ELSE Close("ERROR")

\* proxy_client_rpc: the request is written, as much at a time as the socket takes,
\* and the client waits for nothing else meanwhile ...
UpRoom == UpCap - Len(up)

\* Mutant: what is left after one write is forgotten.
WritesOnce ==
  /\ cpc = "write" /\ dfd /\ UpRoom > 0
  /\ \E n \in {Min({UpRoom, Len(cout)})} : up' = up \o First(cout, n)
  /\ cout' = <<>> /\ cpc' = "reply"
  /\ UNCHANGED <<cstate, call, ncall, cbuf, cfd, shown, daemonVars, down>>

ClientWrites ==
  /\ cpc = "write" /\ dfd /\ UpRoom > 0
  /\ \E n \in {Min({UpRoom, Len(cout)})} :
       up' = up \o First(cout, n) /\ cout' = After(cout, n)
  /\ cpc' = IF cout' = <<>> THEN "reply" ELSE "write"
  /\ UNCHANGED <<cstate, call, ncall, cbuf, cfd, shown, daemonVars, down>>

\* Mutant: the wait for room has no time-out.
WriteWaits ==
  /\ cpc = "write" /\ dfd /\ UpRoom = 0
  /\ UNCHANGED vars

\* (RPC_TIMEOUT_MSECS, while there is no room.  A half-written ioctl stays.)
WriteTimeOut ==
  /\ cpc = "write" /\ dfd /\ UpRoom = 0
  /\ Fail

\* ... and then messages are read until it is a reply to this kind of call.
IsReply(m) == m.type \in {"CNF", "REJ"} /\ m.op = call.op

RpcTakesOther(m) ==
  /\ cpc = "reply" /\ Completes(m) /\ ~IsReply(m)
  /\ IF Asynchronous(m) /\ (m.type = "SLICED_IND" => cstate # "WAIT_CON_CNF")
     THEN TakeIt("reply", cstate, shown)
     ELSE Fail

RpcTakesReply(m) ==
  /\ cpc = "reply" /\ Completes(m) /\ IsReply(m)
  /\ IF call.op = "connect" /\ m.type = "REJ" THEN Close("ERROR")
     ELSE TakeIt("idle", "CAPTURING", shown)

\* vbi_proxy_client_read, with the same assertion.
ReadBegin ==
  /\ cpc = "idle" /\ cstate = "CAPTURING" /\ cout = <<>>
  /\ cpc' = "read"
  /\ UNCHANGED <<cstate, call, ncall, cbuf, cout, cfd, shown, daemonVars, up, down>>

ReadTakes(m) ==
  /\ cpc = "read" /\ Completes(m)
  /\ IF m.type = "SLICED_IND" THEN TakeIt("idle", cstate, m.id)
     ELSE IF m.type = "CHANGE_IND" THEN TakeIt("idle", cstate, shown)
     ELSE Close("ERROR")

\* It returns 0, and keeps what it has of a message.
ReadTimeOut ==
  /\ cpc = "read" /\ down = <<>>
  /\ cpc' = "idle"
  /\ UNCHANGED <<cstate, call, ncall, cbuf, cout, cfd, shown, daemonVars, up, down>>

\* IDLE_TIMEOUT_MSECS; RPC_TIMEOUT_MSECS, while nothing comes.
CallTimeOut ==
  /\ cpc \in {"wait_idle", "reply"} /\ down = <<>> /\ (cpc = "wait_idle" => cbuf # <<>>)
  /\ call.op \in RpcLate
  /\ Fail

\* The daemon has closed the connection: nothing can be written, and a read returns
\* 0 after the last message.
Lost ==
  /\ ~dfd
  /\ \/ cpc = "write" /\ Fail
     \/ cpc \in {"wait_idle", "reply"} /\ (cpc = "wait_idle" => cbuf # <<>>) /\ down = <<>> /\ Fail
     \/ cpc = "read" /\ down = <<>> /\ Close("ERROR")

\* proxy_client_stop_acq
StopAcq ==
  /\ cpc = "idle" /\ cfd
  /\ Close("NULL")

-----------------------------------------------------------------------------
(***************************************************************************)
(* The daemon.                                                             *)
(***************************************************************************)
\* vbi_proxyd_close, and the record of the connection is freed.
DaemonClose ==
  /\ dstate' = "none" /\ dfd' = FALSE /\ dpc' = "select"
  /\ drd' = <<>> /\ dwr' = <<>> /\ queue' = <<>> /\ ind' = FALSE /\ up' = <<>>
  /\ UNCHANGED <<clientVars, dsel, nframe, nind, down>>

\* vbi_proxyd_add_connection
Accept ==
  /\ dstate = "none" /\ dfd /\ dpc = "select"
  /\ dstate' = "WAIT_CON_REQ"
  /\ UNCHANGED <<clientVars, dpc, dsel, drd, dwr, dfd, queue, ind, nframe, nind, up, down>>

\* Mutant: the rest of a message is forgotten.
SelectForgetsRest ==
  /\ dpc = "select" /\ dstate # "none"
  /\ dsel' = IF drd = <<>> /\ (queue # <<>> \/ ind) THEN "wr" ELSE "rd"
  /\ dpc' = "io"
  /\ UNCHANGED <<clientVars, dstate, drd, dwr, dfd, queue, ind, nframe, nind, up, down>>

\* vbi_proxyd_get_fd_set: a read that has begun goes on, then comes what is to be
\* written, then new messages.
Select ==
  /\ dpc = "select" /\ dstate # "none"
  /\ dsel' = IF drd = <<>> /\ (dwr # <<>> \/ queue # <<>> \/ ind) THEN "wr" ELSE "rd"
  /\ dpc' = "io"
  /\ UNCHANGED <<clientVars, dstate, drd, dwr, dfd, queue, ind, nframe, nind, up, down>>

\* Meanwhile vbi_proxyd_forward_data, or the acquisition thread, adds a frame, ...
Publish ==
  /\ dstate = "FORWARD" /\ nframe < MaxFrame
  /\ nframe' = nframe + 1 /\ queue' = Append(queue, nframe')
  /\ UNCHANGED <<clientVars, dstate, dpc, dsel, drd, dwr, dfd, ind, nind, up, down>>

\* ... and another client's message changes the channel or the norm.
ChannelChanged ==
  /\ dstate = "FORWARD" /\ dpc \in {"select", "io"} /\ ~ind /\ nind < MaxInd
  /\ ind' = TRUE /\ nind' = nind + 1
  /\ UNCHANGED <<clientVars, dstate, dpc, dsel, drd, dwr, dfd, queue, nframe, up, down>>

\* vbi_proxy_msg_handle_read: n parts, a message of one part less than complete.
DaemonReadsPart(n) ==
  /\ dpc = "io" /\ dsel = "rd" /\ dwr = <<>>
  /\ up # <<>> /\ n \in 1 .. Readable(drd, up) /\ ~Complete(drd \o First(up, n))
  /\ drd' = drd \o First(up, n) /\ up' = After(up, n)
  /\ dpc' = "serve"
  /\ UNCHANGED <<clientVars, dstate, dsel, dwr, dfd, queue, ind, nframe, nind, down>>

\* vbi_proxyd_take_message: request m is answered, in the same buffer.
Answer(m, type, state) ==
  /\ dstate' = state /\ dwr' = Parts([m EXCEPT !.type = type])
  /\ queue' = IF m.op = "service" THEN <<>> ELSE queue
  /\ ind' = (ind /\ m.op # "notify")
  /\ drd' = <<>> /\ dpc' = "serve"
  /\ UNCHANGED <<clientVars, dsel, dfd, nframe, nind, down>>

DaemonReads(m) ==
  /\ dpc = "io" /\ dsel = "rd" /\ dwr = <<>> /\ up # <<>>
  /\ \E n \in {Readable(drd, up)} :
       Complete(drd \o First(up, n)) /\ MsgOf(drd \o First(up, n)) = m /\ up' = After(up, n)
  /\ IF m.op = "connect"
     THEN \/ dstate = "WAIT_CON_REQ" /\ Answer(m, "CNF", "FORWARD")
          \/ dstate = "WAIT_CON_REQ" /\ Answer(m, "REJ", "WAIT_CLOSE")
     ELSE \/ Answer(m, "CNF", dstate)
          \/ m.op \in {"service", "ioctl"} /\ Answer(m, "REJ", dstate)

\* Mutant: without closeOnZeroRead.
DaemonReadsNothing ==
  /\ dpc = "io" /\ dsel = "rd" /\ dwr = <<>> /\ up = <<>> /\ ~cfd
  /\ dpc' = "serve"
  /\ UNCHANGED <<clientVars, dstate, dsel, drd, dwr, dfd, queue, ind, nframe, nind, up, down>>

\* The client has closed its end.
DaemonReadsEnd ==
  /\ dpc = "io" /\ dsel = "rd" /\ dwr = <<>> /\ up = <<>> /\ ~cfd
  /\ DaemonClose

\* vbi_proxy_msg_handle_write: as much as the socket takes.
Room == DownCap - Len(down)
\* Mutant: the offset is that of this call.
SendAgain(buf) ==
  \E n \in {Min({Room, Len(buf)})} :
    /\ down' = down \o First(buf, n)
    /\ dwr' = IF n = Len(buf) THEN <<>> ELSE First(buf, Len(buf) - n)

Send(buf) ==
  \E n \in {Min({Room, Len(buf)})} :
    /\ down' = down \o First(buf, n)
    /\ dwr' = After(buf, n)

DaemonWrites ==
  /\ dpc = "io" /\ dsel = "wr" /\ dwr # <<>> /\ cfd /\ Room > 0
  /\ Send(dwr)
  /\ dpc' = "serve"
  /\ UNCHANGED <<clientVars, dstate, dsel, drd, dfd, queue, ind, nframe, nind, up>>

DaemonWriteFails ==
  /\ dpc = "io" /\ dsel = "wr" /\ dwr # <<>> /\ ~cfd
  /\ DaemonClose

\* Nothing to be read, or written, or nothing was selected for.
DaemonNoIo ==
  /\ dpc = "io"
  /\ IF dsel = "rd" THEN (up = <<>> /\ cfd) \/ dwr # <<>>
     ELSE dwr = <<>> \/ (cfd /\ Room = 0)
  /\ dpc' = "serve"
  /\ UNCHANGED <<clientVars, dstate, dsel, drd, dwr, dfd, queue, ind, nframe, nind, up, down>>

\* "close was pending after last write"
WaitClose ==
  /\ dpc = "serve" /\ dstate = "WAIT_CLOSE"
  /\ DaemonClose

\* vbi_proxy_msg_is_idle
DaemonIdle == drd = <<>> /\ dwr = <<>>

SendInd ==
  /\ dpc = "serve" /\ dstate # "WAIT_CLOSE" /\ DaemonIdle /\ ind
  /\ dwr' = Parts(ChangeInd) /\ ind' = FALSE /\ dpc' = "select"
  /\ UNCHANGED <<clientVars, dstate, dsel, drd, dfd, queue, nframe, nind, up, down>>

\* Mutant: the newest frame is sent.
SendSlicedNewest ==
  /\ dpc = "serve" /\ dstate # "WAIT_CLOSE" /\ DaemonIdle /\ ~ind /\ queue # <<>>
  /\ IF cfd
     THEN /\ Send(Parts(Frame(Last(queue)))) /\ queue' = Front(queue)
          /\ dpc' = IF dwr' = <<>> THEN "serve" ELSE "select"
          /\ UNCHANGED <<clientVars, dstate, dsel, drd, dfd, ind, nframe, nind, up>>
     ELSE DaemonClose

\* vbi_proxyd_send_sliced, until the socket is blocked.
SendSliced ==
  /\ dpc = "serve" /\ dstate # "WAIT_CLOSE" /\ DaemonIdle /\ ~ind /\ queue # <<>>
  /\ IF cfd
     THEN /\ Send(Parts(Frame(Head(queue)))) /\ queue' = Tail(queue)
          /\ dpc' = IF dwr' = <<>> THEN "serve" ELSE "select"
          /\ UNCHANGED <<clientVars, dstate, dsel, drd, dfd, ind, nframe, nind, up>>
     ELSE DaemonClose

ServeNothing ==
  /\ dpc = "serve" /\ dstate # "WAIT_CLOSE"
  /\ ~DaemonIdle \/ (~ind /\ queue = <<>>)
  /\ dpc' = "select"
  /\ UNCHANGED <<clientVars, dstate, dsel, drd, dwr, dfd, queue, ind, nframe, nind, up, down>>

\* SRV_CONNECT_TIMEOUT; SRV_IO_TIMEOUT, which is as long, for half a request.
ConnectTimeOut ==
  /\ dpc = "select" /\ dstate = "WAIT_CON_REQ" /\ up = <<>>
  /\ DaemonClose

-----------------------------------------------------------------------------
ClientStep ==
  \/ ClientReadsPart \/ Prepare \/ ClientWrites \/ Lost
  \/ \E m \in Msg : WaitIdleTakes(m) \/ RpcTakesOther(m) \/ RpcTakesReply(m) \/ ReadTakes(m)

DaemonStep ==
  \/ Accept \/ Select
  \/ \E n \in 1 .. 2 : DaemonReadsPart(n)
  \/ \E m \in Msg : DaemonReads(m)
  \/ DaemonReadsEnd \/ DaemonWrites \/ DaemonWriteFails \/ DaemonNoIo
  \/ WaitClose \/ SendInd \/ SendSliced \/ ServeNothing

Next ==
  \/ ClientStep \/ DaemonStep
  \/ Connect \/ (\E op \in Ops : CallBegin(op)) \/ ReadBegin \/ StopAcq
  \/ ReadTimeOut \/ WriteTimeOut \/ CallTimeOut \/ ConnectTimeOut
  \/ Publish \/ ChannelChanged

Spec == Init /\ [][Next]_vars

(***************************************************************************)
(* Fairness.  A client in one of its calls goes on, and the daemon's main  *)
(* loop runs: select() returns while there is something to be done for the *)
(* connection.  The client's select() ends when there is no room for its   *)
(* request in 5 seconds.  No other time-out is fair, so that nothing else  *)
(* can depend on one, and no client has to make a call.                    *)
(***************************************************************************)
FairSpec == Spec /\ WF_vars(ClientStep) /\ WF_vars(DaemonStep) /\ WF_vars(WriteTimeOut)

-----------------------------------------------------------------------------
\* Every variable has its type.
TypeOK ==
  /\ cstate \in {"NULL", "WAIT_CON_CNF", "CAPTURING", "WAIT_IDLE", "WAIT_SRV_CNF",
                 "WAIT_RPC_REPLY", "ERROR"}
  /\ cpc \in {"idle", "wait_idle", "write", "reply", "read"}
  /\ call \in Msg /\ ncall \in 0 .. MaxCall
  /\ dstate \in {"none", "WAIT_CON_REQ", "FORWARD", "WAIT_CLOSE"}
  /\ dpc \in {"select", "io", "serve"} /\ dsel \in {"rd", "wr"}
  /\ cfd \in BOOLEAN /\ dfd \in BOOLEAN /\ ind \in BOOLEAN
  /\ Len(cbuf) < 3 /\ Len(drd) < 3 /\ Len(dwr) <= 3 /\ Len(down) <= DownCap
  /\ Len(up) <= UpCap
  /\ shown \in 0 .. MaxFrame /\ nframe \in 0 .. MaxFrame /\ nind \in 0 .. MaxInd

\* A connection between two ends which are both still there.
Connected == cfd /\ dfd /\ dstate # "none"

\* "simultaneous read and write is not supported": neither end has begun to write a
\* message while it has a part of another (vbi_proxy_msg_write: "I/O must be idle").
Exclusive == (cbuf = <<>> \/ cout = <<>>) /\ (drd = <<>> \/ dwr = <<>>)

\* What goes to the client - what it has read, what is in the socket, what the
\* daemon has still to write - is whole messages one after the other, wherever each
\* of the two has been interrupted; so is what goes to the daemon; and neither end
\* turns round in a message.
Stream   == cbuf \o down \o dwr
UpStream == drd \o up \o cout
Follows(p, q) == IF p[2] = Size(p[1]) THEN q[2] = 1 ELSE q = <<p[1], p[2] + 1>>
WellFramed ==
  /\ TypeOK
  /\ Connected => Exclusive
  /\ \A s \in {Stream, UpStream} : Connected /\ s # <<>> =>
       /\ s[1][2] = 1 /\ s[Len(s)][2] = Size(s[Len(s)][1])
       /\ \A i \in 1 .. Len(s) - 1 : Follows(s[i], s[i + 1])

\* The frames come in the order in which they were captured.
FramesInOrder ==
  Connected =>
    \E ids \in {[i \in DOMAIN Stream |-> Stream[i][1].id]} :
      \A i \in DOMAIN Stream : Stream[i][1].type = "SLICED_IND" =>
        /\ ids[i] > shown
        /\ \A j \in i .. Len(Stream) : Stream[j][1].type = "SLICED_IND" => ids[i] <= ids[j]
        /\ \A k \in DOMAIN queue : ids[i] < queue[k]

\* A reply on its way is that to the call the client is waiting in: a reply which
\* is late is never taken for that to the next call.
RepliesMatch ==
  \A i \in DOMAIN Stream : cfd /\ Stream[i][1].type \in {"CNF", "REJ"} =>
    cpc = "reply" /\ Stream[i][1].op = call.op /\ Stream[i][1].id = call.id

\* A call returns.  The two do wait for each other when the daemon has no room for a
\* frame and the client none for its request; the client's time-out ends that, and
\* no call needs another one.
CallReturns == cpc \in {"wait_idle", "write", "reply"} ~> cpc = "idle"

\* The daemon notices that a client is gone, whichever direction it is busy with.
CloseIsNoticed == ~cfd /\ dfd ~> ~dfd
=============================================================================
