---------------------------- MODULE ProxyChannel ----------------------------
(***************************************************************************)
(* Channel control in the VBI proxy: who may switch the channel of one     *)
(* device (vbi/daemon/proxyd.c, vbi/src/proxy-client.c).                   *)
(*                                                                         *)
(* Clients with background priority share the channel by means of a token. *)
(* The daemon's scheduler decides who gets it, and reclaims it from its    *)
(* holder first; the token, its reclaim and its return travel as messages. *)
(*                                                                         *)
(* The daemon is its main loop: passes over the list of clients, and the   *)
(* scheduling timer after each.  The client is the library; which of its   *)
(* functions the application calls is arbitrary, except that it returns    *)
(* the token when it is told that the token was reclaimed, which           *)
(* proxy-client.h demands.                                                 *)
(***************************************************************************)
EXTENDS ChannelScheduler

CONSTANTS
  Calls,        \* the library functions the applications call
  Prios,        \* the priorities they ask for
  Services,     \* whether they ask for VBI data
  SocketSize    \* number of messages a socket buffers

ASSUME ChannelAssumption ==
  /\ Calls \subseteq {"request", "again", "unrequest", "flush", "return", "release",
                      "service", "ioctl", "close"}
  /\ Prios \subseteq 1 .. 3
  /\ Services \subseteq BOOLEAN
  /\ SocketSize \in Nat \ {0}

VARIABLES
  \* the daemon
  clnts,      \* proxy.p_clnts
  at,         \* the clients still to be visited in this pass
  busy,       \* a pass is under way
  rd,         \* the clients that are read from in this pass
  chn,        \* the channel state of the clients
  ind,        \* chn_status_ind # 0
  out,        \* the message being written (io.writeLen > 0)
  devPrio,    \* chn_prio of the device
  serv,       \* all_services # 0
  alarm,      \* the alarm timer; "fired": chn_sched_alarm
  aborted,    \* an assertion of get_token_owner or vbi_capture_flush failed
  \* the sockets
  request,    \* the message on its way to the daemon
  inbox,      \* the messages on their way to the client
  \* the client library
  cstate, cprio, has_token,
  ev,         \* ev_mask, the events to be reported to the application
  \* the application
  app         \* it was granted the token, and has switched the channel or not

daemonVars == <<clnts, at, busy, rd, chn, ind, out, devPrio, serv, alarm, aborted>>
clientVars == <<cstate, cprio, has_token, ev, app>>
vars == <<daemonVars, request, inbox, clientVars>>

ClientState == {"off", "capturing", "wait_token", "wait_notify", "wait_srv",
                "wait_ioctl", "error"}
Message == {"token_yes", "token_no", "notify_cnf", "service_cnf", "ioctl_cnf",
            "ioctl_rej", "token_ind", "reclaim_req", "change_ind"}
Request ==
  [type : {"none", "ioctl"}]
  \cup [type : {"token"}, prio : 1 .. 3, valid : BOOLEAN]
  \cup [type : {"notify"}, flags : SUBSET {"FLUSH", "TOKEN", "RELEASE"}]
  \cup [type : {"service"}, services : BOOLEAN]
NoRequest == [type |-> "none"]

ASSUME NullAssumption == NULL \notin Message

Init ==
  /\ clnts = <<>> /\ at = <<>> /\ busy = FALSE /\ rd = {}
  /\ chn = [c \in Client |-> Cleared(INTERACTIVE, FALSE)]
  /\ ind = [c \in Client |-> FALSE]
  /\ out = [c \in Client |-> NULL]
  /\ devPrio = 0
  /\ serv = [c \in Client |-> FALSE]
  /\ alarm = "off" /\ aborted = FALSE
  /\ request = [c \in Client |-> NoRequest]
  /\ inbox = [c \in Client |-> <<>>]
  /\ cstate = [c \in Client |-> "off"]
  /\ cprio = [c \in Client |-> 0]
  /\ has_token = [c \in Client |-> FALSE]
  /\ ev = [c \in Client |-> {}]
  /\ app = [c \in Client |-> "idle"]

-----------------------------------------------------------------------------
(***************************************************************************)
(* The daemon.                                                             *)
(***************************************************************************)

\* p_capture # NULL.  Starting the acquisition sets the device's priority.
Capture(L, sv) == \E c \in Range(L) : sv[c]
PrioOnceOpen == IF Capture(clnts, serv) THEN devPrio ELSE INTERACTIVE

\* vbi_proxyd_channel_update, called with the channel states s and the list L.
\* A token granted to req goes out with the reply to it.  The alarm is only
\* updated at background priority.  vbi_capture_flush wants an open device.
Update(s, L, forced, req) ==
  \E u \in ChannelUpdate(s, L, forced) :
    LET sent(c) == c = req /\ u.chn[c].token = "grant"
    IN /\ chn' = [c \in Client |-> IF sent(c) THEN [u.chn[c] EXCEPT !.token = "granted"]
                                  ELSE u.chn[c]]
       /\ aborted' = (u.abort \/ (u.flush /\ ~Capture(L, serv)))
       /\ devPrio' = TopPrio(s, L)
       /\ IF TopPrio(s, L) > BACKGROUND THEN UNCHANGED alarm
          ELSE alarm' \in Alarm(u.chn, L)

NoUpdate(s) == chn' = s /\ UNCHANGED <<aborted, devPrio, alarm>>

Reply(c, m) ==
  /\ out' = [out EXCEPT ![c] = m]
  /\ request' = [request EXCEPT ![c] = NoRequest]

\* MSG_TYPE_CHN_TOKEN_REQ
TakeTokenReq(c) ==
  /\ request[c].type = "token"
  /\ Update([chn EXCEPT ![c] = Cleared(request[c].prio, request[c].valid)],
            clnts, FALSE, c)
  /\ Reply(c, IF chn'[c].token = "granted" THEN "token_yes" ELSE "token_no")
  /\ UNCHANGED <<clnts, ind, serv>>

\* The claim is given up, or the token is returned.
Notified(s, c, f) ==
  IF "RELEASE" \in f THEN [s EXCEPT ![c].token = "none", ![c].valid = FALSE]
  ELSE IF "TOKEN" \in f THEN [s EXCEPT ![c].token = "returned"] ELSE s

\* MSG_TYPE_CHN_NOTIFY_REQ.  A flush is reported to all clients but the caller;
\* without the token, it counts as a forced channel switch.
TakeNotifyReq(c) ==
  LET f      == request[c].flags
      s      == Notified(chn, c, f)
      update == \/ "FLUSH" \in f
                \/ IF "RELEASE" \in f THEN chn[c].token # "none" ELSE "TOKEN" \in f
  IN /\ request[c].type = "notify"
     /\ IF update
        THEN Update(s, clnts, "FLUSH" \in f /\ ~Controls(chn, c), NULL)
        ELSE NoUpdate(s)
     /\ ind' = [d \in Client |-> d # c /\ (ind[d] \/ ("FLUSH" \in f /\ d \in Range(clnts)))]
     /\ Reply(c, "notify_cnf")
     /\ UNCHANGED <<clnts, serv>>

\* MSG_TYPE_SERVICE_REQ, as far as it starts or stops the acquisition.
TakeServiceReq(c) ==
  /\ request[c].type = "service"
  /\ serv' = [serv EXCEPT ![c] = request[c].services]
  /\ devPrio' = IF request[c].services THEN PrioOnceOpen ELSE devPrio
  /\ Reply(c, "service_cnf")
  /\ UNCHANGED <<clnts, chn, ind, alarm, aborted>>

\* MSG_TYPE_CHN_IOCTL_REQ, for a request that switches the channel.  The
\* device is opened for it if it is not open.
TakeIoctlReq(c) ==
  /\ request[c].type = "ioctl"
  /\ devPrio' = PrioOnceOpen
  /\ Reply(c, IF chn[c].prio >= PrioOnceOpen \/ Controls(chn, c)
              THEN "ioctl_cnf" ELSE "ioctl_rej")
  /\ UNCHANGED <<clnts, chn, ind, serv, alarm, aborted>>

\* The client has closed the connection: it is unlinked, and the scheduler runs
\* if the device remains open.
Close(c) ==
  LET L  == RemoveFirst(clnts, c)
      s  == [chn EXCEPT ![c] = Cleared(INTERACTIVE, FALSE)]
      sv == [serv EXCEPT ![c] = FALSE]
  IN /\ cstate[c] = "error"
     /\ clnts' = L /\ serv' = sv
     /\ IF Capture(L, sv) THEN Update(s, L, FALSE, NULL) ELSE NoUpdate(s)
     /\ out' = [out EXCEPT ![c] = NULL]
     /\ ind' = [ind EXCEPT ![c] = FALSE]
     /\ inbox' = [inbox EXCEPT ![c] = <<>>]
     /\ cstate' = [cstate EXCEPT ![c] = "off"]
     /\ request' = [request EXCEPT ![c] = NoRequest]
     /\ UNCHANGED <<cprio, has_token, ev, app>>

\* What is sent to a client with no I/O in progress.
IdleSend(c) ==
  LET t == chn[c].token IN
  \/ /\ t = "reclaim"
     /\ out' = [out EXCEPT ![c] = "reclaim_req"]
     /\ chn' = [chn EXCEPT ![c].token = "release"]
     /\ UNCHANGED ind
  \/ /\ t = "grant"
     /\ out' = [out EXCEPT ![c] = "token_ind"]
     /\ chn' = [chn EXCEPT ![c].token = "granted"]
     /\ UNCHANGED ind
  \/ /\ t \notin {"reclaim", "grant"} /\ ind[c]
     /\ out' = [out EXCEPT ![c] = "change_ind"]
     /\ ind' = [ind EXCEPT ![c] = FALSE]
     /\ UNCHANGED chn
  \/ /\ t \notin {"reclaim", "grant"} /\ ~ind[c]
     /\ out' = [out EXCEPT ![c] = NULL]
     /\ UNCHANGED <<chn, ind>>

Room(c) == Len(inbox[c]) < SocketSize  \* the write is not blocked

\* A pass of main_loop begins when select() finds a socket, or the device,
\* ready.  A client is read from if nothing is to be written to it, that is no
\* message, no indication and no sliced data.
Pending(c)  == request[c] # NoRequest \/ cstate[c] = "error"
Readable(c) == out[c] = NULL /\ ~ind[c] /\ Pending(c)
Writable(c) == (out[c] # NULL \/ ind[c]) /\ (Room(c) \/ cstate[c] = "error")

StartPass ==
  /\ ~busy /\ ~aborted
  /\ Capture(clnts, serv) \/ \E c \in Range(clnts) : Readable(c) \/ Writable(c)
  /\ busy' = TRUE /\ at' = clnts
  /\ \E sliced \in SUBSET {c \in Range(clnts) : serv[c]} :
       rd' = {c \in Range(clnts) \ sliced : Readable(c)}
  /\ UNCHANGED <<clnts, chn, ind, out, devPrio, serv, alarm, aborted,
                 request, inbox, clientVars>>

\* vbi_proxyd_handle_client_sockets visits the clients.
Visited(c) ==
  /\ at # <<>> /\ c = Head(at) /\ at' = Tail(at) /\ ~aborted
  /\ UNCHANGED <<busy, rd>>

\* It reads a message, or finds the connection closed, ...
ReadClient(c) ==
  /\ Visited(c) /\ c \in rd
  /\ \/ /\ TakeTokenReq(c) \/ TakeNotifyReq(c) \/ TakeServiceReq(c) \/ TakeIoctlReq(c)
        /\ UNCHANGED <<inbox, clientVars>>
     \/ request[c] = NoRequest /\ Close(c)

\* Mutant: a blocked write is taken for a finished one.
WriteClientDrops(c) ==
  /\ Visited(c) /\ c \notin rd
  /\ \/ out[c] = NULL /\ IdleSend(c) /\ UNCHANGED inbox
     \/ out[c] # NULL /\ Room(c) /\ IdleSend(c)
        /\ inbox' = [inbox EXCEPT ![c] = Append(@, out[c])]
     \/ out[c] # NULL /\ ~Room(c) /\ cstate[c] # "error" /\ IdleSend(c) /\ UNCHANGED inbox
  /\ UNCHANGED <<clnts, devPrio, serv, alarm, aborted, request, clientVars>>

\* ... or finishes the write, if the socket has room, and sends what is pending.
WriteClient(c) ==
  /\ Visited(c) /\ c \notin rd
  /\ \/ out[c] = NULL /\ IdleSend(c) /\ UNCHANGED inbox
     \/ out[c] # NULL /\ Room(c) /\ IdleSend(c)
        /\ inbox' = [inbox EXCEPT ![c] = Append(@, out[c])]
     \/ out[c] # NULL /\ ~Room(c) /\ cstate[c] # "error"
        /\ UNCHANGED <<chn, ind, out, inbox>>
  /\ UNCHANGED <<clnts, devPrio, serv, alarm, aborted, request, clientVars>>

\* A write to a closed connection fails.
WriteFails(c) ==
  /\ Visited(c) /\ c \notin rd
  /\ out[c] # NULL
  /\ Close(c)

\* At the end of a pass, the timer: vbi_proxyd_channel_timer.
TimerDue ==
  /\ devPrio = BACKGROUND /\ Len(clnts) > 1
  /\ \E c \in Range(clnts) : Controls(chn, c) /\ ~chn[c].completed /\ chn[c].expired

EndPass ==
  /\ busy /\ at = <<>> /\ ~aborted
  /\ busy' = FALSE /\ rd' = {}
  /\ IF alarm = "fired"
     THEN IF TimerDue THEN Update(chn, clnts, FALSE, NULL)
          ELSE alarm' = "off" /\ UNCHANGED <<chn, devPrio, aborted>>
     ELSE NoUpdate(chn)
  /\ UNCHANGED <<clnts, at, ind, out, serv, request, inbox, clientVars>>

\* The reserved time of c is over.
Expire(c) ==
  /\ c \in Range(clnts) /\ ~chn[c].expired
  /\ chn' = [chn EXCEPT ![c].expired = TRUE]
  /\ UNCHANGED <<clnts, at, busy, rd, ind, out, devPrio, serv, alarm, aborted,
                 request, inbox, clientVars>>

\* vbi_proxyd_alarm_handler.  The signal interrupts select(), and main_loop looks
\* at chn_sched_alarm only after a pass.
AlarmFires ==
  /\ alarm = "set"
  /\ LET active == {c \in Range(clnts) : Controls(chn, c) /\ ~chn[c].completed}
     IN active # {} => \E c \in active : chn[c].expired
  /\ alarm' = "fired"
  /\ UNCHANGED <<clnts, at, busy, rd, chn, ind, out, devPrio, serv, aborted,
                 request, inbox, clientVars>>

-----------------------------------------------------------------------------
(***************************************************************************)
(* The clients.                                                            *)
(***************************************************************************)

\* A client connects and is confirmed: accept, CONNECT_REQ, CONNECT_CNF.
Connect(c, s) ==
  /\ ~busy /\ ~aborted
  /\ cstate[c] = "off" /\ c \notin Range(clnts)
  /\ clnts' = Append(clnts, c)
  /\ serv' = [serv EXCEPT ![c] = s]
  /\ devPrio' = IF s THEN PrioOnceOpen ELSE devPrio
  /\ cstate' = [cstate EXCEPT ![c] = "capturing"]
  /\ cprio' = [cprio EXCEPT ![c] = 0]
  /\ has_token' = [has_token EXCEPT ![c] = FALSE]
  /\ ev' = [ev EXCEPT ![c] = {}]
  /\ UNCHANGED <<at, busy, rd, chn, ind, out, alarm, aborted, request, inbox, app>>

Send(c, m, wait) ==
  /\ cstate[c] = "capturing"
  /\ request' = [request EXCEPT ![c] = m]
  /\ cstate' = [cstate EXCEPT ![c] = wait]
  /\ UNCHANGED <<daemonVars, inbox>>

\* vbi_proxy_client_channel_request
ChannelRequest(c, p, v) ==
  /\ Send(c, [type |-> "token", prio |-> p, valid |-> v], "wait_token")
  /\ has_token' = [has_token EXCEPT ![c] = FALSE]
  /\ ev' = [ev EXCEPT ![c] = @ \ {"granted"}]
  /\ cprio' = [cprio EXCEPT ![c] = p]
  /\ app' = [app EXCEPT ![c] = "idle"]

\* vbi_proxy_client_channel_notify, called by the application on its own.
ChannelNotify(c, flags) ==
  /\ Send(c, [type |-> "notify", flags |-> flags], "wait_notify")
  /\ app' = [app EXCEPT ![c] = IF flags # {"FLUSH"} \/ @ = "idle" THEN "idle" ELSE "switched"]
  /\ UNCHANGED <<cprio, has_token, ev>>

\* vbi_proxy_client_update_services
UpdateServices(c, s) ==
  /\ Send(c, [type |-> "service", services |-> s], "wait_srv")
  /\ UNCHANGED <<cprio, has_token, ev, app>>

\* vbi_proxy_client_device_ioctl, for a request that needs permission.
DeviceIoctl(c) ==
  /\ cprio[c] > BACKGROUND \/ has_token[c]
  /\ Send(c, [type |-> "ioctl"], "wait_ioctl")
  /\ UNCHANGED <<cprio, has_token, ev, app>>

\* The application ends, or a call times out (RPC_TIMEOUT_MSECS).
HangUp(c) ==
  /\ cstate[c] \notin {"off", "error"}
  /\ cstate' = [cstate EXCEPT ![c] = "error"]
  /\ app' = [app EXCEPT ![c] = "idle"]
  /\ UNCHANGED <<daemonVars, request, inbox, cprio, has_token, ev>>

\* The application is told that it may switch the channel, by the token or by
\* its priority; a flush follows the switch.
MaySwitch(c) == app[c] = "granted" \/ cprio[c] # BACKGROUND

Holds(c) == app[c] # "idle"

\* What the applications do.  "request" is the first request of a connection,
\* "again" a later one, "return" what proxy-client.h advises after a channel
\* switch, "unrequest" a request without a valid profile.
Call(c) ==
  \/ "request" \in Calls /\ cprio[c] = 0 /\ \E p \in Prios : ChannelRequest(c, p, TRUE)
  \/ "again" \in Calls /\ cprio[c] # 0 /\ \E p \in Prios : ChannelRequest(c, p, TRUE)
  \/ "unrequest" \in Calls /\ \E p \in Prios : ChannelRequest(c, p, FALSE)
  \/ "flush" \in Calls /\ MaySwitch(c) /\ ChannelNotify(c, {"FLUSH"})
  \/ "return" \in Calls /\ Holds(c) /\ ChannelNotify(c, {"TOKEN", "FLUSH"})
  \/ "release" \in Calls /\ ChannelNotify(c, {"RELEASE"})
  \/ "service" \in Calls /\ \E s \in Services : UpdateServices(c, s)
  \/ "ioctl" \in Calls /\ DeviceIoctl(c)
  \/ "close" \in Calls /\ HangUp(c)

\* vbi_proxy_process_callbacks reports the events e to the application, which
\* returns a reclaimed token at once.
Callback(c, e) ==
  /\ ev' = [ev EXCEPT ![c] = {}]
  /\ IF "reclaimed" \in e
     THEN /\ cstate' = [cstate EXCEPT ![c] = "wait_notify"]
          /\ request' = [request EXCEPT ![c] = [type |-> "notify", flags |-> {"TOKEN"}]]
          /\ app' = [app EXCEPT ![c] = "idle"]
     ELSE /\ cstate' = [cstate EXCEPT ![c] = "capturing"]
          /\ app' = [app EXCEPT ![c] = IF "granted" \in e THEN "granted" ELSE @]
          /\ UNCHANGED request

\* Mutant: events are forgotten while a reply is awaited.
TakeMessageForgets(c, m) ==
  CASE m = "token_ind" -> {"granted"}
    [] m = "reclaim_req" -> {"reclaimed"}
    [] m = "token_yes" -> {"granted"}
    [] OTHER -> {}

\* proxy_client_take_message: the events after message m.
TakeMessage(c, m) ==
  CASE m = "token_ind" -> ev[c] \cup {"granted"}
    [] m = "reclaim_req" -> (ev[c] \cup {"reclaimed"}) \ {"granted"}
    [] m = "token_yes" -> ev[c] \cup {"granted"}
    [] OTHER -> ev[c]

IsReply(m) == m \in {"token_yes", "token_no", "notify_cnf", "service_cnf",
                     "ioctl_cnf", "ioctl_rej"}

\* A message is read: by vbi_proxy_client_read, or by proxy_client_rpc while it
\* waits for the reply.  A token that arrives while a service request is
\* pending is a protocol error.
Receive(c) ==
  /\ cstate[c] \notin {"off", "error"} /\ inbox[c] # <<>>
  /\ LET m == Head(inbox[c])
         e == TakeMessage(c, m)
     IN /\ has_token' = [has_token EXCEPT ![c] =
                           IF m = "token_no" THEN FALSE
                           ELSE @ \/ m \in {"token_ind", "token_yes"}]
        /\ \/ /\ m = "token_ind" /\ cstate[c] = "wait_srv"
              /\ cstate' = [cstate EXCEPT ![c] = "error"]
              /\ app' = [app EXCEPT ![c] = "idle"]
              /\ UNCHANGED <<ev, request>>
           \/ /\ m = "service_cnf"
              /\ cstate' = [cstate EXCEPT ![c] = "capturing"]
              /\ UNCHANGED <<ev, app, request>>
           \/ /\ cstate[c] = "capturing" \/ (IsReply(m) /\ m # "service_cnf")
              /\ Callback(c, e)
           \/ /\ ~IsReply(m) /\ cstate[c] # "capturing"
              /\ ~(m = "token_ind" /\ cstate[c] = "wait_srv")
              /\ ev' = [ev EXCEPT ![c] = e]
              /\ UNCHANGED <<cstate, app, request>>
  /\ inbox' = [inbox EXCEPT ![c] = Tail(@)]
  /\ UNCHANGED <<daemonVars, cprio>>

\* Sliced data is read: pending events are reported too.
ReadSliced(c) ==
  /\ cstate[c] = "capturing" /\ serv[c] /\ ev[c] # {}
  /\ Callback(c, ev[c])
  /\ UNCHANGED <<daemonVars, inbox, cprio, has_token>>

-----------------------------------------------------------------------------
Daemon ==
  \/ StartPass \/ EndPass
  \/ \E c \in Client : ReadClient(c) \/ WriteClient(c) \/ WriteFails(c)

Next ==
  \/ Daemon \/ AlarmFires
  \/ \E c \in Client :
       \/ Expire(c) \/ Call(c) \/ Receive(c) \/ ReadSliced(c)
       \/ \E s \in Services : Connect(c, s)

Spec == Init /\ [][Next]_vars

(***************************************************************************)
(* Fairness.  The daemon keeps going through its passes (NextVisit and     *)
(* PassEnds are enabled just when the actions of a pass are), a client     *)
(* that reads its data gets its queue emptied and is then read from        *)
(* again, time passes, and the applications connect, make their first      *)
(* request, read, and notify the daemon of a channel switch.               *)
(***************************************************************************)
NextVisit == at # <<>> /\ ~aborted /\ at' = Tail(at)
PassEnds  == busy /\ at = <<>> /\ ~aborted /\ busy' = FALSE

FairSpec ==
  /\ Spec
  /\ WF_vars(StartPass) /\ WF_at(NextVisit) /\ WF_busy(PassEnds)
  /\ WF_vars(AlarmFires)
  /\ \A c \in Client :
       /\ SF_vars(StartPass /\ c \in rd')
       /\ WF_vars(Expire(c)) /\ WF_vars(Receive(c)) /\ WF_vars(ReadSliced(c))
       /\ WF_vars(\E s \in Services : Connect(c, s))
       /\ SF_vars(\E p \in Prios : cprio[c] = 0 /\ ChannelRequest(c, p, TRUE))
       /\ WF_vars(/\ "flush" \in Calls /\ app[c] = "granted"
                  /\ ChannelNotify(c, {"FLUSH"}))

-----------------------------------------------------------------------------
\* Every variable has its type: the states of a client the daemon can be in, and
\* the messages each side understands.
TypeOK ==
  /\ clnts \in Seq(Client) /\ at \in Seq(Client)
  /\ busy \in BOOLEAN /\ rd \subseteq Client
  /\ chn \in [Client -> ChannelState]
  /\ ind \in [Client -> BOOLEAN] /\ serv \in [Client -> BOOLEAN]
  /\ out \in [Client -> Message \cup {NULL}]
  /\ devPrio \in 0 .. 3 /\ alarm \in {"off", "set", "fired"} /\ aborted \in BOOLEAN
  /\ request \in [Client -> Request] /\ inbox \in [Client -> Seq(Message)]
  /\ cstate \in [Client -> ClientState] /\ cprio \in [Client -> 0 .. 3]
  /\ has_token \in [Client -> BOOLEAN]
  /\ app \in [Client -> {"idle", "granted", "switched"}]
  /\ ev \in [Client -> SUBSET {"granted", "reclaimed"}]

\* At most one client has the token, or is about to get or to return it.  The
\* comment on vbi_proxyd_token_grant says "only one may have non-"NONE" state",
\* and vbi_proxyd_get_token_owner asserts it.
OneOwner == Cardinality(Owners(chn, clnts)) <= 1

\* At most one client is about to get the token, has it, or has yet to return it,
\* even when applications return a token they no longer have, which is when
\* vbi_proxyd_get_token_owner finds a second owner: vbi_proxyd_token_grant has
\* nothing to reclaim from that one, and forgets it.
Granted(c) == chn[c].token \in {"grant", "granted", "reclaim", "release"}

OneHolder ==
  ~aborted => \A c, d \in Range(clnts) : Granted(c) /\ Granted(d) => c = d

\* The assertion of vbi_proxyd_get_token_owner, assert(p_owner == NULL), holds when
\* the scheduler grants the token.  It does not: an application that returns the
\* token after its channel switch, as proxy-client.h advises, returns it again when
\* the daemon's reclaim was already on its way.  The second return makes it an owner
\* beside the next one, and the grant to a third client ends the daemon.
OwnerAsserted == ~aborted

\* No two applications believe at the same time that they hold the token
\* (vbi_proxy_client_channel_request: "only the one client which holds the
\* token is allowed to switch channels ...").  Between the daemon's decision and
\* the belief there are two sockets and the events of two client libraries.
TokenExclusive == \A c, d \in Client : Holds(c) /\ Holds(d) => c = d

\* Every variable keeps its type, and the cycle counters stay within 0 .. 2 (vbi_proxyd_channel_completed), however
\* often a token is granted, reclaimed, returned and completed twice.
CycleBound == TypeOK /\ \A c \in Client : chn[c].cycle <= 2

\* The daemon never waits for a token nobody will return, as it does not
\* supervise the return: while it has the token down as granted or reclaimed,
\* the application of a living client holds it, or a message or an event is
\* under way that will make it hold or return it.  (After a failed assertion
\* there is no daemon that waits.)
Coming(c, m) == out[c] = m \/ m \in Range(inbox[c])

Returning(c) ==
  \/ Coming(c, "reclaim_req") \/ "reclaimed" \in ev[c]
  \/ request[c].type = "notify" /\ request[c].flags \cap {"TOKEN", "RELEASE"} # {}
  \/ request[c].type = "token"

TokenNotLost ==
  \A c \in Range(clnts) : ~aborted /\ cstate[c] # "error" =>
    /\ chn[c].token = "release" => Returning(c)
    /\ chn[c].token \in {"granted", "reclaim"} =>
         \/ Returning(c) \/ Holds(c) \/ "granted" \in ev[c]
         \/ Coming(c, "token_ind") \/ Coming(c, "token_yes")

\* proxy_client_rpc: a caller that waits has its request, or the one reply of
\* the right type, on the way, and nobody else finds a reply in his socket,
\* which proxy_client_take_message calls an internal error.
Replies == [wait_token |-> {"token_yes", "token_no"}, wait_notify |-> {"notify_cnf"},
            wait_srv |-> {"service_cnf"}, wait_ioctl |-> {"ioctl_cnf", "ioctl_rej"}]

RpcMatched ==
  \A c \in Range(clnts) : cstate[c] # "error" =>
    LET sent    == IF out[c] = NULL THEN inbox[c] ELSE Append(inbox[c], out[c])
        replies == {i \in DOMAIN sent : IsReply(sent[i])}
    IN IF cstate[c] \in DOMAIN Replies /\ request[c] = NoRequest
       THEN \E i \in replies : replies = {i} /\ sent[i] \in Replies[cstate[c]]
       ELSE replies = {} /\ (request[c] # NoRequest => cstate[c] \in DOMAIN Replies)

\* Every client with a valid request gets the channel again and again, "in a
\* round-robin manner" (proxy-msg.h on min_duration).
ControlInTurn == \A c \in Client : chn[c].valid ~> Holds(c)
=============================================================================
