------------------------- MODULE ProxyChannelProofs -------------------------
(***************************************************************************)
(* For any number of clients, with any calls, priorities and sizes of the  *)
(* sockets: the scheduler's folds over the list of clients keep the cycle  *)
(* counters within their bounds, every call of the library gets one        *)
(* reply, its own, at most one client is about to get the token, has it or *)
(* has yet to return it, and the daemon never waits for a token that       *)
(* nobody will return.                                                     *)
(*                                                                         *)
(* A fold keeps what each of its steps keeps (FoldTyped); a step levels    *)
(* the counters when one overflows, which needs that the client whose time *)
(* is over is in the list.  A request is answered when the daemon visits   *)
(* its sender.  It has nothing else to write to it then: it was read from  *)
(* because nothing was to be written when the pass began, and each client  *)
(* is visited once in a pass, even if others are unlinked in between.      *)
(* A run of the scheduler moves the token in one direction only (Moved),   *)
(* whatever it computes on the way; what the daemon has down of a client   *)
(* and what is under way between them (Word) changes hands in the messages *)
(* without a gap.  What else that is, if applications keep the token until *)
(* it is reclaimed (Pact), leaves it to one of them.                       *)
(***************************************************************************)
EXTENDS ProxyChannel, FiniteSetTheorems, SequenceLemmas, TLAPS

\* The channel states the daemon computes with.
States == {s \in [Client -> ChannelState] : \A c \in Client : s[c].cycle <= 2}

\* The clients of a pass are connected ones that are visited once, and one that
\* is still to be read from has nothing to be written.
Lists ==
  /\ IsInjective(clnts) /\ IsInjective(at)
  /\ Range(at) \subseteq Range(clnts)
  /\ \A c \in rd \cap Range(at) : out[c] = NULL

\* The call a request belongs to.
WaitsFor(r) ==
  CASE r.type = "token"   -> "wait_token"
    [] r.type = "notify"  -> "wait_notify"
    [] r.type = "service" -> "wait_srv"
    [] r.type = "ioctl"   -> "wait_ioctl"

Sent(i, o) == IF o = NULL THEN i ELSE Append(i, o)

Waiting == {"wait_token", "wait_notify", "wait_srv", "wait_ioctl"}

\* A client in state cs whose request is rq, and to which the messages q are sent.
Talk(cs, rq, q) ==
  /\ rq # NoRequest => cs = WaitsFor(rq)
  /\ cs \notin Waiting \/ rq # NoRequest => \A i \in 1 .. Len(q) : ~IsReply(q[i])
  /\ cs \in Waiting /\ rq = NoRequest =>
       \E i \in 1 .. Len(q) :
         q[i] \in Replies[cs] /\ \A j \in 1 .. Len(q) : j # i => ~IsReply(q[j])

\* What is known of one client, connected or not.
ClientOK(on, cs, rq, i, o) ==
  IF on THEN cs # "off" /\ (cs # "error" => Talk(cs, rq, Sent(i, o)))
  ELSE cs = "off" /\ rq = NoRequest /\ i = <<>> /\ o = NULL

Talks ==
  \A c \in Client : ClientOK(c \in Range(clnts), cstate[c], request[c], inbox[c], out[c])

\* The types, by those who keep the variables.
Scheduled ==
  /\ chn \in States /\ devPrio \in 0 .. 3
  /\ alarm \in {"off", "set", "fired"} /\ aborted \in BOOLEAN
Books ==
  /\ clnts \in Seq(Client) /\ at \in Seq(Client)
  /\ busy \in BOOLEAN /\ rd \subseteq Client
  /\ ind \in [Client -> BOOLEAN] /\ serv \in [Client -> BOOLEAN]
Wire ==
  /\ out \in [Client -> Message \cup {NULL}]
  /\ request \in [Client -> Request] /\ inbox \in [Client -> Seq(Message)]
Library ==
  /\ cstate \in [Client -> ClientState] /\ cprio \in [Client -> 0 .. 3]
  /\ has_token \in [Client -> BOOLEAN]
  /\ app \in [Client -> {"idle", "granted", "switched"}]
  /\ ev \in [Client -> SUBSET {"granted", "reclaimed"}]

ChannelInv == Scheduled /\ Books /\ Wire /\ Library /\ Lists /\ Talks

-----------------------------------------------------------------------------
\* The scheduler computes with channel states whose counters are leveled.
LEMMA StateWith ==
  ASSUME NEW s \in States, NEW c \in Client, NEW x \in ChannelState, x.cycle <= 2
  PROVE  [s EXCEPT ![c] = x] \in States
  BY DEF States

LEMMA CompletedTyped ==
  ASSUME NEW s \in States, NEW L \in Seq(Client), NEW c \in Range(L)
  PROVE  Completed(s, L, c) \in States
<1>1. c \in Client /\ s[c].cycle \in 0 .. 2
  BY DEF Range, States, ChannelState
<1>2. s[c].cycle + 1 \in 1 .. 3
  BY <1>1
<1> DEFINE n    == s[c].cycle + 1
           done == [s EXCEPT ![c].completed = TRUE, ![c].cycle = n]
<1>3. /\ done \in [Client -> ChannelState] /\ done[c].cycle = n
      /\ \A d \in Client : d # c => done[d].cycle <= 2
  <2>1. PICK x : x = [s[c] EXCEPT !.completed = TRUE, !.cycle = n]
    OBVIOUS
  <2>2. s[c] \in ChannelState /\ n \in Nat
    BY <1>1, <1>2 DEF States
  <2>3. x \in ChannelState /\ x.cycle = n
    BY <2>1, <2>2 DEF ChannelState
  <2>4. done = [s EXCEPT ![c] = x]
    BY <2>1
  <2> QED
    BY <1>1, <2>3, <2>4 DEF States
<1> HIDE DEF done
<1>4. CASE n > 2
  <2> DEFINE t == [d \in Client |-> IF d \in Range(L) /\ done[d].cycle > 0
                                    THEN [done[d] EXCEPT !.cycle = @ - 1] ELSE done[d]]
  <2>1. n = 3
    BY <1>2, <1>4
  <2>2. ASSUME NEW d \in Client
        PROVE  t[d] \in ChannelState /\ t[d].cycle <= 2
    <3>1. done[d].cycle \in 0 .. 3 /\ done[d] \in ChannelState
      <4>1. done[d] \in ChannelState /\ done[d].cycle \in Nat
        BY <1>3 DEF ChannelState
      <4>2. done[d].cycle <= 3
        BY <1>3, <2>1, <4>1
      <4> QED
        BY <4>1, <4>2
    <3>2. CASE d \in Range(L) /\ done[d].cycle > 0
      BY <3>1, <3>2 DEF ChannelState
    <3>3. CASE ~(d \in Range(L) /\ done[d].cycle > 0)
      BY <1>3, <2>1, <3>1, <3>3
    <3> QED
      BY <3>2, <3>3
  <2>3. Completed(s, L, c) = t
    BY <1>4 DEF Completed, done
  <2> HIDE DEF t
  <2>4. t \in [Client -> ChannelState]
    BY <2>2 DEF t
  <2> QED
    BY <2>2, <2>3, <2>4 DEF States
<1>5. CASE ~(n > 2) /\ n = 1 /\ \E d \in Range(L) : done[d].cycle >= 2
  <2>1. Completed(s, L, c) = [done EXCEPT ![c].cycle = 2]
    BY <1>5 DEF Completed, done
  <2>2. PICK x : x = [done[c] EXCEPT !.cycle = 2]
    OBVIOUS
  <2>3. x \in ChannelState /\ x.cycle = 2
    BY <1>1, <1>3, <2>2 DEF ChannelState
  <2>4. Completed(s, L, c) = [done EXCEPT ![c] = x]
    BY <2>1, <2>2
  <2> QED
    BY <1>1, <1>3, <2>3, <2>4 DEF States
<1>6. CASE ~(n > 2) /\ ~(n = 1 /\ \E d \in Range(L) : done[d].cycle >= 2)
  <2>1. Completed(s, L, c) = done
    BY <1>6 DEF Completed, done
  <2> QED
    BY <1>2, <1>3, <1>6, <2>1 DEF States
<1> QED
  BY <1>4, <1>5, <1>6

LEMMA StoppedTyped ==
  ASSUME NEW s \in States, NEW L \in Seq(Client), NEW c \in Range(L)
  PROVE  Stopped(s, L, c) \in States
<1> DEFINE t == IF ~s[c].completed /\ s[c].expired THEN Completed(s, L, c) ELSE s
<1>1. t \in States /\ c \in Client
  BY CompletedTyped DEF Range
<1> HIDE DEF t
<1>2. PICK k : k = IF t[c].token = "granted" THEN "reclaim" ELSE "none"
  OBVIOUS
<1>3. PICK x : x = [t[c] EXCEPT !.completed = FALSE, !.token = k]
  OBVIOUS
<1>4. t[c] \in ChannelState /\ t[c].cycle <= 2 /\ k \in TokenState
  BY <1>1, <1>2 DEF States, TokenState
<1>5. x \in ChannelState /\ x.cycle <= 2
  BY <1>3, <1>4 DEF ChannelState
<1>6. [t EXCEPT ![c] = x] \in States
  BY <1>1, <1>5, StateWith
<1>7. Stopped(s, L, c) = [t EXCEPT ![c].completed = FALSE,
                            ![c].token = IF @ = "granted" THEN "reclaim" ELSE "none"]
  BY DEF Stopped, t
<1>8. Stopped(s, L, c) = [t EXCEPT ![c] = x]
  BY <1>1, <1>2, <1>3, <1>7 DEF States
<1> QED
  BY <1>6, <1>8

LEMMA CompletedKeeps ==
  ASSUME NEW s \in States, NEW L \in Seq(Client), NEW c \in Range(L), NEW d \in Client
  PROVE  Completed(s, L, c)[d].token = s[d].token /\ Completed(s, L, c)[d].valid = s[d].valid
<1> DEFINE n    == s[c].cycle + 1
           done == [s EXCEPT ![c].completed = TRUE, ![c].cycle = n]
<1>1. s \in [Client -> ChannelState] /\ s[d] \in ChannelState /\ s[c] \in ChannelState
  BY DEF States, Range
<1>2. DOMAIN done = Client /\ done[d].token = s[d].token /\ done[d].valid = s[d].valid
  BY <1>1 DEF ChannelState
<1>3. /\ [done[d] EXCEPT !.cycle = @ - 1].token = done[d].token
      /\ [done[d] EXCEPT !.cycle = @ - 1].valid = done[d].valid
  BY <1>1 DEF ChannelState
<1> HIDE DEF done
<1>4. CASE n > 2
  BY <1>2, <1>3, <1>4 DEF Completed, done
<1>5. CASE ~(n > 2)
  BY <1>2, <1>5 DEF Completed, done
<1> QED
  BY <1>4, <1>5

\* A set of channel states that the steps of the scheduler's loops do not leave.
Closed(S, L) ==
  /\ S \subseteq States
  /\ \A t \in S, c \in Range(L) :
       /\ Completed(t, L, c) \in S
       /\ Controls(t, c) => Stopped(t, L, c) \in S

LEMMA StatesClosed ==
  ASSUME NEW L \in Seq(Client)
  PROVE  Closed(States, L)
  BY CompletedTyped, StoppedTyped DEF Closed

\* What the loop of vbi_proxyd_channel_schedule keeps: the client chosen has a
\* valid profile, and the active one controls the channel, until it is stopped.
Chosen(S, L) ==
  {r \in [chn : S, active : Range(L) \cup {NULL}, sched : Range(L) \cup {NULL}] :
     r.sched # NULL => r.chn[r.sched].valid}

Choice(S, L) == {r \in Chosen(S, L) : r.active # NULL => Controls(r.chn, r.active)}

LEMMA VisitTyped ==
  ASSUME NEW L \in Seq(Client), NEW S, Closed(S, L), NEW r \in Choice(S, L), NEW c \in Range(L)
  PROVE  Visit(L, r, c) \in Choice(S, L)
<1>1. CASE ~(r.chn[c].valid /\ r.chn[c].prio = BACKGROUND)
  BY <1>1 DEF Visit
<1>2. CASE r.chn[c].valid /\ r.chn[c].prio = BACKGROUND
  <2> DEFINE ctl == Controls(r.chn, c)
             s   == IF ctl /\ r.chn[c].expired /\ ~r.chn[c].completed
                    THEN Completed(r.chn, L, c) ELSE r.chn
             a   == IF ctl THEN c ELSE r.active
             b   == IF r.sched = NULL \/ Preferred(s, c, r.sched) THEN c ELSE r.sched
  <2>1. /\ r.chn \in S /\ r.active \in Range(L) \cup {NULL} /\ r.sched \in Range(L) \cup {NULL}
        /\ r.active # NULL => Controls(r.chn, r.active)
        /\ r.sched # NULL => r.chn[r.sched].valid
    BY DEF Choice, Chosen
  <2>2. s \in S /\ \A d \in Client : s[d].token = r.chn[d].token /\ s[d].valid = r.chn[d].valid
    BY <2>1, CompletedKeeps DEF Closed
  <2>3. a \in Range(L) \cup {NULL} /\ b \in Range(L) \cup {NULL}
    BY <2>1
  <2>4. Visit(L, r, c) = [chn |-> s, active |-> a, sched |-> b]
    BY <1>2 DEF Visit
  <2>5. Range(L) \subseteq Client
    BY DEF Range
  <2> HIDE DEF s
  <2>6. a # NULL => Controls(s, a)
    BY <2>1, <2>2, <2>5 DEF Controls
  <2>7. b # NULL => s[b].valid
    BY <1>2, <2>1, <2>2, <2>5
  <2> HIDE DEF a, b
  <2> QED
    BY <2>2, <2>3, <2>4, <2>6, <2>7 DEF Choice, Chosen
<1> QED
  BY <1>1, <1>2

LEMMA StoppedKeeps ==
  ASSUME NEW s \in States, NEW L \in Seq(Client), NEW c \in Range(L), NEW d \in Client
  PROVE  /\ Stopped(s, L, c)[d].valid = s[d].valid
         /\ Stopped(s, L, c)[d].token =
              IF d # c THEN s[d].token ELSE IF s[c].token = "granted" THEN "reclaim" ELSE "none"
<1> DEFINE t == IF ~s[c].completed /\ s[c].expired THEN Completed(s, L, c) ELSE s
<1>1. t \in States /\ c \in Client
      /\ \A x \in Client : t[x].token = s[x].token /\ t[x].valid = s[x].valid
  BY CompletedTyped, CompletedKeeps DEF Range
<1> HIDE DEF t
<1>2. Stopped(s, L, c) = [t EXCEPT ![c].completed = FALSE,
                            ![c].token = IF @ = "granted" THEN "reclaim" ELSE "none"]
  BY DEF Stopped, t
<1> QED
  BY <1>1, <1>2 DEF States, ChannelState

LEMMA StopActiveTyped ==
  ASSUME NEW L \in Seq(Client), NEW S, Closed(S, L), NEW r \in Choice(S, L)
  PROVE  StopActive(r, L) \in Chosen(S, L)
<1>1. /\ r.chn \in S /\ r.active \in Range(L) \cup {NULL} /\ r.sched \in Range(L) \cup {NULL}
      /\ r.active # NULL => Controls(r.chn, r.active)
      /\ r.sched # NULL => r.chn[r.sched].valid
  BY DEF Choice, Chosen
<1>2. CASE r.active # NULL /\ r.sched # r.active
  <2>1. PICK t : t = Stopped(r.chn, L, r.active)
    OBVIOUS
  <2>2. t \in S /\ r.chn \in States /\ Range(L) \subseteq Client
    BY <1>1, <1>2, <2>1 DEF Closed, Range
  <2>3. StopActive(r, L) = [r EXCEPT !.chn = t]
    BY <1>2, <2>1 DEF StopActive
  <2>4. \A d \in Client : t[d].valid = r.chn[d].valid
    BY <1>1, <1>2, <2>1, <2>2, StoppedKeeps
  <2>5. r.sched # NULL => t[r.sched].valid
    BY <1>1, <2>2, <2>4
  <2> QED
    BY <2>2, <2>3, <2>5 DEF Choice, Chosen
<1>3. CASE ~(r.active # NULL /\ r.sched # r.active)
  BY <1>3 DEF StopActive, Choice
<1> QED
  BY <1>2, <1>3

LEMMA ScheduleTyped ==
  ASSUME NEW L \in Seq(Client), NEW S, Closed(S, L), NEW s \in S
  PROVE  Schedule(s, L) \in Chosen(S, L)
<1> DEFINE F    == [p \in Choice(S, L) \X Range(L) |-> Visit(L, p[1], p[2])]
           b    == [chn |-> s, active |-> NULL, sched |-> NULL]
           visit(r, c) == Visit(L, r, c)
           x    == FoldLeft(visit, b, L)
<1>1. b \in Choice(S, L)
  BY DEF Choice, Chosen
<1>2. F \in [Choice(S, L) \X Range(L) -> Choice(S, L)]
  BY VisitTyped
<1>3. L \in Seq(Range(L))
  BY DEF Range
<1> DEFINE Eq(g) == g = [d \in SUBSET DOMAIN L |->
                          IF d = {} THEN b ELSE Visit(L, g[d \ {Max(d)}], L[Max(d)])]
           h     == CHOOSE g : Eq(g)
<1>4. Eq(h)
  <2>1. PICK g \in [SUBSET DOMAIN L -> Choice(S, L)] : IsFold(g, F, b, L)
    BY <1>1, <1>2, <1>3, FoldExists, Zenon
  <2>2. ASSUME NEW d \in SUBSET DOMAIN L
        PROVE  g[d] = IF d = {} THEN b ELSE Visit(L, g[d \ {Max(d)}], L[Max(d)])
    <3>1. CASE d = {}
      BY <2>1, <3>1 DEF IsFold
    <3>2. CASE d # {}
      <4>1. g[d] = F[<<g[d \ {Max(d)}], L[Max(d)]>>]
        BY <2>1, <3>2 DEF IsFold
      <4>2. Max(d) \in d
        BY <3>2, MaxPosition
      <4> QED
        BY <2>1, <3>2, <4>1, <4>2 DEF Range
    <3> QED
      BY <3>1, <3>2
  <2>3. Eq(g)
    BY <2>1, <2>2
  <2> HIDE DEF Eq
  <2> QED
    BY <2>3, Zenon
<1>5. FoldLeft(visit, b, L) = h[DOMAIN L]
  BY Zenon DEF FoldLeft, MapThenFoldSet
<1> HIDE DEF h
<1>6. h[DOMAIN L] \in Choice(S, L)
  <2>1. h[{}] = b
    BY <1>4
  <2>2. ASSUME NEW d \in SUBSET DOMAIN L, d # {}, h[d \ {Max(d)}] \in Choice(S, L), Max(d) \in DOMAIN L
        PROVE  h[d] \in Choice(S, L)
    <3>1. h[d] = Visit(L, h[d \ {Max(d)}], L[Max(d)])
      BY <1>4, <2>2
    <3>2. L[Max(d)] \in Range(L)
      BY <2>2 DEF Range
    <3> QED
      BY <2>2, <3>1, <3>2, VisitTyped
  <2>3. \A d \in SUBSET DOMAIN L : h[d] \in Choice(S, L)
    BY <1>1, <1>3, <2>1, <2>2, FoldTyped
  <2> QED
    BY <2>3
<1>7. Schedule(s, L) = StopActive(h[DOMAIN L], L)
  BY <1>5, Zenon DEF Schedule
<1> QED
  BY <1>6, <1>7, StopActiveTyped

LEMMA StopAllTyped ==
  ASSUME NEW L \in Seq(Client), NEW S, Closed(S, L), NEW s \in S
  PROVE  StopAll(s, L) \in S
<1> DEFINE stop(t, c) == IF Controls(t, c) THEN Stopped(t, L, c) ELSE t
           F     == [p \in S \X Range(L) |-> stop(p[1], p[2])]
           Eq(g) == g = [d \in SUBSET DOMAIN L |->
                          IF d = {} THEN s ELSE stop(g[d \ {Max(d)}], L[Max(d)])]
           h     == CHOOSE g : Eq(g)
<1>1. \A t \in S : \A c \in Range(L) : stop(t, c) \in S
  BY DEF Closed
<1>2. F \in [S \X Range(L) -> S]
  <2> HIDE DEF stop
  <2> QED
    BY <1>1
<1>3. L \in Seq(Range(L))
  BY DEF Range
<1>4. FoldLeft(stop, s, L) = h[DOMAIN L]
  BY Zenon DEF FoldLeft, MapThenFoldSet
<1>5. Eq(h)
  <2>1. PICK g \in [SUBSET DOMAIN L -> S] : IsFold(g, F, s, L)
    BY <1>2, <1>3, FoldExists, Zenon
  <2>2. ASSUME NEW d \in SUBSET DOMAIN L
        PROVE  g[d] = IF d = {} THEN s ELSE stop(g[d \ {Max(d)}], L[Max(d)])
    <3> HIDE DEF stop
    <3>1. CASE d = {}
      BY <2>1, <3>1 DEF IsFold
    <3>2. CASE d # {}
      <4>1. g[d] = F[<<g[d \ {Max(d)}], L[Max(d)]>>]
        BY <2>1, <3>2 DEF IsFold
      <4>2. Max(d) \in d
        BY <3>2, MaxPosition
      <4> QED
        BY <2>1, <3>2, <4>1, <4>2 DEF Range
    <3> QED
      BY <3>1, <3>2
  <2>3. Eq(g)
    <3> HIDE DEF stop
    <3> QED
      BY <2>1, <2>2
  <2> HIDE DEF Eq
  <2> QED
    BY <2>3, Zenon
<1> HIDE DEF h, stop
<1>6. h[DOMAIN L] \in S
  <2>1. h[{}] = s
    BY <1>5
  <2>2. ASSUME NEW d \in SUBSET DOMAIN L, d # {}, h[d \ {Max(d)}] \in S, Max(d) \in DOMAIN L
        PROVE  h[d] \in S
    <3>1. h[d] = stop(h[d \ {Max(d)}], L[Max(d)])
      BY <1>5, <2>2
    <3>2. L[Max(d)] \in Range(L)
      BY <2>2 DEF Range
    <3> QED
      BY <1>1, <2>2, <3>1, <3>2
  <2>3. \A d \in SUBSET DOMAIN L : h[d] \in S
    BY <1>3, <2>1, <2>2, FoldTyped
  <2> QED
    BY <2>3
<1>7. StopAll(s, L) = h[DOMAIN L]
  BY <1>4, Zenon DEF StopAll, stop
<1> QED
  BY <1>6, <1>7

LEMMA TokenGrantTyped ==
  ASSUME NEW s \in States, NEW L \in Seq(Client), NEW c \in Client
  PROVE  TokenGrant(s, L, c) \in States
<1>1. \A d \in Client : s[d] \in ChannelState /\ s[d].cycle <= 2
  BY DEF States
<1>2. ASSUME NEW d \in Client, NEW t \in TokenState
      PROVE  [s[d] EXCEPT !.token = t] \in ChannelState /\ [s[d] EXCEPT !.token = t].cycle <= 2
  BY <1>1 DEF ChannelState
<1>3. {"none", "reclaim", "grant", "granted"} \subseteq TokenState
  BY DEF TokenState
<1>4. \A t \in TokenState : [s EXCEPT ![c].token = t] \in States
  BY <1>1, <1>2 DEF States
<1>5. [d \in Client |-> IF d \in Owners(s, L) /\ s[d].token # "release"
                        THEN [s[d] EXCEPT !.token = "reclaim"] ELSE s[d]] \in States
  BY <1>1, <1>2, <1>3 DEF States
<1>6. [d \in Client |-> IF d = c THEN [s[d] EXCEPT !.token = "grant"]
                        ELSE IF d \in Owners(s, L) THEN [s[d] EXCEPT !.token = "none"]
                        ELSE s[d]] \in States
  BY <1>1, <1>2, <1>3 DEF States
<1>7. CASE s[c].token = "none" /\ MustReclaim(s, L, c)
  BY <1>5, <1>7 DEF TokenGrant
<1>8. CASE s[c].token = "none" /\ ~MustReclaim(s, L, c)
  BY <1>6, <1>8 DEF TokenGrant
<1>9. CASE s[c].token # "none"
  BY <1>3, <1>4, <1>9 DEF TokenGrant
<1> QED
  BY <1>7, <1>8, <1>9

LEMMA StartedTyped ==
  ASSUME NEW s \in States, NEW c \in Client, NEW tie \in BOOLEAN
  PROVE  Started(s, c, tie) \in States
<1> DEFINE ranks    == {s[d].rank : d \in Client \ {c}}
           top      == Max(ranks \cup {0})
           mine     == IF tie /\ top > 0 THEN top ELSE top + 1
           dense(r) == Cardinality({x \in ranks \cup {mine} : 0 < x /\ x <= r})
           t        == [s EXCEPT ![c].rank = mine, ![c].completed = FALSE,
                                 ![c].expired = (MinDuration[c] = 0)]
<1>1. Started(s, c, tie) = [d \in Client |-> [t[d] EXCEPT !.rank = dense(@)]]
  BY DEF Started
<1>2. IsFiniteSet(ranks \cup {mine})
  <2>1. IsFiniteSet(Client \ {c})
    BY SchedulerAssumption, FS_Subset, Client \ {c} \subseteq Client
  <2>2. IsFiniteSet(ranks)
    <3>1. PICK f : f = [d \in Client \ {c} |-> s[d].rank]
      OBVIOUS
    <3>2. f \in Surjection(Client \ {c}, ranks)
      BY <3>1 DEF Surjection
    <3> HIDE DEF mine, ranks
    <3> QED
      BY <2>1, <3>2, FS_Surjection
  <2> HIDE DEF ranks, mine
  <2> QED
    BY <2>2, FS_AddElement
<1> HIDE DEF mine, ranks
<1>3. \A r : dense(r) \in Nat
  <2> TAKE r
  <2>1. {x \in ranks \cup {mine} : 0 < x /\ x <= r} \subseteq ranks \cup {mine}
    OBVIOUS
  <2>2. IsFiniteSet({x \in ranks \cup {mine} : 0 < x /\ x <= r})
    BY <1>2, <2>1, FS_Subset
  <2> QED
    BY <2>2, FS_CardinalityType
<1> HIDE DEF dense
<1>4. PICK y : y = [s[c] EXCEPT !.rank = mine, !.completed = FALSE, !.expired = (MinDuration[c] = 0)]
  OBVIOUS
<1>5. t = [s EXCEPT ![c] = y]
  BY <1>4
<1> HIDE DEF t
<1>6. s[c] \in ChannelState /\ s[c].cycle <= 2
  BY DEF States
<1>7. ASSUME NEW n \in Nat
      PROVE  [y EXCEPT !.rank = n] \in ChannelState /\ [y EXCEPT !.rank = n].cycle <= 2
  BY <1>4, <1>6 DEF ChannelState
<1>8. ASSUME NEW d \in Client
      PROVE  /\ [t[d] EXCEPT !.rank = dense(@)] \in ChannelState
             /\ [t[d] EXCEPT !.rank = dense(@)].cycle <= 2
  <2>1. PICK n \in Nat : n = dense(t[d].rank)
    BY <1>3
  <2>2. [t[d] EXCEPT !.rank = dense(@)] = [t[d] EXCEPT !.rank = n]
    BY <2>1
  <2>3. CASE d = c
    <3>1. t[d] = y
      BY <1>5, <2>3 DEF States
    <3> QED
      BY <1>7, <2>2, <3>1
  <2>4. CASE d # c
    <3>1. t[d] = s[d] /\ s[d] \in ChannelState /\ s[d].cycle <= 2
      BY <1>5, <2>4 DEF States
    <3>2. [s[d] EXCEPT !.rank = n] \in ChannelState /\ [s[d] EXCEPT !.rank = n].cycle <= 2
      BY <3>1 DEF ChannelState
    <3> QED
      BY <2>2, <3>1, <3>2
  <2> QED
    BY <2>3, <2>4
<1> QED
  BY <1>1, <1>8 DEF States

\* The priority of the device is one of those of the clients, or background.
LEMMA TopPrioTyped ==
  ASSUME NEW s \in States, NEW L \in Seq(Client)
  PROVE  TopPrio(s, L) \in 1 .. 3
<1> DEFINE P == {BACKGROUND} \cup {s[c].prio : c \in Range(L)}
<1>1. \A c \in Range(L) : s[c].prio \in 1 .. 3
  BY DEF Range, States, ChannelState
<1>2. P \subseteq 1 .. 3 /\ 1 \in P
  BY <1>1 DEF BACKGROUND
<1> HIDE DEF P
<1>3. \E x \in P : \A y \in P : x >= y
  <2>1. CASE 3 \in P
    BY <1>2, <2>1
  <2>2. CASE 3 \notin P /\ 2 \in P
    <3>1. \A y \in P : 2 >= y
      BY <1>2, <2>2
    <3> QED
      BY <2>2, <3>1
  <2>3. CASE 3 \notin P /\ 2 \notin P
    <3>1. \A y \in P : 1 >= y
      BY <1>2, <2>3
    <3> QED
      BY <1>2, <3>1
  <2> QED
    BY <2>1, <2>2, <2>3
<1>4. Max(P) \in P
  BY <1>3, Zenon DEF Max
<1> QED
  BY <1>2, <1>4 DEF TopPrio, P

LEMMA ChannelUpdateTyped ==
  ASSUME NEW s \in States, NEW L \in Seq(Client), NEW forced \in BOOLEAN,
         NEW u \in ChannelUpdate(s, L, forced)
  PROVE  u.chn \in States /\ u.abort \in BOOLEAN /\ u.flush \in BOOLEAN
<1> DEFINE top == TopPrio(s, L)
           s1  == IF top > BACKGROUND \/ forced THEN StopAll(s, L) ELSE s
           r   == IF top = BACKGROUND THEN Schedule(s1, L) ELSE [chn |-> s1, sched |-> NULL]
<1>1. s1 \in States
  BY StopAllTyped, StatesClosed
<1>2. r.chn \in States /\ r.sched \in Range(L) \cup {NULL}
  <2> HIDE DEF s1
  <2>1. CASE top = BACKGROUND
    BY <1>1, <2>1, ScheduleTyped, StatesClosed DEF Chosen
  <2>2. CASE top # BACKGROUND
    BY <1>1, <2>2
  <2> QED
    BY <2>1, <2>2
<1>3. PICK tie \in BOOLEAN : u = Effect(r, L, forced, tie)
  BY DEF ChannelUpdate
<1> HIDE DEF r
<1>4. CASE r.sched = NULL \/ Controls(r.chn, r.sched)
  BY <1>2, <1>3, <1>4 DEF Effect
<1>5. CASE ~(r.sched = NULL \/ Controls(r.chn, r.sched))
  <2>1. r.sched \in Client
    BY <1>2, <1>5 DEF Range
  <2>2. PICK g : g = TokenGrant(r.chn, L, r.sched)
    OBVIOUS
  <2>3. PICK h : h = Started(g, r.sched, tie)
    OBVIOUS
  <2>4. g \in States /\ h \in States
    <3>1. g \in States
      BY <1>2, <2>1, <2>2, TokenGrantTyped
    <3> QED
      BY <2>1, <2>3, <3>1, StartedTyped
  <2>5. u = [chn   |-> IF MustReclaim(r.chn, L, r.sched) THEN g ELSE h,
             abort |-> /\ r.chn[r.sched].token = "none"
                       /\ Cardinality(Owners(r.chn, L)) > 1,
             flush |-> FALSE]
    BY <1>3, <1>5, <2>2, <2>3 DEF Effect
  <2>6. u.chn = (IF MustReclaim(r.chn, L, r.sched) THEN g ELSE h)
    BY <2>5, Zenon
  <2>7. u.abort = (r.chn[r.sched].token = "none" /\ Cardinality(Owners(r.chn, L)) > 1)
    BY <2>5, Zenon
  <2>8. u.flush = FALSE
    BY <2>5, Zenon
  <2> QED
    BY <2>4, <2>6, <2>7, <2>8
<1> QED
  BY <1>4, <1>5

\* What a run of the scheduler leaves.
LEMMA UpdateTyped ==
  ASSUME Scheduled, NEW s \in States, NEW L \in Seq(Client), NEW forced \in BOOLEAN, NEW req,
         Update(s, L, forced, req)
  PROVE  Scheduled'
<1>1. PICK u \in ChannelUpdate(s, L, forced) :
        /\ chn' = [c \in Client |-> IF c = req /\ u.chn[c].token = "grant"
                                    THEN [u.chn[c] EXCEPT !.token = "granted"] ELSE u.chn[c]]
        /\ aborted' = (u.abort \/ (u.flush /\ ~Capture(L, serv)))
        /\ devPrio' = TopPrio(s, L)
        /\ IF TopPrio(s, L) > BACKGROUND THEN UNCHANGED alarm ELSE alarm' \in Alarm(u.chn, L)
  BY Zenon DEF Update
<1>2. u.chn \in States /\ u.abort \in BOOLEAN /\ u.flush \in BOOLEAN
  BY ChannelUpdateTyped
<1>3. chn' \in States
  <2>1. ASSUME NEW c \in Client
        PROVE  chn'[c] \in ChannelState /\ chn'[c].cycle <= 2
    <3>1. u.chn[c] \in ChannelState /\ u.chn[c].cycle <= 2
      BY <1>2 DEF States
    <3>2. PICK x : x = [u.chn[c] EXCEPT !.token = "granted"]
      OBVIOUS
    <3>3. x \in ChannelState /\ x.cycle <= 2
      BY <3>1, <3>2 DEF ChannelState, TokenState
    <3>4. chn'[c] = x \/ chn'[c] = u.chn[c]
      BY <1>1, <3>2
    <3> QED
      BY <3>1, <3>3, <3>4
  <2>2. chn' = [c \in Client |-> chn'[c]]
    BY <1>1
  <2> QED
    BY <2>1, <2>2 DEF States
<1>4. devPrio' \in 0 .. 3
  BY <1>1, TopPrioTyped
<1>5. alarm' \in {"off", "set", "fired"}
  <2>1. Alarm(u.chn, L) \subseteq {"off", "set"}
    BY DEF Alarm
  <2> QED
    BY <1>1, <2>1 DEF Scheduled
<1>6. aborted' \in BOOLEAN
  BY <1>1, <1>2
<1> QED
  BY <1>3, <1>4, <1>5, <1>6 DEF Scheduled

-----------------------------------------------------------------------------
\* One client and its messages.
LEMMA Types ==
  CycleBound <=> Scheduled /\ Books /\ Wire /\ Library
<1>1. CycleBound => chn \in States
  BY DEF CycleBound, TypeOK, States
<1>2. chn \in States => chn \in [Client -> ChannelState] /\ \A c \in Client : chn[c].cycle <= 2
  BY DEF States
<1> QED
  BY <1>1, <1>2 DEF CycleBound, TypeOK, Scheduled, Books, Wire, Library

LEMMA Waits ==
  ASSUME NEW r, r.type \in {"token", "notify", "service", "ioctl"}
  PROVE  r # NoRequest /\ WaitsFor(r) \in Waiting
  BY DEF NoRequest, WaitsFor, Waiting

LEMMA RequestTypes ==
  ASSUME NEW r \in Request
  PROVE  r = NoRequest \/ r.type \in {"token", "notify", "service", "ioctl"}
  BY DEF Request, NoRequest

LEMMA SentTyped ==
  ASSUME NEW i \in Seq(Message), NEW o \in Message \cup {NULL}
  PROVE  Sent(i, o) \in Seq(Message)
  BY DEF Sent

\* A call is begun between two calls ...
LEMMA Asked ==
  ASSUME NEW rq \in Request, NEW i, NEW o, ClientOK(TRUE, "capturing", rq, i, o),
         NEW r \in Request, r # NoRequest
  PROVE  ClientOK(TRUE, WaitsFor(r), r, i, o)
<1>1. Talk("capturing", rq, Sent(i, o))
  BY DEF ClientOK
<1>2. \A k \in 1 .. Len(Sent(i, o)) : ~IsReply(Sent(i, o)[k])
  BY <1>1 DEF Talk, Waiting
<1>3. WaitsFor(r) \in Waiting
  BY RequestTypes, Waits
<1> QED
  BY <1>2, <1>3 DEF ClientOK, Talk, Waiting

\* ... and answered, once, when the daemon has nothing to write.
LEMMA Answered ==
  ASSUME NEW cs, NEW rq \in Request, NEW i \in Seq(Message), rq # NoRequest,
         ClientOK(TRUE, cs, rq, i, NULL), NEW m \in Replies[WaitsFor(rq)], m \in Message
  PROVE  ClientOK(TRUE, cs, NoRequest, i, m)
<1> SUFFICES ASSUME cs # "error"
             PROVE  Talk(cs, NoRequest, Sent(i, m))
  BY DEF ClientOK
<1>1. Talk(cs, rq, i)
  BY DEF ClientOK, Sent
<1>2. cs = WaitsFor(rq) /\ \A k \in 1 .. Len(i) : ~IsReply(i[k])
  BY <1>1 DEF Talk
<1>3. cs \in Waiting
  BY <1>2, RequestTypes, Waits
<1>4. Sent(i, m) = Append(i, m)
  BY NullAssumption DEF Sent
<1>5. Len(i) + 1 \in 1 .. Len(Append(i, m)) /\ Append(i, m)[Len(i) + 1] = m
  OBVIOUS
<1>6. \A k \in 1 .. Len(Append(i, m)) : k # Len(i) + 1 =>
        k \in 1 .. Len(i) /\ Append(i, m)[k] = i[k]
  OBVIOUS
<1>7. Append(i, m)[Len(i) + 1] \in Replies[cs]
  BY <1>2, <1>5
<1>8. \A k \in 1 .. Len(Append(i, m)) : k # Len(i) + 1 => ~IsReply(Append(i, m)[k])
  BY <1>2, <1>6
<1> QED
  BY <1>3, <1>4, <1>5, <1>7, <1>8 DEF Talk

\* Indications change nothing, nor does it when a message has been written.
LEMMA Indicated ==
  ASSUME NEW cs, NEW rq, NEW i \in Seq(Message), ClientOK(TRUE, cs, rq, i, NULL),
         NEW m \in Message, ~IsReply(m)
  PROVE  ClientOK(TRUE, cs, rq, i, m)
<1> SUFFICES ASSUME cs # "error"
             PROVE  Talk(cs, rq, Sent(i, m))
  BY DEF ClientOK
<1>1. Talk(cs, rq, i)
  BY DEF ClientOK, Sent
<1>2. Sent(i, m) = Append(i, m)
  BY NullAssumption DEF Sent
<1> DEFINE q == Append(i, m)
<1>3. Len(q) = Len(i) + 1 /\ Len(i) \in Nat /\ q[Len(i) + 1] = m /\ \A k \in 1 .. Len(i) : q[k] = i[k]
  OBVIOUS
<1> HIDE DEF q
<1>4. \A k \in 1 .. Len(q) : k \in 1 .. Len(i) \/ q[k] = m
  BY <1>3
<1>5. rq # NoRequest => cs = WaitsFor(rq)
  BY <1>1 DEF Talk
<1>6. ASSUME cs \notin Waiting \/ rq # NoRequest
      PROVE  \A k \in 1 .. Len(q) : ~IsReply(q[k])
  <2>1. \A k \in 1 .. Len(i) : ~IsReply(i[k])
    BY <1>1, <1>6 DEF Talk
  <2> QED
    BY <1>3, <1>4, <2>1
<1>7. ASSUME cs \in Waiting /\ rq = NoRequest
      PROVE  \E k \in 1 .. Len(q) :
               q[k] \in Replies[cs] /\ \A j \in 1 .. Len(q) : j # k => ~IsReply(q[j])
  <2>1. PICK k \in 1 .. Len(i) :
               i[k] \in Replies[cs] /\ \A j \in 1 .. Len(i) : j # k => ~IsReply(i[j])
    BY <1>1, <1>7 DEF Talk
  <2>2. k \in 1 .. Len(q) /\ q[k] \in Replies[cs]
    BY <1>3, <2>1
  <2>3. \A j \in 1 .. Len(q) : j # k => ~IsReply(q[j])
    BY <1>3, <1>4, <2>1
  <2> QED
    BY <2>2, <2>3
<1>8. Talk(cs, rq, q)
  BY <1>5, <1>6, <1>7 DEF Talk
<1> QED
  BY <1>2, <1>8 DEF q

LEMMA Written ==
  ASSUME NEW cs, NEW rq, NEW i, NEW o, o # NULL, ClientOK(TRUE, cs, rq, i, o)
  PROVE  ClientOK(TRUE, cs, rq, Append(i, o), NULL)
  BY DEF ClientOK, Sent

\* A message is taken out of the socket.
LEMMA SentTail ==
  ASSUME NEW i \in Seq(Message), i # <<>>, NEW o \in Message \cup {NULL}
  PROVE  /\ Len(Sent(i, o)) \in Nat \ {0} /\ Sent(i, o)[1] = Head(i)
         /\ Len(Sent(Tail(i), o)) = Len(Sent(i, o)) - 1
         /\ \A k \in 1 .. Len(Sent(i, o)) - 1 : Sent(Tail(i), o)[k] = Sent(i, o)[k + 1]
<1>1. /\ Len(i) \in Nat \ {0} /\ Head(i) = i[1] /\ Tail(i) \in Seq(Message)
      /\ Len(Tail(i)) = Len(i) - 1
      /\ \A k \in 1 .. Len(i) - 1 : Tail(i)[k] = i[k + 1]
  OBVIOUS
<1>2. CASE o = NULL
  BY <1>1, <1>2 DEF Sent
<1>3. CASE o # NULL
  <2>1. PICK t \in Seq(Message) : t = Tail(i)
    BY <1>1
  <2>2. PICK n \in Nat \ {0} : n = Len(i)
    BY <1>1
  <2>3. Len(t) = n - 1 /\ n - 1 \in Nat /\ \A k \in 1 .. n - 1 : t[k] = i[k + 1]
    BY <1>1, <2>1, <2>2
  <2>4. o \in Message
    BY <1>3
  <2>5. PICK p : p = Append(i, o)
    OBVIOUS
  <2>6. PICK q : q = Append(t, o)
    OBVIOUS
  <2>7. Len(p) = n + 1 /\ p[n + 1] = o /\ \A k \in 1 .. n : p[k] = i[k]
    BY <2>2, <2>4, <2>5
  <2>8. Len(q) = n /\ q[n] = o /\ \A k \in 1 .. n - 1 : q[k] = t[k]
    BY <2>3, <2>4, <2>6
  <2>9. ASSUME NEW k \in 1 .. n
        PROVE  q[k] = p[k + 1]
    <3>1. CASE k = n
      BY <2>7, <2>8, <3>1
    <3>2. CASE k # n
      <4>1. k \in 1 .. n - 1 /\ k + 1 \in 1 .. n
        BY <3>2
      <4> QED
        BY <2>3, <2>7, <2>8, <4>1
    <3> QED
      BY <3>1, <3>2
  <2>10. p[1] = Head(i)
    BY <1>1, <2>7
  <2>11. Sent(i, o) = p /\ Sent(Tail(i), o) = q
    BY <1>3, <2>1, <2>5, <2>6 DEF Sent
  <2>12. /\ Len(p) \in Nat \ {0} /\ Len(q) = Len(p) - 1
         /\ \A k \in 1 .. Len(p) - 1 : q[k] = p[k + 1]
    BY <2>7, <2>8, <2>9
  <2> QED
    BY <2>10, <2>11, <2>12, Zenon
<1> QED
  BY <1>2, <1>3

LEMMA ReadIndication ==
  ASSUME NEW cs, NEW rq, NEW i \in Seq(Message), i # <<>>, NEW o \in Message \cup {NULL},
         ClientOK(TRUE, cs, rq, i, o), ~IsReply(Head(i))
  PROVE  ClientOK(TRUE, cs, rq, Tail(i), o)
<1> SUFFICES ASSUME cs # "error"
             PROVE  Talk(cs, rq, Sent(Tail(i), o))
  BY DEF ClientOK
<1> DEFINE q == Sent(i, o)
           t == Sent(Tail(i), o)
<1>1. /\ Len(q) \in Nat \ {0} /\ ~IsReply(q[1]) /\ Len(t) = Len(q) - 1
      /\ \A k \in 1 .. Len(q) - 1 : t[k] = q[k + 1]
  BY SentTail
<1>2. Talk(cs, rq, q)
  BY DEF ClientOK
<1> HIDE DEF q, t
<1>3. rq # NoRequest => cs = WaitsFor(rq)
  BY <1>2 DEF Talk
<1>4. ASSUME cs \notin Waiting \/ rq # NoRequest
      PROVE  \A k \in 1 .. Len(t) : ~IsReply(t[k])
  <2>1. \A k \in 1 .. Len(q) : ~IsReply(q[k])
    BY <1>2, <1>4 DEF Talk
  <2> QED
    BY <1>1, <2>1
<1>5. ASSUME cs \in Waiting /\ rq = NoRequest
      PROVE  \E k \in 1 .. Len(t) :
               t[k] \in Replies[cs] /\ \A j \in 1 .. Len(t) : j # k => ~IsReply(t[j])
  <2>1. PICK k \in 1 .. Len(q) :
               q[k] \in Replies[cs] /\ \A j \in 1 .. Len(q) : j # k => ~IsReply(q[j])
    BY <1>2, <1>5 DEF Talk
  <2>2. k # 1
    BY <1>1, <1>5, <2>1 DEF IsReply, Replies, Waiting
  <2>3. k - 1 \in 1 .. Len(t) /\ t[k - 1] = q[k]
    BY <1>1, <2>2
  <2>4. \A j \in 1 .. Len(t) : j # k - 1 => ~IsReply(t[j])
    BY <1>1, <2>1
  <2> QED
    BY <2>1, <2>3, <2>4
<1> QED
  BY <1>3, <1>4, <1>5 DEF Talk, t

\* A reply is what its reader waits for, and the last one.
LEMMA ReadReply ==
  ASSUME NEW cs \in ClientState, NEW rq, NEW i \in Seq(Message), i # <<>>,
         NEW o \in Message \cup {NULL},
         ClientOK(TRUE, cs, rq, i, o), cs # "error", IsReply(Head(i))
  PROVE  /\ cs \in Waiting /\ rq = NoRequest /\ Head(i) \in Replies[cs]
         /\ ClientOK(TRUE, "capturing", rq, Tail(i), o)
<1> DEFINE q == Sent(i, o)
           t == Sent(Tail(i), o)
<1>1. /\ Len(q) \in Nat \ {0} /\ q[1] = Head(i) /\ IsReply(q[1]) /\ Len(t) = Len(q) - 1
      /\ \A k \in 1 .. Len(q) - 1 : t[k] = q[k + 1]
  BY SentTail
<1>2. Talk(cs, rq, q)
  BY DEF ClientOK
<1>3. ClientOK(TRUE, "capturing", rq, Tail(i), o) <=> Talk("capturing", rq, t)
  BY DEF ClientOK
<1> HIDE DEF q, t
<1>4. 1 \in 1 .. Len(q)
  BY <1>1
<1>5. cs \in Waiting /\ rq = NoRequest
  BY <1>1, <1>2, <1>4 DEF Talk
<1>6. PICK k \in 1 .. Len(q) :
               q[k] \in Replies[cs] /\ \A j \in 1 .. Len(q) : j # k => ~IsReply(q[j])
  BY <1>2, <1>5 DEF Talk
<1>7. k = 1
  BY <1>1, <1>4, <1>6
<1>8. \A j \in 1 .. Len(t) : ~IsReply(t[j])
  BY <1>1, <1>6, <1>7
<1>9. Talk("capturing", rq, t)
  BY <1>5, <1>8 DEF Talk, Waiting
<1>10. q[1] \in Replies[cs]
  BY <1>6, <1>7
<1> QED
  BY <1>1, <1>3, <1>5, <1>9, <1>10

\* What is shown of a client is what proxy_client_rpc relies on.
LEMMA TalkMatches ==
  ASSUME ChannelInv
  PROVE  RpcMatched
<1> SUFFICES ASSUME NEW c \in Range(clnts), cstate[c] # "error"
             PROVE  LET sent    == IF out[c] = NULL THEN inbox[c] ELSE Append(inbox[c], out[c])
                        replies == {i \in DOMAIN sent : IsReply(sent[i])}
                    IN IF cstate[c] \in DOMAIN Replies /\ request[c] = NoRequest
                       THEN \E i \in replies : replies = {i} /\ sent[i] \in Replies[cstate[c]]
                       ELSE /\ replies = {}
                            /\ (request[c] # NoRequest => cstate[c] \in DOMAIN Replies)
  BY DEF RpcMatched
<1> DEFINE sent    == IF out[c] = NULL THEN inbox[c] ELSE Append(inbox[c], out[c])
           replies == {i \in DOMAIN sent : IsReply(sent[i])}
<1>1. c \in Client
  BY DEF Range, ChannelInv, Books
<1>2. Talk(cstate[c], request[c], sent)
  <2>1. c \in Range(clnts)
    OBVIOUS
  <2>2. sent = Sent(inbox[c], out[c])
    BY DEF Sent
  <2>3. ClientOK(c \in Range(clnts), cstate[c], request[c], inbox[c], out[c])
    BY <1>1 DEF ChannelInv, Talks
  <2> QED
    BY <2>1, <2>2, <2>3 DEF ClientOK
<1>3. sent \in Seq(Message)
  BY <1>1 DEF ChannelInv, Wire
<1>4. DOMAIN sent = 1 .. Len(sent) /\ DOMAIN Replies = Waiting
  BY <1>3 DEF Replies, Waiting
<1>5. request[c] # NoRequest => cstate[c] \in Waiting
  <2>1. request[c] \in Request
    BY <1>1 DEF ChannelInv, Wire
  <2> QED
    BY <1>2, <2>1, RequestTypes, Waits DEF Talk
<1> HIDE DEF sent
<1>6. CASE cstate[c] \in Waiting /\ request[c] = NoRequest
  <2>1. PICK k \in 1 .. Len(sent) :
               sent[k] \in Replies[cstate[c]]
               /\ \A j \in 1 .. Len(sent) : j # k => ~IsReply(sent[j])
    BY <1>2, <1>6 DEF Talk
  <2>2. IsReply(sent[k])
    BY <1>6, <2>1 DEF IsReply, Replies, Waiting
  <2>3. replies = {k}
    BY <1>4, <2>1, <2>2
  <2> QED
    BY <1>4, <1>6, <2>1, <2>3 DEF sent
<1>7. CASE ~(cstate[c] \in Waiting /\ request[c] = NoRequest)
  <2>1. \A k \in 1 .. Len(sent) : ~IsReply(sent[k])
    BY <1>2, <1>7 DEF Talk
  <2>2. replies = {}
    BY <1>4, <2>1
  <2> QED
    BY <1>4, <1>5, <1>7, <2>2 DEF sent
<1> QED
  BY <1>6, <1>7

-----------------------------------------------------------------------------
\* The steps.  What is known of the other clients remains.
LEMMA TalksStep ==
  ASSUME Talks, NEW c \in Client,
         \A d \in Client \ {c} :
           /\ d \in Range(clnts') <=> d \in Range(clnts)
           /\ cstate'[d] = cstate[d] /\ request'[d] = request[d]
           /\ inbox'[d] = inbox[d] /\ out'[d] = out[d],
         ClientOK(c \in Range(clnts'), cstate'[c], request'[c], inbox'[c], out'[c])
  PROVE  Talks'
<1> SUFFICES ASSUME NEW d \in Client \ {c}
             PROVE  ClientOK(d \in Range(clnts'), cstate'[d], request'[d], inbox'[d], out'[d])
  BY DEF Talks
<1>1. ClientOK(d \in Range(clnts), cstate[d], request[d], inbox[d], out[d])
  BY DEF Talks
<1> QED
  BY <1>1 DEF ClientOK

LEMMA Member ==
  ASSUME ChannelInv, NEW c \in Range(clnts)
  PROVE  /\ c \in Client
         /\ ClientOK(TRUE, cstate[c], request[c], inbox[c], out[c])
         /\ request[c] \in Request /\ inbox[c] \in Seq(Message)
         /\ out[c] \in Message \cup {NULL} /\ cstate[c] \in ClientState
<1>1. c \in Client
  BY DEF Range, ChannelInv, Books
<1>2. ClientOK(c \in Range(clnts), cstate[c], request[c], inbox[c], out[c])
  BY <1>1 DEF ChannelInv, Talks
<1>3. ClientOK(TRUE, cstate[c], request[c], inbox[c], out[c])
  BY <1>2 DEF ClientOK
<1> QED
  BY <1>1, <1>3 DEF ChannelInv, Wire, Library

\* A client is visited once in a pass.
LEMMA Visiting ==
  ASSUME ChannelInv, NEW c, Visited(c)
  PROVE  /\ c \in Range(clnts) /\ c \in Range(at)
         /\ at' \in Seq(Client) /\ IsInjective(at') /\ Range(at') = Range(at) \ {c}
         /\ UNCHANGED <<busy, rd>>
<1>1. at \in Seq(Client) /\ IsInjective(at) /\ Range(at) \subseteq Range(clnts)
  BY DEF ChannelInv, Books, Lists
<1>2. at # <<>> /\ c = Head(at) /\ at' = Tail(at) /\ UNCHANGED <<busy, rd>>
  BY DEF Visited
<1>3. c \in Range(at)
  <2>1. Len(at) \in Nat \ {0} /\ Head(at) = at[1] /\ DOMAIN at = 1 .. Len(at)
    BY <1>1, <1>2
  <2>2. 1 \in DOMAIN at
    BY <2>1
  <2> QED
    BY <1>2, <2>1, <2>2 DEF Range
<1>4. at' \in Seq(Client) /\ IsInjective(at') /\ Range(at') = Range(at) \ {c}
  BY <1>1, <1>2, TailDistinct
<1> QED
  BY <1>1, <1>2, <1>3, <1>4

\* Only the visited client's message changes.
LEMMA ListsVisited ==
  ASSUME ChannelInv, NEW c, Visited(c), UNCHANGED clnts, NEW m, out' = [out EXCEPT ![c] = m]
  PROVE  Lists'
<1>1. /\ c \in Client /\ IsInjective(at') /\ Range(at') = Range(at) \ {c} /\ rd' = rd
      /\ c \in Range(clnts)
  BY Visiting, Member
<1>2. ASSUME NEW d \in rd' \cap Range(at')
      PROVE  out'[d] = NULL
  <2>1. d # c /\ d \in rd \cap Range(at) /\ d \in Client
    BY <1>1, <1>2 DEF ChannelInv, Books
  <2> QED
    BY <2>1 DEF ChannelInv, Lists, Wire
<1> QED
  BY <1>1, <1>2 DEF ChannelInv, Lists

\* A request is answered.
LEMMA AnswerGiven ==
  ASSUME ChannelInv, NEW c, Visited(c), c \in rd, request[c] # NoRequest, NEW m \in Message,
         m \in Replies[WaitsFor(request[c])], Reply(c, m), UNCHANGED <<clnts, inbox, cstate>>
  PROVE  Lists' /\ Talks' /\ Wire'
<1>1. c \in Range(clnts) /\ c \in Range(at)
  BY Visiting
<1>2. /\ c \in Client
      /\ ClientOK(TRUE, cstate[c], request[c], inbox[c], out[c])
      /\ request[c] \in Request /\ inbox[c] \in Seq(Message)
  BY <1>1, Member
<1>3. out[c] = NULL
  BY <1>1 DEF ChannelInv, Lists
<1>4. out' = [out EXCEPT ![c] = m] /\ request' = [request EXCEPT ![c] = NoRequest]
  BY DEF Reply
<1>5. Wire'
  <2>1. NoRequest \in Request
    BY DEF NoRequest, Request
  <2> QED
    BY <1>4, <2>1 DEF ChannelInv, Wire
<1>6. Lists'
  BY <1>4, ListsVisited
<1>7. ClientOK(TRUE, cstate[c], NoRequest, inbox[c], m)
  BY <1>2, <1>3, Answered
<1>8. Talks'
  <2>1. request'[c] = NoRequest /\ out'[c] = m
    BY <1>2, <1>4 DEF ChannelInv, Wire
  <2>2. ClientOK(c \in Range(clnts'), cstate'[c], request'[c], inbox'[c], out'[c])
    BY <1>1, <1>7, <2>1 DEF ClientOK
  <2>3. \A d \in Client \ {c} :
           /\ d \in Range(clnts') <=> d \in Range(clnts)
           /\ cstate'[d] = cstate[d] /\ request'[d] = request[d]
           /\ inbox'[d] = inbox[d] /\ out'[d] = out[d]
    BY <1>4 DEF ChannelInv, Wire
  <2> QED
    BY <1>2, <2>2, <2>3, TalksStep DEF ChannelInv
<1> QED
  BY <1>5, <1>6, <1>8

LEMMA ClearedTyped ==
  ASSUME NEW p \in 1 .. 3, NEW v \in BOOLEAN
  PROVE  Cleared(p, v) \in ChannelState /\ Cleared(p, v).cycle <= 2
<1>1. "none" \in TokenState
  BY DEF TokenState
<1>2. p \in Nat /\ 0 \in Nat
  OBVIOUS
<1> QED
  BY <1>1, <1>2 DEF Cleared, ChannelState

LEMMA TakesToken ==
  ASSUME ChannelInv, NEW c, Visited(c), c \in rd, TakeTokenReq(c), UNCHANGED <<inbox, clientVars>>
  PROVE  ChannelInv'
<1>1. c \in Client /\ request[c] \in Request /\ c \in Range(clnts)
  BY Visiting, Member
<1>2. /\ request[c].type = "token"
      /\ Update([chn EXCEPT ![c] = Cleared(request[c].prio, request[c].valid)], clnts, FALSE, c)
      /\ UNCHANGED <<clnts, ind, serv, inbox, cstate, cprio, has_token, ev, app>>
  BY DEF TakeTokenReq, clientVars
<1>3. PICK m \in {"token_yes", "token_no"} : Reply(c, m)
  BY DEF TakeTokenReq
<1>4. request[c] # NoRequest /\ m \in Replies[WaitsFor(request[c])] /\ m \in Message
  BY <1>2, <1>3 DEF NoRequest, WaitsFor, Replies, Message
<1>5. Lists' /\ Talks' /\ Wire'
  BY <1>2, <1>3, <1>4, AnswerGiven
<1>6. [chn EXCEPT ![c] = Cleared(request[c].prio, request[c].valid)] \in States
  <2>1. request[c].prio \in 1 .. 3 /\ request[c].valid \in BOOLEAN
    BY <1>1, <1>2 DEF Request
  <2>2. chn \in States
    BY DEF ChannelInv, Scheduled
  <2> QED
    BY <1>1, <2>1, <2>2, ClearedTyped, StateWith
<1>7. Scheduled'
  BY <1>2, <1>6, UpdateTyped DEF ChannelInv, Books
<1>8. Books' /\ Library'
  BY <1>2, Visiting DEF ChannelInv, Books, Library
<1> QED
  BY <1>5, <1>7, <1>8 DEF ChannelInv

LEMMA TakesNotify ==
  ASSUME ChannelInv, NEW c, Visited(c), c \in rd, TakeNotifyReq(c), UNCHANGED <<inbox, clientVars>>
  PROVE  ChannelInv'
<1>1. c \in Client /\ request[c] \in Request /\ c \in Range(clnts)
  BY Visiting, Member
<1> DEFINE f == request[c].flags
           s == Notified(chn, c, f)
<1>2. /\ request[c].type = "notify"
      /\ Update(s, clnts, "FLUSH" \in f /\ ~Controls(chn, c), NULL) \/ NoUpdate(s)
      /\ ind' = [d \in Client |-> d # c /\ (ind[d] \/ ("FLUSH" \in f /\ d \in Range(clnts)))]
      /\ Reply(c, "notify_cnf")
      /\ UNCHANGED <<clnts, serv, inbox, cstate, cprio, has_token, ev, app>>
  BY DEF TakeNotifyReq, clientVars
<1>3. /\ request[c] # NoRequest /\ "notify_cnf" \in Replies[WaitsFor(request[c])]
      /\ "notify_cnf" \in Message
  BY <1>2 DEF NoRequest, WaitsFor, Replies, Message
<1>4. Lists' /\ Talks' /\ Wire'
  BY <1>2, <1>3, AnswerGiven
<1>5. s \in States
  <2>1. chn \in States /\ chn[c] \in ChannelState /\ chn[c].cycle <= 2
    BY <1>1 DEF ChannelInv, Scheduled, States
  <2>2. CASE "RELEASE" \in f
    <3>1. PICK x : x = [chn[c] EXCEPT !.token = "none", !.valid = FALSE]
      OBVIOUS
    <3>2. x \in ChannelState /\ x.cycle <= 2
      BY <2>1, <3>1 DEF ChannelState, TokenState
    <3>3. s = [chn EXCEPT ![c].token = "none", ![c].valid = FALSE]
      BY <2>2 DEF Notified
    <3>4. s = [chn EXCEPT ![c] = x]
      BY <1>1, <2>1, <3>1, <3>3 DEF States
    <3> QED
      BY <1>1, <2>1, <3>2, <3>4, StateWith
  <2>3. CASE "RELEASE" \notin f /\ "TOKEN" \in f
    <3>1. PICK x : x = [chn[c] EXCEPT !.token = "returned"]
      OBVIOUS
    <3>2. x \in ChannelState /\ x.cycle <= 2
      BY <2>1, <3>1 DEF ChannelState, TokenState
    <3>3. s = [chn EXCEPT ![c] = x]
      BY <2>3, <3>1 DEF Notified
    <3> QED
      BY <1>1, <2>1, <3>2, <3>3, StateWith
  <2>4. CASE "RELEASE" \notin f /\ "TOKEN" \notin f
    BY <2>1, <2>4 DEF Notified
  <2> QED
    BY <2>2, <2>3, <2>4
<1> HIDE DEF s
<1>6. Scheduled'
  <2>1. CASE Update(s, clnts, "FLUSH" \in f /\ ~Controls(chn, c), NULL)
    BY <1>5, <2>1, UpdateTyped DEF ChannelInv, Books
  <2>2. CASE NoUpdate(s)
    BY <1>5, <2>2 DEF ChannelInv, Scheduled, NoUpdate
  <2> QED
    BY <1>2, <2>1, <2>2
<1>7. Books' /\ Library'
  BY <1>2, Visiting DEF ChannelInv, Books, Library
<1> QED
  BY <1>4, <1>6, <1>7 DEF ChannelInv

\* The device's priority when it is opened, if it is not open.
LEMMA PrioTyped ==
  ASSUME ChannelInv
  PROVE  PrioOnceOpen \in 0 .. 3
  BY DEF PrioOnceOpen, INTERACTIVE, ChannelInv, Scheduled

LEMMA TakesService ==
  ASSUME ChannelInv, NEW c, Visited(c), c \in rd, TakeServiceReq(c), UNCHANGED <<inbox, clientVars>>
  PROVE  ChannelInv'
<1>1. c \in Client /\ request[c] \in Request /\ c \in Range(clnts)
  BY Visiting, Member
<1>2. /\ request[c].type = "service"
      /\ serv' = [serv EXCEPT ![c] = request[c].services]
      /\ devPrio' \in {PrioOnceOpen, devPrio}
      /\ Reply(c, "service_cnf")
      /\ UNCHANGED <<clnts, chn, ind, alarm, aborted, inbox, cstate, cprio, has_token, ev, app>>
  BY DEF TakeServiceReq, clientVars
<1>3. /\ request[c] # NoRequest /\ "service_cnf" \in Replies[WaitsFor(request[c])]
      /\ "service_cnf" \in Message
  BY <1>2 DEF NoRequest, WaitsFor, Replies, Message
<1>4. Lists' /\ Talks' /\ Wire'
  BY <1>2, <1>3, AnswerGiven
<1>5. Scheduled'
  BY <1>2, PrioTyped DEF ChannelInv, Scheduled
<1>6. request[c].services \in BOOLEAN
  BY <1>1, <1>2 DEF Request
<1>7. Books' /\ Library'
  BY <1>2, <1>6, Visiting DEF ChannelInv, Books, Library
<1> QED
  BY <1>4, <1>5, <1>7 DEF ChannelInv

LEMMA TakesIoctl ==
  ASSUME ChannelInv, NEW c, Visited(c), c \in rd, TakeIoctlReq(c), UNCHANGED <<inbox, clientVars>>
  PROVE  ChannelInv'
<1>1. /\ request[c].type = "ioctl" /\ devPrio' = PrioOnceOpen
      /\ UNCHANGED <<clnts, chn, ind, serv, alarm, aborted, inbox, cstate, cprio, has_token, ev, app>>
  BY DEF TakeIoctlReq, clientVars
<1>2. PICK m \in {"ioctl_cnf", "ioctl_rej"} : Reply(c, m)
  BY DEF TakeIoctlReq
<1>3. request[c] # NoRequest /\ m \in Replies[WaitsFor(request[c])] /\ m \in Message
  BY <1>1, <1>2 DEF NoRequest, WaitsFor, Replies, Message
<1>4. Lists' /\ Talks' /\ Wire'
  BY <1>1, <1>2, <1>3, AnswerGiven
<1>5. Scheduled'
  BY <1>1, PrioTyped DEF ChannelInv, Scheduled
<1>6. Books' /\ Library'
  BY <1>1, Visiting DEF ChannelInv, Books, Library
<1> QED
  BY <1>4, <1>5, <1>6 DEF ChannelInv

\* A client is unlinked.
LEMMA Unlinked ==
  ASSUME NEW S, NEW s \in Seq(S), IsInjective(s), NEW e
  PROVE  /\ RemoveFirst(s, e) \in Seq(S) /\ IsInjective(RemoveFirst(s, e))
         /\ Range(RemoveFirst(s, e)) = Range(s) \ {e}
<1>1. CASE e \in Range(s)
  <2>1. PICK i \in 1 .. Len(s) : s[i] = e
    BY <1>1, RangeIndex
  <2>2. RemoveFirst(s, e) = RemoveAt(s, i) /\ i \in DOMAIN s
    BY <2>1, RemoveFirstAt
  <2> QED
    BY <2>2, RemoveAtDistinct, RemoveFirstRange
<1>2. CASE e \notin Range(s)
  BY <1>2, RemoveFirstNot, RemoveFirstRange
<1> QED
  BY <1>1, <1>2

LEMMA Closes ==
  ASSUME ChannelInv, NEW c, Visited(c), Close(c)
  PROVE  ChannelInv'
<1>1. /\ c \in Client /\ c \in Range(clnts) /\ at' \in Seq(Client) /\ IsInjective(at')
      /\ Range(at') = Range(at) \ {c} /\ UNCHANGED <<busy, rd>>
  BY Visiting, Member
<1> DEFINE L  == RemoveFirst(clnts, c)
           s  == [chn EXCEPT ![c] = Cleared(INTERACTIVE, FALSE)]
<1>2. /\ clnts' = L /\ serv' = [serv EXCEPT ![c] = FALSE]
      /\ Update(s, L, FALSE, NULL) \/ NoUpdate(s)
      /\ out' = [out EXCEPT ![c] = NULL]
      /\ ind' = [ind EXCEPT ![c] = FALSE]
      /\ inbox' = [inbox EXCEPT ![c] = <<>>]
      /\ cstate' = [cstate EXCEPT ![c] = "off"]
      /\ request' = [request EXCEPT ![c] = NoRequest]
      /\ UNCHANGED <<cprio, has_token, ev, app>>
  BY DEF Close
<1>3. L \in Seq(Client) /\ IsInjective(L) /\ Range(L) = Range(clnts) \ {c}
  BY Unlinked DEF ChannelInv, Books, Lists
<1>4. s \in States
  <2>1. Cleared(INTERACTIVE, FALSE) \in ChannelState /\ Cleared(INTERACTIVE, FALSE).cycle <= 2
    <3>1. INTERACTIVE \in 1 .. 3 /\ FALSE \in BOOLEAN
      BY DEF INTERACTIVE
    <3> HIDE DEF INTERACTIVE
    <3> QED
      BY <3>1, ClearedTyped
  <2> QED
    BY <1>1, <2>1, StateWith DEF ChannelInv, Scheduled
<1> HIDE DEF L, s
<1>5. Scheduled'
  <2>1. CASE Update(s, L, FALSE, NULL)
    BY <1>3, <1>4, <2>1, UpdateTyped DEF ChannelInv
  <2>2. CASE NoUpdate(s)
    BY <1>4, <2>2 DEF ChannelInv, Scheduled, NoUpdate
  <2> QED
    BY <1>2, <2>1, <2>2
<1>6. Books'
  BY <1>1, <1>2, <1>3 DEF ChannelInv, Books
<1>7. Wire'
  <2>1. NoRequest \in Request /\ <<>> \in Seq(Message)
    BY DEF NoRequest, Request
  <2> QED
    BY <1>2, <2>1 DEF ChannelInv, Wire
<1>8. Library'
  BY <1>2 DEF ChannelInv, Library, ClientState
<1>9. Lists'
  <2>1. \A d \in rd' \cap Range(at') : out'[d] = NULL
    BY <1>1, <1>2 DEF ChannelInv, Lists, Wire, Books
  <2> QED
    BY <1>1, <1>2, <1>3, <2>1 DEF ChannelInv, Lists
<1>10. Talks'
  <2>1. cstate'[c] = "off" /\ request'[c] = NoRequest /\ inbox'[c] = <<>> /\ out'[c] = NULL
    BY <1>1, <1>2 DEF ChannelInv, Wire, Library
  <2>2. c \notin Range(clnts')
    BY <1>2, <1>3
  <2>3. ClientOK(c \in Range(clnts'), cstate'[c], request'[c], inbox'[c], out'[c])
    BY <2>1, <2>2 DEF ClientOK
  <2>4. \A d \in Client \ {c} :
           /\ d \in Range(clnts') <=> d \in Range(clnts)
           /\ cstate'[d] = cstate[d] /\ request'[d] = request[d]
           /\ inbox'[d] = inbox[d] /\ out'[d] = out[d]
    BY <1>2, <1>3 DEF ChannelInv, Wire, Library
  <2> QED
    BY <1>1, <2>3, <2>4, TalksStep DEF ChannelInv
<1> QED
  BY <1>5, <1>6, <1>7, <1>8, <1>9, <1>10 DEF ChannelInv

\* A message that was written leaves room for an indication.
LEMMA Sends ==
  ASSUME ChannelInv, NEW c \in Range(clnts), IdleSend(c), NEW i \in Seq(Message),
         NEW rq, NEW cs, ClientOK(TRUE, cs, rq, i, NULL)
  PROVE  /\ chn' \in States /\ ind' \in [Client -> BOOLEAN]
         /\ \E m \in Message \cup {NULL} : out' = [out EXCEPT ![c] = m]
                                            /\ ClientOK(TRUE, cs, rq, i, m)
<1>1. c \in Client /\ chn \in States /\ ind \in [Client -> BOOLEAN]
  BY Member DEF ChannelInv, Scheduled, Books
<1>2. ASSUME NEW t \in TokenState
      PROVE  [chn EXCEPT ![c].token = t] \in States
  <2>1. chn[c] \in ChannelState /\ chn[c].cycle <= 2
    BY <1>1 DEF States
  <2>2. PICK x : x = [chn[c] EXCEPT !.token = t]
    OBVIOUS
  <2>3. x \in ChannelState /\ x.cycle <= 2
    BY <2>1, <2>2 DEF ChannelState
  <2> QED
    BY <1>1, <2>2, <2>3, StateWith
<1>3. ASSUME NEW m \in {"reclaim_req", "token_ind", "change_ind"}
      PROVE  m \in Message /\ ClientOK(TRUE, cs, rq, i, m)
  <2>1. m \in Message /\ ~IsReply(m)
    BY <1>3 DEF Message, IsReply
  <2> QED
    BY <2>1, Indicated
<1>4. CASE out' = [out EXCEPT ![c] = "reclaim_req"] /\ chn' = [chn EXCEPT ![c].token = "release"]
           /\ UNCHANGED ind
  BY <1>1, <1>2, <1>3, <1>4 DEF TokenState
<1>5. CASE out' = [out EXCEPT ![c] = "token_ind"] /\ chn' = [chn EXCEPT ![c].token = "granted"]
           /\ UNCHANGED ind
  BY <1>1, <1>2, <1>3, <1>5 DEF TokenState
<1>6. CASE out' = [out EXCEPT ![c] = "change_ind"] /\ ind' = [ind EXCEPT ![c] = FALSE]
           /\ UNCHANGED chn
  BY <1>1, <1>3, <1>6
<1>7. CASE out' = [out EXCEPT ![c] = NULL] /\ UNCHANGED <<chn, ind>>
  BY <1>1, <1>7
<1> QED
  BY <1>4, <1>5, <1>6, <1>7 DEF IdleSend

LEMMA Writes ==
  ASSUME ChannelInv, NEW c, WriteClient(c)
  PROVE  ChannelInv'
<1>1. Visited(c) /\ UNCHANGED <<clnts, devPrio, serv, alarm, aborted, request,
                                cstate, cprio, has_token, ev, app>>
  BY DEF WriteClient, clientVars
<1>2. c \in Range(clnts)
  BY <1>1, Visiting
<1>3. /\ c \in Client /\ ClientOK(TRUE, cstate[c], request[c], inbox[c], out[c])
      /\ inbox[c] \in Seq(Message) /\ out[c] \in Message \cup {NULL}
  BY <1>2, Member
<1>4. CASE /\ ~(out[c] # NULL /\ ~Room(c))
           /\ IdleSend(c)
           /\ inbox' = IF out[c] = NULL THEN inbox ELSE [inbox EXCEPT ![c] = Append(@, out[c])]
  <2>1. PICK i : i = IF out[c] = NULL THEN inbox[c] ELSE Append(inbox[c], out[c])
    OBVIOUS
  <2>2. i \in Seq(Message) /\ ClientOK(TRUE, cstate[c], request[c], i, NULL)
    <3>1. CASE out[c] = NULL
      BY <1>3, <2>1, <3>1
    <3>2. CASE out[c] # NULL
      <4>1. out[c] \in Message /\ i = Append(inbox[c], out[c])
        BY <1>3, <2>1, <3>2
      <4>2. ClientOK(TRUE, cstate[c], request[c], Append(inbox[c], out[c]), NULL)
        BY <1>3, <3>2, Written
      <4>3. \A b \in Seq(Message) : \A o \in Message : Append(b, o) \in Seq(Message)
        OBVIOUS
      <4> QED
        BY <1>3, <4>1, <4>2, <4>3
    <3> QED
      BY <3>1, <3>2
  <2>3. /\ chn' \in States /\ ind' \in [Client -> BOOLEAN]
        /\ \E m \in Message \cup {NULL} : out' = [out EXCEPT ![c] = m]
                                           /\ ClientOK(TRUE, cstate[c], request[c], i, m)
    BY <1>2, <1>4, <2>2, Sends
  <2>4. PICK m \in Message \cup {NULL} : out' = [out EXCEPT ![c] = m]
                                          /\ ClientOK(TRUE, cstate[c], request[c], i, m)
    BY <2>3
  <2>5. inbox' = [inbox EXCEPT ![c] = i]
    BY <1>3, <1>4, <2>1 DEF ChannelInv, Wire
  <2>6. Scheduled' /\ Books' /\ Library'
    BY <1>1, <2>3, Visiting DEF ChannelInv, Scheduled, Books, Library
  <2>7. Wire'
    BY <1>1, <2>2, <2>4, <2>5 DEF ChannelInv, Wire
  <2>8. Lists'
    BY <1>1, <2>4, ListsVisited
  <2>9. Talks'
    <3>1. out'[c] = m /\ inbox'[c] = i
      BY <1>3, <2>4, <2>5 DEF ChannelInv, Wire
    <3>2. ClientOK(c \in Range(clnts'), cstate'[c], request'[c], inbox'[c], out'[c])
      BY <1>1, <1>2, <2>4, <3>1 DEF ClientOK
    <3>3. \A d \in Client \ {c} :
             /\ d \in Range(clnts') <=> d \in Range(clnts)
             /\ cstate'[d] = cstate[d] /\ request'[d] = request[d]
             /\ inbox'[d] = inbox[d] /\ out'[d] = out[d]
      BY <1>1, <2>4, <2>5 DEF ChannelInv, Wire
    <3> QED
      BY <1>3, <3>2, <3>3, TalksStep DEF ChannelInv
  <2> QED
    BY <2>6, <2>7, <2>8, <2>9 DEF ChannelInv
<1>5. CASE UNCHANGED <<chn, ind, out, inbox>>
  <2>1. Scheduled' /\ Books' /\ Library' /\ Wire' /\ Talks'
    BY <1>1, <1>5, Visiting DEF ChannelInv, Scheduled, Books, Library, Wire, Talks
  <2>2. out' = [out EXCEPT ![c] = out[c]]
    BY <1>3, <1>5 DEF ChannelInv, Wire
  <2>3. Lists'
    BY <1>1, <2>2, ListsVisited
  <2> QED
    BY <2>1, <2>3 DEF ChannelInv
<1> QED
  BY <1>4, <1>5 DEF WriteClient

\* A visit of the main loop to a client.
LEMMA Visits ==
  ASSUME ChannelInv, NEW c, ReadClient(c) \/ WriteClient(c) \/ WriteFails(c)
  PROVE  ChannelInv'
<1>1. CASE ReadClient(c)
  <2>1. Visited(c) /\ c \in rd
    BY <1>1 DEF ReadClient
  <2>2. \/ /\ TakeTokenReq(c) \/ TakeNotifyReq(c) \/ TakeServiceReq(c) \/ TakeIoctlReq(c)
           /\ UNCHANGED <<inbox, clientVars>>
        \/ Close(c)
    BY <1>1 DEF ReadClient
  <2> QED
    BY <2>1, <2>2, TakesToken, TakesNotify, TakesService, TakesIoctl, Closes
<1>2. CASE WriteClient(c)
  BY <1>2, Writes
<1>3. CASE WriteFails(c)
  BY <1>3, Closes DEF WriteFails
<1> QED
  BY <1>1, <1>2, <1>3

LEMMA StartsPass ==
  ASSUME ChannelInv, StartPass
  PROVE  ChannelInv'
<1>1. /\ busy' = TRUE /\ at' = clnts
      /\ UNCHANGED <<clnts, chn, ind, out, devPrio, serv, alarm, aborted, request, inbox,
                     cstate, cprio, has_token, ev, app>>
  BY DEF StartPass, clientVars
<1>2. PICK sliced : rd' = {c \in Range(clnts) \ sliced : Readable(c)}
  BY DEF StartPass
<1>3. rd' \subseteq Client /\ \A c \in rd' : out[c] = NULL
  BY <1>2, Member DEF Readable
<1>4. Scheduled' /\ Books' /\ Library' /\ Wire' /\ Talks'
  BY <1>1, <1>3 DEF ChannelInv, Scheduled, Books, Library, Wire, Talks
<1>5. Lists'
  BY <1>1, <1>3 DEF ChannelInv, Lists
<1> QED
  BY <1>4, <1>5 DEF ChannelInv

LEMMA EndsPass ==
  ASSUME ChannelInv, EndPass
  PROVE  ChannelInv'
<1>1. /\ busy' = FALSE /\ rd' = {}
      /\ UNCHANGED <<clnts, at, ind, out, serv, request, inbox, cstate, cprio, has_token, ev, app>>
  BY DEF EndPass, clientVars
<1>2. Scheduled'
  <2>1. CASE Update(chn, clnts, FALSE, NULL)
    BY <2>1, UpdateTyped DEF ChannelInv, Scheduled, Books
  <2>2. CASE alarm' = "off" /\ UNCHANGED <<chn, devPrio, aborted>>
    BY <2>2 DEF ChannelInv, Scheduled
  <2>3. CASE NoUpdate(chn)
    BY <2>3 DEF ChannelInv, Scheduled, NoUpdate
  <2> QED
    BY <2>1, <2>2, <2>3 DEF EndPass
<1>3. Books' /\ Library' /\ Wire' /\ Talks'
  BY <1>1 DEF ChannelInv, Books, Library, Wire, Talks
<1>4. Lists'
  BY <1>1 DEF ChannelInv, Lists
<1> QED
  BY <1>2, <1>3, <1>4 DEF ChannelInv

\* Nothing but what the scheduler keeps is changed.
LEMMA OnlyScheduled ==
  ASSUME ChannelInv, Scheduled',
         UNCHANGED <<clnts, at, busy, rd, ind, out, serv, request, inbox, clientVars>>
  PROVE  ChannelInv'
<1>1. UNCHANGED <<clnts, at, busy, rd, ind, out, serv, request, inbox,
                  cstate, cprio, has_token, ev, app>>
  BY DEF clientVars
<1>2. Books' /\ Library' /\ Wire' /\ Talks' /\ Lists'
  BY <1>1 DEF ChannelInv, Books, Library, Wire, Talks, Lists
<1> QED
  BY <1>2 DEF ChannelInv

LEMMA TimePasses ==
  ASSUME ChannelInv, AlarmFires \/ \E c \in Client : Expire(c)
  PROVE  ChannelInv'
<1>1. CASE AlarmFires
  <2>1. Scheduled'
    BY <1>1 DEF ChannelInv, Scheduled, AlarmFires
  <2> QED
    BY <1>1, <2>1, OnlyScheduled DEF AlarmFires
<1>2. ASSUME NEW c \in Client, Expire(c)
      PROVE  ChannelInv'
  <2>1. chn' = [chn EXCEPT ![c].expired = TRUE] /\ UNCHANGED <<devPrio, alarm, aborted>>
    BY <1>2 DEF Expire
  <2>2. chn \in States /\ chn[c] \in ChannelState /\ chn[c].cycle <= 2
    BY DEF ChannelInv, Scheduled, States
  <2>3. PICK x : x = [chn[c] EXCEPT !.expired = TRUE]
    OBVIOUS
  <2>4. x \in ChannelState /\ x.cycle <= 2
    BY <2>2, <2>3 DEF ChannelState
  <2>5. chn' \in States
    BY <2>1, <2>2, <2>3, <2>4, StateWith
  <2>6. Scheduled'
    BY <2>1, <2>5 DEF ChannelInv, Scheduled
  <2> QED
    BY <1>2, <2>6, OnlyScheduled DEF Expire
<1> QED
  BY <1>1, <1>2

\* A client of the daemon has a connection.
LEMMA Connected ==
  ASSUME ChannelInv, NEW c \in Client, cstate[c] # "off"
  PROVE  c \in Range(clnts) /\ ClientOK(TRUE, cstate[c], request[c], inbox[c], out[c])
<1>1. ClientOK(c \in Range(clnts), cstate[c], request[c], inbox[c], out[c])
  BY DEF ChannelInv, Talks
<1> QED
  BY <1>1 DEF ClientOK

\* A step of one client leaves the daemon alone.
LEMMA ClientSteps ==
  ASSUME ChannelInv, NEW c \in Client, cstate[c] # "off", UNCHANGED daemonVars,
         Wire', Library',
         \A d \in Client \ {c} :
           cstate'[d] = cstate[d] /\ request'[d] = request[d] /\ inbox'[d] = inbox[d],
         ClientOK(TRUE, cstate'[c], request'[c], inbox'[c], out[c])
  PROVE  ChannelInv'
<1>1. UNCHANGED <<clnts, at, busy, rd, chn, ind, out, devPrio, serv, alarm, aborted>>
  BY DEF daemonVars
<1>2. Scheduled' /\ Books' /\ Lists'
  BY <1>1 DEF ChannelInv, Scheduled, Books, Lists
<1>3. c \in Range(clnts)
  BY Connected
<1>4. ClientOK(c \in Range(clnts'), cstate'[c], request'[c], inbox'[c], out'[c])
  BY <1>1, <1>3 DEF ClientOK
<1>5. \A d \in Client \ {c} :
        /\ d \in Range(clnts') <=> d \in Range(clnts)
        /\ cstate'[d] = cstate[d] /\ request'[d] = request[d]
        /\ inbox'[d] = inbox[d] /\ out'[d] = out[d]
  BY <1>1
<1>6. Talks'
  BY <1>4, <1>5, TalksStep DEF ChannelInv
<1> QED
  BY <1>2, <1>6 DEF ChannelInv

LEMMA Sending ==
  ASSUME ChannelInv, NEW c \in Client, NEW m \in Request, m # NoRequest,
         Send(c, m, WaitsFor(m)), Library'
  PROVE  ChannelInv'
<1>1. /\ cstate[c] = "capturing"
      /\ request' = [request EXCEPT ![c] = m]
      /\ cstate' = [cstate EXCEPT ![c] = WaitsFor(m)]
      /\ UNCHANGED <<daemonVars, inbox>>
  BY DEF Send
<1>2. ClientOK(TRUE, "capturing", request[c], inbox[c], out[c])
  BY <1>1, Connected
<1>3. request[c] \in Request
  BY DEF ChannelInv, Wire
<1>4. ClientOK(TRUE, WaitsFor(m), m, inbox[c], out[c])
  BY <1>2, <1>3, Asked
<1>5. UNCHANGED out
  BY <1>1 DEF daemonVars
<1>6. Wire'
  BY <1>1, <1>5 DEF ChannelInv, Wire
<1>7. /\ request'[c] = m /\ cstate'[c] = WaitsFor(m) /\ inbox'[c] = inbox[c]
      /\ \A d \in Client \ {c} :
           cstate'[d] = cstate[d] /\ request'[d] = request[d] /\ inbox'[d] = inbox[d]
  BY <1>1 DEF ChannelInv, Wire, Library
<1>8. ClientOK(TRUE, cstate'[c], request'[c], inbox'[c], out[c])
  BY <1>4, <1>7
<1> QED
  BY <1>1, <1>6, <1>7, <1>8, ClientSteps

\* The calls of the library.
LEMMA Requests ==
  ASSUME ChannelInv, NEW c \in Client, NEW p \in 1 .. 3, NEW v \in BOOLEAN,
         ChannelRequest(c, p, v)
  PROVE  ChannelInv'
<1> DEFINE m == [type |-> "token", prio |-> p, valid |-> v]
<1>1. m \in Request /\ m.type = "token"
  BY DEF Request
<1>2. m # NoRequest /\ WaitsFor(m) = "wait_token"
  BY <1>1 DEF NoRequest, WaitsFor
<1>3. /\ Send(c, m, "wait_token")
      /\ has_token' = [has_token EXCEPT ![c] = FALSE]
      /\ ev' = [ev EXCEPT ![c] = @ \ {"granted"}]
      /\ cprio' = [cprio EXCEPT ![c] = p]
      /\ app' = [app EXCEPT ![c] = "idle"]
  BY DEF ChannelRequest
<1>4. cstate' = [cstate EXCEPT ![c] = "wait_token"]
  BY <1>3 DEF Send
<1>5. Library'
  <2>1. ev' \in [Client -> SUBSET {"granted", "reclaimed"}]
    BY <1>3 DEF ChannelInv, Library
  <2>2. p \in 0 .. 3 /\ "wait_token" \in ClientState
    BY DEF ClientState
  <2> QED
    BY <1>3, <1>4, <2>1, <2>2 DEF ChannelInv, Library
<1> HIDE DEF m
<1>6. Send(c, m, WaitsFor(m))
  BY <1>2, <1>3
<1> QED
  BY <1>1, <1>2, <1>5, <1>6, Sending

LEMMA Notifies ==
  ASSUME ChannelInv, NEW c \in Client, NEW flags \in SUBSET {"FLUSH", "TOKEN", "RELEASE"},
         ChannelNotify(c, flags)
  PROVE  ChannelInv'
<1> DEFINE m == [type |-> "notify", flags |-> flags]
<1>1. m \in Request /\ m.type = "notify"
  BY DEF Request
<1>2. m # NoRequest /\ WaitsFor(m) = "wait_notify"
  BY <1>1 DEF NoRequest, WaitsFor
<1>3. /\ Send(c, m, "wait_notify")
      /\ \E a \in {"idle", "switched"} : app' = [app EXCEPT ![c] = a]
      /\ UNCHANGED <<cprio, has_token, ev>>
  BY DEF ChannelNotify
<1>4. cstate' = [cstate EXCEPT ![c] = "wait_notify"]
  BY <1>3 DEF Send
<1>5. Library'
  BY <1>3, <1>4 DEF ChannelInv, Library, ClientState
<1> HIDE DEF m
<1>6. Send(c, m, WaitsFor(m))
  BY <1>2, <1>3
<1> QED
  BY <1>1, <1>2, <1>5, <1>6, Sending

LEMMA OtherCalls ==
  ASSUME ChannelInv, NEW c \in Client,
         DeviceIoctl(c) \/ \E s \in BOOLEAN : UpdateServices(c, s)
  PROVE  ChannelInv'
<1>1. CASE DeviceIoctl(c)
  <2>1. [type |-> "ioctl"] \in Request /\ [type |-> "ioctl"] # NoRequest
    BY DEF Request, NoRequest
  <2>2. WaitsFor([type |-> "ioctl"]) = "wait_ioctl"
    BY DEF WaitsFor
  <2>3. Send(c, [type |-> "ioctl"], "wait_ioctl") /\ UNCHANGED <<cprio, has_token, ev, app>>
    BY <1>1 DEF DeviceIoctl
  <2>4. cstate' = [cstate EXCEPT ![c] = "wait_ioctl"]
    BY <2>3 DEF Send
  <2>5. Library'
    BY <2>3, <2>4 DEF ChannelInv, Library, ClientState
  <2>6. Send(c, [type |-> "ioctl"], WaitsFor([type |-> "ioctl"]))
    BY <2>2, <2>3
  <2> QED
    BY <2>1, <2>5, <2>6, Sending
<1>2. ASSUME NEW s \in BOOLEAN, UpdateServices(c, s)
      PROVE  ChannelInv'
  <2> DEFINE m == [type |-> "service", services |-> s]
  <2>1. m \in Request /\ m.type = "service"
    BY DEF Request
  <2>2. m # NoRequest /\ WaitsFor(m) = "wait_srv"
    BY <2>1 DEF NoRequest, WaitsFor
  <2>3. Send(c, m, "wait_srv") /\ UNCHANGED <<cprio, has_token, ev, app>>
    BY <1>2 DEF UpdateServices
  <2>4. cstate' = [cstate EXCEPT ![c] = "wait_srv"]
    BY <2>3 DEF Send
  <2>5. Library'
    BY <2>3, <2>4 DEF ChannelInv, Library, ClientState
  <2> HIDE DEF m
  <2>6. Send(c, m, WaitsFor(m))
    BY <2>2, <2>3
  <2> QED
    BY <2>1, <2>2, <2>5, <2>6, Sending
<1> QED
  BY <1>1, <1>2

LEMMA HangsUp ==
  ASSUME ChannelInv, NEW c \in Client, HangUp(c)
  PROVE  ChannelInv'
<1>1. /\ cstate[c] # "off"
      /\ cstate' = [cstate EXCEPT ![c] = "error"]
      /\ app' = [app EXCEPT ![c] = "idle"]
      /\ UNCHANGED <<daemonVars, request, inbox, cprio, has_token, ev>>
  BY DEF HangUp
<1>2. Library'
  BY <1>1 DEF ChannelInv, Library, ClientState
<1>3. Wire'
  BY <1>1 DEF ChannelInv, Wire, daemonVars
<1>4. /\ cstate'[c] = "error"
      /\ \A d \in Client \ {c} :
           cstate'[d] = cstate[d] /\ request'[d] = request[d] /\ inbox'[d] = inbox[d]
  BY <1>1 DEF ChannelInv, Wire, Library
<1>5. ClientOK(TRUE, cstate'[c], request'[c], inbox'[c], out[c])
  BY <1>4 DEF ClientOK
<1> QED
  BY <1>1, <1>2, <1>3, <1>4, <1>5, ClientSteps

LEMMA Calling ==
  ASSUME ChannelInv, NEW c \in Client, Call(c)
  PROVE  ChannelInv'
<1>1. /\ \A p \in Prios : p \in 1 .. 3
      /\ \A s \in Services : s \in BOOLEAN
      /\ TRUE \in BOOLEAN /\ FALSE \in BOOLEAN
  BY ChannelAssumption
<1>2. \A f \in {{"FLUSH"}, {"TOKEN", "FLUSH"}, {"RELEASE"}} :
        f \in SUBSET {"FLUSH", "TOKEN", "RELEASE"}
  OBVIOUS
<1>3. CASE \E p \in Prios : ChannelRequest(c, p, TRUE) \/ ChannelRequest(c, p, FALSE)
  BY <1>1, <1>3, Requests
<1>4. CASE \/ ChannelNotify(c, {"FLUSH"}) \/ ChannelNotify(c, {"TOKEN", "FLUSH"})
           \/ ChannelNotify(c, {"RELEASE"})
  BY <1>2, <1>4, Notifies
<1>5. CASE DeviceIoctl(c) \/ \E s \in Services : UpdateServices(c, s)
  BY <1>1, <1>5, OtherCalls
<1>6. CASE HangUp(c)
  BY <1>6, HangsUp
<1> QED
  BY <1>3, <1>4, <1>5, <1>6, Zenon DEF Call

\* Events are reported between two calls, and one of them is answered by a call.
LEMMA CallsBack ==
  ASSUME ChannelInv, NEW c \in Client, cstate[c] # "off", UNCHANGED <<daemonVars, cprio>>,
         has_token' \in [Client -> BOOLEAN],
         NEW i \in Seq(Message), inbox' = [inbox EXCEPT ![c] = i],
         ClientOK(TRUE, "capturing", request[c], i, out[c]), NEW e, Callback(c, e)
  PROVE  ChannelInv'
<1> DEFINE m == [type |-> "notify", flags |-> {"TOKEN"}]
<1>1. m \in Request /\ m.type = "notify"
  BY DEF Request
<1>2. m # NoRequest /\ WaitsFor(m) = "wait_notify"
  BY <1>1 DEF NoRequest, WaitsFor
<1>3. request[c] \in Request
  BY DEF ChannelInv, Wire
<1>4. PICK cs, r :
        /\ cstate' = [cstate EXCEPT ![c] = cs] /\ request' = [request EXCEPT ![c] = r]
        /\ \/ cs = "wait_notify" /\ r = m
           \/ cs = "capturing" /\ r = request[c]
  <2>1. CASE "reclaimed" \in e
    BY <2>1 DEF Callback
  <2>2. CASE "reclaimed" \notin e
    <3>1. request' = [request EXCEPT ![c] = request[c]]
      BY <2>2 DEF Callback, ChannelInv, Wire
    <3> QED
      BY <2>2, <3>1 DEF Callback
  <2> QED
    BY <2>1, <2>2
<1>5. ev' = [ev EXCEPT ![c] = {}]
      /\ \E a \in {"idle", "granted", app[c]} : app' = [app EXCEPT ![c] = a]
  BY DEF Callback
<1> HIDE DEF m
<1>6. r \in Request /\ ClientOK(TRUE, cs, r, i, out[c]) /\ cs \in ClientState
  <2>1. CASE cs = "wait_notify" /\ r = m
    <3>1. ClientOK(TRUE, WaitsFor(m), m, i, out[c])
      BY <1>1, <1>2, <1>3, Asked
    <3> QED
      BY <1>1, <1>2, <2>1, <3>1 DEF ClientState
  <2>2. CASE cs = "capturing" /\ r = request[c]
    BY <1>3, <2>2 DEF ClientState
  <2> QED
    BY <1>4, <2>1, <2>2
<1>7. Library'
  <2>1. ev' \in [Client -> SUBSET {"granted", "reclaimed"}]
    BY <1>5 DEF ChannelInv, Library
  <2>2. app' \in [Client -> {"idle", "granted", "switched"}]
    BY <1>5 DEF ChannelInv, Library
  <2> QED
    BY <1>4, <1>6, <2>1, <2>2 DEF ChannelInv, Library
<1>8. Wire'
  BY <1>4, <1>6 DEF ChannelInv, Wire, daemonVars
<1>9. /\ cstate'[c] = cs /\ request'[c] = r /\ inbox'[c] = i
      /\ \A d \in Client \ {c} :
           cstate'[d] = cstate[d] /\ request'[d] = request[d] /\ inbox'[d] = inbox[d]
  BY <1>4 DEF ChannelInv, Wire, Library
<1>10. ClientOK(TRUE, cstate'[c], request'[c], inbox'[c], out[c])
  BY <1>6, <1>9
<1> QED
  BY <1>7, <1>8, <1>9, <1>10, ClientSteps

\* A message is read while its reader waits, or between two calls.
LEMMA Receives ==
  ASSUME ChannelInv, NEW c \in Client, Receive(c)
  PROVE  ChannelInv'
<1> DEFINE m == Head(inbox[c])
           e == TakeMessage(c, m)
           i == Tail(inbox[c])
<1>1. /\ cstate[c] # "off" /\ cstate[c] # "error" /\ inbox[c] # <<>>
      /\ inbox' = [inbox EXCEPT ![c] = i]
      /\ UNCHANGED <<daemonVars, cprio>>
  BY DEF Receive
<1>2. has_token' \in [Client -> BOOLEAN]
  <2>1. has_token' = [has_token EXCEPT ![c] = IF m = "token_no" THEN FALSE
                           ELSE @ \/ m \in {"token_ind", "token_yes"}]
    BY DEF Receive
  <2> QED
    BY <2>1 DEF ChannelInv, Library
<1>3. c \in Range(clnts) /\ ClientOK(TRUE, cstate[c], request[c], inbox[c], out[c])
  BY <1>1, Connected
<1>4. /\ inbox[c] \in Seq(Message) /\ out[c] \in Message \cup {NULL}
      /\ cstate[c] \in ClientState /\ i \in Seq(Message)
  BY <1>1 DEF ChannelInv, Wire, Library
<1>5. \/ /\ cstate' = [cstate EXCEPT ![c] = "error"]
         /\ app' = [app EXCEPT ![c] = "idle"]
         /\ UNCHANGED <<ev, request>>
      \/ /\ m = "service_cnf"
         /\ cstate' = [cstate EXCEPT ![c] = "capturing"]
         /\ UNCHANGED <<ev, app, request>>
      \/ /\ cstate[c] = "capturing" \/ IsReply(m)
         /\ Callback(c, e)
      \/ /\ ~IsReply(m)
         /\ ev' = [ev EXCEPT ![c] = e]
         /\ UNCHANGED <<cstate, app, request>>
  BY DEF Receive
<1>6. e \subseteq {"granted", "reclaimed"}
  <2>1. ev[c] \subseteq {"granted", "reclaimed"}
    BY DEF ChannelInv, Library
  <2> QED
    BY <2>1 DEF TakeMessage
<1>7. IsReply(m) => /\ cstate[c] # "capturing"
                    /\ ClientOK(TRUE, "capturing", request[c], i, out[c])
  <2>1. IsReply(m) => /\ cstate[c] \in Waiting
                      /\ ClientOK(TRUE, "capturing", request[c], i, out[c])
    BY <1>1, <1>3, <1>4, ReadReply
  <2> QED
    BY <2>1 DEF Waiting
<1>8. ~IsReply(m) => ClientOK(TRUE, cstate[c], request[c], i, out[c])
  BY <1>1, <1>3, <1>4, ReadIndication
<1> HIDE DEF m, e, i
<1>9. /\ inbox'[c] = i
      /\ \A d \in Client \ {c} : inbox'[d] = inbox[d]
  BY <1>1 DEF ChannelInv, Wire
<1>10. UNCHANGED request => Wire'
  BY <1>1, <1>4 DEF ChannelInv, Wire, daemonVars
<1>11. CASE cstate' = [cstate EXCEPT ![c] = "error"] /\ app' = [app EXCEPT ![c] = "idle"]
            /\ UNCHANGED <<ev, request>>
  <2>1. Library'
    BY <1>1, <1>2, <1>11 DEF ChannelInv, Library, ClientState
  <2>2. cstate'[c] = "error" /\ \A d \in Client \ {c} : cstate'[d] = cstate[d]
    BY <1>11 DEF ChannelInv, Library
  <2>3. ClientOK(TRUE, cstate'[c], request'[c], inbox'[c], out[c])
    BY <2>2 DEF ClientOK
  <2> QED
    BY <1>1, <1>9, <1>10, <1>11, <2>1, <2>2, <2>3, ClientSteps
<1>12. CASE m = "service_cnf" /\ cstate' = [cstate EXCEPT ![c] = "capturing"]
            /\ UNCHANGED <<ev, app, request>>
  <2>1. Library'
    BY <1>1, <1>2, <1>12 DEF ChannelInv, Library, ClientState
  <2>2. cstate'[c] = "capturing" /\ \A d \in Client \ {c} : cstate'[d] = cstate[d]
    BY <1>12 DEF ChannelInv, Library
  <2>3. IsReply(m)
    BY <1>12 DEF IsReply
  <2>4. ClientOK(TRUE, cstate'[c], request'[c], inbox'[c], out[c])
    BY <1>7, <1>9, <1>12, <2>2, <2>3
  <2> QED
    BY <1>1, <1>9, <1>10, <1>12, <2>1, <2>2, <2>4, ClientSteps
<1>13. CASE (cstate[c] = "capturing" \/ IsReply(m)) /\ Callback(c, e)
  <2>1. ClientOK(TRUE, "capturing", request[c], i, out[c])
    BY <1>7, <1>8, <1>13
  <2> QED
    BY <1>1, <1>2, <1>4, <1>13, <2>1, CallsBack
<1>14. CASE ~IsReply(m) /\ ev' = [ev EXCEPT ![c] = e] /\ UNCHANGED <<cstate, app, request>>
  <2>1. ev' \in [Client -> SUBSET {"granted", "reclaimed"}]
    BY <1>6, <1>14 DEF ChannelInv, Library
  <2>2. Library'
    BY <1>1, <1>2, <1>14, <2>1 DEF ChannelInv, Library
  <2>3. ClientOK(TRUE, cstate'[c], request'[c], inbox'[c], out[c])
    BY <1>8, <1>9, <1>14
  <2> QED
    BY <1>1, <1>9, <1>10, <1>14, <2>2, <2>3, ClientSteps
<1> QED
  BY <1>5, <1>11, <1>12, <1>13, <1>14

LEMMA ReadsSliced ==
  ASSUME ChannelInv, NEW c \in Client, ReadSliced(c)
  PROVE  ChannelInv'
<1>1. cstate[c] = "capturing" /\ Callback(c, ev[c])
      /\ UNCHANGED <<daemonVars, inbox, cprio, has_token>>
  BY DEF ReadSliced
<1>2. ClientOK(TRUE, "capturing", request[c], inbox[c], out[c])
  BY <1>1, Connected
<1>3. /\ inbox[c] \in Seq(Message) /\ inbox' = [inbox EXCEPT ![c] = inbox[c]]
      /\ has_token' \in [Client -> BOOLEAN] /\ UNCHANGED <<daemonVars, cprio>>
  BY <1>1 DEF ChannelInv, Wire, Library
<1> QED
  BY <1>1, <1>2, <1>3, CallsBack

\* A new connection has nothing on its way.
LEMMA Connects ==
  ASSUME ChannelInv, NEW c \in Client, NEW s \in Services, Connect(c, s)
  PROVE  ChannelInv'
<1>1. /\ cstate[c] = "off" /\ c \notin Range(clnts)
      /\ clnts' = Append(clnts, c)
      /\ serv' = [serv EXCEPT ![c] = s]
      /\ devPrio' \in {PrioOnceOpen, devPrio}
      /\ cstate' = [cstate EXCEPT ![c] = "capturing"]
      /\ cprio' = [cprio EXCEPT ![c] = 0]
      /\ has_token' = [has_token EXCEPT ![c] = FALSE]
      /\ ev' = [ev EXCEPT ![c] = {}]
      /\ UNCHANGED <<at, busy, rd, chn, ind, out, alarm, aborted, request, inbox, app>>
  BY DEF Connect
<1>2. /\ clnts' \in Seq(Client) /\ IsInjective(clnts')
      /\ Range(clnts') = Range(clnts) \cup {c}
  BY <1>1, AppendDistinct DEF ChannelInv, Books, Lists
<1>3. Scheduled'
  BY <1>1, PrioTyped DEF ChannelInv, Scheduled
<1>4. Books'
  <2>1. s \in BOOLEAN
    BY ChannelAssumption
  <2> QED
    BY <1>1, <1>2, <2>1 DEF ChannelInv, Books
<1>5. Wire'
  BY <1>1 DEF ChannelInv, Wire
<1>6. Library'
  BY <1>1 DEF ChannelInv, Library, ClientState
<1>7. Lists'
  BY <1>1, <1>2 DEF ChannelInv, Lists
<1>8. Talks'
  <2>1. ClientOK(c \in Range(clnts), cstate[c], request[c], inbox[c], out[c])
    BY DEF ChannelInv, Talks
  <2>2. request[c] = NoRequest /\ inbox[c] = <<>> /\ out[c] = NULL
    BY <1>1, <2>1 DEF ClientOK
  <2>3. request'[c] = NoRequest /\ inbox'[c] = <<>> /\ out'[c] = NULL /\ cstate'[c] = "capturing"
    BY <1>1, <2>2 DEF ChannelInv, Library
  <2>4. Talk("capturing", NoRequest, <<>>)
    BY DEF Talk, Waiting
  <2>5. c \in Range(clnts')
    BY <1>2
  <2>6. ClientOK(c \in Range(clnts'), cstate'[c], request'[c], inbox'[c], out'[c])
    BY <2>3, <2>4, <2>5 DEF ClientOK, Sent
  <2>7. \A d \in Client \ {c} :
           /\ d \in Range(clnts') <=> d \in Range(clnts)
           /\ cstate'[d] = cstate[d] /\ request'[d] = request[d]
           /\ inbox'[d] = inbox[d] /\ out'[d] = out[d]
    BY <1>1, <1>2 DEF ChannelInv, Library
  <2> QED
    BY <2>6, <2>7, TalksStep DEF ChannelInv
<1> QED
  BY <1>3, <1>4, <1>5, <1>6, <1>7, <1>8 DEF ChannelInv

-----------------------------------------------------------------------------
LEMMA InitChannel == Init => ChannelInv
<1> SUFFICES ASSUME Init
             PROVE  ChannelInv
  OBVIOUS
<1>1. Range(<<>>) = {} /\ IsInjective(<<>>) /\ <<>> \in Seq(Client) /\ <<>> \in Seq(Message)
  BY DEF Range, IsInjective
<1>2. Scheduled
  <2>1. INTERACTIVE \in 1 .. 3 /\ FALSE \in BOOLEAN
    BY DEF INTERACTIVE
  <2>2. Cleared(INTERACTIVE, FALSE) \in ChannelState /\ Cleared(INTERACTIVE, FALSE).cycle <= 2
    <3> HIDE DEF INTERACTIVE
    <3> QED
      BY <2>1, ClearedTyped
  <2>3. chn = [c \in Client |-> Cleared(INTERACTIVE, FALSE)]
    BY DEF Init
  <2>4. chn \in States
    BY <2>2, <2>3 DEF States
  <2>5. devPrio = 0 /\ alarm = "off" /\ aborted = FALSE
    BY DEF Init
  <2>6. devPrio \in 0 .. 3 /\ alarm \in {"off", "set", "fired"}
    BY <2>5
  <2>7. aborted \in BOOLEAN
    BY <2>5, Zenon
  <2> QED
    BY <2>4, <2>6, <2>7, Zenon DEF Scheduled
<1>3. Books
  BY <1>1 DEF Init, Books
<1>4. Wire
  <2>1. NoRequest \in Request
    BY DEF NoRequest, Request
  <2> QED
    BY <1>1, <2>1 DEF Init, Wire
<1>5. Library
  BY DEF Init, Library, ClientState
<1>6. Lists
  BY <1>1 DEF Init, Lists
<1>7. Talks
  <2> SUFFICES ASSUME NEW c \in Client
               PROVE  ClientOK(c \in Range(clnts), cstate[c], request[c], inbox[c], out[c])
    BY DEF Talks
  <2>1. /\ c \notin Range(clnts) /\ cstate[c] = "off" /\ request[c] = NoRequest
        /\ inbox[c] = <<>> /\ out[c] = NULL
    BY <1>1 DEF Init
  <2> QED
    BY <2>1 DEF ClientOK
<1> QED
  BY <1>2, <1>3, <1>4, <1>5, <1>6, <1>7 DEF ChannelInv

LEMMA NextChannel ==
  ASSUME ChannelInv, [Next]_vars
  PROVE  ChannelInv'
<1>1. CASE Daemon
  BY <1>1, StartsPass, EndsPass, Visits DEF Daemon
<1>2. CASE AlarmFires
  BY <1>2, TimePasses
<1>3. CASE \E c \in Client : \/ Expire(c) \/ Call(c) \/ Receive(c) \/ ReadSliced(c)
                             \/ \E s \in Services : Connect(c, s)
  BY <1>3, TimePasses, Calling, Receives, ReadsSliced, Connects
<1>4. CASE UNCHANGED vars
  <2>1. UNCHANGED <<clnts, at, busy, rd, ind, out, serv, request, inbox, clientVars>>
        /\ UNCHANGED <<chn, devPrio, alarm, aborted>>
    BY <1>4 DEF vars, daemonVars
  <2>2. Scheduled'
    BY <2>1 DEF ChannelInv, Scheduled
  <2> QED
    BY <2>1, <2>2, OnlyScheduled
<1> QED
  BY <1>1, <1>2, <1>3, <1>4 DEF Next

LEMMA AlwaysChannel == Spec => []ChannelInv
<1>1. ChannelInv /\ [Next]_vars => ChannelInv'
  BY NextChannel
<1> QED
  BY <1>1, InitChannel, PTL DEF Spec

\* However often a token is granted, reclaimed, returned and completed, alone or
\* in the loops of vbi_proxyd_channel_schedule and channel_update over all clients,
\* the cycle counters stay within 0 .. 2, and every variable has its type.
THEOREM CyclesBounded == Spec => []CycleBound
<1>1. ChannelInv => CycleBound
  BY Types DEF ChannelInv
<1> QED
  BY <1>1, AlwaysChannel, PTL

\* Each call of a client gets its own reply and no other, whatever the others do
\* and wherever the daemon is in its pass when a connection ends.
THEOREM EachCallOneReply == Spec => []RpcMatched
<1>1. ChannelInv => RpcMatched
  BY TalkMatches
<1> QED
  BY <1>1, AlwaysChannel, PTL

-----------------------------------------------------------------------------
(***************************************************************************)
(* The token.  A run of the scheduler moves it from the states s to the    *)
(* states t of the clients in L: nobody is taken for a holder, or for one  *)
(* who has been asked to return it, who was not before; and a client gets  *)
(* it only when nobody else has it.                                        *)
(***************************************************************************)
Has(s, c) == s[c].token \in {"grant", "granted", "reclaim", "release"}

Alone(t, L, c) == c \in Range(L) /\ \A d \in Range(L) \ {c} : ~Has(t, d)

Moved(s, t, L) ==
  \A c \in Client :
    /\ t[c].token \in {"granted", "reclaim"} => s[c].token \in {"granted", "reclaim"}
    /\ t[c].token = "release" => s[c].token = "release"
    /\ Has(t, c) => Has(s, c) \/ Alone(t, L, c)
    /\ c \notin Range(L) /\ s[c].token = "none" => t[c].token = "none"

LEMMA MovedTwice ==
  ASSUME NEW L \in Seq(Client), NEW s, NEW t, NEW u, Moved(s, t, L), Moved(t, u, L)
  PROVE  Moved(s, u, L)
<1> SUFFICES ASSUME NEW c \in Client, Has(u, c)
             PROVE  Has(s, c) \/ Alone(u, L, c)
  BY DEF Moved
<1>1. Has(t, c) \/ Alone(u, L, c)
  BY DEF Moved
<1>2. CASE Has(t, c)
  <2>1. Has(s, c) \/ Alone(t, L, c)
    BY <1>2 DEF Moved
  <2>2. ASSUME Alone(t, L, c)
        PROVE  Alone(u, L, c)
    <3> SUFFICES ASSUME NEW d \in Range(L) \ {c}, Has(u, d)
                 PROVE  FALSE
      BY <2>2 DEF Alone
    <3>1. d \in Client /\ ~Has(t, d)
      BY <2>2 DEF Alone, Range
    <3>2. Alone(u, L, d)
      BY <3>1 DEF Moved
    <3> QED
      BY <2>2, <3>2 DEF Alone
  <2> QED
    BY <2>1, <2>2
<1> QED
  BY <1>1, <1>2

\* Tokens that are kept, or only taken away.
Weakened(s, t) ==
  \A c \in Client :
    \/ t[c].token = s[c].token
    \/ s[c].token = "granted" /\ t[c].token = "reclaim"
    \/ t[c].token = "none"

LEMMA WeakenedMoved ==
  ASSUME NEW s, NEW t, NEW L, Weakened(s, t)
  PROVE  Moved(s, t, L)
  BY DEF Weakened, Moved, Has

LEMMA StoppedWeakens ==
  ASSUME NEW s \in States, NEW L \in Seq(Client), NEW c \in Range(L)
  PROVE  Weakened(s, Stopped(s, L, c))
  BY StoppedKeeps DEF Weakened

\* The states that can be reached from s by such steps.
Reached(s, L) == {t \in States : Moved(s, t, L)}

LEMMA ReachedClosed ==
  ASSUME NEW s \in States, NEW L \in Seq(Client)
  PROVE  Closed(Reached(s, L), L) /\ s \in Reached(s, L)
<1>1. ASSUME NEW t \in Reached(s, L), NEW c \in Range(L)
      PROVE  Completed(t, L, c) \in Reached(s, L) /\ Stopped(t, L, c) \in Reached(s, L)
  <2>1. t \in States /\ Moved(s, t, L)
    BY DEF Reached
  <2>2. Weakened(t, Completed(t, L, c)) /\ Weakened(t, Stopped(t, L, c))
    BY <2>1, CompletedKeeps, StoppedWeakens DEF Weakened
  <2>3. Moved(t, Completed(t, L, c), L) /\ Moved(t, Stopped(t, L, c), L)
    BY <2>2, WeakenedMoved
  <2>4. Moved(s, Completed(t, L, c), L) /\ Moved(s, Stopped(t, L, c), L)
    BY <2>1, <2>3, MovedTwice
  <2> QED
    BY <2>1, <2>4, CompletedTyped, StoppedTyped DEF Reached
<1>2. Weakened(s, s)
  BY DEF Weakened
<1> QED
  BY <1>1, <1>2, WeakenedMoved DEF Closed, Reached

\* vbi_proxyd_get_token_owner finds one owner.
LEMMA OneOwnerFound ==
  ASSUME NEW s, NEW L \in Seq(Client), ~(Cardinality(Owners(s, L)) > 1),
         NEW c \in Owners(s, L), NEW d \in Owners(s, L)
  PROVE  c = d
<1>1. IsFiniteSet(Owners(s, L))
  <2>1. Owners(s, L) \subseteq Client
    BY DEF Owners, Range
  <2> QED
    BY <2>1, SchedulerAssumption, FS_Subset
<1>2. Cardinality(Owners(s, L)) \in Nat /\ Cardinality(Owners(s, L)) <= 1
  BY <1>1, FS_CardinalityType
<1> SUFFICES ASSUME c # d
             PROVE  FALSE
  OBVIOUS
<1>3. {c, d} \subseteq Owners(s, L)
  OBVIOUS
<1>4. Cardinality({c, d}) = 2
  <2>1. IsFiniteSet({c}) /\ Cardinality({c}) = 1
    BY FS_Singleton
  <2>2. d \notin {c}
    OBVIOUS
  <2>3. Cardinality({c} \cup {d}) = Cardinality({c}) + 1
    BY <2>1, <2>2, FS_AddElement
  <2>4. {c, d} = {c} \cup {d}
    BY Zenon
  <2>5. Cardinality({c, d}) = Cardinality({c}) + 1
    BY <2>3, <2>4, Zenon
  <2>6. Cardinality({c}) + 1 = 2
    BY <2>1
  <2> QED
    BY <2>5, <2>6, Zenon
<1>5. Cardinality({c, d}) <= Cardinality(Owners(s, L))
  BY <1>1, <1>3, FS_Subset
<1> QED
  BY <1>2, <1>4, <1>5

\* Then vbi_proxyd_token_grant takes the token from that one only.
LEMMA GrantMoves ==
  ASSUME NEW s \in States, NEW L \in Seq(Client), NEW c \in Range(L),
         s[c].token = "none" => ~(Cardinality(Owners(s, L)) > 1)
  PROVE  Moved(s, TokenGrant(s, L, c), L)
<1>1. c \in Client /\ \A d \in Client : s[d] \in ChannelState
  BY DEF Range, States
<1>2. ASSUME NEW d \in Client, NEW k \in TokenState
      PROVE  [s[d] EXCEPT !.token = k].token = k
  BY <1>1 DEF ChannelState
<1>3. {"none", "reclaim", "grant", "granted"} \subseteq TokenState
  BY DEF TokenState
<1> DEFINE t == TokenGrant(s, L, c)
<1>4. CASE s[c].token = "none" /\ MustReclaim(s, L, c)
  <2>1. PICK o \in Owners(s, L) : s[o].token \notin {"grant", "returned"}
    BY <1>4 DEF MustReclaim
  <2>2. \A d \in Owners(s, L) : d = o
    BY <1>4, <2>1, OneOwnerFound
  <2>3. s[o].token \in {"granted", "reclaim", "release"} /\ o \in Client
    BY <1>1, <2>1 DEF Owners, Range, ChannelState, TokenState
  <2>4. t = [d \in Client |-> IF d \in Owners(s, L) /\ s[d].token # "release"
                              THEN [s[d] EXCEPT !.token = "reclaim"] ELSE s[d]]
    BY <1>4 DEF TokenGrant
  <2>5. \A d \in Client : t[d].token = s[d].token \/ (d = o /\ s[o].token # "release" /\ t[d].token = "reclaim")
    BY <1>2, <1>3, <2>2, <2>4
  <2> HIDE DEF t
  <2>6. \A d \in Client : d = o => d \in Range(L)
    BY <2>1 DEF Owners
  <2> QED
    BY <2>3, <2>5, <2>6 DEF Moved, Has, t
<1>5. CASE s[c].token = "none" /\ ~MustReclaim(s, L, c)
  <2>1. t = [d \in Client |-> IF d = c THEN [s[d] EXCEPT !.token = "grant"]
                              ELSE IF d \in Owners(s, L) THEN [s[d] EXCEPT !.token = "none"]
                              ELSE s[d]]
    BY <1>5 DEF TokenGrant
  <2>2. \A d \in Client \ {c} : t[d].token = "none" \/ (d \notin Owners(s, L) /\ t[d].token = s[d].token)
    BY <1>2, <1>3, <2>1
  <2>3. t[c].token = "grant"
    <3>1. t[c] = [s[c] EXCEPT !.token = "grant"]
      BY <1>1, <2>1
    <3> HIDE DEF t
    <3> QED
      BY <1>1, <1>2, <1>3, <3>1
  <2>4. \A d \in Range(L) \ {c} : d \in Client /\ t[d].token = "none"
    BY <2>2 DEF Owners, Range
  <2> HIDE DEF t
  <2>5. Alone(t, L, c)
    BY <2>4 DEF Alone, Has
  <2> QED
    BY <2>2, <2>3, <2>5 DEF Moved, Has, t
<1>6. CASE s[c].token # "none"
  <2>1. \A d \in Client \ {c} : t[d].token = s[d].token
    BY <1>1, <1>6 DEF TokenGrant
  <2>2. \/ t[c].token = s[c].token
        \/ s[c].token = "reclaim" /\ t[c].token = "granted"
        \/ s[c].token = "release" /\ t[c].token = "grant"
    BY <1>1, <1>2, <1>3, <1>6 DEF TokenGrant, States
  <2> HIDE DEF t
  <2> QED
    BY <1>1, <2>1, <2>2 DEF Moved, Has, t
<1> QED
  BY <1>4, <1>5, <1>6

LEMMA StartedKeeps ==
  ASSUME NEW s \in States, NEW c \in Client, NEW tie, NEW d \in Client
  PROVE  Started(s, c, tie)[d].token = s[d].token
<1> DEFINE ranks    == {s[x].rank : x \in Client \ {c}}
           top      == Max(ranks \cup {0})
           mine     == IF tie /\ top > 0 THEN top ELSE top + 1
           dense(r) == Cardinality({x \in ranks \cup {mine} : 0 < x /\ x <= r})
           t        == [s EXCEPT ![c].rank = mine, ![c].completed = FALSE,
                                 ![c].expired = (MinDuration[c] = 0)]
<1>1. Started(s, c, tie) = [x \in Client |-> [t[x] EXCEPT !.rank = dense(@)]]
  BY DEF Started
<1> HIDE DEF mine, dense
<1>2. s \in [Client -> ChannelState]
  BY DEF States
<1>3. t[d].token = s[d].token /\ "token" \in DOMAIN t[d]
  BY <1>2 DEF ChannelState
<1> HIDE DEF t
<1> QED
  BY <1>1, <1>3

LEMMA ChannelUpdateMoves ==
  ASSUME NEW s \in States, NEW L \in Seq(Client), NEW forced \in BOOLEAN,
         NEW u \in ChannelUpdate(s, L, forced), ~u.abort
  PROVE  Moved(s, u.chn, L)
<1> DEFINE top == TopPrio(s, L)
           s1  == IF top > BACKGROUND \/ forced THEN StopAll(s, L) ELSE s
           r   == IF top = BACKGROUND THEN Schedule(s1, L) ELSE [chn |-> s1, sched |-> NULL]
<1>1. s1 \in Reached(s, L)
  BY StopAllTyped, ReachedClosed
<1>2. r.chn \in Reached(s, L) /\ r.sched \in Range(L) \cup {NULL}
  <2> HIDE DEF s1
  <2>1. CASE top = BACKGROUND
    BY <1>1, <2>1, ScheduleTyped, ReachedClosed DEF Chosen
  <2>2. CASE top # BACKGROUND
    BY <1>1, <2>2
  <2> QED
    BY <2>1, <2>2
<1>3. PICK tie \in BOOLEAN : u = Effect(r, L, forced, tie)
  BY DEF ChannelUpdate
<1> HIDE DEF r
<1>4. r.chn \in States /\ Moved(s, r.chn, L)
  BY <1>2 DEF Reached
<1>5. CASE r.sched = NULL \/ Controls(r.chn, r.sched)
  BY <1>3, <1>4, <1>5 DEF Effect
<1>6. CASE ~(r.sched = NULL \/ Controls(r.chn, r.sched))
  <2>1. r.sched \in Range(L) /\ r.sched \in Client
    BY <1>2, <1>6 DEF Range
  <2>2. PICK g : g = TokenGrant(r.chn, L, r.sched)
    OBVIOUS
  <2>3. PICK h : h = Started(g, r.sched, tie)
    OBVIOUS
  <2>4. u = [chn   |-> IF MustReclaim(r.chn, L, r.sched) THEN g ELSE h,
             abort |-> /\ r.chn[r.sched].token = "none"
                       /\ Cardinality(Owners(r.chn, L)) > 1,
             flush |-> FALSE]
    BY <1>3, <1>6, <2>2, <2>3 DEF Effect
  <2>5. u.chn = (IF MustReclaim(r.chn, L, r.sched) THEN g ELSE h)
    BY <2>4, Zenon
  <2>6. u.abort = (r.chn[r.sched].token = "none" /\ Cardinality(Owners(r.chn, L)) > 1)
    BY <2>4, Zenon
  <2>7. Moved(r.chn, g, L) /\ g \in States
    BY <1>4, <2>1, <2>2, <2>6, GrantMoves, TokenGrantTyped
  <2>8. \A d \in Client : h[d].token = g[d].token
    BY <2>1, <2>3, <2>7, StartedKeeps
  <2>9. Moved(g, u.chn, L)
    BY <2>5, <2>8, WeakenedMoved DEF Weakened
  <2> QED
    BY <1>4, <2>7, <2>9, MovedTwice
<1> QED
  BY <1>5, <1>6

\* vbi_proxyd_channel_update, with the token that goes out with the reply to req.
LEMMA UpdateMoves ==
  ASSUME NEW s \in States, NEW L \in Seq(Client), NEW forced \in BOOLEAN, NEW req,
         Update(s, L, forced, req), ~aborted'
  PROVE  \E t \in States :
           /\ Moved(s, t, L)
           /\ \A c \in Client :
                \/ chn'[c].token = t[c].token
                \/ c = req /\ t[c].token = "grant" /\ chn'[c].token = "granted"
<1>1. PICK u \in ChannelUpdate(s, L, forced) :
        /\ chn' = [c \in Client |-> IF c = req /\ u.chn[c].token = "grant"
                                    THEN [u.chn[c] EXCEPT !.token = "granted"] ELSE u.chn[c]]
        /\ aborted' = (u.abort \/ (u.flush /\ ~Capture(L, serv)))
  BY Zenon DEF Update
<1>2. u.chn \in States
  BY ChannelUpdateTyped
<1>3. Moved(s, u.chn, L)
  BY <1>1, ChannelUpdateMoves
<1>4. ASSUME NEW c \in Client
      PROVE  \/ chn'[c].token = u.chn[c].token
             \/ c = req /\ u.chn[c].token = "grant" /\ chn'[c].token = "granted"
  BY <1>1, <1>2 DEF States, ChannelState
<1> QED
  BY <1>2, <1>3, <1>4

AtMostOne(s, L) == \A c, d \in Range(L) : Has(s, c) /\ Has(s, d) => c = d

LEMMA UpdateTokens ==
  ASSUME NEW s \in States, NEW L \in Seq(Client), NEW forced \in BOOLEAN, NEW req,
         req \in Range(L) \/ req \notin Client,
         Update(s, L, forced, req) \/ NoUpdate(s), ~aborted'
  PROVE  /\ AtMostOne(s, L) => AtMostOne(chn', L)
         /\ \A c \in Client :
              /\ chn'[c].token \in {"granted", "reclaim"} =>
                   \/ s[c].token \in {"granted", "reclaim"}
                   \/ c = req /\ chn'[c].token = "granted"
              /\ chn'[c].token = "release" => s[c].token = "release"
              /\ c \notin Range(L) /\ s[c].token = "none" => chn'[c].token = "none"
<1>1. CASE NoUpdate(s)
  BY <1>1 DEF NoUpdate
<1>2. CASE Update(s, L, forced, req)
  <2>1. PICK t \in States :
           /\ Moved(s, t, L)
           /\ \A c \in Client :
                \/ chn'[c].token = t[c].token
                \/ c = req /\ t[c].token = "grant" /\ chn'[c].token = "granted"
    BY <1>2, UpdateMoves
  <2>2. \A c \in Client : Has(chn', c) <=> Has(t, c)
    BY <2>1 DEF Has
  <2>3. ASSUME AtMostOne(s, L), NEW c \in Range(L), NEW d \in Range(L), Has(chn', c), Has(chn', d)
        PROVE  c = d
    <3>1. c \in Client /\ d \in Client
      BY DEF Range
    <3>2. Has(t, c) /\ Has(t, d)
      BY <2>2, <2>3, <3>1
    <3>3. (Has(s, c) \/ Alone(t, L, c)) /\ (Has(s, d) \/ Alone(t, L, d))
      BY <2>1, <3>1, <3>2 DEF Moved
    <3> QED
      BY <2>3, <3>2, <3>3 DEF AtMostOne, Alone
  <2> QED
    BY <2>1, <2>3 DEF AtMostOne, Moved
<1> QED
  BY <1>1, <1>2

(***************************************************************************)
(* What is known of one client, with token state t, library state cs,      *)
(* request rq, messages i and o, events e, and what its application        *)
(* believes, a.                                                            *)
(***************************************************************************)
UnderWay(i, o, m) == o = m \/ m \in Range(i)

GivesBack(rq, i, o, e) ==
  \/ UnderWay(i, o, "reclaim_req") \/ "reclaimed" \in e
  \/ rq.type = "notify" /\ rq.flags \cap {"TOKEN", "RELEASE"} # {}
  \/ rq.type = "token"

Word(t, cs, rq, i, o, e, a) ==
  cs # "error" =>
    /\ t = "release" => GivesBack(rq, i, o, e)
    /\ t \in {"granted", "reclaim"} =>
         \/ GivesBack(rq, i, o, e) \/ a # "idle" \/ "granted" \in e
         \/ UnderWay(i, o, "token_ind") \/ UnderWay(i, o, "token_yes")

TokenInv ==
  ~aborted =>
    /\ AtMostOne(chn, clnts)
    /\ \A c \in Client \ Range(clnts) : chn[c].token = "none"
    /\ \A c \in Range(clnts) :
         Word(chn[c].token, cstate[c], request[c], inbox[c], out[c], ev[c], app[c])

LEMMA TokenMatches == TokenInv => OneHolder /\ TokenNotLost
<1>1. TokenInv => OneHolder
  BY DEF TokenInv, OneHolder, AtMostOne, Granted, Has
<1>2. TokenInv => TokenNotLost
  BY DEF TokenInv, TokenNotLost, Word, GivesBack, UnderWay, Returning, Coming, Holds
<1> QED
  BY <1>1, <1>2

\* The word of a client stays good when its token is taken away.
LEMMA WordKept ==
  ASSUME NEW t, NEW u, NEW cs, NEW rq, NEW i, NEW o, NEW e, NEW a,
         Word(t, cs, rq, i, o, e, a),
         u \in {"granted", "reclaim"} => t \in {"granted", "reclaim"},
         u = "release" => t = "release"
  PROVE  Word(u, cs, rq, i, o, e, a)
  BY DEF Word

\* A step about the client c.
LEMMA TokenStep ==
  ASSUME ChannelInv, TokenInv, ~aborted, NEW c \in Client,
         \A d \in Client \ {c} :
           /\ d \in Range(clnts') <=> d \in Range(clnts)
           /\ cstate'[d] = cstate[d] /\ request'[d] = request[d]
           /\ inbox'[d] = inbox[d] /\ out'[d] = out[d]
           /\ ev'[d] = ev[d] /\ app'[d] = app[d]
           /\ chn'[d].token \in {"granted", "reclaim"} => chn[d].token \in {"granted", "reclaim"}
           /\ chn'[d].token = "release" => chn[d].token = "release"
           /\ d \notin Range(clnts') /\ chn[d].token = "none" => chn'[d].token = "none",
         Range(clnts') \subseteq Client, AtMostOne(chn', clnts'),
         c \notin Range(clnts') => chn'[c].token = "none",
         c \in Range(clnts') =>
           Word(chn'[c].token, cstate'[c], request'[c], inbox'[c], out'[c], ev'[c], app'[c])
  PROVE  TokenInv'
<1>1. ASSUME NEW d \in Client \ Range(clnts')
      PROVE  chn'[d].token = "none"
  BY <1>1 DEF TokenInv
<1>2. ASSUME NEW d \in Range(clnts')
      PROVE  Word(chn'[d].token, cstate'[d], request'[d], inbox'[d], out'[d], ev'[d], app'[d])
  <2>1. CASE d = c
    BY <1>2, <2>1
  <2>2. CASE d # c
    <3>1. d \in Client \ {c} /\ d \in Range(clnts)
      BY <1>2, <2>2
    <3>2. Word(chn[d].token, cstate[d], request[d], inbox[d], out[d], ev[d], app[d])
      BY <3>1 DEF TokenInv
    <3>3. Word(chn'[d].token, cstate[d], request[d], inbox[d], out[d], ev[d], app[d])
      BY <3>1, <3>2, WordKept
    <3> QED
      BY <3>1, <3>3
  <2> QED
    BY <2>1, <2>2
<1> QED
  BY <1>1, <1>2 DEF TokenInv

\* A step of the client c, which leaves the daemon alone.
LEMMA ClientToken ==
  ASSUME ChannelInv, TokenInv, ~aborted, NEW c \in Client, UNCHANGED daemonVars,
         \A d \in Client \ {c} :
           /\ cstate'[d] = cstate[d] /\ request'[d] = request[d] /\ inbox'[d] = inbox[d]
           /\ ev'[d] = ev[d] /\ app'[d] = app[d],
         c \in Range(clnts) =>
           Word(chn[c].token, cstate'[c], request'[c], inbox'[c], out[c], ev'[c], app'[c])
  PROVE  TokenInv'
<1>1. UNCHANGED <<clnts, chn, out>>
  BY DEF daemonVars
<1>2. Range(clnts') \subseteq Client
  BY <1>1, Member
<1>3. AtMostOne(chn', clnts') /\ (c \notin Range(clnts') => chn'[c].token = "none")
  BY <1>1 DEF TokenInv
<1> QED
  BY <1>1, <1>2, <1>3, TokenStep

LEMMA TokenOf ==
  ASSUME ChannelInv, TokenInv, ~aborted, NEW c \in Range(clnts)
  PROVE  Word(chn[c].token, cstate[c], request[c], inbox[c], out[c], ev[c], app[c])
  BY DEF TokenInv

\* Between two calls there is no request.
LEMMA NoneAsked ==
  ASSUME ChannelInv, NEW c \in Client, cstate[c] = "capturing"
  PROVE  request[c] = NoRequest
<1>1. Talk("capturing", request[c], Sent(inbox[c], out[c]))
  BY Connected DEF ClientOK
<1>2. request[c] \in Request
  BY DEF ChannelInv, Wire
<1> QED
  BY <1>1, <1>2, RequestTypes, Waits DEF Talk, Waiting

\* An application that gives the token up says so.
LEMMA CallKeepsToken ==
  ASSUME ChannelInv, TokenInv, ~aborted, NEW c \in Client, Call(c)
  PROVE  TokenInv'
<1> DEFINE i == inbox[c]
           o == out[c]
<1>1. /\ \A d \in Client : inbox'[d] = inbox[d]
      /\ UNCHANGED daemonVars
      /\ \A d \in Client \ {c} :
           /\ cstate'[d] = cstate[d] /\ request'[d] = request[d]
           /\ ev'[d] = ev[d] /\ app'[d] = app[d]
  <2>1. /\ UNCHANGED <<daemonVars, inbox>>
        /\ \E cs : cstate' = [cstate EXCEPT ![c] = cs]
        /\ \E r : request' = [request EXCEPT ![c] = r]
        /\ \E e : ev' = [ev EXCEPT ![c] = e]
        /\ \E a : app' = [app EXCEPT ![c] = a]
    <3>1. /\ request = [request EXCEPT ![c] = request[c]]
          /\ ev = [ev EXCEPT ![c] = ev[c]]
          /\ app = [app EXCEPT ![c] = app[c]]
      BY DEF ChannelInv, Wire, Library
    <3> QED
      BY <3>1, Zenon DEF Call, ChannelRequest, ChannelNotify, UpdateServices, DeviceIoctl, HangUp, Send
  <2> QED
    BY <2>1 DEF ChannelInv, Wire, Library
<1> SUFFICES ASSUME c \in Range(clnts)
             PROVE  Word(chn[c].token, cstate'[c], request'[c], i, o, ev'[c], app'[c])
  BY <1>1, ClientToken
<1>2. Word(chn[c].token, cstate[c], request[c], i, o, ev[c], app[c])
  BY TokenOf
<1>3. CASE \E p \in Prios : ChannelRequest(c, p, TRUE) \/ ChannelRequest(c, p, FALSE)
  <2>1. request'[c].type = "token"
    BY <1>3 DEF ChannelRequest, Send, ChannelInv, Wire
  <2> QED
    BY <2>1 DEF Word, GivesBack
<1>4. CASE ChannelNotify(c, {"FLUSH"})
  <2>1. request[c] = NoRequest /\ cstate[c] = "capturing"
    BY <1>4, NoneAsked DEF ChannelNotify, Send
  <2>2. /\ ev'[c] = ev[c]
        /\ app[c] # "idle" => app'[c] # "idle"
    BY <1>4 DEF ChannelNotify, ChannelInv, Library
  <2> QED
    BY <1>2, <2>1, <2>2 DEF Word, GivesBack, NoRequest
<1>5. CASE ChannelNotify(c, {"TOKEN", "FLUSH"}) \/ ChannelNotify(c, {"RELEASE"})
  <2>1. PICK f \in {{"TOKEN", "FLUSH"}, {"RELEASE"}} : ChannelNotify(c, f)
    BY <1>5
  <2>2. f \cap {"TOKEN", "RELEASE"} # {}
    BY <2>1
  <2>3. request'[c] = [type |-> "notify", flags |-> f]
    BY <2>1 DEF ChannelNotify, Send, ChannelInv, Wire
  <2>4. request'[c].type = "notify" /\ request'[c].flags \cap {"TOKEN", "RELEASE"} # {}
    BY <2>2, <2>3
  <2> QED
    BY <2>4 DEF Word, GivesBack
<1>6. CASE DeviceIoctl(c) \/ \E s \in Services : UpdateServices(c, s)
  <2>1. cstate[c] = "capturing" /\ UNCHANGED <<ev, app>>
    BY <1>6 DEF DeviceIoctl, UpdateServices, Send
  <2>2. request[c] = NoRequest
    BY <2>1, NoneAsked
  <2> QED
    BY <1>2, <2>1, <2>2 DEF Word, GivesBack, NoRequest
<1>7. CASE HangUp(c)
  <2>1. cstate'[c] = "error"
    BY <1>7 DEF HangUp, ChannelInv, Library
  <2> QED
    BY <2>1 DEF Word
<1> QED
  BY <1>3, <1>4, <1>5, <1>6, <1>7, Zenon DEF Call

\* The application is told of its events, and returns a reclaimed token.
LEMMA CallbackKeepsToken ==
  ASSUME ChannelInv, TokenInv, ~aborted, NEW c \in Client, UNCHANGED daemonVars,
         NEW i, inbox' = [inbox EXCEPT ![c] = i],
         NEW cs, cs # "error", NEW e, Callback(c, e),
         c \in Range(clnts) => Word(chn[c].token, cs, request[c], i, out[c], e, app[c])
  PROVE  TokenInv'
<1>1. inbox'[c] = i /\ \A d \in Client \ {c} : inbox'[d] = inbox[d]
  BY DEF ChannelInv, Wire
<1>2. ev' = [ev EXCEPT ![c] = {}]
  BY DEF Callback
<1>3. CASE "reclaimed" \in e
  <2>1. /\ cstate' = [cstate EXCEPT ![c] = "wait_notify"]
        /\ request' = [request EXCEPT ![c] = [type |-> "notify", flags |-> {"TOKEN"}]]
        /\ app' = [app EXCEPT ![c] = "idle"]
    BY <1>3 DEF Callback
  <2>2. request'[c].type = "notify" /\ request'[c].flags \cap {"TOKEN", "RELEASE"} # {}
    BY <2>1 DEF ChannelInv, Wire
  <2>3. \A d \in Client \ {c} :
          /\ cstate'[d] = cstate[d] /\ request'[d] = request[d]
          /\ ev'[d] = ev[d] /\ app'[d] = app[d]
    BY <1>2, <2>1 DEF ChannelInv, Library, Wire
  <2>4. Word(chn[c].token, cstate'[c], request'[c], inbox'[c], out[c], ev'[c], app'[c])
    BY <2>2 DEF Word, GivesBack
  <2> QED
    BY <1>1, <2>3, <2>4, ClientToken
<1>4. CASE "reclaimed" \notin e
  <2>1. /\ cstate' = [cstate EXCEPT ![c] = "capturing"]
        /\ app' = [app EXCEPT ![c] = IF "granted" \in e THEN "granted" ELSE @]
        /\ UNCHANGED request
    BY <1>4 DEF Callback
  <2>2. \A d \in Client \ {c} :
          /\ cstate'[d] = cstate[d] /\ request'[d] = request[d]
          /\ ev'[d] = ev[d] /\ app'[d] = app[d]
    BY <1>2, <2>1 DEF ChannelInv, Library, Wire
  <2>3. app'[c] = IF "granted" \in e THEN "granted" ELSE app[c]
    BY <2>1 DEF ChannelInv, Library
  <2>4. c \in Range(clnts) =>
          Word(chn[c].token, cstate'[c], request'[c], inbox'[c], out[c], ev'[c], app'[c])
    BY <1>1, <1>4, <2>1, <2>3 DEF Word, GivesBack
  <2> QED
    BY <1>1, <2>2, <2>4, ClientToken
<1> QED
  BY <1>3, <1>4

\* What a message said is kept as an event.
LEMMA WordRead ==
  ASSUME NEW c, NEW t, NEW cs, NEW rq, NEW i \in Seq(Message), i # <<>>, NEW o, NEW a,
         Word(t, cs, rq, i, o, ev[c], a), cs # "error", NEW ds
  PROVE  Word(t, ds, rq, Tail(i), o, TakeMessage(c, Head(i)), a)
<1> DEFINE m == Head(i)
           e == TakeMessage(c, m)
<1>1. \A k : k \in Range(i) => k = m \/ k \in Range(Tail(i))
  <2> SUFFICES ASSUME NEW n \in 1 .. Len(i), i[n] # m
               PROVE  i[n] \in Range(Tail(i))
    BY RangeIndex
  <2>1. n # 1 /\ Len(i) \in Nat
    OBVIOUS
  <2>2. n - 1 \in 1 .. Len(Tail(i)) /\ Tail(i)[n - 1] = i[n]
    BY <2>1
  <2>3. Tail(i) \in Seq(Message) /\ DOMAIN Tail(i) = 1 .. Len(Tail(i))
    OBVIOUS
  <2> HIDE DEF m
  <2>4. \A q \in Seq(Message) : \A k \in 1 .. Len(q) : q[k] \in Range(q)
    BY DEF Range
  <2>5. Tail(i)[n - 1] \in Range(Tail(i))
    BY <2>2, <2>3, <2>4
  <2> QED
    BY <2>2, <2>5
<1>2. m = "reclaim_req" \/ "reclaimed" \in ev[c] => "reclaimed" \in e
  BY DEF TakeMessage
<1>3. m \in {"token_ind", "token_yes"} => "granted" \in e
  BY DEF TakeMessage
<1>4. "granted" \in ev[c] => "granted" \in e \/ "reclaimed" \in e
  BY DEF TakeMessage
<1> HIDE DEF m, e
<1>5. GivesBack(rq, i, o, ev[c]) => GivesBack(rq, Tail(i), o, e)
  BY <1>1, <1>2 DEF GivesBack, UnderWay
<1>6. "reclaimed" \in e => GivesBack(rq, Tail(i), o, e)
  BY DEF GivesBack
<1>7. \A k \in {"token_ind", "token_yes"} :
        UnderWay(i, o, k) => UnderWay(Tail(i), o, k) \/ "granted" \in e
  BY <1>1, <1>3 DEF UnderWay
<1> QED
  BY <1>4, <1>5, <1>6, <1>7 DEF Word, m, e

LEMMA ReceiveKeepsToken ==
  ASSUME ChannelInv, TokenInv, ~aborted, NEW c \in Client, Receive(c)
  PROVE  TokenInv'
<1> DEFINE m == Head(inbox[c])
           e == TakeMessage(c, m)
           i == Tail(inbox[c])
<1>1. /\ cstate[c] # "off" /\ cstate[c] # "error" /\ inbox[c] # <<>>
      /\ inbox' = [inbox EXCEPT ![c] = i]
      /\ UNCHANGED daemonVars
  BY DEF Receive
<1>2. \/ /\ cstate' = [cstate EXCEPT ![c] = "error"]
         /\ app' = [app EXCEPT ![c] = "idle"]
         /\ UNCHANGED <<ev, request>>
      \/ /\ m = "service_cnf"
         /\ cstate' = [cstate EXCEPT ![c] = "capturing"]
         /\ UNCHANGED <<ev, app, request>>
      \/ Callback(c, e)
      \/ /\ ev' = [ev EXCEPT ![c] = e]
         /\ UNCHANGED <<cstate, app, request>>
  BY DEF Receive
<1>3. c \in Range(clnts) /\ inbox[c] \in Seq(Message)
  BY <1>1, Connected DEF ChannelInv, Wire
<1>4. \A cs : Word(chn[c].token, cs, request[c], i, out[c], e, app[c])
  <2>1. Word(chn[c].token, cstate[c], request[c], inbox[c], out[c], ev[c], app[c])
    BY <1>3, TokenOf
  <2> QED
    BY <1>1, <1>3, <2>1, WordRead
<1>5. m = "service_cnf" => e = ev[c]
  BY DEF TakeMessage
<1> HIDE DEF m, e, i
<1>6. inbox'[c] = i /\ \A d \in Client \ {c} : inbox'[d] = inbox[d]
  BY <1>1 DEF ChannelInv, Wire
<1>7. CASE /\ cstate' = [cstate EXCEPT ![c] = "error"]
           /\ app' = [app EXCEPT ![c] = "idle"]
           /\ UNCHANGED <<ev, request>>
  <2>1. cstate'[c] = "error" /\ \A d \in Client \ {c} : cstate'[d] = cstate[d] /\ app'[d] = app[d]
    BY <1>7 DEF ChannelInv, Library
  <2>2. Word(chn[c].token, cstate'[c], request'[c], inbox'[c], out[c], ev'[c], app'[c])
    BY <2>1 DEF Word
  <2> QED
    BY <1>1, <1>6, <1>7, <2>1, <2>2, ClientToken
<1>8. CASE /\ m = "service_cnf"
           /\ cstate' = [cstate EXCEPT ![c] = "capturing"]
           /\ UNCHANGED <<ev, app, request>>
  <2>1. \A d \in Client \ {c} : cstate'[d] = cstate[d]
    BY <1>8 DEF ChannelInv, Library
  <2>2. Word(chn[c].token, cstate'[c], request'[c], inbox'[c], out[c], ev'[c], app'[c])
    BY <1>4, <1>5, <1>6, <1>8
  <2> QED
    BY <1>1, <1>6, <1>8, <2>1, <2>2, ClientToken
<1>9. CASE Callback(c, e)
  BY <1>1, <1>4, <1>9, CallbackKeepsToken
<1>10. CASE /\ ev' = [ev EXCEPT ![c] = e]
            /\ UNCHANGED <<cstate, app, request>>
  <2>1. ev'[c] = e /\ \A d \in Client \ {c} : ev'[d] = ev[d]
    BY <1>10 DEF ChannelInv, Library
  <2>2. Word(chn[c].token, cstate'[c], request'[c], inbox'[c], out[c], ev'[c], app'[c])
    BY <1>4, <1>6, <1>10, <2>1
  <2> QED
    BY <1>1, <1>6, <1>10, <2>1, <2>2, ClientToken
<1> QED
  BY <1>2, <1>7, <1>8, <1>9, <1>10

LEMMA ReadKeepsToken ==
  ASSUME ChannelInv, TokenInv, ~aborted, NEW c \in Client, ReadSliced(c)
  PROVE  TokenInv'
<1>1. cstate[c] = "capturing" /\ Callback(c, ev[c]) /\ UNCHANGED <<daemonVars, inbox>>
  BY DEF ReadSliced
<1>2. inbox' = [inbox EXCEPT ![c] = inbox[c]]
  BY <1>1 DEF ChannelInv, Wire
<1>3. c \in Range(clnts) =>
        Word(chn[c].token, "capturing", request[c], inbox[c], out[c], ev[c], app[c])
  BY <1>1, TokenOf
<1> QED
  BY <1>1, <1>2, <1>3, CallbackKeepsToken

LEMMA ConnectKeepsToken ==
  ASSUME ChannelInv, TokenInv, ~aborted, NEW c \in Client, NEW s \in Services, Connect(c, s)
  PROVE  TokenInv'
<1>1. /\ c \notin Range(clnts) /\ clnts' = Append(clnts, c)
      /\ cstate' = [cstate EXCEPT ![c] = "capturing"]
      /\ ev' = [ev EXCEPT ![c] = {}]
      /\ UNCHANGED <<chn, out, request, inbox, app>>
  BY DEF Connect
<1>2. Range(clnts') = Range(clnts) \cup {c} /\ Range(clnts) \subseteq Client
  <2>1. clnts \in Seq(Client) /\ IsInjective(clnts)
    BY DEF ChannelInv, Books, Lists
  <2>2. Range(clnts) \subseteq Client
    BY <2>1 DEF Range
  <2> QED
    BY <1>1, <2>1, <2>2, AppendDistinct
<1>3. chn'[c].token = "none"
  BY <1>1 DEF TokenInv
<1>4. AtMostOne(chn', clnts')
  BY <1>1, <1>2, <1>3 DEF TokenInv, AtMostOne, Has
<1>5. \A d \in Client \ {c} :
        /\ d \in Range(clnts') <=> d \in Range(clnts)
        /\ cstate'[d] = cstate[d] /\ ev'[d] = ev[d]
  BY <1>1, <1>2 DEF ChannelInv, Library
<1>6. Word(chn'[c].token, cstate'[c], request'[c], inbox'[c], out'[c], ev'[c], app'[c])
  BY <1>3 DEF Word
<1> QED
  BY <1>1, <1>2, <1>3, <1>4, <1>5, <1>6, TokenStep

\* A step of the daemon about the client c, in which the scheduler may run.
LEMMA ScheduledStep ==
  ASSUME ChannelInv, TokenInv, ~aborted, ~aborted', NEW c \in Client, clnts' \in Seq(Client),
         \A d \in Client \ {c} :
           /\ d \in Range(clnts') <=> d \in Range(clnts)
           /\ cstate'[d] = cstate[d] /\ request'[d] = request[d]
           /\ inbox'[d] = inbox[d] /\ out'[d] = out[d],
         UNCHANGED <<ev, app>>,
         NEW s \in States, \A d \in Client \ {c} : s[d].token = chn[d].token,
         s[c].token \in {"none", "returned", chn[c].token},
         c \notin Range(clnts') => s[c].token = "none",
         c \in Range(clnts') => c \in Range(clnts),
         NEW forced \in BOOLEAN, NEW req, req \in Range(clnts') \/ req \notin Client,
         req = c \/ req \notin Client,
         Update(s, clnts', forced, req) \/ NoUpdate(s),
         c \in Range(clnts') =>
           Word(chn'[c].token, cstate'[c], request'[c], inbox'[c], out'[c], ev'[c], app'[c])
  PROVE  TokenInv'
<1>1. Range(clnts') \subseteq Client
  BY DEF Range
<1>2. ASSUME NEW d \in Range(clnts'), Has(s, d)
      PROVE  d \in Range(clnts) /\ Has(chn, d)
  BY <1>1, <1>2 DEF Has
<1>3. AtMostOne(s, clnts')
  BY <1>2 DEF TokenInv, AtMostOne
<1>4. /\ AtMostOne(chn', clnts')
      /\ \A d \in Client :
           /\ chn'[d].token \in {"granted", "reclaim"} =>
                \/ s[d].token \in {"granted", "reclaim"}
                \/ d = req /\ chn'[d].token = "granted"
           /\ chn'[d].token = "release" => s[d].token = "release"
           /\ d \notin Range(clnts') /\ s[d].token = "none" => chn'[d].token = "none"
  BY <1>3, UpdateTokens
<1>5. \A d \in Client \ {c} :
        /\ chn'[d].token \in {"granted", "reclaim"} => chn[d].token \in {"granted", "reclaim"}
        /\ chn'[d].token = "release" => chn[d].token = "release"
        /\ d \notin Range(clnts') /\ chn[d].token = "none" => chn'[d].token = "none"
  BY <1>4
<1>6. c \notin Range(clnts') => chn'[c].token = "none"
  BY <1>4
<1> QED
  BY <1>1, <1>4, <1>5, <1>6, TokenStep

\* A client that asks again has given up the token.
LEMMA TakenTokenReq ==
  ASSUME ChannelInv, TokenInv, ~aborted, ~aborted', NEW c, Visited(c), c \in rd,
         TakeTokenReq(c), UNCHANGED <<inbox, clientVars>>
  PROVE  TokenInv'
<1> DEFINE s == [chn EXCEPT ![c] = Cleared(request[c].prio, request[c].valid)]
           m == IF chn'[c].token = "granted" THEN "token_yes" ELSE "token_no"
<1>1. c \in Client /\ request[c] \in Request /\ c \in Range(clnts) /\ clnts \in Seq(Client)
  BY Visiting, Member DEF ChannelInv, Books
<1>2. /\ request[c].type = "token" /\ Update(s, clnts, FALSE, c) /\ Reply(c, m)
      /\ UNCHANGED <<clnts, inbox, cstate, ev, app>>
  BY DEF TakeTokenReq, clientVars
<1>3. s \in States /\ s[c].token = "none" /\ \A d \in Client \ {c} : s[d].token = chn[d].token
  <2>1. request[c].prio \in 1 .. 3 /\ request[c].valid \in BOOLEAN
    BY <1>1, <1>2 DEF Request
  <2>2. chn \in States
    BY DEF ChannelInv, Scheduled
  <2>3. Cleared(request[c].prio, request[c].valid).token = "none"
    BY DEF Cleared
  <2>4. s[c].token = "none" /\ \A d \in Client \ {c} : s[d].token = chn[d].token
    BY <1>1, <2>2, <2>3 DEF States
  <2> QED
    BY <1>1, <2>1, <2>2, <2>4, ClearedTyped, StateWith
<1> HIDE DEF s
<1>4. out'[c] = m /\ \A d \in Client \ {c} : out'[d] = out[d] /\ request'[d] = request[d]
  BY <1>1, <1>2 DEF Reply, ChannelInv, Wire
<1>5. /\ chn'[c].token \in {"granted", "reclaim"} => chn'[c].token = "granted"
      /\ chn'[c].token # "release"
  BY <1>1, <1>2, <1>3, UpdateTokens
<1>6. Word(chn'[c].token, cstate'[c], request'[c], inbox'[c], out'[c], ev'[c], app'[c])
  BY <1>4, <1>5 DEF Word, UnderWay
<1> QED
  BY <1>1, <1>2, <1>3, <1>4, <1>6, ScheduledStep

\* What a notification does to the record of the caller.
LEMMA NotifiedTyped ==
  ASSUME NEW s \in States, NEW c \in Client, NEW f
  PROVE  /\ Notified(s, c, f) \in States
         /\ \A d \in Client \ {c} : Notified(s, c, f)[d] = s[d]
         /\ "RELEASE" \in f => Notified(s, c, f)[c].token = "none"
         /\ "RELEASE" \notin f /\ "TOKEN" \in f => Notified(s, c, f)[c].token = "returned"
         /\ "RELEASE" \notin f /\ "TOKEN" \notin f => Notified(s, c, f) = s
<1> DEFINE t == Notified(s, c, f)
<1>1. s[c] \in ChannelState /\ s[c].cycle <= 2 /\ s \in [Client -> ChannelState]
  BY DEF States
<1>2. CASE "RELEASE" \in f
  <2>1. PICK x : x = [s[c] EXCEPT !.token = "none", !.valid = FALSE]
    OBVIOUS
  <2>2. x \in ChannelState /\ x.cycle <= 2 /\ x.token = "none"
    BY <1>1, <2>1 DEF ChannelState, TokenState
  <2>3. t = [s EXCEPT ![c].token = "none", ![c].valid = FALSE]
    BY <1>2 DEF Notified
  <2>4. t = [s EXCEPT ![c] = x]
    BY <1>1, <2>1, <2>3
  <2>5. t[c] = x /\ \A d \in Client \ {c} : t[d] = s[d]
    BY <1>1, <2>4
  <2>6. t \in States
    BY <2>2, <2>4, StateWith
  <2> QED
    BY <1>2, <2>2, <2>5, <2>6
<1>3. CASE "RELEASE" \notin f /\ "TOKEN" \in f
  <2>1. PICK x : x = [s[c] EXCEPT !.token = "returned"]
    OBVIOUS
  <2>2. x \in ChannelState /\ x.cycle <= 2 /\ x.token = "returned"
    BY <1>1, <2>1 DEF ChannelState, TokenState
  <2>3. t = [s EXCEPT ![c] = x]
    BY <1>3, <2>1 DEF Notified
  <2>4. t[c] = x /\ \A d \in Client \ {c} : t[d] = s[d]
    BY <1>1, <2>3
  <2>5. t \in States
    BY <2>2, <2>3, StateWith
  <2> QED
    BY <1>3, <2>2, <2>4, <2>5
<1>4. CASE "RELEASE" \notin f /\ "TOKEN" \notin f
  BY <1>4 DEF Notified
<1> QED
  BY <1>2, <1>3, <1>4

\* Nothing is due to a client that has returned the token, or its claim.
LEMMA TakenNotifyReq ==
  ASSUME ChannelInv, TokenInv, ~aborted, ~aborted', NEW c, Visited(c), c \in rd,
         TakeNotifyReq(c), UNCHANGED <<inbox, clientVars>>
  PROVE  TokenInv'
<1> DEFINE f == request[c].flags
           s == Notified(chn, c, f)
           forced == "FLUSH" \in f /\ ~Controls(chn, c)
<1>1. c \in Client /\ request[c] \in Request /\ c \in Range(clnts) /\ clnts \in Seq(Client)
  BY Visiting, Member DEF ChannelInv, Books
<1>2. /\ request[c].type = "notify" /\ (Update(s, clnts, forced, NULL) \/ NoUpdate(s))
      /\ Reply(c, "notify_cnf")
      /\ UNCHANGED <<clnts, inbox, cstate, ev, app>>
  BY DEF TakeNotifyReq, clientVars
<1>3. chn \in States /\ chn[c] \in ChannelState /\ chn[c].cycle <= 2
  BY <1>1 DEF ChannelInv, Scheduled, States
<1>4. /\ s \in States /\ \A d \in Client \ {c} : s[d].token = chn[d].token
      /\ f \cap {"TOKEN", "RELEASE"} # {} => s[c].token \in {"none", "returned"}
      /\ f \cap {"TOKEN", "RELEASE"} = {} => s[c].token = chn[c].token
  <2>1. /\ s \in States /\ \A d \in Client \ {c} : s[d] = chn[d]
        /\ "RELEASE" \in f => s[c].token = "none"
        /\ "RELEASE" \notin f /\ "TOKEN" \in f => s[c].token = "returned"
        /\ "RELEASE" \notin f /\ "TOKEN" \notin f => s = chn
    BY <1>1, <1>3, NotifiedTyped
  <2> HIDE DEF s, f
  <2> QED
    BY <1>1, <2>1
<1> HIDE DEF s
<1>5. out'[c] = "notify_cnf" /\ \A d \in Client \ {c} : out'[d] = out[d] /\ request'[d] = request[d]
  BY <1>1, <1>2 DEF Reply, ChannelInv, Wire
<1>6. NULL \notin Client /\ forced \in BOOLEAN
  BY SchedulerAssumption DEF Controls
<1> HIDE DEF forced
<1>7. /\ chn'[c].token \in {"granted", "reclaim"} => s[c].token \in {"granted", "reclaim"}
      /\ chn'[c].token = "release" => s[c].token = "release"
  <2>1. c # NULL
    BY <1>1, <1>6
  <2> QED
    BY <1>1, <1>2, <1>4, <1>6, <2>1, UpdateTokens
<1>8. Word(chn'[c].token, cstate'[c], request'[c], inbox'[c], out'[c], ev'[c], app'[c])
  <2>1. CASE f \cap {"TOKEN", "RELEASE"} # {}
    BY <1>4, <1>7, <2>1 DEF Word
  <2>2. CASE f \cap {"TOKEN", "RELEASE"} = {}
    <3>1. Word(chn[c].token, cstate[c], request[c], inbox[c], out[c], ev[c], app[c])
      BY <1>1, TokenOf
    <3>2. out[c] = NULL
      BY Visiting DEF ChannelInv, Lists
    <3>3. Word(chn[c].token, cstate[c], request'[c], inbox[c], "notify_cnf", ev[c], app[c])
      <4>1. \A k \in {"reclaim_req", "token_ind", "token_yes"} :
              UnderWay(inbox[c], out[c], k) => UnderWay(inbox[c], "notify_cnf", k)
        BY <3>2, NullAssumption DEF UnderWay, Message
      <4>2. GivesBack(request[c], inbox[c], out[c], ev[c])
              => GivesBack(request'[c], inbox[c], "notify_cnf", ev[c])
        BY <1>2, <2>2, <4>1 DEF GivesBack
      <4> QED
        BY <3>1, <4>1, <4>2 DEF Word
    <3>4. Word(chn'[c].token, cstate[c], request'[c], inbox[c], "notify_cnf", ev[c], app[c])
      BY <1>4, <1>7, <2>2, <3>3, WordKept
    <3> QED
      BY <1>2, <1>5, <3>4
  <2> QED
    BY <2>1, <2>2
<1> QED
  BY <1>1, <1>2, <1>4, <1>5, <1>6, <1>8, ScheduledStep

\* The other requests are not about the token.
LEMMA TakenOtherReq ==
  ASSUME ChannelInv, TokenInv, ~aborted, ~aborted', NEW c, Visited(c), c \in rd,
         TakeServiceReq(c) \/ TakeIoctlReq(c), UNCHANGED <<inbox, clientVars>>
  PROVE  TokenInv'
<1>1. c \in Client /\ c \in Range(clnts) /\ clnts \in Seq(Client) /\ chn \in States
  BY Visiting, Member DEF ChannelInv, Books, Scheduled
<1>2. /\ request[c].type \in {"service", "ioctl"} /\ \E m : Reply(c, m)
      /\ UNCHANGED <<clnts, chn, inbox, cstate, ev, app>>
  BY Zenon DEF TakeServiceReq, TakeIoctlReq, clientVars
<1>3. PICK m : Reply(c, m)
  BY <1>2
<1>4. out'[c] = m /\ \A d \in Client \ {c} : out'[d] = out[d] /\ request'[d] = request[d]
  BY <1>1, <1>3 DEF Reply, ChannelInv, Wire
<1>5. Word(chn[c].token, cstate[c], request'[c], inbox[c], m, ev[c], app[c])
  <2>1. Word(chn[c].token, cstate[c], request[c], inbox[c], out[c], ev[c], app[c])
    BY <1>1, TokenOf
  <2>2. out[c] = NULL
    BY Visiting DEF ChannelInv, Lists
  <2>3. \A k \in {"reclaim_req", "token_ind", "token_yes"} :
          UnderWay(inbox[c], out[c], k) => UnderWay(inbox[c], m, k)
    BY <2>2, NullAssumption DEF UnderWay, Message
  <2>4. GivesBack(request[c], inbox[c], out[c], ev[c])
          => GivesBack(request'[c], inbox[c], m, ev[c])
    BY <1>2, <2>3 DEF GivesBack
  <2> QED
    BY <2>1, <2>3, <2>4 DEF Word
<1>6. Range(clnts') \subseteq Client /\ AtMostOne(chn', clnts')
  BY <1>1, <1>2 DEF TokenInv, AtMostOne, Range
<1> QED
  BY <1>1, <1>2, <1>4, <1>5, <1>6, TokenStep

\* The token of a client that is unlinked is gone.
LEMMA CloseKeepsToken ==
  ASSUME ChannelInv, TokenInv, ~aborted, ~aborted', NEW c, Visited(c), Close(c)
  PROVE  TokenInv'
<1>1. c \in Client
  BY Visiting, Member
<1> DEFINE L == RemoveFirst(clnts, c)
           s == [chn EXCEPT ![c] = Cleared(INTERACTIVE, FALSE)]
<1>2. /\ clnts' = L /\ (Update(s, L, FALSE, NULL) \/ NoUpdate(s))
      /\ out' = [out EXCEPT ![c] = NULL]
      /\ inbox' = [inbox EXCEPT ![c] = <<>>]
      /\ cstate' = [cstate EXCEPT ![c] = "off"]
      /\ request' = [request EXCEPT ![c] = NoRequest]
      /\ UNCHANGED <<ev, app>>
  BY DEF Close
<1>3. L \in Seq(Client) /\ Range(L) = Range(clnts) \ {c}
  BY Unlinked DEF ChannelInv, Books, Lists
<1>4. s \in States /\ s[c].token = "none" /\ \A d \in Client \ {c} : s[d].token = chn[d].token
  <2>1. INTERACTIVE \in 1 .. 3 /\ FALSE \in BOOLEAN
    BY DEF INTERACTIVE
  <2> HIDE DEF INTERACTIVE
  <2>2. PICK x : x = Cleared(INTERACTIVE, FALSE)
    OBVIOUS
  <2>3. x \in ChannelState /\ x.cycle <= 2
    BY <2>1, <2>2, ClearedTyped
  <2>4. x.token = "none"
    BY <2>2 DEF Cleared
  <2>5. chn \in States
    BY DEF ChannelInv, Scheduled
  <2>6. [chn EXCEPT ![c] = x] \in States
    BY <1>1, <2>3, <2>5, StateWith
  <2>7. s = [chn EXCEPT ![c] = x]
    BY <2>2
  <2> HIDE DEF s
  <2> QED
    BY <1>1, <2>4, <2>5, <2>6, <2>7 DEF States
<1> HIDE DEF L, s
<1>5. \A d \in Client \ {c} :
        /\ d \in Range(clnts') <=> d \in Range(clnts)
        /\ cstate'[d] = cstate[d] /\ request'[d] = request[d]
        /\ inbox'[d] = inbox[d] /\ out'[d] = out[d]
  BY <1>2, <1>3 DEF ChannelInv, Wire, Library
<1>6. c \notin Range(clnts') /\ NULL \notin Client /\ FALSE \in BOOLEAN
  BY <1>2, <1>3, SchedulerAssumption
<1> QED
  BY <1>1, <1>2, <1>3, <1>4, <1>5, <1>6, ScheduledStep

\* A message that has been written is on its way still.
LEMMA StillUnderWay ==
  ASSUME NEW i \in Seq(Message), NEW o \in Message, NEW m, NEW k, UnderWay(i, o, k)
  PROVE  UnderWay(Append(i, o), m, k)
<1>1. PICK a \in Seq(Message) : a = Append(i, o)
  <2>1. Append(i, o) \in Seq(Message)
    OBVIOUS
  <2> QED
    BY <2>1
<1>2. /\ Len(a) = Len(i) + 1 /\ Len(i) \in Nat /\ a[Len(i) + 1] = o
      /\ \A n \in 1 .. Len(i) : a[n] = i[n]
  BY <1>1
<1>3. Len(i) + 1 \in 1 .. Len(a) /\ \A n \in 1 .. Len(i) : n \in 1 .. Len(a)
  BY <1>2
<1>4. k = o \/ \E n \in 1 .. Len(i) : k = i[n]
  BY RangeIndex DEF UnderWay
<1>5. \E n \in 1 .. Len(a) : k = a[n]
  BY <1>2, <1>3, <1>4
<1>6. k \in Range(a)
  <2>1. DOMAIN a = 1 .. Len(a)
    OBVIOUS
  <2> QED
    BY <1>5, <2>1 DEF Range
<1> QED
  BY <1>1, <1>6 DEF UnderWay

LEMMA WriteKeepsToken ==
  ASSUME ChannelInv, TokenInv, ~aborted, NEW c, WriteClient(c)
  PROVE  TokenInv'
<1>1. Visited(c) /\ UNCHANGED <<clnts, request, cstate, ev, app>>
  BY DEF WriteClient, clientVars
<1>2. /\ c \in Range(clnts) /\ c \in Client /\ inbox[c] \in Seq(Message)
      /\ out[c] \in Message \cup {NULL} /\ Range(clnts) \subseteq Client
      /\ chn \in States
  BY <1>1, Visiting, Member DEF ChannelInv, Scheduled
<1>3. Word(chn[c].token, cstate[c], request[c], inbox[c], out[c], ev[c], app[c])
  BY <1>2, TokenOf
<1>4. CASE /\ ~(out[c] # NULL /\ ~Room(c))
           /\ IdleSend(c)
           /\ inbox' = IF out[c] = NULL THEN inbox ELSE [inbox EXCEPT ![c] = Append(@, out[c])]
  <2>1. PICK i : i = IF out[c] = NULL THEN inbox[c] ELSE Append(inbox[c], out[c])
    OBVIOUS
  <2>2. inbox' = [inbox EXCEPT ![c] = i]
    BY <1>2, <1>4, <2>1 DEF ChannelInv, Wire
  <2>3. PICK m, t : /\ out' = [out EXCEPT ![c] = m]
                    /\ chn' = [chn EXCEPT ![c].token = t]
                    /\ \/ t = "release" /\ m = "reclaim_req"
                       \/ t = "granted" /\ m = "token_ind" /\ chn[c].token = "grant"
                       \/ t = chn[c].token /\ t # "reclaim"
                    /\ Has(chn, c) \/ t = chn[c].token
    <3>1. chn = [chn EXCEPT ![c].token = chn[c].token]
      BY <1>2 DEF States, ChannelState
    <3> QED
      BY <1>4, <3>1 DEF IdleSend, Has
  <2>4. inbox'[c] = i /\ out'[c] = m /\ chn'[c].token = t
    BY <1>2, <2>2, <2>3 DEF ChannelInv, Wire, States, ChannelState
  <2>5. \A k \in {"reclaim_req", "token_ind", "token_yes"} :
          UnderWay(inbox[c], out[c], k) => UnderWay(i, m, k)
    <3>1. CASE out[c] = NULL
      BY <2>1, <3>1, NullAssumption DEF UnderWay, Message
    <3>2. CASE out[c] # NULL
      BY <1>2, <2>1, <3>2, StillUnderWay
    <3> QED
      BY <3>1, <3>2
  <2>6. Word(chn[c].token, cstate[c], request[c], i, m, ev[c], app[c])
    BY <1>3, <2>5 DEF Word, GivesBack
  <2>7. Word(t, cstate[c], request[c], i, m, ev[c], app[c])
    BY <2>3, <2>6 DEF Word, GivesBack, UnderWay
  <2>8. \A d \in Client \ {c} : inbox'[d] = inbox[d] /\ out'[d] = out[d] /\ chn'[d] = chn[d]
    BY <1>2, <2>2, <2>3 DEF ChannelInv, Wire, States
  <2>9. AtMostOne(chn', clnts')
    <3>1. \A d \in Range(clnts) : Has(chn', d) => Has(chn, d)
      BY <1>2, <2>3, <2>4, <2>8 DEF Has
    <3> QED
      BY <1>1, <3>1 DEF TokenInv, AtMostOne
  <2> QED
    BY <1>1, <1>2, <2>4, <2>7, <2>8, <2>9, TokenStep
<1>5. CASE UNCHANGED <<chn, ind, out, inbox>>
  <2>1. AtMostOne(chn', clnts')
    BY <1>1, <1>5 DEF TokenInv, AtMostOne
  <2> QED
    BY <1>1, <1>2, <1>3, <1>5, <2>1, TokenStep
<1> QED
  BY <1>4, <1>5 DEF WriteClient

LEMMA VisitKeepsToken ==
  ASSUME ChannelInv, TokenInv, NEW c, ReadClient(c) \/ WriteClient(c) \/ WriteFails(c)
  PROVE  TokenInv'
<1>1. Visited(c) /\ ~aborted
  BY DEF ReadClient, WriteClient, WriteFails, Visited
<1> SUFFICES ASSUME ~aborted'
             PROVE  TokenInv'
  BY DEF TokenInv
<1>2. CASE ReadClient(c)
  <2>1. c \in rd
    BY <1>2 DEF ReadClient
  <2>2. \/ /\ TakeTokenReq(c) \/ TakeNotifyReq(c) \/ TakeServiceReq(c) \/ TakeIoctlReq(c)
           /\ UNCHANGED <<inbox, clientVars>>
        \/ Close(c)
    BY <1>2 DEF ReadClient
  <2> QED
    BY <1>1, <2>1, <2>2, TakenTokenReq, TakenNotifyReq, TakenOtherReq, CloseKeepsToken
<1>3. CASE WriteClient(c)
  BY <1>1, <1>3, WriteKeepsToken
<1>4. CASE WriteFails(c)
  BY <1>1, <1>4, CloseKeepsToken DEF WriteFails
<1> QED
  BY <1>2, <1>3, <1>4

\* Nothing is done to the messages or the clients, and no token moves.
LEMMA TokensKept ==
  ASSUME TokenInv, ~aborted, AtMostOne(chn', clnts'),
         UNCHANGED <<clnts, out, request, inbox, cstate, ev, app>>,
         \A d \in Client :
           /\ chn'[d].token \in {"granted", "reclaim"} => chn[d].token \in {"granted", "reclaim"}
           /\ chn'[d].token = "release" => chn[d].token = "release"
           /\ d \notin Range(clnts) /\ chn[d].token = "none" => chn'[d].token = "none",
         Range(clnts) \subseteq Client
  PROVE  TokenInv'
<1>1. ASSUME NEW d \in Range(clnts')
      PROVE  Word(chn'[d].token, cstate'[d], request'[d], inbox'[d], out'[d], ev'[d], app'[d])
  <2>1. d \in Client /\ d \in Range(clnts)
    BY <1>1
  <2>2. Word(chn[d].token, cstate[d], request[d], inbox[d], out[d], ev[d], app[d])
    BY <2>1 DEF TokenInv
  <2>3. Word(chn'[d].token, cstate[d], request[d], inbox[d], out[d], ev[d], app[d])
    BY <2>1, <2>2, WordKept
  <2> QED
    BY <2>3
<1>2. \A d \in Client \ Range(clnts') : chn'[d].token = "none"
  BY DEF TokenInv
<1> QED
  BY <1>1, <1>2 DEF TokenInv

LEMMA PassKeepsToken ==
  ASSUME ChannelInv, TokenInv, ~aborted, ~aborted', StartPass \/ EndPass
  PROVE  TokenInv'
<1>1. /\ UNCHANGED <<clnts, out, request, inbox, cstate, ev, app>>
      /\ clnts \in Seq(Client) /\ Range(clnts) \subseteq Client /\ chn \in States
      /\ NULL \notin Client /\ FALSE \in BOOLEAN
  BY Member, SchedulerAssumption DEF StartPass, EndPass, clientVars, ChannelInv, Scheduled, Books
<1>2. UNCHANGED chn \/ Update(chn, clnts, FALSE, NULL) \/ NoUpdate(chn)
  BY DEF StartPass, EndPass
<1>3. AtMostOne(chn, clnts)
  BY DEF TokenInv
<1>4. CASE UNCHANGED chn
  <2>1. AtMostOne(chn', clnts')
    BY <1>1, <1>3, <1>4 DEF AtMostOne
  <2> QED
    BY <1>1, <1>4, <2>1, TokensKept
<1>5. CASE Update(chn, clnts, FALSE, NULL) \/ NoUpdate(chn)
  <2>1. /\ AtMostOne(chn', clnts)
        /\ \A d \in Client :
             /\ chn'[d].token \in {"granted", "reclaim"} => chn[d].token \in {"granted", "reclaim"}
             /\ chn'[d].token = "release" => chn[d].token = "release"
             /\ d \notin Range(clnts) /\ chn[d].token = "none" => chn'[d].token = "none"
    <3>1. NULL \in Range(clnts) \/ NULL \notin Client
      BY <1>1
    <3>2. /\ AtMostOne(chn, clnts) => AtMostOne(chn', clnts)
          /\ \A d \in Client :
               /\ chn'[d].token \in {"granted", "reclaim"} =>
                    \/ chn[d].token \in {"granted", "reclaim"}
                    \/ d = NULL /\ chn'[d].token = "granted"
               /\ chn'[d].token = "release" => chn[d].token = "release"
               /\ d \notin Range(clnts) /\ chn[d].token = "none" => chn'[d].token = "none"
      BY <1>1, <1>5, <3>1, UpdateTokens
    <3>3. \A d \in Client : d # NULL
      BY <1>1
    <3> QED
      BY <1>3, <3>2, <3>3
  <2>2. AtMostOne(chn', clnts')
    BY <1>1, <2>1
  <2> QED
    BY <1>1, <2>1, <2>2, TokensKept
<1> QED
  BY <1>2, <1>4, <1>5

LEMMA TimeKeepsToken ==
  ASSUME ChannelInv, TokenInv, ~aborted, AlarmFires \/ \E c \in Client : Expire(c)
  PROVE  TokenInv'
<1>1. /\ UNCHANGED <<clnts, out, request, inbox, cstate, ev, app>>
      /\ Range(clnts) \subseteq Client
  BY Member DEF AlarmFires, Expire, clientVars
<1>2. \A d \in Client : chn'[d].token = chn[d].token
  BY DEF AlarmFires, Expire, ChannelInv, Scheduled, States, ChannelState
<1>3. AtMostOne(chn', clnts')
  BY <1>1, <1>2 DEF TokenInv, AtMostOne, Has
<1> QED
  BY <1>1, <1>2, <1>3, TokensKept

-----------------------------------------------------------------------------
LEMMA InitToken == Init => TokenInv
<1> SUFFICES ASSUME Init
             PROVE  TokenInv
  OBVIOUS
<1>1. clnts = <<>> /\ chn = [c \in Client |-> Cleared(INTERACTIVE, FALSE)]
  BY DEF Init
<1>2. Range(clnts) = {}
  BY <1>1 DEF Range
<1>3. \A c \in Client : chn[c].token = "none"
  BY <1>1 DEF Cleared
<1> QED
  BY <1>2, <1>3 DEF TokenInv, AtMostOne

LEMMA NextToken ==
  ASSUME ChannelInv, TokenInv, [Next]_vars
  PROVE  TokenInv'
<1> SUFFICES ASSUME ~aborted'
             PROVE  TokenInv'
  BY DEF TokenInv
<1>1. CASE aborted
  <2>1. UNCHANGED aborted
    <3>1. CASE Daemon
      BY <1>1, <3>1 DEF Daemon, StartPass, EndPass, ReadClient, WriteClient, WriteFails, Visited
    <3>2. CASE AlarmFires \/ UNCHANGED vars
      BY <3>2 DEF AlarmFires, vars, daemonVars
    <3>3. ASSUME NEW c \in Client,
                 \/ Expire(c) \/ Call(c) \/ Receive(c) \/ ReadSliced(c)
                 \/ \E s \in Services : Connect(c, s)
          PROVE  UNCHANGED aborted
      <4>1. CASE Call(c)
        BY <4>1 DEF Call, ChannelRequest, ChannelNotify, UpdateServices, DeviceIoctl, HangUp,
                    Send, daemonVars
      <4> QED
        BY <3>3, <4>1 DEF Expire, Receive, ReadSliced, Connect, daemonVars
    <3> QED
      BY <3>1, <3>2, <3>3 DEF Next
  <2> QED
    BY <1>1, <2>1
<1>2. CASE ~aborted
  <2>1. CASE Daemon
    BY <1>2, <2>1, PassKeepsToken, VisitKeepsToken DEF Daemon
  <2>2. CASE AlarmFires
    BY <1>2, <2>2, TimeKeepsToken
  <2>3. CASE \E c \in Client : \/ Expire(c) \/ Call(c) \/ Receive(c) \/ ReadSliced(c)
                               \/ \E s \in Services : Connect(c, s)
    BY <1>2, <2>3, TimeKeepsToken, CallKeepsToken, ReceiveKeepsToken, ReadKeepsToken,
       ConnectKeepsToken
  <2>4. CASE UNCHANGED vars
    BY <2>4 DEF vars, daemonVars, clientVars, TokenInv, AtMostOne, Has
  <2> QED
    BY <2>1, <2>2, <2>3, <2>4 DEF Next
<1> QED
  BY <1>1, <1>2

LEMMA AlwaysToken == Spec => []TokenInv
<1>1. ChannelInv /\ TokenInv /\ [Next]_vars => TokenInv'
  BY NextToken
<1> QED
  BY <1>1, InitToken, AlwaysChannel, PTL DEF Spec

\* Whatever the applications call, in whatever order, and whoever leaves: the
\* daemon never has two clients down as getting the token, having it or having
\* yet to return it.  vbi_proxyd_token_grant is run for the one client that
\* vbi_proxyd_channel_schedule chose, and takes the token only from the last
\* owner it finds; that is enough.
THEOREM OneClientHolds == Spec => []OneHolder
<1> QED
  BY TokenMatches, AlwaysToken, PTL

\* The token comes back: while the daemon waits for it, a message, an event or the
\* application of a living client is about to return it.  So a reclaim or a grant
\* is never dropped between the daemon's states, the message being written, the
\* socket, the events the library keeps while a call waits, and the callbacks.
THEOREM TokenComesBack == Spec => []TokenNotLost
<1> QED
  BY TokenMatches, AlwaysToken, PTL

-----------------------------------------------------------------------------
(***************************************************************************)
(* The token in the applications' minds.  The loops of the scheduler lower *)
(* the tokens from s to t: a granted one is reclaimed, a returned one is   *)
(* forgotten.                                                              *)
(***************************************************************************)
Lowered(s, t) ==
  \A c \in Client :
    /\ t[c].valid = s[c].valid
    /\ \/ t[c].token = s[c].token
       \/ s[c].token = "granted" /\ t[c].token = "reclaim"
       \/ s[c].token = "returned" /\ t[c].token = "none"

LoweredFrom(s) == {t \in States : Lowered(s, t)}

LEMMA LoweredClosed ==
  ASSUME NEW s \in States, NEW L \in Seq(Client)
  PROVE  Closed(LoweredFrom(s), L) /\ s \in LoweredFrom(s)
<1>1. ASSUME NEW t \in LoweredFrom(s), NEW c \in Range(L)
      PROVE  /\ Completed(t, L, c) \in LoweredFrom(s)
             /\ Controls(t, c) => Stopped(t, L, c) \in LoweredFrom(s)
  <2>1. t \in States /\ Lowered(s, t)
    BY DEF LoweredFrom
  <2>2. Lowered(s, Completed(t, L, c))
    BY <2>1, CompletedKeeps DEF Lowered
  <2>3. ASSUME Controls(t, c)
        PROVE  Lowered(s, Stopped(t, L, c))
    <3> SUFFICES ASSUME NEW d \in Client
                 PROVE  LET u == Stopped(t, L, c)
                        IN /\ u[d].valid = s[d].valid
                           /\ \/ u[d].token = s[d].token
                              \/ s[d].token = "granted" /\ u[d].token = "reclaim"
                              \/ s[d].token = "returned" /\ u[d].token = "none"
      BY DEF Lowered
    <3>1. /\ Stopped(t, L, c)[d].valid = t[d].valid
          /\ Stopped(t, L, c)[d].token =
               IF d # c THEN t[d].token ELSE IF t[c].token = "granted" THEN "reclaim" ELSE "none"
      BY <2>1, StoppedKeeps
    <3>2. /\ t[d].valid = s[d].valid
          /\ \/ t[d].token = s[d].token
             \/ s[d].token = "granted" /\ t[d].token = "reclaim"
             \/ s[d].token = "returned" /\ t[d].token = "none"
      BY <2>1 DEF Lowered
    <3> QED
      BY <2>3, <3>1, <3>2 DEF Controls
  <2> QED
    BY <2>1, <2>2, <2>3, CompletedTyped, StoppedTyped DEF LoweredFrom
<1> QED
  BY <1>1 DEF Closed, LoweredFrom, Lowered

\* At most one client in L is not in the state "none".
Sole(s, L) == \A c, d \in Range(L) : s[c].token # "none" /\ s[d].token # "none" => c = d

LEMMA LoweredSole ==
  ASSUME NEW s, NEW t, NEW L \in Seq(Client), Lowered(s, t), Sole(s, L)
  PROVE  Sole(t, L)
<1>1. \A c \in Range(L) : t[c].token # "none" => s[c].token # "none"
  BY DEF Lowered, Range
<1> QED
  BY <1>1 DEF Sole

(***************************************************************************)
(* A whole run of the scheduler does the same, but grants one client the   *)
(* token, which may be one with an outstanding reclaim.                    *)
(***************************************************************************)
Shifted(s, t, L) ==
  \A c \in Client :
    /\ t[c].valid = s[c].valid
    /\ s[c].token \in {"granted", "reclaim"} => t[c].token \in {"granted", "reclaim"}
    /\ s[c].token = "release" => t[c].token \in {"release", "grant"}
    /\ s[c].token = "none" =>
         \/ t[c].token = "none"
         \/ t[c].token = "grant" /\ s[c].valid /\ c \in Range(L)

LEMMA LoweredShifts ==
  ASSUME NEW s, NEW t, NEW u, NEW L, Lowered(s, t), Shifted(t, u, L)
  PROVE  Shifted(s, u, L)
  BY DEF Lowered, Shifted

LEMMA GrantShifts ==
  ASSUME NEW s \in States, NEW L \in Seq(Client), NEW c \in Range(L), Sole(s, L),
         s[c].valid, ~Controls(s, c)
  PROVE  Shifted(s, TokenGrant(s, L, c), L) /\ Sole(TokenGrant(s, L, c), L)
<1>1. c \in Client /\ Range(L) \subseteq Client /\ \A d \in Client : s[d] \in ChannelState
  BY DEF Range, States
<1>2. ASSUME NEW d \in Client, NEW k \in TokenState
      PROVE  /\ [s[d] EXCEPT !.token = k].token = k
             /\ [s[d] EXCEPT !.token = k].valid = s[d].valid
  BY <1>1 DEF ChannelState
<1>3. {"none", "reclaim", "grant", "granted"} \subseteq TokenState
  BY DEF TokenState
<1> DEFINE t == TokenGrant(s, L, c)
<1>4. CASE s[c].token = "none" /\ MustReclaim(s, L, c)
  <2>1. PICK o \in Owners(s, L) : s[o].token \notin {"grant", "returned"}
    BY <1>4 DEF MustReclaim
  <2>2. o \in Client /\ s[o].token \in {"granted", "reclaim", "release"}
    BY <1>1, <2>1 DEF Owners, ChannelState, TokenState
  <2>3. \A d \in Owners(s, L) : d = o
    BY <2>1 DEF Owners, Sole
  <2>4. t = [d \in Client |-> IF d \in Owners(s, L) /\ s[d].token # "release"
                              THEN [s[d] EXCEPT !.token = "reclaim"] ELSE s[d]]
    BY <1>4 DEF TokenGrant
  <2>5. \A d \in Client :
          /\ t[d].valid = s[d].valid
          /\ \/ t[d].token = s[d].token
             \/ d = o /\ s[o].token # "release" /\ t[d].token = "reclaim"
    BY <1>2, <1>3, <2>3, <2>4
  <2> HIDE DEF t
  <2>6. Shifted(s, t, L)
    BY <2>2, <2>5 DEF Shifted
  <2>7. \A d \in Range(L) : t[d].token # "none" => s[d].token # "none"
    BY <1>1, <2>2, <2>5
  <2> QED
    BY <2>6, <2>7 DEF t, Sole
<1>5. CASE s[c].token = "none" /\ ~MustReclaim(s, L, c)
  <2>1. t = [d \in Client |-> IF d = c THEN [s[d] EXCEPT !.token = "grant"]
                              ELSE IF d \in Owners(s, L) THEN [s[d] EXCEPT !.token = "none"]
                              ELSE s[d]]
    BY <1>5 DEF TokenGrant
  <2>2. ASSUME NEW d \in Client \ {c}
        PROVE  /\ t[d].valid = s[d].valid
               /\ IF d \in Owners(s, L) THEN t[d].token = "none" ELSE t[d].token = s[d].token
    <3>1. t[d] = IF d \in Owners(s, L) THEN [s[d] EXCEPT !.token = "none"] ELSE s[d]
      BY <2>1
    <3>2. /\ [s[d] EXCEPT !.token = "none"].token = "none"
          /\ [s[d] EXCEPT !.token = "none"].valid = s[d].valid
      BY <1>2, <1>3
    <3> HIDE DEF t
    <3> QED
      BY <3>1, <3>2
  <2>3. t[c].token = "grant" /\ t[c].valid = s[c].valid
    <3>1. t[c] = [s[c] EXCEPT !.token = "grant"]
      BY <1>1, <2>1
    <3>2. /\ [s[c] EXCEPT !.token = "grant"].token = "grant"
          /\ [s[c] EXCEPT !.token = "grant"].valid = s[c].valid
      BY <1>1, <1>2, <1>3
    <3> HIDE DEF t
    <3> QED
      BY <3>1, <3>2
  <2>4. \A d \in Owners(s, L) : s[d].token \in {"grant", "returned"}
    BY <1>5 DEF MustReclaim
  <2> HIDE DEF t
  <2>5. Shifted(s, t, L)
    BY <1>1, <1>5, <2>2, <2>3, <2>4 DEF Shifted
  <2>6. \A d \in Range(L) : t[d].token # "none" => d = c
    BY <1>1, <2>2 DEF Owners
  <2> QED
    BY <2>5, <2>6 DEF t, Sole
<1>6. CASE s[c].token # "none"
  <2>1. \A d \in Client \ {c} : t[d] = s[d]
    BY <1>1, <1>6 DEF TokenGrant
  <2>2. /\ t[c].valid = s[c].valid
        /\ \/ t[c].token = s[c].token
           \/ s[c].token = "reclaim" /\ t[c].token = "granted"
           \/ s[c].token = "release" /\ t[c].token = "grant"
    BY <1>1, <1>2, <1>3, <1>6 DEF TokenGrant, States
  <2> HIDE DEF t
  <2>3. Shifted(s, t, L)
    BY <1>1, <1>6, <2>1, <2>2 DEF Shifted
  <2>4. \A d \in Range(L) : t[d].token # "none" => s[d].token # "none"
    BY <1>1, <1>6, <2>1
  <2> QED
    BY <2>3, <2>4 DEF t, Sole
<1> QED
  BY <1>4, <1>5, <1>6

LEMMA StartedValid ==
  ASSUME NEW s \in States, NEW c \in Client, NEW tie, NEW d \in Client
  PROVE  Started(s, c, tie)[d].valid = s[d].valid
<1> DEFINE ranks    == {s[x].rank : x \in Client \ {c}}
           top      == Max(ranks \cup {0})
           mine     == IF tie /\ top > 0 THEN top ELSE top + 1
           dense(r) == Cardinality({x \in ranks \cup {mine} : 0 < x /\ x <= r})
           t        == [s EXCEPT ![c].rank = mine, ![c].completed = FALSE,
                                 ![c].expired = (MinDuration[c] = 0)]
<1>1. Started(s, c, tie) = [x \in Client |-> [t[x] EXCEPT !.rank = dense(@)]]
  BY DEF Started
<1> HIDE DEF mine, dense
<1>2. s \in [Client -> ChannelState]
  BY DEF States
<1>3. t[d].valid = s[d].valid /\ "valid" \in DOMAIN t[d]
  BY <1>2 DEF ChannelState
<1> HIDE DEF t
<1> QED
  BY <1>1, <1>3

LEMMA ChannelUpdateShifts ==
  ASSUME NEW s \in States, NEW L \in Seq(Client), NEW forced \in BOOLEAN,
         NEW u \in ChannelUpdate(s, L, forced), Sole(s, L)
  PROVE  Shifted(s, u.chn, L) /\ Sole(u.chn, L)
<1> DEFINE top == TopPrio(s, L)
           s1  == IF top > BACKGROUND \/ forced THEN StopAll(s, L) ELSE s
           r   == IF top = BACKGROUND THEN Schedule(s1, L) ELSE [chn |-> s1, sched |-> NULL]
<1>1. s1 \in LoweredFrom(s)
  BY StopAllTyped, LoweredClosed
<1>2. /\ r.chn \in LoweredFrom(s) /\ r.sched \in Range(L) \cup {NULL}
      /\ r.sched # NULL => r.chn[r.sched].valid
  <2> HIDE DEF s1
  <2>1. CASE top = BACKGROUND
    BY <1>1, <2>1, ScheduleTyped, LoweredClosed DEF Chosen
  <2>2. CASE top # BACKGROUND
    BY <1>1, <2>2
  <2> QED
    BY <2>1, <2>2
<1>3. PICK tie \in BOOLEAN : u = Effect(r, L, forced, tie)
  BY DEF ChannelUpdate
<1> HIDE DEF r
<1>4. r.chn \in States /\ Lowered(s, r.chn) /\ Sole(r.chn, L)
  BY <1>2, LoweredSole DEF LoweredFrom
<1>5. CASE r.sched = NULL \/ Controls(r.chn, r.sched)
  <2>1. u.chn = r.chn
    BY <1>3, <1>5 DEF Effect
  <2>2. Shifted(s, r.chn, L)
    BY <1>4 DEF Lowered, Shifted
  <2> QED
    BY <1>4, <2>1, <2>2
<1>6. CASE ~(r.sched = NULL \/ Controls(r.chn, r.sched))
  <2>1. r.sched \in Range(L) /\ r.sched \in Client
    BY <1>2, <1>6 DEF Range
  <2>2. PICK g : g = TokenGrant(r.chn, L, r.sched)
    OBVIOUS
  <2>3. PICK h : h = Started(g, r.sched, tie)
    OBVIOUS
  <2>4. u = [chn   |-> IF MustReclaim(r.chn, L, r.sched) THEN g ELSE h,
             abort |-> /\ r.chn[r.sched].token = "none"
                       /\ Cardinality(Owners(r.chn, L)) > 1,
             flush |-> FALSE]
    BY <1>3, <1>6, <2>2, <2>3 DEF Effect
  <2>5. u.chn = (IF MustReclaim(r.chn, L, r.sched) THEN g ELSE h)
    BY <2>4, Zenon
  <2>6. Shifted(r.chn, g, L) /\ Sole(g, L) /\ g \in States
    BY <1>2, <1>4, <1>6, <2>1, <2>2, GrantShifts, TokenGrantTyped
  <2>7. \A d \in Client : h[d].token = g[d].token /\ h[d].valid = g[d].valid
    BY <2>1, <2>3, <2>6, StartedKeeps, StartedValid
  <2>8. Range(L) \subseteq Client
    BY DEF Range
  <2>9. Shifted(r.chn, u.chn, L) /\ Sole(u.chn, L)
    <3>1. CASE u.chn = g
      BY <2>6, <3>1
    <3>2. CASE u.chn = h
      <4>1. Shifted(r.chn, h, L)
        BY <2>6, <2>7 DEF Shifted
      <4>2. Sole(h, L)
        BY <2>6, <2>7, <2>8 DEF Sole
      <4> QED
        BY <3>2, <4>1, <4>2
    <3> QED
      BY <2>5, <3>1, <3>2
  <2> QED
    BY <1>4, <2>9, LoweredShifts
<1> QED
  BY <1>5, <1>6

\* The token that is granted to req goes out with the reply to it.
LEMMA UpdateShifts ==
  ASSUME NEW s \in States, NEW L \in Seq(Client), NEW forced \in BOOLEAN, NEW req,
         Update(s, L, forced, req) \/ NoUpdate(s), Sole(s, L)
  PROVE  /\ Sole(chn', L)
         /\ \A c \in Client :
              /\ chn'[c].valid = s[c].valid
              /\ s[c].token \in {"granted", "reclaim"} => chn'[c].token \in {"granted", "reclaim"}
              /\ s[c].token = "release" /\ c # req => chn'[c].token \in {"release", "grant"}
              /\ s[c].token = "none" =>
                   \/ chn'[c].token = "none"
                   \/ c # req /\ chn'[c].token = "grant" /\ s[c].valid /\ c \in Range(L)
                   \/ c = req /\ chn'[c].token = "granted" /\ s[c].valid /\ c \in Range(L)
<1>1. CASE NoUpdate(s)
  BY <1>1 DEF NoUpdate
<1>2. CASE Update(s, L, forced, req)
  <2>1. PICK u \in ChannelUpdate(s, L, forced) :
          chn' = [c \in Client |-> IF c = req /\ u.chn[c].token = "grant"
                                   THEN [u.chn[c] EXCEPT !.token = "granted"] ELSE u.chn[c]]
    BY <1>2, Zenon DEF Update
  <2>2. u.chn \in States /\ Shifted(s, u.chn, L) /\ Sole(u.chn, L) /\ Range(L) \subseteq Client
    BY ChannelUpdateTyped, ChannelUpdateShifts DEF Range
  <2>3. ASSUME NEW c \in Client
        PROVE  /\ chn'[c].valid = u.chn[c].valid
               /\ chn'[c].token = IF c = req /\ u.chn[c].token = "grant" THEN "granted"
                                  ELSE u.chn[c].token
    BY <2>1, <2>2 DEF States, ChannelState
  <2>4. Sole(chn', L)
    <3>1. \A c \in Range(L) : chn'[c].token # "none" => u.chn[c].token # "none"
      BY <2>2, <2>3
    <3> QED
      BY <2>2, <3>1 DEF Sole
  <2>5. ASSUME NEW c \in Client
        PROVE  /\ chn'[c].valid = s[c].valid
               /\ s[c].token \in {"granted", "reclaim"} => chn'[c].token \in {"granted", "reclaim"}
               /\ s[c].token = "release" /\ c # req => chn'[c].token \in {"release", "grant"}
               /\ s[c].token = "none" =>
                    \/ chn'[c].token = "none"
                    \/ c # req /\ chn'[c].token = "grant" /\ s[c].valid /\ c \in Range(L)
                    \/ c = req /\ chn'[c].token = "granted" /\ s[c].valid /\ c \in Range(L)
    BY <2>2, <2>3 DEF Shifted
  <2> QED
    BY <2>4, <2>5
<1> QED
  BY <1>1, <1>2

(***************************************************************************)
(* What the daemon, the messages q on their way to a client, the events e  *)
(* and the application's belief a have to do with each other, if the       *)
(* applications keep a token until it is reclaimed: x is the daemon's      *)
(* record of the client, cp the priority it asked for, rq its request.     *)
(***************************************************************************)
Among(q, M) == \E k \in 1 .. Len(q) : q[k] \in M

Knows(q, e, a) ==
  a # "idle" \/ "granted" \in e \/ Among(q, {"token_ind", "token_yes"})

Recalled(q, e) == "reclaimed" \in e \/ Among(q, {"reclaim_req"})

Returns(rq) == rq.type = "notify" /\ "TOKEN" \in rq.flags

TokenNews == {"token_ind", "token_yes", "reclaim_req"}

\* The token is told of only while the daemon has it down, one that was recalled
\* is not told of again, nor one that is being returned, and who never asked has
\* none.
Pact(x, cp, rq, q, e, a) ==
  /\ Knows(q, e, a) => x.token \in {"granted", "reclaim", "release"}
  /\ Recalled(q, e) \/ Returns(rq) => x.token = "release"
  /\ Returns(rq) => ~Knows(q, e, a) /\ ~Recalled(q, e)
  /\ \A j, k \in 1 .. Len(q) : j < k /\ q[j] = "reclaim_req" => q[k] \notin TokenNews
  /\ "reclaimed" \in e => "granted" \notin e /\ ~Among(q, TokenNews)
  /\ cp = 0 \/ rq.type = "token" => x.token = "none" /\ ~x.valid
  /\ rq.type = "token" => cp # 0
  /\ rq.type = "notify" => "RELEASE" \notin rq.flags

PactInv ==
  /\ Sole(chn, clnts)
  /\ \A c \in Client : cstate[c] \in {"off", "error"} => app[c] = "idle"
  /\ \A c \in Client \ Range(clnts) : chn[c].token = "none" /\ ~chn[c].valid
  /\ \A c \in Range(clnts) :
       Pact(chn[c], cprio[c], request[c], Sent(inbox[c], out[c]), ev[c], app[c])

\* Nothing the library can do is a breach of it except the calls that are left
\* out here, and nothing the daemon can do except to withdraw a reclaim that it
\* has sent.
Polite == Calls \subseteq {"request", "flush", "service", "ioctl", "close"}

ReclaimStands == \A c \in Client : chn[c].token = "release" => chn'[c].token # "grant"

\* One owner is all that a set of the owners can hold.
LEMMA SoleOwner ==
  ASSUME NEW s, NEW L \in Seq(Client), Sole(s, L)
  PROVE  Cardinality(Owners(s, L)) <= 1
<1>1. CASE Owners(s, L) = {}
  BY <1>1, FS_EmptySet
<1>2. CASE Owners(s, L) # {}
  <2>1. PICK c : c \in Owners(s, L)
    BY <1>2
  <2>2. Owners(s, L) = {c}
    BY <2>1 DEF Owners, Sole
  <2>3. Cardinality({c}) = 1
    BY FS_Singleton
  <2> QED
    BY <2>2, <2>3
<1> QED
  BY <1>1, <1>2

LEMMA PactMatches ==
  ASSUME ChannelInv, PactInv
  PROVE  OneOwner /\ TokenExclusive
<1>1. OneOwner
  BY SoleOwner DEF OneOwner, PactInv, ChannelInv, Books
<1>2. ASSUME NEW c \in Client, Holds(c)
      PROVE  c \in Range(clnts) /\ chn[c].token # "none"
  <2>1. cstate[c] # "off"
    BY <1>2 DEF Holds, PactInv
  <2>2. c \in Range(clnts)
    BY <2>1, Connected
  <2>3. Pact(chn[c], cprio[c], request[c], Sent(inbox[c], out[c]), ev[c], app[c])
    BY <2>2 DEF PactInv
  <2> QED
    BY <1>2, <2>2, <2>3 DEF Pact, Knows, Holds
<1>3. TokenExclusive
  BY <1>2 DEF TokenExclusive, PactInv, Sole
<1> QED
  BY <1>1, <1>3

\* It stays when the daemon lowers the record, unless it withdraws a reclaim.
LEMMA PactKept ==
  ASSUME NEW x, NEW y, NEW cp, NEW rq, NEW q, NEW e, NEW a, Pact(x, cp, rq, q, e, a),
         y.valid = x.valid,
         x.token \in {"granted", "reclaim"} => y.token \in {"granted", "reclaim"},
         x.token = "release" => y.token = "release",
         x.token = "none" /\ ~x.valid => y.token = "none"
  PROVE  Pact(y, cp, rq, q, e, a)
  BY DEF Pact

\* Nor does a message that is not about the token change it.
LEMMA PactOther ==
  ASSUME NEW x, NEW cp, NEW rq, NEW q \in Seq(Message), NEW e, NEW a, Pact(x, cp, rq, q, e, a),
         NEW m \in Message \ TokenNews, NEW r, r = rq \/ r = NoRequest
  PROVE  Pact(x, cp, r, Append(q, m), e, a)
<1> DEFINE p == Append(q, m)
<1>1. /\ Len(p) = Len(q) + 1 /\ Len(q) \in Nat /\ p[Len(q) + 1] = m
      /\ \A k \in 1 .. Len(q) : p[k] = q[k]
  OBVIOUS
<1> HIDE DEF p
<1>2. \A M : M \subseteq TokenNews /\ Among(p, M) => Among(q, M)
  BY <1>1 DEF Among
<1>3. \A j, k \in 1 .. Len(p) : j < k /\ p[j] = "reclaim_req" => p[k] \notin TokenNews
  <2> SUFFICES ASSUME NEW j \in 1 .. Len(p), NEW k \in 1 .. Len(p), j < k, p[j] = "reclaim_req",
                      k # Len(q) + 1
               PROVE  p[k] \notin TokenNews
    BY <1>1
  <2>1. j \in 1 .. Len(q) /\ k \in 1 .. Len(q)
    BY <1>1
  <2> QED
    BY <1>1, <2>1 DEF Pact
<1>4. /\ Knows(p, e, a) => Knows(q, e, a)
      /\ Recalled(p, e) => Recalled(q, e)
      /\ Among(p, TokenNews) => Among(q, TokenNews)
  BY <1>2 DEF Knows, Recalled, TokenNews
<1>5. /\ Returns(r) => Returns(rq)
      /\ r.type = "token" => rq.type = "token"
      /\ r.type = "notify" => "RELEASE" \notin r.flags
  BY DEF Returns, NoRequest, Pact
<1> QED
  BY <1>3, <1>4, <1>5 DEF Pact, p

\* The daemon tells of the token when nothing of it is under way.
LEMMA PactTold ==
  ASSUME NEW x, NEW y, NEW cp, NEW rq, NEW q \in Seq(Message), NEW e, NEW a,
         Pact(x, cp, rq, q, e, a), x.token # "release", cp # 0,
         NEW r, r = NoRequest \/ (r = rq /\ x.token # "none"),
         NEW m \in TokenNews,
         y.token = IF m = "reclaim_req" THEN "release" ELSE "granted"
  PROVE  Pact(y, cp, r, Append(q, m), e, a)
<1> DEFINE p == Append(q, m)
<1>1. /\ Len(p) = Len(q) + 1 /\ Len(q) \in Nat /\ p[Len(q) + 1] = m
      /\ \A k \in 1 .. Len(q) : p[k] = q[k]
  BY DEF TokenNews, Message
<1> HIDE DEF p
<1>2. /\ ~Recalled(q, e) /\ ~Returns(r) /\ r.type # "token"
      /\ r.type = "notify" => "RELEASE" \notin r.flags
  BY DEF Pact, Returns, NoRequest
<1>3. \A j \in 1 .. Len(q) : q[j] # "reclaim_req"
  BY <1>2 DEF Recalled, Among
<1>4. \A j, k \in 1 .. Len(p) : j < k /\ p[j] = "reclaim_req" => p[k] \notin TokenNews
  <2> SUFFICES ASSUME NEW j \in 1 .. Len(p), NEW k \in 1 .. Len(p), j < k
               PROVE  p[j] # "reclaim_req"
    OBVIOUS
  <2>1. j \in 1 .. Len(q)
    BY <1>1
  <2> QED
    BY <1>1, <1>3, <2>1
<1>5. Recalled(p, e) => m = "reclaim_req"
  <2> SUFFICES ASSUME NEW k \in 1 .. Len(p), p[k] = "reclaim_req", m # "reclaim_req"
               PROVE  FALSE
    BY <1>2 DEF Recalled, Among
  <2>1. k \in 1 .. Len(q)
    BY <1>1
  <2> QED
    BY <1>1, <1>3, <2>1
<1>6. "reclaimed" \notin e
  BY <1>2 DEF Recalled
<1> QED
  BY <1>2, <1>4, <1>5, <1>6 DEF Pact, TokenNews, p

\* What the client reads becomes an event.
LEMMA PactRead ==
  ASSUME NEW c, NEW x, NEW cp, NEW rq, NEW q, NEW p, NEW a, Pact(x, cp, rq, q, ev[c], a),
         Len(q) \in Nat \ {0}, Len(p) = Len(q) - 1, \A k \in 1 .. Len(q) - 1 : p[k] = q[k + 1]
  PROVE  Pact(x, cp, rq, p, TakeMessage(c, q[1]), a)
<1> DEFINE m == q[1]
           e == ev[c]
           d == TakeMessage(c, m)
<1>1. \A k \in 1 .. Len(p) : k + 1 \in 1 .. Len(q) /\ p[k] = q[k + 1]
  OBVIOUS
<1>2. \A M : Among(p, M) => Among(q, M)
  BY <1>1 DEF Among
<1>3. \A M : m \in M => Among(q, M)
  <2>1. 1 \in 1 .. Len(q)
    OBVIOUS
  <2> QED
    BY <2>1 DEF Among
<1>4. /\ "granted" \in d => "granted" \in e \/ m \in {"token_ind", "token_yes"}
      /\ "reclaimed" \in d => "reclaimed" \in e \/ m = "reclaim_req"
      /\ m = "reclaim_req" => "granted" \notin d
  BY DEF TakeMessage
<1>5. m = "reclaim_req" => ~Among(p, TokenNews)
  <2> SUFFICES ASSUME m = "reclaim_req", NEW k \in 1 .. Len(p)
               PROVE  p[k] \notin TokenNews
    BY DEF Among
  <2>1. 1 \in 1 .. Len(q) /\ k + 1 \in 1 .. Len(q) /\ 1 < k + 1 /\ p[k] = q[k + 1]
    BY <1>1
  <2> QED
    BY <2>1 DEF Pact
<1>6. \A j, k \in 1 .. Len(p) : j < k /\ p[j] = "reclaim_req" => p[k] \notin TokenNews
  <2> SUFFICES ASSUME NEW j \in 1 .. Len(p), NEW k \in 1 .. Len(p), j < k, p[j] = "reclaim_req"
               PROVE  p[k] \notin TokenNews
    OBVIOUS
  <2>1. /\ j + 1 \in 1 .. Len(q) /\ k + 1 \in 1 .. Len(q) /\ j + 1 < k + 1
        /\ p[j] = q[j + 1] /\ p[k] = q[k + 1]
    BY <1>1
  <2> QED
    BY <2>1 DEF Pact
<1> HIDE DEF m, d
<1>7. Knows(p, d, a) => Knows(q, e, a)
  BY <1>2, <1>3, <1>4 DEF Knows
<1>8. Recalled(p, d) => Recalled(q, e)
  BY <1>2, <1>3, <1>4 DEF Recalled
<1>9. "reclaimed" \in d => "granted" \notin d /\ ~Among(p, TokenNews)
  <2>1. CASE m = "reclaim_req"
    BY <1>4, <1>5, <2>1
  <2>2. CASE m # "reclaim_req"
    <3> SUFFICES ASSUME "reclaimed" \in e
                 PROVE  "granted" \notin d /\ ~Among(p, TokenNews)
      BY <1>4, <2>2
    <3>1. "granted" \notin e /\ ~Among(q, TokenNews)
      BY DEF Pact
    <3>2. ~Among(p, TokenNews) /\ m \notin TokenNews
      BY <1>2, <1>3, <3>1
    <3> QED
      BY <1>4, <3>1, <3>2 DEF TokenNews
  <2> QED
    BY <2>1, <2>2
<1> QED
  BY <1>6, <1>7, <1>8, <1>9 DEF Pact, m, d

\* The application is told of the events e, and returns a recalled token.
LEMMA PactCalledBack ==
  ASSUME NEW x, NEW cp, NEW rq, NEW q, NEW e, NEW a, Pact(x, cp, rq, q, e, a)
  PROVE  /\ "reclaimed" \in e =>
              Pact(x, cp, [type |-> "notify", flags |-> {"TOKEN"}], q, {}, "idle")
         /\ "reclaimed" \notin e =>
              Pact(x, cp, rq, q, {}, IF "granted" \in e THEN "granted" ELSE a)
<1>1. ASSUME "reclaimed" \in e
      PROVE  Pact(x, cp, [type |-> "notify", flags |-> {"TOKEN"}], q, {}, "idle")
  <2>1. PICK r : r = [type |-> "notify", flags |-> {"TOKEN"}]
    OBVIOUS
  <2>2. Returns(r) /\ r.type # "token" /\ "RELEASE" \notin r.flags
    BY <2>1 DEF Returns
  <2>3. x.token = "release" /\ ~Among(q, TokenNews)
    BY <1>1 DEF Pact, Recalled
  <2>4. ~Knows(q, {}, "idle") /\ ~Recalled(q, {})
    BY <2>3 DEF Knows, Recalled, Among, TokenNews
  <2>5. cp # 0
    BY <2>3 DEF Pact
  <2>6. Pact(x, cp, r, q, {}, "idle")
    BY <2>2, <2>3, <2>4, <2>5 DEF Pact
  <2> QED
    BY <2>1, <2>6
<1>2. ASSUME "reclaimed" \notin e
      PROVE  Pact(x, cp, rq, q, {}, IF "granted" \in e THEN "granted" ELSE a)
  <2>1. PICK b : b = IF "granted" \in e THEN "granted" ELSE a
    OBVIOUS
  <2>2. Knows(q, {}, b) => Knows(q, e, a)
    BY <2>1 DEF Knows
  <2>3. Recalled(q, {}) => Recalled(q, e)
    BY DEF Recalled
  <2>4. Pact(x, cp, rq, q, {}, b)
    BY <2>2, <2>3 DEF Pact
  <2> QED
    BY <2>1, <2>4
<1> QED
  BY <1>1, <1>2

\* A step about the client c; the tokens of the others may be lowered.
LEMMA PactStep ==
  ASSUME ChannelInv, PactInv, NEW c \in Client,
         \A d \in Client \ {c} :
           /\ d \in Range(clnts') <=> d \in Range(clnts)
           /\ cstate'[d] = cstate[d] /\ cprio'[d] = cprio[d] /\ request'[d] = request[d]
           /\ inbox'[d] = inbox[d] /\ out'[d] = out[d]
           /\ ev'[d] = ev[d] /\ app'[d] = app[d]
           /\ chn'[d].valid = chn[d].valid
           /\ chn[d].token \in {"granted", "reclaim"} => chn'[d].token \in {"granted", "reclaim"}
           /\ chn[d].token = "release" => chn'[d].token = "release"
           /\ chn[d].token = "none" /\ (~chn[d].valid \/ d \notin Range(clnts)) =>
                chn'[d].token = "none",
         Range(clnts') \subseteq Client, Sole(chn', clnts'),
         cstate'[c] \in {"off", "error"} => app'[c] = "idle",
         c \notin Range(clnts') => chn'[c].token = "none" /\ ~chn'[c].valid,
         c \in Range(clnts') =>
           Pact(chn'[c], cprio'[c], request'[c], Sent(inbox'[c], out'[c]), ev'[c], app'[c])
  PROVE  PactInv'
<1>1. ASSUME NEW d \in Client, cstate'[d] \in {"off", "error"}
      PROVE  app'[d] = "idle"
  BY <1>1 DEF PactInv
<1>2. ASSUME NEW d \in Client \ Range(clnts')
      PROVE  chn'[d].token = "none" /\ ~chn'[d].valid
  BY <1>2 DEF PactInv
<1>3. ASSUME NEW d \in Range(clnts')
      PROVE  Pact(chn'[d], cprio'[d], request'[d], Sent(inbox'[d], out'[d]), ev'[d], app'[d])
  <2>1. CASE d = c
    BY <1>3, <2>1
  <2>2. CASE d # c
    <3>1. d \in Client \ {c} /\ d \in Range(clnts)
      BY <1>3, <2>2
    <3>2. Pact(chn[d], cprio[d], request[d], Sent(inbox[d], out[d]), ev[d], app[d])
      BY <3>1 DEF PactInv
    <3>3. Pact(chn'[d], cprio[d], request[d], Sent(inbox[d], out[d]), ev[d], app[d])
      BY <3>1, <3>2, PactKept
    <3>4. /\ cprio'[d] = cprio[d] /\ request'[d] = request[d] /\ inbox'[d] = inbox[d]
          /\ out'[d] = out[d] /\ ev'[d] = ev[d] /\ app'[d] = app[d]
      BY <3>1
    <3> QED
      BY <3>3, <3>4
  <2> QED
    BY <2>1, <2>2
<1> QED
  BY <1>1, <1>2, <1>3 DEF PactInv

\* A step of the client c, which leaves the daemon alone.
LEMMA ClientPact ==
  ASSUME ChannelInv, PactInv, NEW c \in Range(clnts), UNCHANGED daemonVars,
         \A d \in Client \ {c} :
           /\ cstate'[d] = cstate[d] /\ cprio'[d] = cprio[d] /\ request'[d] = request[d]
           /\ inbox'[d] = inbox[d] /\ ev'[d] = ev[d] /\ app'[d] = app[d],
         cstate'[c] \in {"off", "error"} => app'[c] = "idle",
         Pact(chn[c], cprio'[c], request'[c], Sent(inbox'[c], out[c]), ev'[c], app'[c])
  PROVE  PactInv'
<1>1. UNCHANGED <<clnts, chn, out>>
  BY DEF daemonVars
<1>2. Range(clnts') \subseteq Client /\ c \in Client
  BY <1>1, Member
<1>3. Sole(chn', clnts')
  BY <1>1 DEF PactInv, Sole
<1> QED
  BY <1>1, <1>2, <1>3, PactStep

LEMMA PactOf ==
  ASSUME ChannelInv, PactInv, NEW c \in Range(clnts)
  PROVE  Pact(chn[c], cprio[c], request[c], Sent(inbox[c], out[c]), ev[c], app[c])
  BY DEF PactInv

\* A polite application asks once, and gives nothing up on its own.
LEMMA CallKeepsPact ==
  ASSUME ChannelInv, PactInv, Polite, NEW c \in Client, Call(c)
  PROVE  PactInv'
<1> DEFINE q == Sent(inbox[c], out[c])
<1>1. \/ \E p \in Prios : cprio[c] = 0 /\ ChannelRequest(c, p, TRUE)
      \/ ChannelNotify(c, {"FLUSH"})
      \/ \E s \in Services : UpdateServices(c, s)
      \/ DeviceIoctl(c)
      \/ HangUp(c)
  BY Zenon DEF Call, Polite
<1>2. /\ UNCHANGED <<daemonVars, inbox>>
      /\ \A d \in Client \ {c} :
           /\ cstate'[d] = cstate[d] /\ cprio'[d] = cprio[d] /\ request'[d] = request[d]
           /\ ev'[d] = ev[d] /\ app'[d] = app[d]
  <2>1. /\ UNCHANGED <<daemonVars, inbox>>
        /\ \E cs : cstate' = [cstate EXCEPT ![c] = cs]
        /\ \E p : cprio' = [cprio EXCEPT ![c] = p]
        /\ \E r : request' = [request EXCEPT ![c] = r]
        /\ \E e : ev' = [ev EXCEPT ![c] = e]
        /\ \E a : app' = [app EXCEPT ![c] = a]
    <3>1. /\ request = [request EXCEPT ![c] = request[c]]
          /\ ev = [ev EXCEPT ![c] = ev[c]]
          /\ app = [app EXCEPT ![c] = app[c]]
          /\ cprio = [cprio EXCEPT ![c] = cprio[c]]
      BY DEF ChannelInv, Wire, Library
    <3> QED
      BY <1>1, <3>1, Zenon DEF ChannelRequest, ChannelNotify, UpdateServices, DeviceIoctl, HangUp, Send
  <2> QED
    BY <2>1 DEF ChannelInv, Wire, Library
<1>3. c \in Range(clnts) /\ (cstate[c] = "capturing" => request[c] = NoRequest)
  <2>1. cstate[c] # "off"
    BY <1>1 DEF ChannelRequest, ChannelNotify, UpdateServices, DeviceIoctl, HangUp, Send
  <2> QED
    BY <2>1, Connected, NoneAsked
<1>4. Pact(chn[c], cprio[c], request[c], q, ev[c], app[c])
  BY <1>3, PactOf
<1>5. inbox'[c] = inbox[c] /\ \A d \in Client \ {c} : inbox'[d] = inbox[d]
  BY <1>2
<1> SUFFICES /\ cstate'[c] \in {"off", "error"} => app'[c] = "idle"
             /\ Pact(chn[c], cprio'[c], request'[c], q, ev'[c], app'[c])
  BY <1>2, <1>3, <1>5, ClientPact
<1> HIDE DEF q
<1>6. CASE \E p \in Prios : cprio[c] = 0 /\ ChannelRequest(c, p, TRUE)
  <2>1. PICK p \in Prios : cprio[c] = 0 /\ ChannelRequest(c, p, TRUE)
    BY <1>6
  <2>2. /\ request'[c].type = "token" /\ app'[c] = "idle" /\ cprio'[c] # 0
        /\ ev'[c] \subseteq ev[c]
    BY <2>1, ChannelAssumption DEF ChannelRequest, Send, ChannelInv, Wire, Library
  <2>3. ~Returns(request'[c])
    BY <2>2 DEF Returns
  <2>4. chn[c].token = "none" /\ ~chn[c].valid
    BY <1>4, <2>1 DEF Pact
  <2>5. ~Knows(q, ev[c], app[c]) /\ ~Recalled(q, ev[c])
    BY <1>4, <2>4 DEF Pact
  <2>6. ~Knows(q, ev'[c], app'[c]) /\ ~Recalled(q, ev'[c])
    BY <2>2, <2>5 DEF Knows, Recalled
  <2>7. "reclaimed" \notin ev'[c]
    BY <2>6 DEF Recalled
  <2> QED
    BY <1>4, <2>2, <2>3, <2>4, <2>6, <2>7 DEF Pact
<1>7. CASE ChannelNotify(c, {"FLUSH"})
  <2>1. /\ request'[c] = [type |-> "notify", flags |-> {"FLUSH"}]
        /\ app'[c] = IF app[c] = "idle" THEN "idle" ELSE "switched"
        /\ ev'[c] = ev[c] /\ cprio'[c] = cprio[c] /\ cstate'[c] = "wait_notify"
        /\ request[c] = NoRequest
    BY <1>3, <1>7 DEF ChannelNotify, Send, ChannelInv, Wire, Library
  <2>2. ~Returns(request'[c]) /\ request'[c].type # "token"
    BY <2>1 DEF Returns
  <2>3. Knows(q, ev'[c], app'[c]) => Knows(q, ev[c], app[c])
    BY <2>1 DEF Knows
  <2> QED
    BY <1>4, <2>1, <2>2, <2>3 DEF Pact
<1>8. CASE DeviceIoctl(c) \/ \E s \in Services : UpdateServices(c, s)
  <2>1. /\ request'[c].type \in {"ioctl", "service"} /\ cstate'[c] \in {"wait_ioctl", "wait_srv"}
        /\ UNCHANGED <<ev, app, cprio>>
    BY <1>8 DEF DeviceIoctl, UpdateServices, Send, ChannelInv, Wire, Library
  <2>2. ~Returns(request'[c]) /\ request'[c].type # "token"
    BY <2>1 DEF Returns
  <2> QED
    BY <1>4, <2>1, <2>2 DEF Pact
<1>9. CASE HangUp(c)
  <2>1. app'[c] = "idle" /\ UNCHANGED <<ev, request, cprio>>
    BY <1>9 DEF HangUp, ChannelInv, Library
  <2>2. Knows(q, ev'[c], app'[c]) => Knows(q, ev[c], app[c])
    BY <2>1 DEF Knows
  <2> QED
    BY <1>4, <2>1, <2>2 DEF Pact
<1> QED
  BY <1>1, <1>6, <1>7, <1>8, <1>9

\* A callback, with the rest i of the messages to be read.
LEMMA CallbackKeepsPact ==
  ASSUME ChannelInv, PactInv, NEW c \in Range(clnts), UNCHANGED <<daemonVars, cprio>>,
         NEW i, inbox' = [inbox EXCEPT ![c] = i], NEW e, Callback(c, e),
         Pact(chn[c], cprio[c], request[c], Sent(i, out[c]), e, app[c])
  PROVE  PactInv'
<1> DEFINE r == [type |-> "notify", flags |-> {"TOKEN"}]
           a == IF "granted" \in e THEN "granted" ELSE app[c]
<1>1. c \in Client
  BY Member
<1>2. /\ inbox'[c] = i /\ ev'[c] = {}
      /\ \A d \in Client \ {c} : inbox'[d] = inbox[d] /\ ev'[d] = ev[d]
  BY <1>1 DEF Callback, ChannelInv, Wire, Library
<1>3. /\ \A d \in Client \ {c} :
           cstate'[d] = cstate[d] /\ request'[d] = request[d] /\ app'[d] = app[d]
      /\ cstate'[c] \in {"capturing", "wait_notify"}
      /\ "reclaimed" \in e => request'[c] = r /\ app'[c] = "idle"
      /\ "reclaimed" \notin e => request'[c] = request[c] /\ app'[c] = a
  <2>1. CASE "reclaimed" \in e
    BY <1>1, <2>1 DEF Callback, ChannelInv, Wire, Library
  <2>2. CASE "reclaimed" \notin e
    BY <1>1, <2>2 DEF Callback, ChannelInv, Wire, Library
  <2> QED
    BY <2>1, <2>2
<1> HIDE DEF r, a
<1>4. /\ "reclaimed" \in e => Pact(chn[c], cprio[c], r, Sent(i, out[c]), {}, "idle")
      /\ "reclaimed" \notin e => Pact(chn[c], cprio[c], request[c], Sent(i, out[c]), {}, a)
  BY PactCalledBack DEF r, a
<1>5. Pact(chn[c], cprio'[c], request'[c], Sent(inbox'[c], out[c]), ev'[c], app'[c])
  BY <1>2, <1>3, <1>4
<1> QED
  BY <1>1, <1>2, <1>3, <1>5, ClientPact

LEMMA ReceiveKeepsPact ==
  ASSUME ChannelInv, PactInv, NEW c \in Client, Receive(c)
  PROVE  PactInv'
<1> DEFINE m == Head(inbox[c])
           e == TakeMessage(c, m)
           i == Tail(inbox[c])
<1>1. /\ cstate[c] \notin {"off", "error"} /\ inbox[c] # <<>>
      /\ inbox' = [inbox EXCEPT ![c] = i]
      /\ UNCHANGED <<daemonVars, cprio>>
  BY DEF Receive
<1>2. \/ /\ m = "token_ind"
         /\ cstate' = [cstate EXCEPT ![c] = "error"]
         /\ app' = [app EXCEPT ![c] = "idle"]
         /\ UNCHANGED <<ev, request>>
      \/ /\ m = "service_cnf"
         /\ cstate' = [cstate EXCEPT ![c] = "capturing"]
         /\ UNCHANGED <<ev, app, request>>
      \/ Callback(c, e)
      \/ /\ ev' = [ev EXCEPT ![c] = e]
         /\ UNCHANGED <<cstate, app, request>>
  BY DEF Receive
<1>3. /\ c \in Range(clnts) /\ inbox[c] \in Seq(Message) /\ out[c] \in Message \cup {NULL}
  BY <1>1, Connected DEF ChannelInv, Wire
<1>4. Pact(chn[c], cprio[c], request[c], Sent(i, out[c]), e, app[c])
  <2> DEFINE q == Sent(inbox[c], out[c])
             p == Sent(i, out[c])
  <2>1. Pact(chn[c], cprio[c], request[c], q, ev[c], app[c])
    BY <1>3, PactOf
  <2>2. /\ Len(q) \in Nat \ {0} /\ q[1] = m /\ Len(p) = Len(q) - 1
        /\ \A k \in 1 .. Len(q) - 1 : p[k] = q[k + 1]
    BY <1>1, <1>3, SentTail
  <2> HIDE DEF q, p, m
  <2>3. Pact(chn[c], cprio[c], request[c], p, TakeMessage(c, q[1]), app[c])
    BY <2>1, <2>2, PactRead
  <2> QED
    BY <2>2, <2>3 DEF p
<1>5. m = "service_cnf" => e = ev[c]
  BY DEF TakeMessage
<1>6. m = "token_ind" => ev[c] \subseteq e
  BY DEF TakeMessage
<1> HIDE DEF m, e, i
<1>7. inbox'[c] = i /\ \A d \in Client \ {c} : inbox'[d] = inbox[d]
  BY <1>1 DEF ChannelInv, Wire
<1>8. CASE /\ m = "token_ind"
           /\ cstate' = [cstate EXCEPT ![c] = "error"]
           /\ app' = [app EXCEPT ![c] = "idle"]
           /\ UNCHANGED <<ev, request>>
  <2>1. /\ app'[c] = "idle"
        /\ \A d \in Client \ {c} : cstate'[d] = cstate[d] /\ app'[d] = app[d]
    BY <1>8 DEF ChannelInv, Library
  <2>2. Pact(chn[c], cprio[c], request[c], Sent(i, out[c]), ev[c], "idle")
    <3>1. /\ Knows(Sent(i, out[c]), ev[c], "idle") => Knows(Sent(i, out[c]), e, app[c])
          /\ Recalled(Sent(i, out[c]), ev[c]) => Recalled(Sent(i, out[c]), e)
      BY <1>6, <1>8 DEF Knows, Recalled
    <3> QED
      BY <1>4, <1>6, <1>8, <3>1 DEF Pact
  <2> QED
    BY <1>1, <1>3, <1>7, <1>8, <2>1, <2>2, ClientPact
<1>9. CASE /\ m = "service_cnf"
           /\ cstate' = [cstate EXCEPT ![c] = "capturing"]
           /\ UNCHANGED <<ev, app, request>>
  <2>1. cstate'[c] = "capturing" /\ \A d \in Client \ {c} : cstate'[d] = cstate[d]
    BY <1>9 DEF ChannelInv, Library
  <2> QED
    BY <1>1, <1>3, <1>4, <1>5, <1>7, <1>9, <2>1, ClientPact
<1>10. CASE Callback(c, e)
  BY <1>1, <1>3, <1>4, <1>10, CallbackKeepsPact
<1>11. CASE /\ ev' = [ev EXCEPT ![c] = e]
            /\ UNCHANGED <<cstate, app, request>>
  <2>1. ev'[c] = e /\ \A d \in Client \ {c} : ev'[d] = ev[d]
    BY <1>11 DEF ChannelInv, Library
  <2> QED
    BY <1>1, <1>3, <1>4, <1>7, <1>11, <2>1, ClientPact
<1> QED
  BY <1>2, <1>8, <1>9, <1>10, <1>11

LEMMA ReadKeepsPact ==
  ASSUME ChannelInv, PactInv, NEW c \in Client, ReadSliced(c)
  PROVE  PactInv'
<1>1. /\ cstate[c] = "capturing" /\ Callback(c, ev[c])
      /\ UNCHANGED <<daemonVars, inbox, cprio>>
  BY DEF ReadSliced
<1>2. c \in Range(clnts)
  BY <1>1, Connected
<1>3. inbox' = [inbox EXCEPT ![c] = inbox[c]]
  BY <1>1 DEF ChannelInv, Wire
<1> QED
  BY <1>1, <1>2, <1>3, PactOf, CallbackKeepsPact

LEMMA ConnectKeepsPact ==
  ASSUME ChannelInv, PactInv, NEW c \in Client, NEW s \in Services, Connect(c, s)
  PROVE  PactInv'
<1>1. /\ cstate[c] = "off" /\ c \notin Range(clnts) /\ clnts' = Append(clnts, c)
      /\ cstate' = [cstate EXCEPT ![c] = "capturing"]
      /\ cprio' = [cprio EXCEPT ![c] = 0]
      /\ ev' = [ev EXCEPT ![c] = {}]
      /\ UNCHANGED <<chn, out, request, inbox, app>>
  BY DEF Connect
<1>2. Range(clnts') = Range(clnts) \cup {c} /\ Range(clnts) \subseteq Client
  <2>1. clnts \in Seq(Client) /\ IsInjective(clnts)
    BY DEF ChannelInv, Books, Lists
  <2>2. Range(clnts) \subseteq Client
    BY <2>1 DEF Range
  <2> QED
    BY <1>1, <2>1, <2>2, AppendDistinct
<1>3. chn'[c].token = "none" /\ ~chn'[c].valid /\ app'[c] = "idle"
  BY <1>1 DEF PactInv
<1>4. Sole(chn', clnts')
  BY <1>1, <1>2, <1>3 DEF PactInv, Sole
<1>5. \A d \in Client \ {c} :
        /\ d \in Range(clnts') <=> d \in Range(clnts)
        /\ cstate'[d] = cstate[d] /\ ev'[d] = ev[d] /\ cprio'[d] = cprio[d]
  BY <1>1, <1>2 DEF ChannelInv, Library
<1>6. request'[c] = NoRequest /\ Sent(inbox'[c], out'[c]) = <<>> /\ cprio'[c] = 0 /\ ev'[c] = {}
  <2>1. ClientOK(FALSE, cstate[c], request[c], inbox[c], out[c])
    BY <1>1 DEF ChannelInv, Talks, ClientOK
  <2> QED
    BY <1>1, <2>1 DEF ClientOK, Sent, ChannelInv, Library
<1>7. Pact(chn'[c], cprio'[c], request'[c], Sent(inbox'[c], out'[c]), ev'[c], app'[c])
  <2>1. PICK q : q = Sent(inbox'[c], out'[c]) /\ Len(q) = 0
    BY <1>6
  <2>2. \A M : ~Among(q, M)
    BY <2>1 DEF Among
  <2>3. ~Knows(q, {}, "idle") /\ ~Recalled(q, {}) /\ ~Returns(NoRequest) /\ NoRequest.type = "none"
    BY <2>2 DEF Knows, Recalled, Returns, NoRequest
  <2>4. \A j, k \in 1 .. Len(q) : FALSE
    BY <2>1
  <2> QED
    BY <1>3, <1>6, <2>1, <2>3, <2>4 DEF Pact
<1> QED
  BY <1>1, <1>2, <1>3, <1>4, <1>5, <1>7, PactStep

\* A step of the daemon about the client c, in which the scheduler may run.
LEMMA ScheduledPact ==
  ASSUME ChannelInv, PactInv, ReclaimStands, NEW c \in Client, clnts' \in Seq(Client),
         \A d \in Client \ {c} :
           /\ d \in Range(clnts') <=> d \in Range(clnts)
           /\ cstate'[d] = cstate[d] /\ request'[d] = request[d]
           /\ inbox'[d] = inbox[d] /\ out'[d] = out[d],
         UNCHANGED <<cprio, ev, app>>,
         NEW s \in States, \A d \in Client \ {c} : s[d] = chn[d],
         c \in Range(clnts') => c \in Range(clnts) /\ (s[c].token # "none" => chn[c].token # "none"),
         c \notin Range(clnts') => s[c].token = "none" /\ ~s[c].valid,
         NEW forced \in BOOLEAN, NEW req, req = c \/ req \notin Client,
         Update(s, clnts', forced, req) \/ NoUpdate(s),
         cstate'[c] \in {"off", "error"} => app[c] = "idle",
         c \in Range(clnts') =>
           Pact(chn'[c], cprio[c], request'[c], Sent(inbox'[c], out'[c]), ev[c], app[c])
  PROVE  PactInv'
<1>1. Range(clnts') \subseteq Client
  BY DEF Range
<1>2. \A d \in Range(clnts') : d \in Range(clnts) /\ (s[d].token # "none" => chn[d].token # "none")
  BY <1>1
<1>3. Sole(s, clnts')
  BY <1>2 DEF PactInv, Sole
<1>4. /\ Sole(chn', clnts')
      /\ \A d \in Client :
           /\ chn'[d].valid = s[d].valid
           /\ s[d].token \in {"granted", "reclaim"} => chn'[d].token \in {"granted", "reclaim"}
           /\ s[d].token = "release" /\ d # req => chn'[d].token \in {"release", "grant"}
           /\ s[d].token = "none" =>
                \/ chn'[d].token = "none"
                \/ d # req /\ chn'[d].token = "grant" /\ s[d].valid /\ d \in Range(clnts')
                \/ d = req /\ chn'[d].token = "granted" /\ s[d].valid /\ d \in Range(clnts')
  BY <1>3, UpdateShifts
<1>5. ASSUME NEW d \in Client \ {c}
      PROVE  /\ chn'[d].valid = chn[d].valid
             /\ chn[d].token \in {"granted", "reclaim"} => chn'[d].token \in {"granted", "reclaim"}
             /\ chn[d].token = "release" => chn'[d].token = "release"
             /\ chn[d].token = "none" /\ (~chn[d].valid \/ d \notin Range(clnts)) =>
                  chn'[d].token = "none"
  <2>1. s[d] = chn[d] /\ d # req /\ (d \in Range(clnts') <=> d \in Range(clnts)) /\ d \in Client
    OBVIOUS
  <2>2. chn[d].token = "release" => chn'[d].token # "grant"
    BY <2>1 DEF ReclaimStands
  <2> QED
    BY <1>4, <2>1, <2>2
<1>6. c \notin Range(clnts') => chn'[c].token = "none" /\ ~chn'[c].valid
  BY <1>4
<1> QED
  BY <1>1, <1>4, <1>5, <1>6, PactStep

LEMMA TokenReqKeepsPact ==
  ASSUME ChannelInv, PactInv, ReclaimStands, NEW c, Visited(c), c \in rd,
         TakeTokenReq(c), UNCHANGED <<inbox, clientVars>>
  PROVE  PactInv'
<1> DEFINE s == [chn EXCEPT ![c] = Cleared(request[c].prio, request[c].valid)]
           m == IF chn'[c].token = "granted" THEN "token_yes" ELSE "token_no"
<1>1. /\ c \in Client /\ request[c] \in Request /\ c \in Range(clnts) /\ clnts \in Seq(Client)
      /\ inbox[c] \in Seq(Message)
  BY Visiting, Member DEF ChannelInv, Books
<1>2. /\ request[c].type = "token" /\ Update(s, clnts, FALSE, c) /\ Reply(c, m)
      /\ UNCHANGED <<clnts, inbox, cstate, cprio, ev, app>>
  BY DEF TakeTokenReq, clientVars
<1>3. s \in States /\ s[c].token = "none" /\ \A d \in Client \ {c} : s[d] = chn[d]
  <2>1. request[c].prio \in 1 .. 3 /\ request[c].valid \in BOOLEAN
    BY <1>1, <1>2 DEF Request
  <2>2. chn \in States
    BY DEF ChannelInv, Scheduled
  <2>3. Cleared(request[c].prio, request[c].valid).token = "none"
    BY DEF Cleared
  <2>4. s[c].token = "none" /\ \A d \in Client \ {c} : s[d] = chn[d]
    BY <1>1, <2>2, <2>3 DEF States
  <2> QED
    BY <1>1, <2>1, <2>2, <2>4, ClearedTyped, StateWith
<1> HIDE DEF s
<1>4. /\ out'[c] = m /\ request'[c] = NoRequest
      /\ \A d \in Client \ {c} : out'[d] = out[d] /\ request'[d] = request[d]
  BY <1>1, <1>2 DEF Reply, ChannelInv, Wire
<1>5. out[c] = NULL
  BY Visiting DEF ChannelInv, Lists
<1>6. Pact(chn[c], cprio[c], request[c], inbox[c], ev[c], app[c])
  BY <1>1, <1>5, PactOf DEF Sent
<1>7. chn[c].token = "none" /\ cprio[c] # 0
  BY <1>2, <1>6 DEF Pact
<1>8. chn'[c].token \in {"none", "granted"}
  <2>1. Sole(s, clnts)
    <3>1. \A d \in Range(clnts) : s[d].token # "none" => chn[d].token # "none"
      BY <1>1, <1>3, Member
    <3> QED
      BY <3>1 DEF PactInv, Sole
  <2>2. FALSE \in BOOLEAN
    OBVIOUS
  <2> QED
    BY <1>1, <1>2, <1>3, <2>1, <2>2, UpdateShifts
<1>9. Pact(chn'[c], cprio[c], NoRequest, Append(inbox[c], m), ev[c], app[c])
  <2>1. CASE chn'[c].token = "granted"
    <3>1. m \in TokenNews /\ m # "reclaim_req"
      BY <2>1 DEF TokenNews
    <3> HIDE DEF m
    <3> QED
      BY <1>1, <1>6, <1>7, <2>1, <3>1, PactTold
  <2>2. CASE chn'[c].token = "none"
    <3>1. m \in Message \ TokenNews
      BY <2>2 DEF TokenNews, Message
    <3> HIDE DEF m
    <3>2. Pact(chn[c], cprio[c], NoRequest, Append(inbox[c], m), ev[c], app[c])
      BY <1>1, <1>6, <3>1, PactOther
    <3> QED
      BY <1>7, <2>2, <3>2 DEF Pact, NoRequest
  <2> QED
    BY <1>8, <2>1, <2>2
<1>10. Sent(inbox'[c], out'[c]) = Append(inbox[c], m)
  BY <1>2, <1>4, NullAssumption DEF Sent, Message
<1>11. /\ s[c].token # "none" => chn[c].token # "none"
       /\ cstate'[c] \in {"off", "error"} => app[c] = "idle"
  BY <1>1, <1>2, <1>3 DEF PactInv
<1> HIDE DEF m
<1>12. FALSE \in BOOLEAN
  OBVIOUS
<1> QED
  BY <1>1, <1>2, <1>3, <1>4, <1>9, <1>10, <1>11, <1>12, ScheduledPact

LEMMA NotifyReqKeepsPact ==
  ASSUME ChannelInv, PactInv, ReclaimStands, NEW c, Visited(c), c \in rd,
         TakeNotifyReq(c), UNCHANGED <<inbox, clientVars>>
  PROVE  PactInv'
<1> DEFINE f == request[c].flags
           s == Notified(chn, c, f)
           forced == "FLUSH" \in f /\ ~Controls(chn, c)
<1>1. /\ c \in Client /\ c \in Range(clnts) /\ clnts \in Seq(Client)
      /\ inbox[c] \in Seq(Message) /\ chn \in States
  BY Visiting, Member DEF ChannelInv, Books, Scheduled
<1>2. /\ request[c].type = "notify" /\ (Update(s, clnts, forced, NULL) \/ NoUpdate(s))
      /\ Reply(c, "notify_cnf")
      /\ UNCHANGED <<clnts, inbox, cstate, cprio, ev, app>>
  BY DEF TakeNotifyReq, clientVars
<1>3. /\ s \in States /\ \A d \in Client \ {c} : s[d] = chn[d]
      /\ "RELEASE" \notin f /\ "TOKEN" \notin f => s = chn
  BY <1>1, NotifiedTyped
<1>4. /\ out'[c] = "notify_cnf" /\ request'[c] = NoRequest
      /\ \A d \in Client \ {c} : out'[d] = out[d] /\ request'[d] = request[d]
  BY <1>1, <1>2 DEF Reply, ChannelInv, Wire
<1>5. out[c] = NULL
  BY Visiting DEF ChannelInv, Lists
<1>6. Pact(chn[c], cprio[c], request[c], inbox[c], ev[c], app[c])
  BY <1>1, <1>5, PactOf DEF Sent
<1>7. Pact(chn[c], cprio[c], NoRequest, Append(inbox[c], "notify_cnf"), ev[c], app[c])
  <2>1. "notify_cnf" \in Message \ TokenNews
    BY DEF Message, TokenNews
  <2> QED
    BY <1>1, <1>6, <2>1, PactOther
<1>8. /\ "TOKEN" \in f <=> Returns(request[c])
      /\ "RELEASE" \notin f
      /\ s[c].token # "none" => chn[c].token # "none"
  <2>1. ("TOKEN" \in f <=> Returns(request[c])) /\ "RELEASE" \notin f
    BY <1>2, <1>6 DEF Pact, Returns
  <2>2. "TOKEN" \in f => chn[c].token = "release"
    BY <1>6, <2>1 DEF Pact
  <2> HIDE DEF s, f
  <2> QED
    BY <1>3, <2>1, <2>2
<1>9. NULL \notin Client /\ forced \in BOOLEAN /\ c # NULL
  BY <1>1, SchedulerAssumption DEF Controls
<1>10. Sole(s, clnts)
  <2>1. \A d \in Range(clnts) : s[d].token # "none" => chn[d].token # "none"
    BY <1>1, <1>3, <1>8, Member
  <2> QED
    BY <2>1 DEF PactInv, Sole
<1> HIDE DEF s, forced
<1>11. Pact(chn'[c], cprio[c], NoRequest, Append(inbox[c], "notify_cnf"), ev[c], app[c])
  <2>1. CASE "TOKEN" \in f
    <3>1. /\ ~Knows(inbox[c], ev[c], app[c]) /\ ~Recalled(inbox[c], ev[c])
          /\ chn[c].token = "release" /\ cprio[c] # 0
      BY <1>6, <1>8, <2>1 DEF Pact
    <3>2. /\ ~Knows(Append(inbox[c], "notify_cnf"), ev[c], app[c])
          /\ ~Recalled(Append(inbox[c], "notify_cnf"), ev[c])
      <4>1. PICK p : p = Append(inbox[c], "notify_cnf")
        OBVIOUS
      <4>2. /\ Len(p) = Len(inbox[c]) + 1 /\ Len(inbox[c]) \in Nat
            /\ p[Len(inbox[c]) + 1] = "notify_cnf"
            /\ \A k \in 1 .. Len(inbox[c]) : p[k] = inbox[c][k]
        BY <1>1, <4>1 DEF Message
      <4>3. \A M \in SUBSET TokenNews : Among(p, M) => Among(inbox[c], M)
        BY <4>2 DEF Among, TokenNews
      <4>4. {"token_ind", "token_yes"} \in SUBSET TokenNews /\ {"reclaim_req"} \in SUBSET TokenNews
        BY DEF TokenNews
      <4>5. ~Knows(p, ev[c], app[c]) /\ ~Recalled(p, ev[c])
        BY <3>1, <4>3, <4>4 DEF Knows, Recalled
      <4> QED
        BY <4>1, <4>5
    <3> QED
      BY <1>7, <3>1, <3>2 DEF Pact, Returns, NoRequest, Recalled
  <2>2. CASE "TOKEN" \notin f
    <3>1. s = chn
      BY <1>3, <1>8, <2>2
    <3>2. /\ chn'[c].valid = chn[c].valid
          /\ chn[c].token \in {"granted", "reclaim"} => chn'[c].token \in {"granted", "reclaim"}
          /\ chn[c].token = "release" => chn'[c].token \in {"release", "grant"}
          /\ chn[c].token = "none" /\ ~chn[c].valid => chn'[c].token = "none"
      <4>1. \A d \in Client :
              /\ chn'[d].valid = s[d].valid
              /\ s[d].token \in {"granted", "reclaim"} => chn'[d].token \in {"granted", "reclaim"}
              /\ s[d].token = "release" /\ d # NULL => chn'[d].token \in {"release", "grant"}
              /\ s[d].token = "none" =>
                   \/ chn'[d].token = "none"
                   \/ d # NULL /\ chn'[d].token = "grant" /\ s[d].valid /\ d \in Range(clnts)
                   \/ d = NULL /\ chn'[d].token = "granted" /\ s[d].valid /\ d \in Range(clnts)
        BY <1>1, <1>2, <1>3, <1>9, <1>10, UpdateShifts
      <4> QED
        BY <1>1, <1>9, <3>1, <4>1
    <3>3. chn[c].token = "release" => chn'[c].token = "release"
      BY <1>1, <3>2 DEF ReclaimStands
    <3> QED
      BY <1>7, <3>2, <3>3, PactKept
  <2> QED
    BY <2>1, <2>2
<1>12. Sent(inbox'[c], out'[c]) = Append(inbox[c], "notify_cnf")
  BY <1>2, <1>4, NullAssumption DEF Sent, Message
<1>13. cstate'[c] \in {"off", "error"} => app[c] = "idle"
  BY <1>1, <1>2 DEF PactInv
<1> QED
  BY <1>1, <1>2, <1>3, <1>4, <1>8, <1>9, <1>11, <1>12, <1>13, ScheduledPact

LEMMA OtherReqKeepsPact ==
  ASSUME ChannelInv, PactInv, NEW c, Visited(c), c \in rd,
         TakeServiceReq(c) \/ TakeIoctlReq(c), UNCHANGED <<inbox, clientVars>>
  PROVE  PactInv'
<1>1. /\ c \in Client /\ c \in Range(clnts) /\ clnts \in Seq(Client)
      /\ inbox[c] \in Seq(Message) /\ chn \in States
  BY Visiting, Member DEF ChannelInv, Books, Scheduled
<1>2. /\ request[c].type \in {"service", "ioctl"}
      /\ \E m \in {"service_cnf", "ioctl_cnf", "ioctl_rej"} : Reply(c, m)
      /\ UNCHANGED <<clnts, chn, inbox, cstate, cprio, ev, app>>
  BY DEF TakeServiceReq, TakeIoctlReq, clientVars
<1>3. PICK m \in {"service_cnf", "ioctl_cnf", "ioctl_rej"} : Reply(c, m)
  BY <1>2
<1>4. /\ out'[c] = m /\ request'[c] = NoRequest
      /\ \A d \in Client \ {c} : out'[d] = out[d] /\ request'[d] = request[d]
  BY <1>1, <1>3 DEF Reply, ChannelInv, Wire
<1>5. out[c] = NULL /\ m \in Message \ TokenNews
  BY Visiting DEF ChannelInv, Lists, Message, TokenNews
<1>6. Pact(chn[c], cprio[c], request[c], inbox[c], ev[c], app[c])
  BY <1>1, <1>5, PactOf DEF Sent
<1>7. Pact(chn[c], cprio[c], NoRequest, Append(inbox[c], m), ev[c], app[c])
  BY <1>1, <1>5, <1>6, PactOther
<1>8. Sent(inbox'[c], out'[c]) = Append(inbox[c], m)
  BY <1>2, <1>4, <1>5, NullAssumption DEF Sent
<1>9. Range(clnts') \subseteq Client /\ Sole(chn', clnts')
  BY <1>1, <1>2 DEF PactInv, Sole, Range
<1>10. cstate'[c] \in {"off", "error"} => app'[c] = "idle"
  BY <1>1, <1>2 DEF PactInv
<1> QED
  BY <1>1, <1>2, <1>4, <1>7, <1>8, <1>9, <1>10, PactStep

\* An application that has hung up believes nothing.
LEMMA CloseKeepsPact ==
  ASSUME ChannelInv, PactInv, ReclaimStands, NEW c, Visited(c), Close(c)
  PROVE  PactInv'
<1>1. c \in Client
  BY Visiting, Member
<1> DEFINE L == RemoveFirst(clnts, c)
           s == [chn EXCEPT ![c] = Cleared(INTERACTIVE, FALSE)]
<1>2. /\ clnts' = L /\ (Update(s, L, FALSE, NULL) \/ NoUpdate(s))
      /\ out' = [out EXCEPT ![c] = NULL]
      /\ inbox' = [inbox EXCEPT ![c] = <<>>]
      /\ cstate[c] = "error" /\ cstate' = [cstate EXCEPT ![c] = "off"]
      /\ request' = [request EXCEPT ![c] = NoRequest]
      /\ UNCHANGED <<cprio, ev, app>>
  BY DEF Close
<1>3. L \in Seq(Client) /\ Range(L) = Range(clnts) \ {c}
  BY Unlinked DEF ChannelInv, Books, Lists
<1>4. /\ s \in States /\ s[c].token = "none" /\ ~s[c].valid
      /\ \A d \in Client \ {c} : s[d] = chn[d]
  <2>1. INTERACTIVE \in 1 .. 3 /\ FALSE \in BOOLEAN
    BY DEF INTERACTIVE
  <2> HIDE DEF INTERACTIVE
  <2>2. PICK x : x = Cleared(INTERACTIVE, FALSE)
    OBVIOUS
  <2>3. x \in ChannelState /\ x.cycle <= 2
    BY <2>1, <2>2, ClearedTyped
  <2>4. x.token = "none" /\ ~x.valid
    BY <2>2 DEF Cleared
  <2>5. chn \in States
    BY DEF ChannelInv, Scheduled
  <2>6. [chn EXCEPT ![c] = x] \in States
    BY <1>1, <2>3, <2>5, StateWith
  <2>7. s = [chn EXCEPT ![c] = x]
    BY <2>2
  <2> HIDE DEF s
  <2> QED
    BY <1>1, <2>4, <2>5, <2>6, <2>7 DEF States
<1> HIDE DEF L, s
<1>5. \A d \in Client \ {c} :
        /\ d \in Range(clnts') <=> d \in Range(clnts)
        /\ cstate'[d] = cstate[d] /\ request'[d] = request[d]
        /\ inbox'[d] = inbox[d] /\ out'[d] = out[d]
  BY <1>2, <1>3 DEF ChannelInv, Wire, Library
<1>6. /\ c \notin Range(clnts') /\ NULL \notin Client /\ FALSE \in BOOLEAN /\ clnts' \in Seq(Client)
      /\ app[c] = "idle"
  BY <1>1, <1>2, <1>3, SchedulerAssumption DEF PactInv
<1> QED
  BY <1>1, <1>2, <1>4, <1>5, <1>6, ScheduledPact

\* A message is written, and what is due to the client is sent.
LEMMA WriteKeepsPact ==
  ASSUME ChannelInv, PactInv, NEW c, WriteClient(c)
  PROVE  PactInv'
<1>1. Visited(c) /\ UNCHANGED <<clnts, request, cstate, cprio, ev, app>>
  BY DEF WriteClient, clientVars
<1>2. /\ c \in Range(clnts) /\ c \in Client /\ inbox[c] \in Seq(Message)
      /\ out[c] \in Message \cup {NULL} /\ Range(clnts) \subseteq Client
      /\ chn \in States /\ chn[c] \in ChannelState
  BY <1>1, Visiting, Member DEF ChannelInv, Scheduled, States
<1>3. /\ Pact(chn[c], cprio[c], request[c], Sent(inbox[c], out[c]), ev[c], app[c])
      /\ cstate'[c] \in {"off", "error"} => app'[c] = "idle"
  BY <1>1, <1>2, PactOf DEF PactInv
<1>4. CASE /\ ~(out[c] # NULL /\ ~Room(c))
           /\ IdleSend(c)
           /\ inbox' = IF out[c] = NULL THEN inbox ELSE [inbox EXCEPT ![c] = Append(@, out[c])]
  <2>1. PICK i : i = Sent(inbox[c], out[c])
    OBVIOUS
  <2>2. inbox' = [inbox EXCEPT ![c] = i] /\ i \in Seq(Message)
    <3>1. inbox \in [Client -> Seq(Message)]
      BY DEF ChannelInv, Wire
    <3>2. CASE out[c] = NULL
      <4>1. inbox' = inbox /\ i = inbox[c]
        BY <1>4, <2>1, <3>2 DEF Sent
      <4> QED
        BY <1>2, <3>1, <4>1
    <3>3. CASE out[c] # NULL
      <4>1. inbox' = [inbox EXCEPT ![c] = i] /\ i = Append(inbox[c], out[c]) /\ out[c] \in Message
        BY <1>2, <1>4, <2>1, <3>3 DEF Sent
      <4> QED
        BY <1>2, <4>1
    <3> QED
      BY <3>2, <3>3
  <2>3. PICK m, t : /\ out' = [out EXCEPT ![c] = m]
                    /\ chn' = [chn EXCEPT ![c].token = t]
                    /\ \/ t = "release" /\ m = "reclaim_req" /\ chn[c].token = "reclaim"
                       \/ t = "granted" /\ m = "token_ind" /\ chn[c].token = "grant"
                       \/ t = chn[c].token /\ m \in {"change_ind", NULL}
    <3>1. chn = [chn EXCEPT ![c].token = chn[c].token]
      BY <1>2 DEF States, ChannelState
    <3> QED
      BY <1>4, <3>1 DEF IdleSend
  <2>4. inbox'[c] = i /\ out'[c] = m /\ chn'[c] = [chn[c] EXCEPT !.token = t]
    BY <1>2, <2>2, <2>3 DEF ChannelInv, Wire, States
  <2>5. chn'[c].token = t /\ chn'[c].valid = chn[c].valid
    BY <1>2, <2>4 DEF ChannelState
  <2>6. \A d \in Client \ {c} : inbox'[d] = inbox[d] /\ out'[d] = out[d] /\ chn'[d] = chn[d]
    BY <1>2, <2>2, <2>3 DEF ChannelInv, Wire, States
  <2>7. Sole(chn', clnts')
    <3>1. \A d \in Range(clnts) : chn'[d].token # "none" => chn[d].token # "none"
      BY <1>2, <2>3, <2>5, <2>6
    <3> QED
      BY <1>1, <3>1 DEF PactInv, Sole
  <2>8. Pact(chn[c], cprio[c], request[c], i, ev[c], app[c])
    BY <1>3, <2>1
  <2>9. Pact(chn'[c], cprio[c], request[c], Sent(i, m), ev[c], app[c])
    <3>1. CASE m \in {"reclaim_req", "token_ind"}
      <4>1. /\ m \in TokenNews /\ Sent(i, m) = Append(i, m)
            /\ chn[c].token \notin {"release", "none"}
            /\ chn'[c].token = IF m = "reclaim_req" THEN "release" ELSE "granted"
        BY <2>3, <2>5, <3>1, NullAssumption DEF TokenNews, Sent, Message
      <4>2. cprio[c] # 0
        BY <2>8, <4>1 DEF Pact
      <4> QED
        BY <2>2, <2>8, <4>1, <4>2, PactTold
    <3>2. CASE m \notin {"reclaim_req", "token_ind"}
      <4>1. chn'[c].token = chn[c].token /\ m \in {"change_ind", NULL}
        BY <2>3, <2>5, <3>2
      <4>2. Pact(chn'[c], cprio[c], request[c], i, ev[c], app[c])
        BY <2>5, <2>8, <4>1, PactKept
      <4>3. CASE m = NULL
        BY <4>2, <4>3 DEF Sent
      <4>4. CASE m # NULL
        <5>1. m \in Message \ TokenNews /\ Sent(i, m) = Append(i, m)
          BY <4>1, <4>4 DEF Message, TokenNews, Sent
        <5> QED
          BY <2>2, <4>2, <5>1, PactOther
      <4> QED
        BY <4>3, <4>4
    <3> QED
      BY <3>1, <3>2
  <2> QED
    BY <1>1, <1>2, <1>3, <2>4, <2>6, <2>7, <2>9, PactStep
<1>5. CASE UNCHANGED <<chn, ind, out, inbox>>
  <2>1. Sole(chn', clnts')
    BY <1>1, <1>5 DEF PactInv, Sole
  <2> QED
    BY <1>1, <1>2, <1>3, <1>5, <2>1, PactStep
<1> QED
  BY <1>4, <1>5 DEF WriteClient

LEMMA VisitKeepsPact ==
  ASSUME ChannelInv, PactInv, ReclaimStands, NEW c,
         ReadClient(c) \/ WriteClient(c) \/ WriteFails(c)
  PROVE  PactInv'
<1>1. Visited(c)
  BY DEF ReadClient, WriteClient, WriteFails
<1>2. CASE ReadClient(c)
  <2>1. c \in rd
    BY <1>2 DEF ReadClient
  <2>2. \/ /\ TakeTokenReq(c) \/ TakeNotifyReq(c) \/ TakeServiceReq(c) \/ TakeIoctlReq(c)
           /\ UNCHANGED <<inbox, clientVars>>
        \/ Close(c)
    BY <1>2 DEF ReadClient
  <2> QED
    BY <1>1, <2>1, <2>2, TokenReqKeepsPact, NotifyReqKeepsPact, OtherReqKeepsPact, CloseKeepsPact
<1>3. CASE WriteClient(c)
  BY <1>3, WriteKeepsPact
<1>4. CASE WriteFails(c)
  BY <1>1, <1>4, CloseKeepsPact DEF WriteFails
<1> QED
  BY <1>2, <1>3, <1>4

\* Nothing is done to the messages or the clients, and only who waits for the
\* token gets one.
LEMMA PactsKept ==
  ASSUME ChannelInv, PactInv, ReclaimStands, Sole(chn', clnts'),
         UNCHANGED <<clnts, out, request, inbox, cstate, cprio, ev, app>>,
         \A d \in Client :
           /\ chn'[d].valid = chn[d].valid
           /\ chn[d].token \in {"granted", "reclaim"} => chn'[d].token \in {"granted", "reclaim"}
           /\ chn[d].token = "release" => chn'[d].token \in {"release", "grant"}
           /\ chn[d].token = "none" /\ (~chn[d].valid \/ d \notin Range(clnts)) =>
                chn'[d].token = "none"
  PROVE  PactInv'
<1>1. ASSUME NEW d \in Range(clnts')
      PROVE  Pact(chn'[d], cprio'[d], request'[d], Sent(inbox'[d], out'[d]), ev'[d], app'[d])
  <2>1. d \in Client /\ d \in Range(clnts)
    BY <1>1, Member
  <2>2. Pact(chn[d], cprio[d], request[d], Sent(inbox[d], out[d]), ev[d], app[d])
    BY <2>1 DEF PactInv
  <2>3. chn[d].token = "release" => chn'[d].token = "release"
    BY <2>1 DEF ReclaimStands
  <2>4. Pact(chn'[d], cprio[d], request[d], Sent(inbox[d], out[d]), ev[d], app[d])
    BY <2>1, <2>2, <2>3, PactKept
  <2> QED
    BY <2>4
<1>2. \A d \in Client \ Range(clnts') : chn'[d].token = "none" /\ ~chn'[d].valid
  BY DEF PactInv
<1>3. \A d \in Client : cstate'[d] \in {"off", "error"} => app'[d] = "idle"
  BY DEF PactInv
<1> QED
  BY <1>1, <1>2, <1>3 DEF PactInv

LEMMA PassKeepsPact ==
  ASSUME ChannelInv, PactInv, ReclaimStands, StartPass \/ EndPass
  PROVE  PactInv'
<1>1. /\ UNCHANGED <<clnts, out, request, inbox, cstate, cprio, ev, app>>
      /\ clnts \in Seq(Client) /\ chn \in States /\ NULL \notin Client /\ FALSE \in BOOLEAN
  BY SchedulerAssumption DEF StartPass, EndPass, clientVars, ChannelInv, Scheduled, Books
<1>2. UNCHANGED chn \/ Update(chn, clnts, FALSE, NULL) \/ NoUpdate(chn)
  BY DEF StartPass, EndPass
<1>3. CASE UNCHANGED chn
  <2>1. Sole(chn', clnts')
    BY <1>1, <1>3 DEF PactInv, Sole
  <2> QED
    BY <1>1, <1>3, <2>1, PactsKept
<1>4. CASE Update(chn, clnts, FALSE, NULL) \/ NoUpdate(chn)
  <2>1. Sole(chn, clnts)
    BY DEF PactInv
  <2>2. /\ Sole(chn', clnts)
        /\ \A c \in Client :
             /\ chn'[c].valid = chn[c].valid
             /\ chn[c].token \in {"granted", "reclaim"} => chn'[c].token \in {"granted", "reclaim"}
             /\ chn[c].token = "release" /\ c # NULL => chn'[c].token \in {"release", "grant"}
             /\ chn[c].token = "none" =>
                  \/ chn'[c].token = "none"
                  \/ c # NULL /\ chn'[c].token = "grant" /\ chn[c].valid /\ c \in Range(clnts)
                  \/ c = NULL /\ chn'[c].token = "granted" /\ chn[c].valid /\ c \in Range(clnts)
    <3>1. chn \in States /\ clnts \in Seq(Client) /\ FALSE \in BOOLEAN
      BY <1>1
    <3> QED
      BY <1>4, <2>1, <3>1, UpdateShifts, Zenon
  <2>3. Sole(chn', clnts')
    BY <1>1, <2>2
  <2>4. \A c \in Client : c # NULL
    BY <1>1
  <2>5. \A d \in Client :
          /\ chn'[d].valid = chn[d].valid
          /\ chn[d].token \in {"granted", "reclaim"} => chn'[d].token \in {"granted", "reclaim"}
          /\ chn[d].token = "release" => chn'[d].token \in {"release", "grant"}
          /\ chn[d].token = "none" /\ (~chn[d].valid \/ d \notin Range(clnts)) =>
               chn'[d].token = "none"
    BY <2>2, <2>4
  <2> QED
    BY <1>1, <2>3, <2>5, PactsKept
<1> QED
  BY <1>2, <1>3, <1>4

LEMMA TimeKeepsPact ==
  ASSUME ChannelInv, PactInv, ReclaimStands, AlarmFires \/ \E c \in Client : Expire(c)
  PROVE  PactInv'
<1>1. UNCHANGED <<clnts, out, request, inbox, cstate, cprio, ev, app>>
  BY DEF AlarmFires, Expire, clientVars
<1>2. \A d \in Client : chn'[d].token = chn[d].token /\ chn'[d].valid = chn[d].valid
  BY DEF AlarmFires, Expire, ChannelInv, Scheduled, States, ChannelState
<1>3. Range(clnts) \subseteq Client
  BY Member
<1>4. Sole(chn', clnts')
  BY <1>1, <1>2, <1>3 DEF PactInv, Sole
<1> QED
  BY <1>1, <1>2, <1>4, PactsKept

-----------------------------------------------------------------------------
LEMMA InitPact == Init => PactInv
<1> SUFFICES ASSUME Init
             PROVE  PactInv
  OBVIOUS
<1>1. /\ clnts = <<>> /\ chn = [c \in Client |-> Cleared(INTERACTIVE, FALSE)]
      /\ app = [c \in Client |-> "idle"]
  BY DEF Init
<1>2. Range(clnts) = {}
  BY <1>1 DEF Range
<1>3. \A c \in Client : chn[c].token = "none" /\ ~chn[c].valid
  BY <1>1 DEF Cleared
<1> QED
  BY <1>1, <1>2, <1>3 DEF PactInv, Sole

LEMMA NextPact ==
  ASSUME Polite, ChannelInv, PactInv, [Next]_vars, [ReclaimStands]_vars
  PROVE  PactInv'
<1>1. CASE UNCHANGED vars
  BY <1>1 DEF vars, daemonVars, clientVars, PactInv, Sole
<1>2. CASE ReclaimStands /\ Daemon
  BY <1>2, PassKeepsPact, VisitKeepsPact DEF Daemon
<1>3. CASE ReclaimStands /\ ~Daemon /\ Next
  BY <1>3, TimeKeepsPact, CallKeepsPact, ReceiveKeepsPact, ReadKeepsPact, ConnectKeepsPact DEF Next
<1> QED
  BY <1>1, <1>2, <1>3

LEMMA AlwaysPact ==
  ASSUME Polite
  PROVE  Spec /\ [][ReclaimStands]_vars => [](ChannelInv /\ PactInv)
<1>1. ChannelInv /\ PactInv /\ [Next]_vars /\ [ReclaimStands]_vars => PactInv'
  BY NextPact
<1> QED
  BY <1>1, InitPact, AlwaysChannel, PTL DEF Spec

\* If each application asks for the channel once, keeps the token until it is
\* reclaimed and then returns it, no two of them ever believe that they have it,
\* however late the messages and the callbacks are, and whoever switches its
\* channel, changes its services, uses the device or closes its connection: unless
\* the daemon withdraws a reclaim it has sent.  vbi_proxyd_token_grant does so
\* ("reclaim already sent -> must re-assign token"), and it is the only thing in
\* the daemon that can break the rule.
THEOREM OneBelieves ==
  ASSUME Polite
  PROVE  Spec /\ [][ReclaimStands]_vars => []TokenExclusive
<1>1. ChannelInv /\ PactInv => TokenExclusive
  BY PactMatches
<1> QED
  BY <1>1, AlwaysPact, PTL

\* Under the same conditions the loop in vbi_proxyd_get_token_owner, which takes the
\* last of the clients with a token for the owner, never has two to choose from.
THEOREM OneOwns ==
  ASSUME Polite
  PROVE  Spec /\ [][ReclaimStands]_vars => []OneOwner
<1>1. ChannelInv /\ PactInv => OneOwner
  BY PactMatches
<1> QED
  BY <1>1, AlwaysPact, PTL
=============================================================================
