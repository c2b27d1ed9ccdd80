-------------------------- MODULE ChannelScheduler --------------------------
(***************************************************************************)
(* The channel scheduler of the proxy daemon (vbi/daemon/proxyd.c): which  *)
(* of the clients of a device gets the token that allows it to switch the  *)
(* channel, and what becomes of the token of the others.                   *)
(*                                                                         *)
(* The operators take the channel states s of all clients and the list L   *)
(* of the connected ones, in the order of proxy.p_clnts.                   *)
(*                                                                         *)
(* Of the clock only what the code compares is kept: whether the reserved  *)
(* time of a client is over (expired: now - last_start >= min_duration),   *)
(* and the order of the times last_start (rank, 0 for a cleared one).      *)
(***************************************************************************)
EXTENDS Integers, Sequences, FiniteSets, SequencesExt

CONSTANTS
  Client,
  NULL,
  SubPrio,       \* chn_profile.sub_prio of each client
  MinDuration    \* chn_profile.min_duration of each client

ASSUME SchedulerAssumption ==
  /\ IsFiniteSet(Client) /\ NULL \notin Client
  /\ SubPrio \in [Client -> 0 .. 255] /\ MinDuration \in [Client -> Nat]

\* VBI_CHN_PRIO
BACKGROUND  == 1
INTERACTIVE == 2
RECORD      == 3

\* REQ_TOKEN_STATE
TokenState == {"none", "reclaim", "release", "grant", "granted", "returned"}

\* chn_prio, chn_profile.is_valid and VBIPROXY_CHN_STATE of a client
ChannelState ==
  [prio : 1 .. 3, valid : BOOLEAN, token : TokenState, completed : BOOLEAN,
   cycle : Nat, expired : BOOLEAN, rank : Nat]

\* The zeroed chn_state: last_start is long ago.
Cleared(p, v) ==
  [prio |-> p, valid |-> v, token |-> "none", completed |-> FALSE,
   cycle |-> 0, expired |-> TRUE, rank |-> 0]

\* REQ_CONTROLS_CHN
Controls(s, c) == s[c].token \in {"granted", "returned"}

-----------------------------------------------------------------------------
\* Mutant: the counters are not leveled.
CompletedNoLevel(s, L, c) ==
  [s EXCEPT ![c].completed = TRUE, ![c].cycle = @ + 1]

\* vbi_proxyd_channel_completed: the reserved time of c is over.  The cycle
\* counters of all are leveled when one overflows; a first cycle counts double
\* if another client has completed two.
Completed(s, L, c) ==
  LET n    == s[c].cycle + 1
      done == [s EXCEPT ![c].completed = TRUE, ![c].cycle = n]
  IN CASE n > 2 -> [d \in Client |->
                      IF d \in Range(L) /\ done[d].cycle > 0
                      THEN [done[d] EXCEPT !.cycle = @ - 1] ELSE done[d]]
       [] n = 1 /\ \E d \in Range(L) : done[d].cycle >= 2 ->
            [done EXCEPT ![c].cycle = 2]
       [] OTHER -> done

\* vbi_proxyd_channel_stopped: the channel is taken away from c.
Stopped(s, L, c) ==
  LET t == IF ~s[c].completed /\ s[c].expired THEN Completed(s, L, c) ELSE s
  IN [t EXCEPT ![c].completed = FALSE,
               ![c].token = IF @ = "granted" THEN "reclaim" ELSE "none"]

\* When vbi_proxyd_channel_schedule prefers w to the client p chosen so far.
Turns(s, c) == s[c].cycle + IF Controls(s, c) /\ s[c].completed THEN 1 ELSE 0

Preferred(s, w, p) ==
  \/ Turns(s, w) < Turns(s, p)
  \/ SubPrio[w] > SubPrio[p]
  \/ /\ SubPrio[w] = SubPrio[p]
     /\ \/ Controls(s, w) /\ ~s[w].completed
        \/ Controls(s, p) /\ s[p].completed
        \/ /\ ~Controls(s, w) /\ ~Controls(s, p)
           /\ \/ s[w].rank < s[p].rank
              \/ s[w].rank = s[p].rank /\ MinDuration[w] < MinDuration[p]

\* One iteration of its loop ...
Visit(L, r, c) ==
  IF ~(r.chn[c].valid /\ r.chn[c].prio = BACKGROUND) THEN r
  ELSE LET ctl == Controls(r.chn, c)
           s   == IF ctl /\ r.chn[c].expired /\ ~r.chn[c].completed
                  THEN Completed(r.chn, L, c) ELSE r.chn
       IN [chn    |-> s,
           active |-> IF ctl THEN c ELSE r.active,
           sched  |-> IF r.sched = NULL \/ Preferred(s, c, r.sched) THEN c ELSE r.sched]

\* ... and the states and the choice after it: the client which has controlled
\* the channel is stopped if another one was chosen.
StopActive(r, L) ==
  IF r.active # NULL /\ r.sched # r.active
  THEN [r EXCEPT !.chn = Stopped(r.chn, L, r.active)] ELSE r

Schedule(s, L) ==
  LET visit(r, c) == Visit(L, r, c)
  IN StopActive(FoldLeft(visit, [chn |-> s, active |-> NULL, sched |-> NULL], L), L)

-----------------------------------------------------------------------------
\* The clients that vbi_proxyd_get_token_owner finds; it asserts that there
\* is at most one.
Owners(s, L) == {c \in Range(L) : s[c].token # "none"}

\* vbi_proxyd_token_grant has to wait until another client returns the token.
MustReclaim(s, L, c) ==
  /\ s[c].token = "none"
  /\ \E d \in Owners(s, L) : s[d].token \notin {"grant", "returned"}

\* Mutant: the token is granted while another client still holds it.
TokenGrantAtOnce(s, L, c) == [s EXCEPT ![c].token = "grant"]

\* vbi_proxyd_token_grant, for a client that does not control the channel.
TokenGrant(s, L, c) ==
  CASE s[c].token = "none" /\ MustReclaim(s, L, c) ->
         [d \in Client |-> IF d \in Owners(s, L) /\ s[d].token # "release"
                           THEN [s[d] EXCEPT !.token = "reclaim"] ELSE s[d]]
    [] s[c].token = "none" /\ ~MustReclaim(s, L, c) ->
         [d \in Client |-> IF d = c THEN [s[d] EXCEPT !.token = "grant"]
                           ELSE IF d \in Owners(s, L) THEN [s[d] EXCEPT !.token = "none"]
                           ELSE s[d]]
    [] s[c].token = "reclaim" -> [s EXCEPT ![c].token = "granted"]
    [] s[c].token = "release" -> [s EXCEPT ![c].token = "grant"]
    [] OTHER -> s

\* The granted client's time begins: last_start is later than that of all
\* others, or (tie) in the same second as the latest.
Started(s, c, tie) ==
  LET ranks    == {s[d].rank : d \in Client \ {c}}
      top      == Max(ranks \cup {0})
      mine     == IF tie /\ top > 0 THEN top ELSE top + 1
      dense(r) == Cardinality({x \in ranks \cup {mine} : 0 < x /\ x <= r})
      t        == [s EXCEPT ![c].rank = mine, ![c].completed = FALSE,
                            ![c].expired = (MinDuration[c] = 0)]
  IN [d \in Client |-> [t[d] EXCEPT !.rank = dense(@)]]

\* Mutant: the alarm is not set while somebody controls the channel.
AlarmNever(s, L) == {"off"}

\* vbi_proxyd_channel_timer_update: the alarm after it.  It is not set if the
\* remaining time of the client is just zero.
Alarm(s, L) ==
  LET active == {c \in Range(L) : Controls(s, c) /\ ~s[c].completed}
  IN CASE \E c \in active : ~s[c].expired -> {"set"}
       [] active = {} -> {"off"}
       [] OTHER -> {"set", "off"}

TopPrio(s, L) == Max({BACKGROUND} \cup {s[c].prio : c \in Range(L)})

(***************************************************************************)
(* vbi_proxyd_channel_update: the channel states after it, whether the     *)
(* assertion of get_token_owner fails, and whether the device is flushed.  *)
(* The token is granted only while no client has a priority above          *)
(* background; if one has, or if the channel was switched without the      *)
(* token, the holder loses it.                                             *)
(***************************************************************************)
StopAll(s, L) ==
  LET stop(t, c) == IF Controls(t, c) THEN Stopped(t, L, c) ELSE t
  IN FoldLeft(stop, s, L)

\* The scheduler's choice r is put into effect.
Effect(r, L, forced, tie) ==
  IF r.sched = NULL \/ Controls(r.chn, r.sched)
  THEN [chn |-> r.chn, abort |-> FALSE, flush |-> forced]
  ELSE LET g == TokenGrant(r.chn, L, r.sched) IN
       [chn   |-> IF MustReclaim(r.chn, L, r.sched) THEN g ELSE Started(g, r.sched, tie),
        abort |-> /\ r.chn[r.sched].token = "none"
                  /\ Cardinality(Owners(r.chn, L)) > 1,
        flush |-> FALSE]

\* The possible outcomes: the time of a grant may be in the same second as that
\* of the last one.
ChannelUpdate(s, L, forced) ==
  LET top == TopPrio(s, L)
      s1  == IF top > BACKGROUND \/ forced THEN StopAll(s, L) ELSE s
      r   == IF top = BACKGROUND THEN Schedule(s1, L) ELSE [chn |-> s1, sched |-> NULL]
  IN {Effect(r, L, forced, tie) : tie \in BOOLEAN}
=============================================================================
