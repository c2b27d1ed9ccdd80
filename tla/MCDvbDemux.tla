----------------------------- MODULE MCDvbDemux -----------------------------
(***************************************************************************)
(* Streams for the DVB demultiplexer.                                      *)
(***************************************************************************)
EXTENDS DvbDemux

Line(f, field, line) ==
  [k |-> "unit", id |-> "ttx", field |-> field, line |-> line, of |-> f]
Illegal(f, field, line) == [Line(f, field, line) EXCEPT !.id = "illegal"]
Stuffing == [Line(0, 0, 0) EXCEPT !.id = "stuffing"]

\* A PES packet of the frame f with n cells; pts = 0 if it has no time stamp.
Start(vbi, n) == [k |-> "start", vbi |-> vbi, len |-> n - 1]
HeadOf(ok, pts) == [k |-> "head", ok |-> ok, pts |-> pts]
Units(us, n) == us \o [i \in 1 .. n - 2 - Len(us) |-> Stuffing]
Packet(pts, us, n) == [cells |-> <<Start(TRUE, n), HeadOf(TRUE, pts)>> \o Units(us, n)]
Other(cells) == [cells |-> cells]
BadHeader(f) ==
  Other(<<Start(TRUE, Payload), HeadOf(FALSE, f)>> \o Units(<<Line(f, 0, 1)>>, Payload))

PesInput(s, cor) ==
  [mode |-> "pes", cor |-> cor, sure |-> {}, expected |-> s.expected,
   cells |-> FlattenSeq([i \in 1 .. Len(s.packets) |-> s.packets[i].cells])]

\* A frame with its lines.
Frame(f, lines) == [pts |-> f, lines |-> [i \in 1 .. Len(lines) |->
                                            [of |-> f, line |-> lines[i]]]]
F2(line) == SecondField + line

\* Junk, packets of other streams and a bad header between the packets; a
\* frame in two packets of which the second has no time stamp.
Mixed == [packets |-> <<
    Other(<<Junk, Junk>>),
    Packet(1, <<Line(1, 0, 1), Line(1, 0, 2), Line(1, 1, 1)>>, Payload),
    Other(<<Start(FALSE, 3), Junk, Start(TRUE, 8)>>),
    Packet(2, <<Line(2, 0, 1), Line(2, 0, 3)>>, Payload),
    Other(<<Junk>>),
    Packet(0, <<Line(2, 1, 1)>>, Payload),
    BadHeader(3),
    Packet(3, <<Line(3, 0, 2)>>, 2 * Payload),
    Other(<<Start(TRUE, 2), Junk>>),
    Packet(4, <<Line(4, 0, 2)>>, Payload) >>,
  expected |-> <<Frame(1, <<1, 2, F2(1)>>), Frame(2, <<1, 3, F2(1)>>), Frame(3, <<2>>)>>]

\* Undefined line numbers; an illegal line and a wrong order of lines, which
\* end the packet but not the frame.
Odd == [packets |-> <<
    Packet(1, <<Line(1, 0, 0), Line(1, 0, 0), Line(1, 1, 0)>>, Payload),
    Packet(2, <<Line(2, 0, 0), Line(2, 1, 0)>>, Payload),
    Packet(3, <<Line(3, 0, 0), Line(3, 0, 2), Illegal(3, 0, 3), Line(3, 1, 1)>>, 2 * Payload),
    Packet(4, <<Line(4, 0, 2), Line(4, 0, 1), Line(4, 1, 1)>>, Payload),
    Packet(5, <<Line(5, 0, 1)>>, Payload),
    Packet(6, <<Line(6, 0, 1)>>, Payload) >>,
  expected |-> <<Frame(1, <<0, 0, 0>>), Frame(2, <<0, 0>>), Frame(3, <<0, 2>>),
                 Frame(4, <<2>>), Frame(5, <<1>>)>>]

\* More lines than the buffer has: the PES layer never gets rid of them.
Full == [packets |-> <<
    Packet(1, <<Line(1, 0, 1)>>, Payload),
    Packet(2, <<Line(2, 0, 1), Line(2, 0, 2), Line(2, 0, 3), Line(2, 1, 1), Line(2, 1, 2)>>,
           2 * Payload),
    Packet(3, <<Line(3, 0, 1)>>, Payload),
    Packet(4, <<Line(4, 0, 1)>>, Payload) >>,
  expected |-> <<Frame(1, <<1>>)>>]

-----------------------------------------------------------------------------
(***************************************************************************)
(* Transport streams: the frames 1 to 4, the second in two PES packets, and *)
(* a first PES packet of the next; a fault at one of the packets.           *)
(***************************************************************************)
Two == 2 * Payload
Pause == [i \in 1 .. 5 |-> Stuffing]
TsPes == <<
  Packet(1, <<Line(1, 0, 1), Line(1, 1, 1)>>, Two),
  Packet(2, <<Line(2, 0, 1)>> \o Pause \o <<Line(2, 0, 2)>>, Two),
  Packet(2, <<Line(2, 1, 1)>>, Two),
  Packet(3, <<Line(3, 0, 2)>> \o Pause \o <<Line(3, 1, 2)>>, Two),
  Packet(4, <<Line(4, 0, 1)>>, Two),
  Packet(5, <<Line(5, 0, 1)>>, Two) >>

\* The number of the frame to which a PES packet belongs.
FrameOf == <<1, 2, 2, 3, 4, 5>>
Sent == <<Frame(1, <<1, F2(1)>>), Frame(2, <<1, 2, F2(1)>>), Frame(3, <<2, F2(2)>>),
          Frame(4, <<1>>)>>

Ts(is, cc, pusi, cells) == <<[k |-> "ts", is |-> is, cc |-> cc % Counter, pusi |-> pusi]>> \o cells
TsOf(n) ==
  LET whole == TsPes[(n + 1) \div 2].cells
      pusi == n % 2 = 1
  IN Ts("payload", n + 1, pusi,
        IF pusi THEN SubSeq(whole, 1, Payload) ELSE SubSeq(whole, Payload + 1, Two))
Packets == 1 .. 2 * Len(TsPes)
Null == Ts("other", 0, FALSE, [i \in 1 .. Payload |-> Junk])

\* What arrives instead of the packet n.
Arrives(kind, n) ==
  LET p == TsOf(n) IN
  CASE kind = "good"     -> p
    [] kind = "lost"     -> <<>>
    [] kind = "repeated" -> p \o p
    [] kind = "null"     -> Null \o p
    [] kind = "junk"     -> <<Junk, Junk>> \o p
    [] kind = "short"    -> SubSeq(p, 1, 3)
    [] OTHER             -> [p EXCEPT ![1].is = kind]

Harmless == {"good", "null", "repeated"}

\* Faults is a function from the packets to what happens to them.
Sure(faults) ==
  LET good(n) == n = 0 \/ faults[n] \in Harmless
      of(f)   == {n \in Packets : FrameOf[(n + 1) \div 2] = f}
      clean(f) == \A n \in Min(of(f)) - 1 .. Max(of(f)) + 2 : good(n)
  IN {Sent[f] : f \in {g \in 1 .. Len(Sent) : clean(g)}}

TsInput(faults, cor) ==
  [mode |-> "ts", cor |-> cor, expected |-> <<>>, sure |-> Sure(faults),
   cells |-> FlattenSeq([n \in Packets |-> Arrives(faults[n], n)])]

Good == [n \in Packets |-> "good"]
Kinds == {"null", "repeated", "lost", "junk", "short", "tei"}
OneFault == {[Good EXCEPT ![n] = kind] : n \in 2 .. 9, kind \in Kinds}
TwoFaults == {[Good EXCEPT ![n] = "lost", ![n + 1] = "lost"] : n \in 3 .. 7}
  \cup {[Good EXCEPT ![1] = "short", ![4] = "scrambled", ![7] = "afc"],
        [Good EXCEPT ![5] = "only", ![8] = "junk"]}

MCInputs ==
  {PesInput(s, cor) : s \in {Mixed, Odd, Full}, cor \in BOOLEAN}
  \cup {TsInput(f, TRUE) : f \in OneFault \cup TwoFaults}
=============================================================================
