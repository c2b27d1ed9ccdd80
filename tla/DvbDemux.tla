------------------------------ MODULE DvbDemux ------------------------------
(***************************************************************************)
(* The DVB VBI demultiplexer of libzvbi (vbi/src/dvb_demux.c): it finds    *)
(* the packets with VBI data in a Packetized Elementary Stream or, one     *)
(* layer below, in a Transport Stream, and collects their lines into       *)
(* frames.                                                                 *)
(*                                                                         *)
(* The stream comes in buffers of any size.  Both layers are coroutines,   *)
(* which stop in the middle of a packet when a buffer is exhausted, keep   *)
(* what they have seen of it, and go on with the next one; the PES layer   *)
(* looks into the caller's buffer where it can, and also returns when a    *)
(* frame is complete.                                                      *)
(*                                                                         *)
(* A cell of the stream stands for the bytes that the code looks at or     *)
(* skips together.  Memory contains positions of the stream; 0 is memory   *)
(* outside of the buffer.                                                  *)
(***************************************************************************)
EXTENDS Integers, Sequences, FiniteSets, SequencesExt

CONSTANTS
  Inputs,        \* the streams, and what is expected of them
  Chunks,        \* the numbers of cells in a buffer
  TsSize,        \* cells of a transport packet (188 bytes)
  SlicedSize,    \* lines in dx->sliced (64)
  Counter,       \* modulus of the continuity_counter (16)
  MaxResets      \* bound on vbi_dvb_demux_reset calls

ASSUME DemuxAssumption ==
  /\ Chunks \subseteq Nat \ {0} /\ 1 \in Chunks
  /\ TsSize \in Nat /\ TsSize >= 6
  /\ SlicedSize \in Nat \ {0} /\ Counter \in Nat \ {0, 1}
  /\ MaxResets \in Nat

\* A PES_packet_length, a continuity_counter, a field and a line are numbers.
ASSUME InputsAssumption ==
  \A i \in Inputs :
    /\ i.mode \in {"pes", "ts"}
    /\ i.cells \in Seq(Range(i.cells))
    /\ \A c \in Range(i.cells) : /\ c.k = "start" => c.len \in Nat
                                 /\ c.k = "ts" => c.cc \in Nat
                                 /\ c.k = "unit" => {c.field, c.line} \subseteq Nat

(***************************************************************************)
(* The cells: the transport header (4 bytes); packet_start_code, stream_id *)
(* and PES_packet_length (6), the rest of the PES header with the          *)
(* data_identifier (40); a data unit; and a byte that is none of these.    *)
(* Data units have the number of the frame they were sent for.             *)
(***************************************************************************)
Junk == [k |-> "junk"]
PES_HEADER_LOOKAHEAD == 2
TS_HEADER_LOOKAHEAD == 2
TS_SYNC_SEARCH_LOOKAHEAD == TsSize + TS_HEADER_LOOKAHEAD - 1
MinLength == TsSize - 2      \* 178 = 184 - 6
Payload   == TsSize - 1      \* 184

VARIABLES
  input,      \* the stream, demux_packet and callback
  \* the caller's buffer
  first, last, src, size,
  pc,         \* where the demultiplexer is; "app": not called
  wrap,       \* pes_wrap
  ts,         \* ts_wrap, ts_in_sync, ts_pes_todo, ts_continuity
  pes,        \* pes_buffer, up to ts_pes_bp
  units,      \* the data units from ts_frame_bp, ts_frame_todo of them
  dx,         \* frame, frame_pts, packet_pts, new_frame
  out,        \* the frames the application got
  resets      \* number of resets so far

bufVars == <<first, last, src, size>>
tsVars  == <<ts, pes, units>>
vars    == <<input, bufVars, pc, wrap, tsVars, dx, out, resets>>

Cell(p) == IF p = 0 THEN Junk ELSE input.cells[p]
IsVbi(c) == c.k = "start" /\ c.vbi

Left == last - src + 1

\* vbi_dvb_demux_reset
NoFrame == [new |-> TRUE, lines |-> <<>>, line |-> 0, field |-> 0, du |-> "none",
            n |-> 0, frame_pts |-> 0, packet_pts |-> 0]
NoWrap == [skip |-> 0, look |-> PES_HEADER_LOOKAHEAD, left |-> 0, data |-> <<>>]
NoTs == [skip |-> 0, look |-> TS_SYNC_SEARCH_LOOKAHEAD, consume |-> 0, data |-> <<>>,
         sync |-> FALSE, todo |-> 0, cont |-> -1]

Init ==
  /\ input \in Inputs
  /\ first = 1 /\ last = 0 /\ src = 1 /\ size = 0
  /\ pc = "app"
  /\ wrap = NoWrap /\ ts = NoTs /\ pes = <<>> /\ units = <<>>
  /\ dx = NoFrame /\ out = <<>> /\ resets = 0

-----------------------------------------------------------------------------
(***************************************************************************)
(* Data units.                                                             *)
(***************************************************************************)

\* lofp_to_line: lines are numbered through both fields, 0 is an unknown line.
SecondField == 100
FrameLine(u) == IF u.line = 0 THEN 0 ELSE u.field * SecondField + u.line

\* A unit that cannot be stored, one that is stored, one of a new frame.
Bad(d)     == [d |-> d, err |-> "bad"]
NewFrame(d) == [d |-> d, err |-> "new"]
Stored(d, u) ==
  LET line == IF u.line = 0 THEN d.line ELSE FrameLine(u)
  IN [d   |-> [d EXCEPT !.field = u.field, !.line = line, !.n = @ + 1,
                        !.lines = Append(@, [of |-> u.of, line |-> FrameLine(u)])],
      err |-> "ok"]

\* line_address.  Lines ascend within a frame; one that does not, at the start
\* of a packet, belongs to a new frame.
LineAddress(d, u) ==
  LET wrong == IF u.line # 0 THEN FrameLine(u) <= d.line
               ELSE d.du # "none" /\ u.field # d.field
  IN CASE Len(d.lines) >= SlicedSize -> Bad(d)
       [] Len(d.lines) < SlicedSize /\ wrong /\ d.n = 0 -> NewFrame(d)
       [] /\ Len(d.lines) < SlicedSize /\ wrong /\ d.n > 0
          /\ u.line # 0 \/ u.field < d.field -> Bad(d)
       [] OTHER -> Stored(d, u)

\* One unit in extract_data_units.  A line that is illegal for the service is
\* taken back, but not its number.
Unit(d, c) ==
  CASE c.k # "unit" -> Bad(d)
    [] c.k = "unit" /\ c.id = "stuffing" -> [d |-> d, err |-> "ok"]
    [] c.k = "unit" /\ c.id = "illegal" ->
         LET r == LineAddress(d, c)
         IN IF r.err # "ok" THEN r
            ELSE Bad([r.d EXCEPT !.lines = Front(@)])
    [] OTHER -> LineAddress(d, c)

\* reset_frame, and the time stamp of the frame that begins.
Fresh(d) ==
  IF d.new THEN [NoFrame EXCEPT !.new = FALSE, !.frame_pts = d.packet_pts,
                                !.packet_pts = d.packet_pts]
  ELSE d

\* valid_vbi_pes_packet_header, and the time stamp if it has one.
ValidHeader(d, c) == c.k = "head" /\ c.ok /\ (c.pts = 0 => ~d.new)
HeaderRead(d, c) ==
  IF ValidHeader(d, c) /\ c.pts # 0 THEN [d EXCEPT !.packet_pts = c.pts] ELSE d

Return == pc' = "app"

(***************************************************************************)
(* demux_pes_packet_frame: extract_data_units and what follows it, for     *)
(* both layers; "bad" is an error of the code, which in the PES layer      *)
(* leaves the frame alone: the error numbers are positive and the test is  *)
(* err < 0.                                                                *)
(***************************************************************************)
FirstUnit == Unit(Fresh(dx), units[1])

\* The packet is done; the PES layer skips it and looks for the next.
PacketDone ==
  IF input.mode = "pes"
  THEN /\ wrap' = [wrap EXCEPT !.skip = wrap.look, !.look = PES_HEADER_LOOKAHEAD]
       /\ pc' = "pes"
  ELSE /\ UNCHANGED wrap
       /\ pc' = "fill"

FrameUnit ==
  /\ pc = "frame" /\ units # <<>> /\ FirstUnit.err = "ok"
  /\ dx' = [FirstUnit.d EXCEPT !.du = units[1].id]
  /\ units' = Tail(units)
  /\ UNCHANGED <<input, bufVars, pc, wrap, ts, pes, out>>

FrameError ==
  /\ pc = "frame" /\ units # <<>> /\ FirstUnit.err = "bad"
  /\ dx' = [FirstUnit.d EXCEPT !.new = input.mode = "ts"]
  /\ units' = <<>>
  /\ PacketDone
  /\ UNCHANGED <<input, bufVars, ts, pes, out>>

\* Mutant: the next call does not know that the frame was taken.
FrameCompleteAgain ==
  /\ pc = "frame" /\ units # <<>> /\ FirstUnit.err = "new"
  /\ out' = IF dx.lines = <<>> THEN out
            ELSE Append(out, [pts |-> dx.frame_pts, lines |-> dx.lines])
  /\ dx' = [dx EXCEPT !.lines = <<>>]
  /\ IF input.cor THEN Return ELSE UNCHANGED pc
  /\ units' = IF input.cor /\ input.mode = "pes" THEN <<>> ELSE units
  /\ UNCHANGED <<input, bufVars, wrap, ts, pes>>

\* The frame before this packet is complete.  Without a callback the function
\* returns; the PES layer will begin with the packet anew.  A frame without
\* lines says nothing to the application.
FrameComplete ==
  /\ pc = "frame" /\ units # <<>> /\ FirstUnit.err = "new"
  /\ out' = IF dx.lines = <<>> THEN out
            ELSE Append(out, [pts |-> dx.frame_pts, lines |-> dx.lines])
  /\ dx' = [dx EXCEPT !.new = TRUE]
  /\ IF input.cor THEN Return ELSE UNCHANGED pc
  /\ units' = IF input.cor /\ input.mode = "pes" THEN <<>> ELSE units
  /\ UNCHANGED <<input, bufVars, wrap, ts, pes>>

FrameEnd ==
  /\ pc = "frame" /\ units = <<>>
  /\ PacketDone
  /\ UNCHANGED <<input, bufVars, tsVars, dx, out>>

-----------------------------------------------------------------------------
(***************************************************************************)
(* wrap_around: gives access to wrap.look cells at a stretch, after        *)
(* skipping wrap.skip cells.  The cells which are left over from the last  *)
(* buffer are kept in wrap.data.  The result is what can be looked at: a   *)
(* part of the caller's buffer, of which the left over cells may be part,  *)
(* or of wrap.data.                                                        *)
(***************************************************************************)
Source(i, j) == [n \in 1 .. j - i + 1 |-> IF i + n - 1 >= first THEN i + n - 1 ELSE 0]
Kept(w) == SubSeq(w.data, Len(w.data) - w.left + 1, Len(w.data))

NeedMore(w) == [ok |-> FALSE, w |-> w, src |-> last + 1, view |-> <<>>]
Look(w, s, v) == [ok |-> TRUE, w |-> w, src |-> s, view |-> v]

View(w, s) ==
  LET left  == last - s + 1
      need  == w.look - w.left
      avail == w.left + left
  IN CASE w.look <= avail /\ avail <= size -> Look(w, s, Source(s - w.left, last))
       [] w.look > avail ->
            NeedMore([w EXCEPT !.data = Kept(w) \o Source(s, last), !.left = avail])
       [] w.look <= avail /\ avail > size /\ need > 0 ->
            LET data == Kept(w) \o Source(s, s + need - 1)
            IN Look([w EXCEPT !.data = data, !.left = w.look], s + need, data)
       [] OTHER -> Look(w, s, Kept(w))

WrapAround ==
  LET w    == wrap
      skip == w.skip - w.left
  IN CASE skip > Left -> NeedMore([w EXCEPT !.skip = skip - Left, !.left = 0])
       [] skip > 0 /\ skip <= Left -> View([w EXCEPT !.skip = 0, !.left = 0], src + skip)
       [] OTHER -> View([w EXCEPT !.skip = 0, !.left = @ - w.skip], src)

-----------------------------------------------------------------------------
(***************************************************************************)
(* demux_pes_packet, one iteration of its loop.                            *)
(***************************************************************************)
PesNeedMore ==
  /\ pc = "pes" /\ ~WrapAround.ok
  /\ wrap' = WrapAround.w /\ src' = last + 1
  /\ Return
  /\ UNCHANGED <<input, first, last, size, tsVars, dx, out>>

\* The payload of a packet is in view.
PesData ==
  LET a == WrapAround
  IN /\ pc = "pes" /\ a.ok /\ a.w.look > PES_HEADER_LOOKAHEAD
     /\ units' = [i \in 1 .. a.w.look |-> Cell(a.view[i])]
     /\ dx' = [dx EXCEPT !.n = 0]
     /\ wrap' = a.w /\ src' = a.src
     /\ pc' = "frame"
     /\ UNCHANGED <<input, first, last, size, ts, pes, out>>

\* Mutant: the scan takes no account of what it has passed.
PesScanFromStart(a, j) ==
  LET c == Cell(a.view[j]) IN
  /\ wrap' = [a.w EXCEPT !.skip = IF c.k = "start" THEN 1 + c.len ELSE 1]
  /\ UNCHANGED dx

\* A start code was found in view at j: the packet is skipped, unless it is a
\* valid one with VBI data; then its payload is asked for.
PesStartCode(a, j) ==
  LET c == Cell(a.view[j])
      h == Cell(a.view[j + 1])
      ours == IsVbi(c) /\ c.len >= MinLength
  IN IF ours /\ ValidHeader(dx, h)
     THEN /\ wrap' = [a.w EXCEPT !.skip = j + 1, !.look = c.len - 1]
          /\ dx' = HeaderRead(dx, h)
     ELSE /\ wrap' = [a.w EXCEPT !.skip = j + c.len]
          /\ UNCHANGED dx

\* The start code scan covers all that has wrap.look cells in view.
PesScan ==
  LET a     == WrapAround
      scan  == Len(a.view) - a.w.look
      found == {j \in 1 .. IF scan > 0 THEN scan ELSE 1 : Cell(a.view[j]).k = "start"}
  IN /\ pc = "pes" /\ a.ok /\ a.w.look <= PES_HEADER_LOOKAHEAD
     /\ src' = a.src
     /\ IF found = {}
        THEN /\ wrap' = [a.w EXCEPT !.skip = IF scan > 0 THEN scan ELSE 1]
             /\ UNCHANGED dx
        ELSE PesStartCode(a, Min(found))
     /\ UNCHANGED <<input, first, last, size, pc, tsVars, out>>

-----------------------------------------------------------------------------
(***************************************************************************)
(* demux_ts_packet.  Its loop has four parts: the rest of the payload of a *)
(* transport packet is copied into the PES buffer; the data units of a PES *)
(* packet which is complete are extracted, see above; the next header is   *)
(* brought into the TS buffer; the header is examined.                     *)
(***************************************************************************)
Smaller(m, n) == IF m < n THEN m ELSE n
Positions(i, j) == [n \in 1 .. j - i + 1 |-> i + n - 1]

\* The PES packet in the buffer p is complete.
PesComplete(p) ==
  IF ValidHeader(dx, Cell(p[2]))
  THEN /\ units' = [i \in 1 .. Len(p) - 2 |-> Cell(p[i + 2])]
       /\ dx' = [HeaderRead(dx, Cell(p[2])) EXCEPT !.n = 0]
       /\ pc' = "frame"
  ELSE /\ units' = <<>>
       /\ dx' = [dx EXCEPT !.new = TRUE]
       /\ UNCHANGED pc

TsCopy ==
  LET n == Smaller(ts.consume, Left)
  IN /\ pc = "ts"
     /\ pes' = pes \o Positions(src, src + n - 1)
     /\ ts' = [ts EXCEPT !.consume = @ - n, !.todo = @ - n]
     /\ src' = src + n
     /\ \/ /\ ts.consume > Left
           /\ Return
           /\ UNCHANGED <<dx, units>>
        \/ /\ ts.consume \in 1 .. Left /\ ts.todo = n
           /\ PesComplete(pes')
        \/ /\ ts.consume \in 0 .. Left /\ (ts.consume = 0 \/ ts.todo > n)
           /\ pc' = "frame"
           /\ UNCHANGED <<dx, units>>
     /\ UNCHANGED <<input, first, last, size, wrap, out>>

\* The next ts.look cells after ts.skip ones are copied to the TS buffer.
TsFill ==
  LET s == src + ts.skip
      n == Smaller(ts.look, last - s + 1)
  IN /\ pc = "fill"
     /\ IF ts.skip > Left
        THEN /\ ts' = [ts EXCEPT !.skip = @ - Left]
             /\ src' = last + 1 /\ Return
        ELSE /\ ts' = [ts EXCEPT !.skip = 0, !.data = @ \o Positions(s, s + n - 1),
                                 !.look = IF n = @ THEN @ ELSE @ - n]
             /\ src' = s + n
             /\ IF n = ts.look THEN pc' = "parse" ELSE Return
     /\ UNCHANGED <<input, first, last, size, wrap, pes, units, dx, out>>

-----------------------------------------------------------------------------
(***************************************************************************)
(* The header in the TS buffer.                                            *)
(***************************************************************************)
TsCell(k) == Cell(ts.data[k])

\* In sync, but there is no sync_byte: everything collected is spoiled.
TsSyncLost ==
  /\ pc = "parse" /\ ts.sync /\ TsCell(1).k # "ts"
  /\ ts' = [ts EXCEPT !.sync = FALSE, !.todo = 0, !.consume = 0, !.cont = -1,
                      !.look = TS_SYNC_SEARCH_LOOKAHEAD - Len(ts.data)]
  /\ dx' = [dx EXCEPT !.new = TRUE]
  /\ pc' = "ts"
  /\ UNCHANGED <<input, bufVars, wrap, pes, units, out>>

\* A sync_byte is one with another 188 bytes later, or with a VBI PES packet.
Synced == {k \in 1 .. TsSize :
             /\ TsCell(k).k = "ts"
             /\ \/ k + TsSize <= Len(ts.data) /\ TsCell(k + TsSize).k = "ts"
                \/ IsVbi(TsCell(k + 1))}

\* Mutant: the rest of the TS buffer is not moved to its begin.
TsNoSyncUnmoved ==
  LET data == SubSeq(ts.data, 1, Len(ts.data) - TsSize)
  IN /\ pc = "parse" /\ ~ts.sync /\ Synced = {}
     /\ ts' = [ts EXCEPT !.data = data, !.look = TS_SYNC_SEARCH_LOOKAHEAD - Len(data)]
     /\ pc' = "ts"
     /\ UNCHANGED <<input, bufVars, wrap, pes, units, dx, out>>

TsNoSync ==
  LET data == SubSeq(ts.data, TsSize + 1, Len(ts.data))
  IN /\ pc = "parse" /\ ~ts.sync /\ Synced = {}
     /\ ts' = [ts EXCEPT !.data = data, !.look = TS_SYNC_SEARCH_LOOKAHEAD - Len(data)]
     /\ pc' = "ts"
     /\ UNCHANGED <<input, bufVars, wrap, pes, units, dx, out>>

InSync == IF ts.sync THEN TsCell(1).k = "ts" ELSE Synced # {}
At     == IF ts.sync THEN 1 ELSE Min(Synced)
Header == TsCell(At)
Avail  == Len(ts.data) - At + 1

(***************************************************************************)
(* What a header is found to be: "tei", "scrambled" or "afc" when one of   *)
(* those fields is wrong, "other" with another PID, "only" when there is   *)
(* an adaptation field and no payload, else "payload".                     *)
(***************************************************************************)
Broken(h)  == h.is \in {"tei", "scrambled", "afc"}
Foreign(h) == h.is \in {"other", "only"}

Repeated(h) == ts.cont >= 0 /\ h.cc = (ts.cont + Counter - 1) % Counter

\* Mutant: a gap is accepted.
GapIgnored(h) == FALSE

Gap(h) == ts.cont >= 0 /\ h.cc # ts.cont /\ ~Repeated(h)

\* Where a PES packet must start there is none, or one starts unexpectedly.
BadPayload(h) ==
  IF ts.todo = 0
  THEN LET c == TsCell(At + 1) IN ~(IsVbi(c) /\ c.len >= MinLength)
  ELSE h.pusi

\* The state t of the TS layer when the packet is skipped, or taken.
NextHeader(t) ==
  IF Avail <= TsSize THEN [t EXCEPT !.data = <<>>, !.look = TS_HEADER_LOOKAHEAD]
  ELSE [t EXCEPT !.data = SubSeq(ts.data, At + TsSize, Len(ts.data)),
                 !.look = TS_HEADER_LOOKAHEAD
                          - Smaller(Avail - TsSize, TS_HEADER_LOOKAHEAD)]
\* Mutant: what is in the TS buffer is skipped again.
SkippedWhole(t) ==
  NextHeader([t EXCEPT !.sync = TRUE,
                       !.skip = IF Avail <= TsSize THEN TsSize ELSE @])

Skipped(t) ==
  NextHeader([t EXCEPT !.sync = TRUE,
                       !.skip = IF Avail <= TsSize THEN TsSize - Avail ELSE @])

\* Packets without interest and repeated ones.
TsSkip ==
  /\ pc = "parse" /\ InSync
  /\ Foreign(Header) \/ (~Broken(Header) /\ Repeated(Header))
  /\ ts' = Skipped(ts)
  /\ pc' = "ts"
  /\ UNCHANGED <<input, bufVars, wrap, pes, units, dx, out>>

\* Errors end the PES packet and the frame.
TsDiscard ==
  LET h == Header
  IN /\ pc = "parse" /\ InSync
     /\ \/ Broken(h)
        \/ ~Foreign(h) /\ ~Repeated(h) /\ (Gap(h) \/ BadPayload(h))
     /\ ts' = Skipped([ts EXCEPT !.todo = 0, !.consume = 0,
                                 !.cont = IF Broken(h) THEN @ ELSE (h.cc + 1) % Counter])
     /\ dx' = [dx EXCEPT !.new = TRUE]
     /\ pc' = "ts"
     /\ UNCHANGED <<input, bufVars, wrap, pes, units, out>>

(***************************************************************************)
(* A packet with VBI data.  What is in the TS buffer of its payload goes   *)
(* to the PES buffer now, the rest when it is there.  A PES packet that    *)
(* gets complete here is not looked at.                                    *)
(***************************************************************************)
TsTake ==
  LET h     == Header
      begin == ts.todo = 0
      todo  == IF begin THEN TsCell(At + 1).len + 1 ELSE ts.todo
      all   == Smaller(todo, Payload)
      n     == Smaller(Avail - 1, all)
  IN /\ pc = "parse" /\ InSync
     /\ ~Broken(h) /\ ~Foreign(h) /\ ~Repeated(h) /\ ~Gap(h) /\ ~BadPayload(h)
     /\ pes' = (IF begin THEN <<>> ELSE pes) \o SubSeq(ts.data, At + 1, At + n)
     /\ ts' = NextHeader([ts EXCEPT !.sync = TRUE, !.todo = todo - n,
                                    !.cont = (h.cc + 1) % Counter,
                                    !.consume = IF Avail <= TsSize THEN all - n ELSE @])
     /\ pc' = "ts"
     /\ UNCHANGED <<input, bufVars, wrap, units, dx, out>>

-----------------------------------------------------------------------------
(***************************************************************************)
(* The application: vbi_dvb_demux_feed, or vbi_dvb_demux_cor called again  *)
(* until it has taken the buffer.  It resets the demultiplexer when it     *)
(* likes.                                                                  *)
(***************************************************************************)
Call == pc' = IF input.mode = "pes" THEN "pes" ELSE "ts"

Feed ==
  /\ pc = "app" /\ src > last /\ last < Len(input.cells)
  /\ \E n \in Chunks :
       LET end == Smaller(last + n, Len(input.cells))
       IN first' = last + 1 /\ last' = end /\ size' = end - last
  /\ Call
  /\ UNCHANGED <<input, src, wrap, tsVars, dx, out, resets>>

Resume ==
  /\ pc = "app" /\ src <= last
  /\ size' = Left
  /\ Call
  /\ UNCHANGED <<input, first, last, src, wrap, tsVars, dx, out, resets>>

\* vbi_dvb_demux_reset
Reset ==
  /\ pc = "app" /\ resets < MaxResets
  /\ resets' = resets + 1
  /\ wrap' = NoWrap /\ ts' = NoTs /\ pes' = <<>> /\ units' = <<>>
  /\ dx' = NoFrame
  /\ UNCHANGED <<input, bufVars, pc, out>>

PesPacket == PesNeedMore \/ PesData \/ PesScan
TsPacket  == \/ TsCopy \/ TsFill
             \/ TsSyncLost \/ TsNoSync \/ TsSkip \/ TsDiscard \/ TsTake
FrameStep == FrameUnit \/ FrameError \/ FrameComplete \/ FrameEnd
Demux == (PesPacket \/ TsPacket \/ FrameStep) /\ UNCHANGED resets

Ended == pc = "app" /\ src > Len(input.cells)

Next == Feed \/ Resume \/ Reset \/ Demux

\* The demultiplexer runs until it returns; the application goes on while
\* there is something left in its buffer.
Spec == Init /\ [][Next]_vars /\ WF_vars(Demux) /\ WF_vars(Resume)

-----------------------------------------------------------------------------
(***************************************************************************)
(* Correctness.                                                            *)
(***************************************************************************)

\* The variables have their types; skip, consume and lookahead counts are
\* unsigned in the code and must never be less than zero.
TypeOK ==
  /\ pc \in {"app", "pes", "ts", "frame", "fill", "parse"}
  /\ {first, last, src, size} \subseteq Nat /\ src \in first .. last + 1
  /\ {wrap.skip, wrap.look, wrap.left} \subseteq Nat
  /\ wrap.left <= Len(wrap.data)
  /\ {ts.skip, ts.look, ts.consume, ts.todo} \subseteq Nat
  /\ ts.cont \in -1 .. Counter - 1
  /\ Len(dx.lines) <= SlicedSize
  /\ resets \in 0 .. MaxResets

\* What the code looks at: a stretch of the stream, as long as it was asked for
\* and none of it outside of the buffers; a transport header and the cell behind it.
LookedAt ==
  /\ pc = "pes" /\ WrapAround.ok =>
       LET a == WrapAround
           i == a.src - a.w.left
       IN /\ a.view = Positions(i, i + Len(a.view) - 1)
          /\ Len(a.view) >= a.w.look /\ i > 0 /\ i + Len(a.view) - 1 <= last
  /\ pc = "parse" /\ InSync => Avail >= 2

\* The variables keep their types, and the buffers have what comes before the
\* read position in the stream, with no gap and nothing twice, however the
\* stream was cut: what wrap_around kept of earlier buffers ends where the
\* caller's buffer begins, so does the TS buffer, and a PES packet has as much
\* missing as its PES_packet_length says.  What is looked at is there.
BuffersFollowStream ==
  /\ TypeOK
  /\ Kept(wrap) = Positions(src - wrap.left, src - 1)
  /\ ts.data = Positions(src - Len(ts.data), src - 1)
  /\ Len(ts.data) + ts.look <= TS_SYNC_SEARCH_LOOKAHEAD \/ pc = "parse"
  /\ ts.todo > 0 => Len(pes) + ts.todo = Cell(pes[1]).len + 1
  /\ ts.consume <= ts.todo
  /\ LookedAt

\* How a PES stream is cut into buffers, and whether frames are returned or
\* passed to a callback, makes no difference to the frames the application gets
\* (demux_pes_packet: "This pointer need not align with PES packet boundaries").
ChunkingInvisible ==
  input.mode = "pes" /\ resets = 0 =>
    /\ IsPrefix(out, input.expected)
    /\ Ended => out = input.expected

\* Line numbers, where they are known, ascend.
LinesAscend(lines) ==
  \A a, b \in 1 .. Len(lines) :
    LET la == lines[a].line
        lb == lines[b].line
    IN a < b /\ la # 0 /\ lb # 0 => la < lb

\* The lines of a frame come from one frame of the sender and ascend; the frame
\* has that frame's time stamp, and frames come in order, each once.  Lost,
\* repeated and broken transport packets, lost synchronization and resets do not
\* combine the fields of different frames (demux_ts_packet: "so we don't
\* accidentally combine the top field of one frame with the bottom field").
FrameWhole ==
  /\ \A i \in 1 .. Len(out) :
       /\ \A l \in ToSet(out[i].lines) : l.of = out[i].pts
       /\ LinesAscend(out[i].lines)
  /\ \A i \in 2 .. Len(out) : out[i - 1].pts < out[i].pts

\* A fault costs no more than the frames it hits: a frame is delivered with all
\* of its lines if its packets, the one before it and the first PES packet of
\* the next frame arrive undamaged.
UndamagedDelivered ==
  Ended /\ resets = 0 => \A f \in input.sure : f \in ToSet(out)

\* A call returns, and an application which calls again while there is something
\* left in its buffer gets to the end of it.
BufferConsumed == pc # "app" \/ src <= last ~> pc = "app" /\ src > last
=============================================================================
