------------------------------ MODULE WsFrames ------------------------------
(***************************************************************************)
(* The read side of a WebSocket connection (ws.c): ws_read() takes a frame *)
(* in four parts, any of which may arrive in pieces over several passes of *)
(* the event loop, and keeps its progress in frame_map[fd], a slot that    *)
(* the next connection with this number inherits.  descr_read_ws() hands   *)
(* what it returns to the program or closes; ws_close_status() sends the   *)
(* one Close a connection may send.                                        *)
(*                                                                         *)
(* A read that would block leaves everything as it is, so each step below  *)
(* is one read that returned bytes, with all that ws_read() does up to the *)
(* next one.                                                               *)
(***************************************************************************)
EXTENDS Integers, Sequences

CONSTANTS
  Traffic,      \* what a peer may send: sequences of frames
  MaxPayload,   \* WS_MAX_PAYLOAD
  DestSize      \* input_size: the caller's buffer

\* A frame's header.  form is the size of its extended length.
Frame == [masked : BOOLEAN, op : {"data", "control", "close"},
          form : {0, 2, 8}, pl : Nat]

\* A payload whose length is in the first two bytes, 125 at most, is far below
\* the cap.
ShortFits ==
  /\ MaxPayload >= 2
  /\ \A sent \in Traffic : \A i \in 1..Len(sent) :
       sent[i].form = 0 => sent[i].pl <= MaxPayload

WsFramesAssumption ==
  /\ Traffic \subseteq Seq(Frame)
  /\ MaxPayload \in Nat
  /\ ShortFits
  /\ DestSize \in Nat \ {0}

VARIABLES
  ws,     \* the connection: open, its peer's frames, what it delivered
  frame   \* frame_map[fd], with hdr the header its two bytes spell

vars == <<ws, frame>>

NoFrame == [masked |-> FALSE, op |-> "none", form |-> 0, pl |-> 0]

\* ws_frame_reset(): free() and memset().
Reset == [hread |-> 0, lread |-> 0, mread |-> 0, xread |-> 0,
          plSet |-> FALSE, alloc |-> FALSE, hdr |-> NoFrame]

\* pos counts the bytes read; delivered, the frames handed to the program, by
\* the position of their first byte; parsed, whether one reached cmd_parse();
\* closes, the Close frames sent; byApp, whether the program sent one; why,
\* what closed the connection.
NoConnection ==
  [open |-> FALSE, sent |-> <<>>, pos |-> 0, delivered |-> <<>>,
   parsed |-> FALSE, closeSent |-> FALSE, closes |-> 0, byApp |-> FALSE,
   why |-> "none"]

Init == ws = NoConnection /\ frame = Reset

-----------------------------------------------------------------------------
(* The bytes the peer sends.                                                *)

FrameLen(f) == 2 + f.form + (IF f.masked THEN 4 ELSE 0) + f.pl

\* Where the peer's frame i starts, the first at 0.
FrameStart(sent, i) ==
  LET sum[k \in 0..Len(sent)] == IF k = 0 THEN 0 ELSE sum[k - 1] + FrameLen(sent[k])
  IN  sum[i - 1]

\* Where the frame being read started: what ws_read() has taken of it is
\* contiguous.
Base == ws.pos - (frame.hread + frame.lread + frame.mread + frame.xread)

\* The header that starts at a place in the stream; anything, out of step.
HeadersAt(p) ==
  LET starts == {i \in 1..Len(ws.sent) : FrameStart(ws.sent, i) = p}
  IN  IF starts = {}
      THEN {[masked |-> m, op |-> o, form |-> 0, pl |-> n] :
              m \in BOOLEAN, o \in {"data", "control", "close"}, n \in 0..2}
      ELSE {ws.sent[i] : i \in starts}

\* The bytes the peer has sent and ws_read() not taken.
Ready == FrameStart(ws.sent, Len(ws.sent) + 1) - ws.pos

\* ws_fill(): how many bytes its lower_read() may return.
Fills(got, need) == {n \in 1..(need - got) : n <= Ready}

-----------------------------------------------------------------------------
(* Closing.                                                                 *)

\* Mutant of CloseStatus: the flag is not tested.
CloseStatusAgain(c) == [c EXCEPT !.closeSent = TRUE, !.closes = @ + 1]

\* ws_close_status(): one Close per connection.
CloseStatus(c) ==
  [c EXCEPT !.closeSent = TRUE,
            !.closes = IF c.closeSent THEN @ ELSE @ + 1]

\* axil_close() of a WebSocket connection: ws_close().
Teardown(c, why) ==
  /\ ws' = [CloseStatus(c) EXCEPT !.open = FALSE, !.why = why]
  /\ frame' = Reset

\* axil_ws_upgrade() and ws_init() on a fresh connection with this number.
Opened(sent) == [NoConnection EXCEPT !.open = TRUE, !.sent = sent]

Upgrade(sent) ==
  /\ ~ws.open
  /\ ws' = Opened(sent)
  /\ frame' = Reset

\* axil_ws_close(), called by the program: the connection stays open.
AppClose ==
  /\ ws.open
  /\ ws' = [CloseStatus(ws) EXCEPT !.byApp = TRUE]
  /\ frame' = Reset

\* axil_close() for any other reason: a write error, the program.
OtherClose ==
  /\ ws.open
  /\ Teardown(ws, "other")

-----------------------------------------------------------------------------
(* ws_read() and descr_read_ws().                                           *)

\* A control frame that declares an extended length.
LongControl(h) == h.op # "data" /\ h.form # 0

\* ws_read() returned -1 with an error, or 0: the connection is closed.
Refuse(c, why) == Teardown(c, why)

\* The next part of the frame, once its two header bytes are in.
ReadHead(n) ==
  /\ frame.hread < 2
  /\ n \in Fills(frame.hread, 2)
  /\ LET c == [ws EXCEPT !.pos = @ + n]
         h == frame.hread + n
     IN  IF h < 2
         THEN /\ ws' = c
              /\ frame' = [frame EXCEPT !.hread = h]
         ELSE \E hdr \in HeadersAt(Base) :
                IF ~hdr.masked \/ LongControl(hdr)
                THEN Refuse(CloseStatus(c), "protocol")
                ELSE IF hdr.op = "close"
                THEN Refuse(CloseStatus(c), "peer")
                ELSE IF hdr.form = 0
                THEN /\ ws' = c
                     /\ frame' = [frame EXCEPT !.hread = 2, !.hdr = hdr,
                                               !.plSet = TRUE]
                ELSE /\ ws' = c
                     /\ frame' = [frame EXCEPT !.hread = 2, !.hdr = hdr]

\* Mutant of TooLarge: one byte for a terminator is forgotten.
TooLargeByTwo(pl) == pl > MaxPayload + 1

\* The cap on an allocation the peer asks for.
TooLarge(pl) == pl > MaxPayload

\* The extended length.
ReadLength(n) ==
  /\ frame.hread = 2 /\ ~frame.plSet
  /\ n \in Fills(frame.lread, frame.hdr.form)
  /\ LET c == [ws EXCEPT !.pos = @ + n]
         l == frame.lread + n
     IN  IF l < frame.hdr.form
         THEN /\ ws' = c
              /\ frame' = [frame EXCEPT !.lread = l]
         ELSE IF TooLarge(frame.hdr.pl) THEN Refuse(c, "too large")
         ELSE /\ ws' = c
              /\ frame' = [frame EXCEPT !.lread = l, !.plSet = TRUE]

\* EMSGSIZE: a frame longer than the buffer closes the connection.
Unfit(c) == Refuse(c, "too large")

\* A whole frame: refused when it does not fit the buffer with its terminator,
\* or given to axil_parse() and, unless that took it, to cmd_parse().  An empty
\* one returns 0, which reads as the end.
Deliver(c, base) ==
  IF frame.hdr.pl + 1 > DestSize THEN Unfit(c)
  ELSE IF frame.hdr.pl = 0 THEN Refuse(c, "empty")
  ELSE \E taken \in BOOLEAN :
         /\ ws' = [c EXCEPT !.delivered = Append(@, base),
                            !.parsed = @ \/ ~taken]
         /\ frame' = Reset

\* The masking key; then the payload is allocated.
ReadMask(n) ==
  /\ frame.plSet /\ frame.mread < 4
  /\ n \in Fills(frame.mread, 4)
  /\ LET c == [ws EXCEPT !.pos = @ + n]
         m == frame.mread + n
     IN  IF m < 4
         THEN /\ ws' = c
              /\ frame' = [frame EXCEPT !.mread = m]
         ELSE \/ Refuse(c, "no memory")
              \/ /\ frame.hdr.pl > 0
                 /\ ws' = c
                 /\ frame' = [frame EXCEPT !.mread = m, !.alloc = TRUE]
              \/ frame.hdr.pl = 0 /\ Deliver(c, Base)

\* Mutant of Progress: a resumed payload starts over.
ProgressLost(x, n) == n

\* How much of the payload is in after a read of n bytes.
Progress(x, n) == x + n

ReadPayload(n) ==
  /\ frame.alloc
  /\ n \in Fills(frame.xread, frame.hdr.pl)
  /\ LET c == [ws EXCEPT !.pos = @ + n]
         x == Progress(frame.xread, n)
     IN  IF x < frame.hdr.pl
         THEN /\ ws' = c
              /\ frame' = [frame EXCEPT !.xread = x]
         ELSE Deliver(c, Base)

\* EOF or an error, at any part.
ReadEnds ==
  /\ ws.open
  /\ Refuse(ws, "eof")

Next ==
  \/ \E sent \in Traffic : Upgrade(sent)
  \/ AppClose
  \/ OtherClose
  \/ /\ ws.open
     /\ \/ \E n \in 1..2 : ReadHead(n)
        \/ \E n \in 1..8 : ReadLength(n)
        \/ \E n \in 1..4 : ReadMask(n)
        \/ \E n \in 1..MaxPayload : ReadPayload(n)
  \/ ReadEnds

Spec == Init /\ [][Next]_vars

-----------------------------------------------------------------------------
(* Properties.                                                              *)

Causes ==
  {"none", "other", "protocol", "peer", "too large", "no memory", "empty", "eof"}

\* A record with the fields of a connection, each of its type.
Connected(c) ==
  /\ DOMAIN c = DOMAIN NoConnection
  /\ c.open \in BOOLEAN /\ c.sent \in Traffic \cup {<<>>} /\ c.pos \in Nat
  /\ c.delivered \in Seq(Nat) /\ c.parsed \in BOOLEAN
  /\ c.closeSent \in BOOLEAN /\ c.closes \in Nat /\ c.byApp \in BOOLEAN
  /\ c.why \in Causes

\* The same of the counters of a frame.
Counters(f) ==
  /\ DOMAIN f = DOMAIN Reset
  /\ f.hread \in 0..2 /\ f.lread \in 0..8 /\ f.mread \in 0..4 /\ f.xread \in Nat
  /\ f.plSet \in BOOLEAN /\ f.alloc \in BOOLEAN
  /\ f.hdr \in Frame \cup {NoFrame}

\* Every variable has its type.
TypeOK == Connected(ws) /\ Counters(frame)

\* What the counters of frame_map[fd] say of each other: the parts of a frame
\* are read in order, the header was accepted, the lengths are those it
\* declares, and there is a payload exactly when it is being read.
Parts(f) ==
  /\ f.hread < 2 => f = [Reset EXCEPT !.hread = f.hread]
  /\ f.hread = 2 =>
       /\ f.hdr \in Frame /\ f.hdr.masked /\ f.hdr.op # "close"
       /\ f.hdr.op # "data" => f.hdr.form = 0
       /\ f.hdr.form = 0 => f.hdr.pl <= MaxPayload
  /\ f.lread <= f.hdr.form
  /\ f.plSet <=> f.hread = 2 /\ f.lread = f.hdr.form
  /\ f.plSet => f.hdr.pl <= MaxPayload
  /\ f.mread > 0 => f.plSet
  /\ f.alloc <=> f.mread = 4
  /\ f.alloc => f.xread < f.hdr.pl
  /\ ~f.alloc => f.xread = 0

PartsInOrder ==
  /\ Parts(frame)
  /\ IF ws.open THEN Base >= 0 ELSE frame = Reset

\* Unless the program sent a Close itself: the frame being read is the
\* one after those delivered, and no more was read than was sent.
InPlace ==
  LET k == Len(ws.delivered) + 1
  IN  ws.open /\ ~ws.byApp =>
        /\ k <= Len(ws.sent) + 1
        /\ Base = FrameStart(ws.sent, k)
        /\ ws.pos <= FrameStart(ws.sent, Len(ws.sent) + 1)
        /\ frame.hread = 2 => k <= Len(ws.sent) /\ frame.hdr = ws.sent[k]

\* The flag WS_CLOSE_SENT says whether a Close was sent, and the teardown sets it.
CloseFlagged ==
  /\ ws.closes = (IF ws.closeSent THEN 1 ELSE 0)
  /\ ~ws.open /\ ws.why # "none" => ws.closeSent

\* ws_read() never mistakes payload for a header: wherever the network cuts
\* the stream, and whatever connection had the number before, the frame being
\* read starts where one of the peer's frames does, unless the program called
\* axil_ws_close(), which drops half a frame.  ws_fill() retries EINTR
\* for this: "discarding the frame here would let the *next* call parse the
\* leftover payload as a fresh frame header".
InStep ==
  ws.open /\ ~ws.byApp =>
    \E i \in 1..(Len(ws.sent) + 1) : FrameStart(ws.sent, i) = Base

\* The program gets the peer's frames in order, each once, none skipped, until
\* it sends a Close.
DeliveredInOrder ==
  ~ws.byApp =>
    ws.delivered = [i \in 1..Len(ws.delivered) |-> FrameStart(ws.sent, i)]

\* The frames the program gets are the peer's, found where they are.
FramesFound == InStep /\ DeliveredInOrder

\* A connection that was upgraded sends a Close exactly once by the time it is
\* closed, though the echo of the peer's, axil_ws_close() and the teardown all
\* send one (WS_CLOSE_SENT).
CloseOnce ==
  /\ ws.closes <= 1
  /\ ~ws.open /\ ws.why # "none" => ws.closes = 1

\* A payload is allocated only for a frame in progress on an open connection,
\* masked, within the cap, and no longer than a control frame may be.
HeldForAFrame ==
  frame.alloc =>
    /\ ws.open
    /\ frame.hdr.masked
    /\ frame.hdr.pl <= MaxPayload
    /\ frame.hdr.op # "data" => frame.hdr.form = 0
    /\ frame.mread = 4

=============================================================================
