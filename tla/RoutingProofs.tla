---------------------------- MODULE RoutingProofs ----------------------------
(***************************************************************************)
(* Proofs about the parts of MCRouting.  Of WsFrames, for every traffic,   *)
(* every cap and every buffer: where frames start is a sum over the frames *)
(* before them; the counters of frame_map[fd] agree at every step, whoever *)
(* closes; until the program sends a Close itself, the frame being read is *)
(* the one after those delivered.  Of HttpDate, that its arithmetic is the *)
(* calendar's in every year.  Of Dispatch, that the order of a hash table  *)
(* decides nothing but between equals, and of two patterns that match the  *)
(* narrower one answers.  Of PatternMatch, that its pointers and entries   *)
(* stay in bounds.                                                         *)
(***************************************************************************)
EXTENDS MCRouting, Induction, SequenceTheorems, FunctionTheorems, FiniteSetTheorems

LEMMA FrameLengths ==
  ASSUME NEW f \in Frame
  PROVE  FrameLen(f) \in Nat /\ FrameLen(f) >= 2
BY DEF FrameLen, Frame

\* What the recursive sum is equal to.
LEMMA FrameStarts ==
  ASSUME NEW sent \in Seq(Frame)
  PROVE  /\ FrameStart(sent, 1) = 0
         /\ \A x \in 1..(Len(sent) + 1) : FrameStart(sent, x) \in Nat
         /\ \A x \in 1..Len(sent) :
              FrameStart(sent, x + 1) = FrameStart(sent, x) + FrameLen(sent[x])
<1> DEFINE n == Len(sent)
           sum[k \in 0..n] == IF k = 0 THEN 0 ELSE sum[k - 1] + FrameLen(sent[k])
           w == [k \in 1..n |-> FrameLen(sent[k])]
<1>1. n \in Nat /\ w \in [1..n -> Nat] /\ \A k \in 1..n : w[k] = FrameLen(sent[k])
  BY FrameLengths, LenProperties
<1>2. \A x : FrameStart(sent, x) = sum[x - 1]
  BY DEF FrameStart
<1> HIDE DEF n, w
<1>3. PICK f \in [0..n -> Nat] : f[0] = 0 /\ \A k \in 1..n : f[k] = f[k - 1] + w[k]
  BY <1>1, Sums
<1>4. f = [k \in 0..n |-> IF k = 0 THEN 0 ELSE f[k - 1] + FrameLen(sent[k])]
  <2>1. \A k \in 0..n : f[k] = IF k = 0 THEN 0 ELSE f[k - 1] + FrameLen(sent[k])
    BY <1>1, <1>3
  <2> QED
    BY <2>1
<1>5. sum = [k \in 0..n |-> IF k = 0 THEN 0 ELSE sum[k - 1] + FrameLen(sent[k])]
  BY <1>4
<1> HIDE DEF sum
<1> DEFINE S == {k \in Nat : k <= n => sum[k] \in Nat}
<1>6. sum[0] = 0 /\ \A k \in 1..n : sum[k] = sum[k - 1] + FrameLen(sent[k])
  BY <1>1, <1>5
<1>7. \A k \in 0..n : sum[k] \in Nat
  <2>1. 0 \in S
    BY <1>6
  <2>2. ASSUME NEW k \in Nat, k \in S
        PROVE  k + 1 \in S
    <3>1. CASE k + 1 <= n
      <4>1. /\ k <= n /\ k + 1 \in 1..n /\ (k + 1) - 1 = k
        BY <1>1, <3>1
      <4>2. sum[k + 1] = sum[k] + w[k + 1]
        BY <1>1, <1>6, <4>1
      <4> QED
        BY <1>1, <2>2, <4>1, <4>2
    <3> QED
      BY <3>1
  <2> HIDE DEF S
  <2>3. Nat \subseteq S
    BY <2>1, <2>2, Successors
  <2> QED
    BY <1>1, <2>3 DEF S
<1>8. FrameStart(sent, 1) = 0
  BY <1>2, <1>6
<1>9. ASSUME NEW x \in 1..(n + 1)
      PROVE  FrameStart(sent, x) \in Nat
  <2>1. x - 1 \in 0..n
    BY <1>1
  <2> QED
    BY <1>2, <1>7, <2>1
<1>10. ASSUME NEW x \in 1..n
       PROVE  FrameStart(sent, x + 1) = FrameStart(sent, x) + FrameLen(sent[x])
  <2>1. (x + 1) - 1 = x
    OBVIOUS
  <2> QED
    BY <1>2, <1>6, <2>1
<1> QED
  BY <1>8, <1>9, <1>10 DEF n

\* No two frames start at one place.
LEMMA FrameStartsGrow ==
  ASSUME NEW sent \in Seq(Frame), NEW x \in 1..(Len(sent) + 1),
         NEW z \in 1..(Len(sent) + 1), x < z
  PROVE  FrameStart(sent, x) < FrameStart(sent, z)
<1> DEFINE At(k) == FrameStart(sent, k)
           n == Len(sent)
           S == {y \in Nat : x + y + 1 <= n + 1 => At(x) < At(x + y + 1)}
<1>1. /\ n \in Nat /\ \A k \in 1..(n + 1) : At(k) \in Nat
      /\ \A k \in 1..n : At(k + 1) = At(k) + FrameLen(sent[k])
      /\ \A k \in 1..n : FrameLen(sent[k]) \in Nat /\ FrameLen(sent[k]) >= 2
  BY FrameStarts, FrameLengths, LenProperties
<1> HIDE DEF At
<1>2. ASSUME NEW k \in 1..n
      PROVE  At(k) < At(k + 1)
  <2>1. k \in 1..(n + 1)
    BY <1>1
  <2>2. At(k) \in Nat /\ At(k + 1) = At(k) + FrameLen(sent[k])
    BY <1>1, <2>1
  <2>3. FrameLen(sent[k]) \in Nat /\ FrameLen(sent[k]) >= 2
    BY <1>1
  <2> QED
    BY <2>2, <2>3
<1>3. 0 \in S
  BY <1>1, <1>2
<1>4. ASSUME NEW y \in Nat, y \in S
      PROVE  y + 1 \in S
  <2>1. CASE x + (y + 1) + 1 <= n + 1
    <3>1. /\ x + y + 1 \in 1..n /\ x + y + 1 <= n + 1
          /\ x + (y + 1) + 1 = (x + y + 1) + 1
      BY <1>1, <2>1
    <3>2. At(x) < At(x + y + 1) /\ At(x + y + 1) < At((x + y + 1) + 1)
      BY <1>2, <1>4, <3>1
    <3>3. /\ At(x) \in Nat /\ At(x + y + 1) \in Nat
          /\ At((x + y + 1) + 1) \in Nat
      BY <1>1, <3>1
    <3>4. At(x) < At((x + y + 1) + 1)
      BY <3>2, <3>3
    <3> QED
      BY <3>1, <3>4
  <2> QED
    BY <2>1
<1> HIDE DEF S
<1>5. z - x - 1 \in S
  <2>1. Nat \subseteq S
    BY <1>3, <1>4, Successors
  <2> QED
    BY <1>1, <2>1
<1>6. x + (z - x - 1) + 1 = z
  BY <1>1
<1> QED
  BY <1>1, <1>5, <1>6 DEF S, At

-----------------------------------------------------------------------------
(* The counters of a frame, whoever closes the connection.                  *)

Sound == TypeOK /\ PartsInOrder /\ CloseFlagged

\* What every step finds: what was sent is frames, and a read takes some bytes
\* but no more than the part needs or the peer has sent.
LEMMA SentAreFrames ==
  ASSUME WsFramesAssumption, TypeOK
  PROVE  ws.sent \in Seq(Frame) /\ Len(ws.sent) \in Nat
<1>1. ws.sent \in Seq(Frame)
  <2>1. <<>> \in Seq(Frame)
    OBVIOUS
  <2>2. ws.sent \in Traffic \cup {<<>>}
    BY DEF TypeOK, Connected
  <2> QED
    BY <2>1, <2>2 DEF WsFramesAssumption
<1> QED
  BY <1>1, LenProperties

LEMMA FillsSome ==
  ASSUME WsFramesAssumption, TypeOK, NEW got \in Nat, NEW need \in Nat,
         NEW n \in Fills(got, need)
  PROVE  /\ n \in Nat /\ n >= 1 /\ got + n <= need
         /\ ws.pos + n <= FrameStart(ws.sent, Len(ws.sent) + 1)
<1>1. Len(ws.sent) + 1 \in 1..(Len(ws.sent) + 1)
  BY SentAreFrames
<1>2. FrameStart(ws.sent, Len(ws.sent) + 1) \in Nat
  BY <1>1, SentAreFrames, FrameStarts
<1>3. ws.pos \in Nat
  BY DEF TypeOK, Connected
<1>4. n \in 1..(need - got)
  BY DEF Fills
<1>5. n <= Ready
  BY DEF Fills
<1> QED
  BY <1>2, <1>3, <1>4, <1>5 DEF Ready

LEMMA Fields ==
  DOMAIN NoConnection = {"open", "sent", "pos", "delivered", "parsed",
                         "closeSent", "closes", "byApp", "why"}
BY DEF NoConnection

\* A connection whose flag says how many Closes were sent.
Flagged(c) == Connected(c) /\ c.closes = (IF c.closeSent THEN 1 ELSE 0)

\* What does not change while a frame is refused.
SameTraffic(c, e) ==
  /\ e.open = c.open /\ e.sent = c.sent /\ e.delivered = c.delivered
  /\ e.pos = c.pos /\ e.byApp = c.byApp

LEMMA CloseStatusFlagged ==
  ASSUME NEW c, Flagged(c)
  PROVE  /\ Flagged(CloseStatus(c)) /\ SameTraffic(c, CloseStatus(c))
         /\ CloseStatus(c).closeSent
BY Fields DEF Flagged, CloseStatus, Connected, SameTraffic

LEMMA FrameFields ==
  DOMAIN Reset = {"hread", "lread", "mread", "xread", "plSet", "alloc", "hdr"}
BY DEF Reset

\* How much of a frame was read.
Got(f) == f.hread + f.lread + f.mread + f.xread

LEMMA ResetTyped ==
  /\ Counters(Reset) /\ Parts(Reset)
  /\ Reset.hread = 0 /\ Reset.lread = 0 /\ Reset.mread = 0 /\ Reset.xread = 0
  /\ ~Reset.plSet /\ ~Reset.alloc
  /\ Reset.hdr = NoFrame /\ NoFrame.form = 0 /\ NoFrame.pl = 0
  /\ Got(Reset) = 0
<1>1. Counters(Reset)
  BY FrameFields DEF Counters, Reset
<1>2. /\ Reset.hread = 0 /\ Reset.lread = 0 /\ Reset.mread = 0 /\ Reset.xread = 0
      /\ Reset.plSet = FALSE /\ Reset.alloc = FALSE
      /\ Reset.hdr = NoFrame /\ NoFrame.form = 0 /\ NoFrame.pl = 0
  BY DEF Reset, NoFrame
<1>3. Reset = [Reset EXCEPT !.hread = Reset.hread]
  BY DEF Reset
<1>4. Parts(Reset)
  BY <1>2, <1>3 DEF Parts
<1> QED
  BY <1>1, <1>2, <1>4 DEF Got

\* axil_close() of the connection, wherever a read or a writer calls it.
LEMMA TeardownSound ==
  ASSUME NEW c, Flagged(c), NEW why \in Causes \ {"none"}, Teardown(c, why)
  PROVE  /\ Sound' /\ ~ws'.open
         /\ ws'.sent = c.sent /\ ws'.delivered = c.delivered
<1> DEFINE e == CloseStatus(c)
<1>1. Flagged(e) /\ SameTraffic(c, e) /\ e.closeSent
  BY CloseStatusFlagged
<1>2. ws' = [e EXCEPT !.open = FALSE, !.why = why] /\ frame' = Reset
  BY DEF Teardown
<1> HIDE DEF e
<1>3. /\ Connected(ws') /\ ws'.closes = 1 /\ ws'.closeSent /\ ~ws'.open
      /\ ws'.sent = c.sent /\ ws'.delivered = c.delivered
  BY <1>1, <1>2, Fields DEF Flagged, Connected, SameTraffic
<1>4. TypeOK' /\ CloseFlagged'
  BY <1>2, <1>3, ResetTyped DEF TypeOK, CloseFlagged
<1>5. PartsInOrder'
  BY <1>2, ResetTyped DEF PartsInOrder
<1> QED
  BY <1>3, <1>4, <1>5 DEF Sound

\* A read moves the place in the stream.
Taken(n) == [ws EXCEPT !.pos = @ + n]

LEMMA TakenFlagged ==
  ASSUME Sound, ws.open, NEW n \in Nat
  PROVE  /\ Flagged(Taken(n)) /\ Taken(n).open /\ Taken(n).why = ws.why
         /\ Taken(n).sent = ws.sent /\ Taken(n).delivered = ws.delivered
         /\ Taken(n).pos = ws.pos + n
<1>1. /\ DOMAIN ws = DOMAIN NoConnection /\ ws.pos \in Nat
      /\ Connected(ws) /\ Flagged(ws)
  BY DEF Sound, TypeOK, Connected, CloseFlagged, Flagged
<1>2. Taken(n) = [ws EXCEPT !.pos = ws.pos + n] /\ ws.pos + n \in Nat
  BY <1>1 DEF Taken
<1> QED
  BY <1>1, <1>2, Fields DEF Connected, Flagged

\* A frame's counters while the connection stays open.
LEMMA TakenSound ==
  ASSUME NEW c, NEW f, Flagged(c), c.open, ws' = c, Counters(f), Parts(f),
         frame' = f, c.pos >= Got(f)
  PROVE  Sound'
<1>1. c.pos \in Nat
  BY DEF Flagged, Connected
<1>2. Got(f) \in Nat
  BY DEF Counters, Got
<1>3. Base' >= 0
  BY <1>1, <1>2 DEF Base, Got
<1> QED
  BY <1>3 DEF Flagged, Sound, TypeOK, CloseFlagged, PartsInOrder

LEMMA InitSound == Init => Sound
<1> SUFFICES ASSUME Init PROVE Sound
  OBVIOUS
<1>1. TypeOK /\ CloseFlagged
  BY ResetTyped DEF Init, NoConnection, TypeOK, Connected, Causes, CloseFlagged
<1>2. PartsInOrder
  BY ResetTyped DEF Init, PartsInOrder, NoConnection
<1> QED
  BY <1>1, <1>2 DEF Sound

\* The upgrade, and the Closes that are not a read's.
LEMMA OthersSound ==
  ASSUME Sound,
         \/ \E sent \in Traffic : Upgrade(sent)
         \/ AppClose \/ OtherClose \/ ReadEnds
  PROVE  Sound'
<1>0. Flagged(ws)
  BY DEF Sound, TypeOK, CloseFlagged, Flagged
<1>1. ASSUME NEW sent \in Traffic, Upgrade(sent)
      PROVE  Sound'
  <2>1. ws' = Opened(sent) /\ frame' = Reset
    BY <1>1 DEF Upgrade
  <2>2. Flagged(Opened(sent)) /\ Opened(sent).open /\ Opened(sent).pos = 0
    BY DEF Opened, NoConnection, Flagged, Connected, Causes
  <2> QED
    BY <2>1, <2>2, ResetTyped, TakenSound
<1>2. CASE AppClose
  <2> DEFINE e == CloseStatus(ws)
             c == [e EXCEPT !.byApp = TRUE]
  <2>1. ws.open /\ ws' = c /\ frame' = Reset
    BY <1>2 DEF AppClose
  <2>2. Flagged(e) /\ e.open
    BY <1>0, <2>1, CloseStatusFlagged DEF SameTraffic
  <2> HIDE DEF e
  <2>3. Flagged(c) /\ c.open /\ c.pos >= 0
    <3>1. Connected(e) /\ DOMAIN e = DOMAIN NoConnection
      BY <2>2 DEF Flagged, Connected
    <3>2. /\ DOMAIN c = DOMAIN NoConnection /\ c.byApp = TRUE
          /\ c.open = e.open /\ c.sent = e.sent /\ c.pos = e.pos
          /\ c.delivered = e.delivered /\ c.parsed = e.parsed
          /\ c.closeSent = e.closeSent /\ c.closes = e.closes /\ c.why = e.why
      BY <3>1, Fields
    <3> HIDE DEF c
    <3>3. Connected(c) /\ c.pos \in Nat
      BY <3>1, <3>2 DEF Connected
    <3> QED
      BY <2>2, <3>2, <3>3 DEF Flagged
  <2> HIDE DEF c
  <2> QED
    BY <2>3, <2>1, ResetTyped, TakenSound
<1>3. CASE OtherClose \/ ReadEnds
  <2>1. PICK why \in {"other", "eof"} : Teardown(ws, why)
    BY <1>3 DEF OtherClose, ReadEnds, Refuse
  <2>2. why \in Causes \ {"none"}
    BY DEF Causes
  <2> QED
    BY <1>0, <2>1, <2>2, TeardownSound
<1> QED
  BY <1>1, <1>2, <1>3

LEMMA InHand ==
  ASSUME Sound, ws.open
  PROVE  ws.pos \in Nat /\ Got(frame) \in Nat /\ ws.pos >= Got(frame)
<1>1. ws.pos \in Nat
  BY DEF Sound, TypeOK, Connected
<1>2. Got(frame) \in Nat
  BY DEF Sound, TypeOK, Counters, Got
<1> QED
  BY <1>1, <1>2 DEF Sound, PartsInOrder, Base, Got

LEMMA SoundFacts ==
  ASSUME Sound
  PROVE  /\ Counters(frame) /\ Parts(frame)
         /\ DOMAIN frame = {"hread", "lread", "mread", "xread", "plSet", "alloc",
                            "hdr"}
         /\ frame.hread \in 0..2 /\ frame.lread \in 0..8 /\ frame.mread \in 0..4
         /\ frame.xread \in Nat
         /\ frame.hdr.form \in {0, 2, 8} /\ frame.hdr.pl \in Nat
<1>1. Counters(frame) /\ Parts(frame)
  BY DEF Sound, TypeOK, PartsInOrder
<1>2. frame.hdr \in Frame \cup {NoFrame}
  BY <1>1 DEF Counters
<1>3. frame.hdr.form \in {0, 2, 8} /\ frame.hdr.pl \in Nat
  BY <1>2, ResetTyped DEF Frame
<1> QED
  BY <1>1, <1>3, FrameFields DEF Counters

\* The header that ws_read() takes from its place in the stream.
LEMMA HeadersAreFrames ==
  ASSUME WsFramesAssumption, Sound, NEW p, NEW hdr \in HeadersAt(p)
  PROVE  /\ hdr \in Frame
         /\ hdr.form = 0 => hdr.pl <= MaxPayload
<1> DEFINE starts == {x \in 1..Len(ws.sent) : FrameStart(ws.sent, x) = p}
<1>1. ws.sent \in Seq(Frame)
  BY SentAreFrames DEF Sound
<1>2. CASE starts = {}
  <2>1. PICK y \in BOOLEAN, o \in {"data", "control", "close"}, n \in 0..2 :
          hdr = [masked |-> y, op |-> o, form |-> 0, pl |-> n]
    BY <1>2 DEF HeadersAt
  <2> QED
    BY <2>1 DEF Frame, WsFramesAssumption, ShortFits
<1>3. ASSUME NEW x \in 1..Len(ws.sent), hdr = ws.sent[x]
      PROVE  hdr \in Frame /\ (hdr.form = 0 => hdr.pl <= MaxPayload)
  <2>1. hdr \in Frame
    BY <1>1, <1>3
  <2>2. ws.sent \in Traffic
    <3>1. ws.sent # <<>>
      BY <1>3
    <3> QED
      BY <3>1 DEF Sound, TypeOK, Connected
  <2> QED
    BY <1>3, <2>1, <2>2 DEF WsFramesAssumption, ShortFits
<1>4. starts # {} => \E x \in starts : hdr = ws.sent[x]
  BY DEF HeadersAt
<1> QED
  BY <1>2, <1>3, <1>4

\* The two header bytes.
LEMMA ReadHeadSound ==
  ASSUME WsFramesAssumption, Sound, ws.open, NEW n \in 1..2, ReadHead(n)
  PROVE  Sound'
<1> DEFINE c == Taken(n)
           h == frame.hread + n
<1>1. n \in Nat /\ n >= 1 /\ h \in 1..2 /\ frame.hread < 2
  <2>1. frame.hread \in Nat /\ frame.hread < 2
    <3>1. frame.hread < 2
      BY DEF ReadHead
    <3>2. frame.hread \in 0..2
      BY SoundFacts
    <3> QED
      BY <3>1, <3>2
  <2>2. n \in Fills(frame.hread, 2)
    BY DEF ReadHead
  <2>3. frame.hread + n <= 2
    BY <2>1, <2>2, FillsSome DEF Sound
  <2> QED
    BY <2>1, <2>3
<1>2. Flagged(c) /\ c.open /\ c.pos >= h
  <2>1. Flagged(c) /\ c.open /\ c.pos = ws.pos + n
    BY <1>1, TakenFlagged
  <2>2. ws.pos >= frame.hread
    BY <1>1, InHand, SoundFacts DEF Got
  <2> QED
    BY <1>1, <2>1, <2>2, InHand, SoundFacts
<1>3. /\ Flagged(CloseStatus(c)) /\ CloseStatus(c).open
  BY <1>2, CloseStatusFlagged DEF SameTraffic
<1>4. frame = [Reset EXCEPT !.hread = frame.hread]
  BY <1>1, SoundFacts DEF Parts
<1>5. CASE h < 2
  <2> DEFINE f == [Reset EXCEPT !.hread = h]
  <2>1. ws' = c /\ frame' = [frame EXCEPT !.hread = h]
    BY <1>5 DEF ReadHead, Taken
  <2> HIDE DEF h, c
  <2>2. frame' = f
    BY <1>4, <2>1 DEF Reset
  <2>3. /\ DOMAIN f = DOMAIN Reset
        /\ f.hread = h /\ f.lread = 0 /\ f.mread = 0
        /\ f.xread = 0 /\ f.plSet = FALSE /\ f.alloc = FALSE
        /\ f.hdr = NoFrame
    BY DEF Reset
  <2>6. f = [Reset EXCEPT !.hread = f.hread]
    BY <2>3
  <2> HIDE DEF f
  <2>4. Parts(f)
    BY <1>1, <1>5, <2>3, <2>6, ResetTyped DEF Parts
  <2>5. Counters(f)
    <3>1. f.hread \in 0..2
      BY <1>1, <2>3
    <3>2. f.lread \in 0..8
      BY <2>3
    <3>3. f.mread \in 0..4 /\ f.xread \in Nat
      BY <2>3
    <3>4. f.plSet \in BOOLEAN /\ f.alloc \in BOOLEAN
      BY <2>3
    <3>5. f.hdr \in Frame \cup {NoFrame}
      BY <2>3
    <3> QED
      BY <2>3, <3>1, <3>2, <3>3, <3>4, <3>5 DEF Counters
  <2> QED
    <3>1. Got(f) = h
      BY <1>1, <2>3 DEF Got
    <3> QED
      BY <1>2, <2>1, <2>2, <2>4, <2>5, <3>1, TakenSound
<1>6. CASE ~(h < 2)
  <2>1. PICK hdr \in HeadersAt(Base) :
          \/ Teardown(CloseStatus(c), "protocol")
          \/ Teardown(CloseStatus(c), "peer")
          \/ /\ hdr.masked /\ ~LongControl(hdr) /\ hdr.op # "close"
             /\ ws' = c
             /\ frame' = [Reset EXCEPT !.hread = 2, !.hdr = hdr,
                                       !.plSet = (hdr.form = 0)]
    <3>1. frame.plSet = FALSE
      BY <1>4 DEF Reset
    <3>2. PICK hdr \in HeadersAt(Base) :
                IF ~hdr.masked \/ LongControl(hdr)
                THEN Refuse(CloseStatus(c), "protocol")
                ELSE IF hdr.op = "close"
                THEN Refuse(CloseStatus(c), "peer")
                ELSE IF hdr.form = 0
                THEN /\ ws' = c
                     /\ frame' = [frame EXCEPT !.hread = 2, !.hdr = hdr,
                                               !.plSet = TRUE]
                ELSE /\ ws' = c
                     /\ frame' = [frame EXCEPT !.hread = 2, !.hdr = hdr]
      BY <1>6 DEF ReadHead, Taken
    <3> HIDE DEF c, h
    <3>3. hdr.form # 0 => [frame EXCEPT !.hread = 2, !.hdr = hdr] =
               [Reset EXCEPT !.hread = 2, !.hdr = hdr, !.plSet = (hdr.form = 0)]
      BY <1>4, <3>1 DEF Reset
    <3>4. hdr.form = 0 => [frame EXCEPT !.hread = 2, !.hdr = hdr, !.plSet = TRUE] =
               [Reset EXCEPT !.hread = 2, !.hdr = hdr, !.plSet = (hdr.form = 0)]
      BY <1>4 DEF Reset
    <3> QED
      BY <3>2, <3>3, <3>4 DEF Refuse
  <2> HIDE DEF c, h
  <2>2. hdr \in Frame /\ (hdr.form = 0 => hdr.pl <= MaxPayload)
    BY HeadersAreFrames
  <2>3. CASE Teardown(CloseStatus(c), "protocol") \/ Teardown(CloseStatus(c), "peer")
    BY <1>3, <2>3, TeardownSound DEF Causes
  <2>4. CASE /\ hdr.masked /\ ~LongControl(hdr) /\ hdr.op # "close"
             /\ ws' = c
             /\ frame' = [Reset EXCEPT !.hread = 2, !.hdr = hdr,
                                       !.plSet = (hdr.form = 0)]
    <3> DEFINE f == [Reset EXCEPT !.hread = 2, !.hdr = hdr,
                                  !.plSet = (hdr.form = 0)]
    <3>1. /\ DOMAIN f = DOMAIN Reset
          /\ f.hread = 2 /\ f.lread = 0 /\ f.mread = 0
          /\ f.xread = 0 /\ f.plSet \in BOOLEAN /\ f.alloc = FALSE
          /\ f.hdr = hdr
      BY DEF Reset
    <3>5. f.plSet <=> hdr.form = 0
      BY DEF Reset
    <3> HIDE DEF f
    <3>2. hdr.form \in {0, 2, 8}
      BY <2>2 DEF Frame
    <3>3. Parts(f)
      BY <2>2, <2>4, <3>1, <3>2, <3>5 DEF Parts, LongControl
    <3>4. Counters(f)
      <4>1. f.hread \in 0..2 /\ f.lread \in 0..8
        BY <3>1
      <4>2. f.mread \in 0..4 /\ f.xread \in Nat
        BY <3>1
      <4>3. f.plSet \in BOOLEAN /\ f.alloc \in BOOLEAN
        BY <3>1
      <4>4. f.hdr \in Frame \cup {NoFrame}
        BY <2>2, <3>1
      <4> QED
        BY <3>1, <4>1, <4>2, <4>3, <4>4 DEF Counters
    <3> QED
      <4>1. Got(f) = h
        BY <1>1, <1>6, <3>1 DEF Got
      <4> QED
        BY <1>2, <2>4, <3>3, <3>4, <4>1, TakenSound DEF f
  <2> QED
    BY <2>1, <2>3, <2>4
<1> QED
  BY <1>5, <1>6

\* One more part of a frame whose header is in: f is frame with some counters
\* changed.
LEMMA Advances ==
  ASSUME Sound, NEW f, DOMAIN f = DOMAIN Reset,
         f.hread = 2, frame.hread = 2, f.hdr = frame.hdr,
         f.lread \in 0..8, f.lread <= f.hdr.form,
         f.plSet \in BOOLEAN, f.plSet <=> f.lread = f.hdr.form,
         f.plSet => f.hdr.pl <= MaxPayload,
         f.mread \in 0..4, f.mread > 0 => f.plSet,
         f.alloc \in BOOLEAN, f.alloc <=> f.mread = 4,
         f.xread \in Nat, f.alloc => f.xread < f.hdr.pl,
         ~f.alloc => f.xread = 0
  PROVE  Counters(f) /\ Parts(f)
<1>1. Parts(frame) /\ frame.hdr \in Frame \cup {NoFrame}
  BY SoundFacts DEF Counters
<1>2. f.hread \in 0..2 /\ ~(f.hread < 2)
  OBVIOUS
<1>3. Counters(f)
  BY <1>1, <1>2 DEF Counters
<1>4. Parts(f)
  BY <1>1, <1>2 DEF Parts
<1> QED
  BY <1>3, <1>4

\* The extended length.
LEMMA ReadLengthSound ==
  ASSUME WsFramesAssumption, Sound, ws.open, NEW n \in 1..8, ReadLength(n)
  PROVE  Sound'
<1> DEFINE c == Taken(n)
           l == frame.lread + n
<1>1. frame.hread = 2 /\ ~frame.plSet /\ n \in Fills(frame.lread, frame.hdr.form)
  BY DEF ReadLength
<1>2. n \in Nat /\ l <= frame.hdr.form /\ l \in Nat /\ l >= 1
  <2>1. frame.lread \in Nat /\ frame.hdr.form \in Nat
    BY SoundFacts
  <2> QED
    BY <1>1, <2>1, FillsSome DEF Sound
<1>3. Flagged(c) /\ c.open /\ c.pos >= Got(frame) + n
  <2>1. Flagged(c) /\ c.open /\ c.pos = ws.pos + n
    BY <1>2, TakenFlagged
  <2> QED
    BY <1>2, <2>1, InHand
<1>4. /\ frame.mread = 0 /\ frame.alloc = FALSE /\ frame.xread = 0
      /\ frame.plSet = FALSE
      /\ DOMAIN frame = DOMAIN Reset /\ frame.hdr.form \in {0, 2, 8}
      /\ frame.mread \in 0..4
  <2>1. /\ frame.plSet \in BOOLEAN /\ frame.alloc \in BOOLEAN
        /\ DOMAIN frame = DOMAIN Reset
    BY SoundFacts DEF Counters
  <2>2. frame.mread \in 0..4 /\ frame.hdr.form \in {0, 2, 8}
    BY SoundFacts
  <2> QED
    BY <1>1, <2>1, <2>2, SoundFacts DEF Parts
<1>5. \/ /\ l < frame.hdr.form
         /\ ws' = c /\ frame' = [frame EXCEPT !.lread = l]
      \/ Teardown(c, "too large")
      \/ /\ l = frame.hdr.form /\ ~(frame.hdr.pl > MaxPayload)
         /\ ws' = c /\ frame' = [frame EXCEPT !.lread = l, !.plSet = TRUE]
  <2>1. IF l < frame.hdr.form
         THEN /\ ws' = c
              /\ frame' = [frame EXCEPT !.lread = l]
         ELSE IF TooLarge(frame.hdr.pl) THEN Refuse(c, "too large")
         ELSE /\ ws' = c
              /\ frame' = [frame EXCEPT !.lread = l, !.plSet = TRUE]
    BY DEF ReadLength, Taken
  <2> HIDE DEF c, l
  <2>2. ~(l < frame.hdr.form) => l = frame.hdr.form
    BY <1>2, <1>4
  <2> QED
    BY <2>1, <2>2 DEF Refuse, TooLarge
<1> HIDE DEF c, l
<1>6. CASE l < frame.hdr.form /\ ws' = c /\ frame' = [frame EXCEPT !.lread = l]
  <2> DEFINE f == [frame EXCEPT !.lread = l]
  <2>1. /\ DOMAIN f = DOMAIN Reset /\ f.hread = 2 /\ f.hdr = frame.hdr
        /\ f.lread = l /\ f.plSet = FALSE /\ f.mread = 0 /\ f.alloc = FALSE
        /\ f.xread = 0
    BY <1>1, <1>4, FrameFields
  <2> HIDE DEF f
  <2>2. f.lread \in 0..8 /\ f.lread <= f.hdr.form /\ f.lread # f.hdr.form
    BY <1>2, <1>4, <1>6, <2>1
  <2>3. f.plSet \in BOOLEAN /\ ~f.plSet /\ f.alloc \in BOOLEAN /\ ~f.alloc
    BY <2>1
  <2>5. f.mread \in 0..4 /\ f.mread # 4 /\ ~(f.mread > 0) /\ f.xread \in Nat
    BY <2>1
  <2>4. Counters(f) /\ Parts(f)
    BY <1>1, <2>1, <2>2, <2>3, <2>5, Advances
  <2> QED
    <3>1. Got(f) = Got(frame) + n
      BY <1>1, <1>2, <1>4, <2>1, SoundFacts DEF Got, l
    <3> QED
      BY <1>3, <1>6, <2>4, <3>1, TakenSound DEF f
<1>7. CASE Teardown(c, "too large")
  BY <1>3, <1>7, TeardownSound DEF Causes
<1>8. CASE /\ l = frame.hdr.form /\ ~(frame.hdr.pl > MaxPayload)
           /\ ws' = c /\ frame' = [frame EXCEPT !.lread = l, !.plSet = TRUE]
  <2> DEFINE f == [frame EXCEPT !.lread = l, !.plSet = TRUE]
  <2>1. /\ DOMAIN f = DOMAIN Reset /\ f.hread = 2 /\ f.hdr = frame.hdr
        /\ f.lread = l /\ f.plSet = TRUE /\ f.mread = 0 /\ f.alloc = FALSE
        /\ f.xread = 0
    BY <1>1, <1>4, FrameFields
  <2> HIDE DEF f
  <2>2. f.lread \in 0..8 /\ f.lread = f.hdr.form /\ f.lread <= f.hdr.form
    BY <1>2, <1>4, <1>8, <2>1
  <2>3. f.hdr.pl <= MaxPayload
    BY <1>8, <2>1, SoundFacts DEF WsFramesAssumption
  <2>4. f.plSet \in BOOLEAN /\ f.plSet /\ f.alloc \in BOOLEAN /\ ~f.alloc
    BY <2>1
  <2>6. f.mread \in 0..4 /\ f.mread # 4 /\ ~(f.mread > 0) /\ f.xread \in Nat
    BY <2>1
  <2>5. Counters(f) /\ Parts(f)
    BY <1>1, <2>1, <2>2, <2>3, <2>4, <2>6, Advances
  <2> QED
    <3>1. Got(f) = Got(frame) + n
      BY <1>1, <1>2, <1>4, <2>1, SoundFacts DEF Got, l
    <3> QED
      BY <1>3, <1>8, <2>5, <3>1, TakenSound DEF f
<1> QED
  BY <1>5, <1>6, <1>7, <1>8

\* A whole frame: the program gets it, or the connection is closed.
LEMMA DeliverSound ==
  ASSUME NEW c, Flagged(c), c.open, NEW base \in Nat, Deliver(c, base)
  PROVE  Sound'
<1>1. CASE Teardown(c, "too large") \/ Teardown(c, "empty")
  BY <1>1, TeardownSound DEF Causes
<1>2. ASSUME NEW taken \in BOOLEAN, frame' = Reset,
             ws' = [c EXCEPT !.delivered = Append(@, base), !.parsed = @ \/ ~taken]
      PROVE  Sound'
  <2> DEFINE e == [c EXCEPT !.delivered = Append(@, base), !.parsed = @ \/ ~taken]
  <2>1. Append(c.delivered, base) \in Seq(Nat)
    BY AppendProperties DEF Flagged, Connected
  <2>2. (c.parsed \/ ~taken) \in BOOLEAN
    OBVIOUS
  <2>3. Flagged(e) /\ e.open
    BY <2>1, <2>2, Fields DEF Flagged, Connected
  <2> HIDE DEF e
  <2>4. e.pos >= 0
    BY <2>3 DEF Flagged, Connected
  <2> QED
    BY <1>2, <2>3, <2>4, ResetTyped, TakenSound DEF e
<1> QED
  BY <1>1, <1>2 DEF Deliver, Unfit, Refuse

\* The masking key; the payload is allocated with its last byte.
LEMMA ReadMaskSound ==
  ASSUME WsFramesAssumption, Sound, ws.open, NEW n \in 1..4, ReadMask(n)
  PROVE  Sound'
<1> DEFINE c == Taken(n)
           y == frame.mread + n
<1>1. frame.plSet /\ frame.mread < 4 /\ n \in Fills(frame.mread, 4)
  BY DEF ReadMask
<1>2. n \in Nat /\ y <= 4 /\ y \in Nat /\ y >= 1
  <2>1. frame.mread \in Nat
    BY SoundFacts
  <2> QED
    BY <1>1, <2>1, FillsSome DEF Sound
<1>3. Flagged(c) /\ c.open /\ c.pos >= Got(frame) + n
  <2>1. Flagged(c) /\ c.open /\ c.pos = ws.pos + n
    BY <1>2, TakenFlagged
  <2> QED
    BY <1>2, <2>1, InHand
<1>4. /\ frame.hread = 2 /\ frame.lread = frame.hdr.form
      /\ frame.hdr.pl <= MaxPayload /\ frame.xread = 0
      /\ DOMAIN frame = DOMAIN Reset /\ frame.lread \in 0..8
  <2>1. Parts(frame) /\ DOMAIN frame = DOMAIN Reset
    BY SoundFacts DEF Counters
  <2>2. frame.mread # 4
    BY <1>1, SoundFacts
  <2> QED
    BY <1>1, <2>1, <2>2, SoundFacts DEF Parts
<1>5. \/ /\ y < 4
         /\ ws' = c /\ frame' = [frame EXCEPT !.mread = y]
      \/ Teardown(c, "no memory")
      \/ /\ y = 4 /\ frame.hdr.pl > 0
         /\ ws' = c /\ frame' = [frame EXCEPT !.mread = y, !.alloc = TRUE]
      \/ Deliver(c, Base)
  <2>1. IF y < 4
         THEN /\ ws' = c
              /\ frame' = [frame EXCEPT !.mread = y]
         ELSE \/ Refuse(c, "no memory")
              \/ /\ frame.hdr.pl > 0
                 /\ ws' = c
                 /\ frame' = [frame EXCEPT !.mread = y, !.alloc = TRUE]
              \/ frame.hdr.pl = 0 /\ Deliver(c, Base)
    BY DEF ReadMask, Taken
  <2> HIDE DEF c, y
  <2>2. ~(y < 4) => y = 4
    BY <1>2
  <2> QED
    BY <2>1, <2>2 DEF Refuse
<1> HIDE DEF c, y
<1>6. CASE y < 4 /\ ws' = c /\ frame' = [frame EXCEPT !.mread = y]
  <2> DEFINE f == [frame EXCEPT !.mread = y]
  <2>1. /\ DOMAIN f = DOMAIN Reset /\ f.hread = 2 /\ f.hdr = frame.hdr
        /\ f.lread = frame.lread /\ f.plSet = frame.plSet /\ f.mread = y
        /\ f.alloc = frame.alloc /\ f.xread = 0
    BY <1>1, <1>4, FrameFields
  <2> HIDE DEF f
  <2>2. f.lread \in 0..8 /\ f.lread <= f.hdr.form /\ f.lread = f.hdr.form
    BY <1>4, <2>1
  <2>3. f.plSet \in BOOLEAN /\ f.plSet /\ f.alloc \in BOOLEAN
    BY <1>1, <2>1, SoundFacts DEF Counters
  <2>4. ~f.alloc
    BY <1>1, <2>1, SoundFacts DEF Parts
  <2>5. f.mread \in 0..4 /\ f.mread # 4 /\ f.xread \in Nat
    BY <1>2, <1>6, <2>1
  <2>6. f.hdr.pl <= MaxPayload
    BY <1>4, <2>1
  <2>7. Counters(f) /\ Parts(f)
    BY <1>4, <2>1, <2>2, <2>3, <2>4, <2>5, <2>6, Advances
  <2>8. Got(f) = Got(frame) + n
    BY <1>2, <1>4, <2>1, SoundFacts DEF Got, y
  <2> QED
    BY <1>3, <1>6, <2>7, <2>8, TakenSound DEF f
<1>7. CASE Teardown(c, "no memory")
  BY <1>3, <1>7, TeardownSound DEF Causes
<1>8. CASE /\ y = 4 /\ frame.hdr.pl > 0
           /\ ws' = c /\ frame' = [frame EXCEPT !.mread = y, !.alloc = TRUE]
  <2> DEFINE f == [frame EXCEPT !.mread = y, !.alloc = TRUE]
  <2>1. /\ DOMAIN f = DOMAIN Reset /\ f.hread = 2 /\ f.hdr = frame.hdr
        /\ f.lread = frame.lread /\ f.plSet = frame.plSet /\ f.mread = y
        /\ f.alloc = TRUE /\ f.xread = 0
    BY <1>1, <1>4, FrameFields
  <2> HIDE DEF f
  <2>2. f.lread \in 0..8 /\ f.lread <= f.hdr.form /\ f.lread = f.hdr.form
    BY <1>4, <2>1
  <2>3. f.plSet \in BOOLEAN /\ f.plSet
    BY <1>1, <2>1, SoundFacts DEF Counters
  <2>4. f.alloc \in BOOLEAN /\ f.alloc
    BY <2>1
  <2>5. f.mread \in 0..4 /\ f.mread = 4 /\ f.xread \in Nat
    BY <1>2, <1>8, <2>1
  <2>6. f.hdr.pl <= MaxPayload /\ f.xread < f.hdr.pl
    BY <1>4, <1>8, <2>1, SoundFacts
  <2>7. Counters(f) /\ Parts(f)
    BY <1>4, <2>1, <2>2, <2>3, <2>4, <2>5, <2>6, Advances
  <2>8. Got(f) = Got(frame) + n
    BY <1>2, <1>4, <2>1, SoundFacts DEF Got, y
  <2> QED
    BY <1>3, <1>8, <2>7, <2>8, TakenSound DEF f
<1>9. CASE Deliver(c, Base)
  <2>1. Base \in Nat
    BY InHand, SoundFacts DEF Base, Got
  <2> QED
    BY <1>3, <1>9, <2>1, DeliverSound
<1> QED
  BY <1>5, <1>6, <1>7, <1>8, <1>9

\* The payload.
LEMMA ReadPayloadSound ==
  ASSUME WsFramesAssumption, Sound, ws.open, NEW n \in 1..MaxPayload, ReadPayload(n)
  PROVE  Sound'
<1> DEFINE c == Taken(n)
           x == frame.xread + n
<1>1. frame.alloc /\ n \in Fills(frame.xread, frame.hdr.pl)
  BY DEF ReadPayload
<1>2. n \in Nat /\ x <= frame.hdr.pl /\ x \in Nat
  <2>1. frame.xread \in Nat /\ frame.hdr.pl \in Nat
    BY SoundFacts
  <2> QED
    BY <1>1, <2>1, FillsSome DEF Sound
<1>3. Flagged(c) /\ c.open /\ c.pos >= Got(frame) + n
  <2>1. Flagged(c) /\ c.open /\ c.pos = ws.pos + n
    BY <1>2, TakenFlagged
  <2> QED
    BY <1>2, <2>1, InHand
<1>4. /\ frame.hread = 2 /\ frame.lread = frame.hdr.form /\ frame.plSet
      /\ frame.hdr.pl <= MaxPayload /\ frame.mread = 4
      /\ DOMAIN frame = DOMAIN Reset /\ frame.lread \in 0..8
  <2>1. Parts(frame) /\ DOMAIN frame = DOMAIN Reset
    BY SoundFacts DEF Counters
  <2>2. frame.mread = 4
    BY <1>1, <2>1 DEF Parts
  <2> QED
    BY <2>1, <2>2, SoundFacts DEF Parts
<1>5. \/ x < frame.hdr.pl /\ ws' = c /\ frame' = [frame EXCEPT !.xread = x]
      \/ Deliver(c, Base)
  BY DEF ReadPayload, Taken, Progress
<1> HIDE DEF c, x
<1>6. CASE x < frame.hdr.pl /\ ws' = c /\ frame' = [frame EXCEPT !.xread = x]
  <2> DEFINE f == [frame EXCEPT !.xread = x]
  <2>1. /\ DOMAIN f = DOMAIN Reset /\ f.hread = 2 /\ f.hdr = frame.hdr
        /\ f.lread = frame.lread /\ f.plSet = frame.plSet /\ f.mread = 4
        /\ f.alloc = frame.alloc /\ f.xread = x
    BY <1>1, <1>4, FrameFields
  <2> HIDE DEF f
  <2>2. f.lread \in 0..8 /\ f.lread <= f.hdr.form /\ f.lread = f.hdr.form
    BY <1>4, <2>1
  <2>3. /\ f.plSet \in BOOLEAN /\ f.plSet /\ f.alloc \in BOOLEAN /\ f.alloc
    BY <1>1, <1>4, <2>1, SoundFacts DEF Counters
  <2>5. f.mread \in 0..4 /\ f.mread = 4 /\ f.xread \in Nat
    BY <1>2, <2>1
  <2>6. f.hdr.pl <= MaxPayload /\ f.xread < f.hdr.pl
    BY <1>4, <1>6, <2>1
  <2>7. Counters(f) /\ Parts(f)
    BY <1>4, <2>1, <2>2, <2>3, <2>5, <2>6, Advances
  <2>8. Got(f) = Got(frame) + n
    BY <1>2, <1>4, <2>1, SoundFacts DEF Got, x
  <2> QED
    BY <1>3, <1>6, <2>7, <2>8, TakenSound DEF f
<1>7. CASE Deliver(c, Base)
  <2>1. Base \in Nat
    BY InHand, SoundFacts DEF Base, Got
  <2> QED
    BY <1>3, <1>7, <2>1, DeliverSound
<1> QED
  BY <1>5, <1>6, <1>7

LEMMA NextSound ==
  ASSUME WsFramesAssumption, Sound, [Next]_vars
  PROVE  Sound'
<1>1. CASE \/ \E sent \in Traffic : Upgrade(sent)
           \/ AppClose \/ OtherClose \/ ReadEnds
  BY <1>1, OthersSound
<1>2. ASSUME NEW n \in 1..2, ws.open, ReadHead(n)
      PROVE  Sound'
  BY <1>2, ReadHeadSound
<1>3. ASSUME NEW n \in 1..8, ws.open, ReadLength(n)
      PROVE  Sound'
  BY <1>3, ReadLengthSound
<1>4. ASSUME NEW n \in 1..4, ws.open, ReadMask(n)
      PROVE  Sound'
  BY <1>4, ReadMaskSound
<1>5. ASSUME NEW n \in 1..MaxPayload, ws.open, ReadPayload(n)
      PROVE  Sound'
  BY <1>5, ReadPayloadSound
<1>6. CASE UNCHANGED vars
  BY <1>6 DEF vars, Sound, TypeOK, PartsInOrder, CloseFlagged, Base
<1> QED
  BY <1>1, <1>2, <1>3, <1>4, <1>5, <1>6 DEF Next

\* The counters of frame_map[fd] agree with each other and with the connection,
\* wherever a read was cut and whoever closed it.
THEOREM StaysSound ==
  ASSUME WsFramesAssumption
  PROVE  Spec => []Sound
<1>1. Sound /\ [Next]_vars => Sound'
  BY NextSound
<1> QED
  BY <1>1, InitSound, PTL DEF Spec

\* ws_close_status(): the echo, axil_ws_close() and the teardown send one Close
\* between them.
THEOREM ClosesOnce ==
  ASSUME WsFramesAssumption
  PROVE  Spec => []CloseOnce
<1>1. Sound => CloseOnce
  BY DEF Sound, CloseFlagged, CloseOnce
<1> QED
  BY <1>1, StaysSound, PTL

\* ws_read() holds a payload only for a masked frame of an open connection, no
\* longer than WS_MAX_PAYLOAD, and not for a long control frame.
THEOREM PayloadsHeld ==
  ASSUME WsFramesAssumption
  PROVE  Spec => []HeldForAFrame
<1>1. Sound => HeldForAFrame
  <2> SUFFICES ASSUME Sound, frame.alloc
               PROVE  HeldForAFrame
    BY DEF HeldForAFrame
  <2>1. frame.mread = 4 /\ frame.plSet
    BY SoundFacts DEF Parts
  <2>2. ws.open
    BY ResetTyped DEF Sound, PartsInOrder
  <2> QED
    BY <2>1, <2>2, SoundFacts DEF Parts, HeldForAFrame
<1> QED
  BY <1>1, StaysSound, PTL

-----------------------------------------------------------------------------
(* Which frame is being read, until the program sends a Close.              *)

\* What a read that returned n bytes can come to: the connection is closed, the
\* frame goes on, or it is whole and delivered.
Refused ==
  /\ ~ws'.open /\ ws'.sent = ws.sent /\ ws'.delivered = ws.delivered
  /\ ws'.byApp = ws.byApp

Advanced(n) ==
  /\ ws'.sent = ws.sent /\ ws'.delivered = ws.delivered /\ ws'.pos = ws.pos + n
  /\ ws'.byApp = ws.byApp
  /\ Got(frame') = Got(frame) + n
  /\ frame'.hread = 2 => IF frame.hread = 2 THEN frame'.hdr = frame.hdr
                         ELSE frame'.hdr \in HeadersAt(Base)

Completed(n) ==
  /\ ws'.sent = ws.sent /\ ws'.delivered = Append(ws.delivered, Base)
  /\ ws'.pos = ws.pos + n /\ Got(frame) + n = FrameLen(frame.hdr)
  /\ frame.hread = 2 /\ frame' = Reset /\ ws'.byApp = ws.byApp

Reads(n) == Refused \/ Advanced(n) \/ Completed(n)

LEMMA TeardownRefuses ==
  ASSUME NEW c, DOMAIN c = DOMAIN NoConnection, NEW why, Teardown(c, why),
         c.sent = ws.sent, c.delivered = ws.delivered, c.byApp = ws.byApp
  PROVE  Refused
BY Fields DEF Teardown, CloseStatus, Refused

LEMMA TakenFields ==
  ASSUME Sound, NEW n
  PROVE  /\ DOMAIN Taken(n) = DOMAIN NoConnection
         /\ DOMAIN CloseStatus(Taken(n)) = DOMAIN NoConnection
         /\ Taken(n).sent = ws.sent /\ Taken(n).delivered = ws.delivered
         /\ Taken(n).pos = ws.pos + n /\ Taken(n).byApp = ws.byApp
         /\ CloseStatus(Taken(n)).sent = ws.sent
         /\ CloseStatus(Taken(n)).byApp = ws.byApp
         /\ CloseStatus(Taken(n)).delivered = ws.delivered
<1>1. DOMAIN ws = DOMAIN NoConnection
  BY DEF Sound, TypeOK, Connected
<1> QED
  BY <1>1, Fields DEF Taken, CloseStatus

LEMMA DeliverCompletes ==
  ASSUME Sound, NEW n, Deliver(Taken(n), Base), frame.hread = 2,
         Got(frame) + n = FrameLen(frame.hdr)
  PROVE  Reads(n)
<1> DEFINE c == Taken(n)
<1>1. \/ Teardown(c, "too large") \/ Teardown(c, "empty")
      \/ \E taken \in BOOLEAN :
           /\ ws' = [c EXCEPT !.delivered = Append(@, Base), !.parsed = @ \/ ~taken]
           /\ frame' = Reset
  BY DEF Deliver, Unfit, Refuse
<1>2. /\ DOMAIN c = DOMAIN NoConnection
      /\ c.sent = ws.sent /\ c.delivered = ws.delivered /\ c.pos = ws.pos + n
      /\ c.byApp = ws.byApp
  BY TakenFields
<1> HIDE DEF c
<1>3. CASE Teardown(c, "too large") \/ Teardown(c, "empty")
  BY <1>2, <1>3, TeardownRefuses DEF Reads
<1>4. ASSUME NEW taken \in BOOLEAN, frame' = Reset,
             ws' = [c EXCEPT !.delivered = Append(@, Base), !.parsed = @ \/ ~taken]
      PROVE  Reads(n)
  BY <1>2, <1>4, Fields DEF Reads, Completed
<1> QED
  BY <1>1, <1>3, <1>4

LEMMA ReadHeadReads ==
  ASSUME Sound, NEW n \in 1..2, ReadHead(n)
  PROVE  Reads(n)
<1> DEFINE c == Taken(n)
           h == frame.hread + n
           g == [frame EXCEPT !.hread = h]
<1>1. frame.hread \in Nat /\ frame.hread < 2 /\ frame.hread # 2
  <2>1. frame.hread < 2
    BY DEF ReadHead
  <2> QED
    BY <2>1, SoundFacts
<1>2. \/ ws' = c /\ frame' = g /\ h < 2
      \/ Teardown(CloseStatus(c), "protocol") \/ Teardown(CloseStatus(c), "peer")
      \/ \E hdr \in HeadersAt(Base) :
           /\ h >= 2 /\ ws' = c
           /\ \/ frame' = [frame EXCEPT !.hread = 2, !.hdr = hdr, !.plSet = TRUE]
              \/ frame' = [frame EXCEPT !.hread = 2, !.hdr = hdr]
  <2>1. IF h < 2
         THEN /\ ws' = c
              /\ frame' = g
         ELSE \E hdr \in HeadersAt(Base) :
                IF ~hdr.masked \/ LongControl(hdr)
                THEN Refuse(CloseStatus(c), "protocol")
                ELSE IF hdr.op = "close"
                THEN Refuse(CloseStatus(c), "peer")
                ELSE IF hdr.form = 0
                THEN /\ ws' = c
                     /\ frame' = [frame EXCEPT !.hread = 2, !.hdr = hdr,
                                               !.plSet = TRUE]
                ELSE /\ ws' = c
                     /\ frame' = [frame EXCEPT !.hread = 2, !.hdr = hdr]
    BY DEF ReadHead, Taken
  <2>2. ~(h < 2) => h >= 2
    BY <1>1
  <2> HIDE DEF c, h, g
  <2>3. CASE h < 2
    BY <2>1, <2>3
  <2>4. CASE ~(h < 2)
    BY <2>1, <2>2, <2>4 DEF Refuse
  <2> QED
    BY <2>3, <2>4
<1>3. n \in Fills(frame.hread, 2)
  BY DEF ReadHead
<1>4. h <= 2 /\ h \in Nat
  BY <1>1, <1>3 DEF Fills
<1>5. /\ DOMAIN CloseStatus(c) = DOMAIN NoConnection
      /\ CloseStatus(c).sent = ws.sent /\ CloseStatus(c).delivered = ws.delivered
      /\ CloseStatus(c).byApp = ws.byApp
      /\ c.sent = ws.sent /\ c.delivered = ws.delivered /\ c.pos = ws.pos + n
      /\ c.byApp = ws.byApp
  BY TakenFields
<1> HIDE DEF c
<1>6. CASE Teardown(CloseStatus(c), "protocol") \/ Teardown(CloseStatus(c), "peer")
  BY <1>5, <1>6, TeardownRefuses DEF Reads
<1>7. CASE ws' = c /\ frame' = g /\ h < 2
  <2>1. /\ g.hread = h /\ g.lread = frame.lread /\ g.mread = frame.mread
        /\ g.xread = frame.xread
    BY SoundFacts
  <2>2. Got(g) = Got(frame) + n
    <3> HIDE DEF g
    <3> QED
      BY <1>1, <2>1, SoundFacts DEF Got
  <2> QED
    BY <1>5, <1>7, <2>1, <2>2 DEF Reads, Advanced
<1>8. ASSUME NEW hdr \in HeadersAt(Base), h >= 2, ws' = c,
             \/ frame' = [frame EXCEPT !.hread = 2, !.hdr = hdr, !.plSet = TRUE]
             \/ frame' = [frame EXCEPT !.hread = 2, !.hdr = hdr]
      PROVE  Reads(n)
  <2>1. /\ frame'.hread = 2 /\ frame'.lread = frame.lread
        /\ frame'.mread = frame.mread /\ frame'.xread = frame.xread
        /\ frame'.hdr = hdr
    BY <1>8, SoundFacts
  <2>2. h = 2
    BY <1>4, <1>8
  <2>3. Got(frame') = Got(frame) + n
    BY <1>1, <2>1, <2>2, SoundFacts DEF Got
  <2> QED
    BY <1>1, <1>5, <1>8, <2>1, <2>3 DEF Reads, Advanced
<1> QED
  BY <1>2, <1>6, <1>7, <1>8

LEMMA ReadLengthReads ==
  ASSUME Sound, NEW n \in 1..8, ReadLength(n)
  PROVE  Reads(n)
<1> DEFINE c == Taken(n)
           l == frame.lread + n
<1>1. frame.hread = 2
  BY DEF ReadLength
<1>2. \/ Teardown(c, "too large")
      \/ /\ ws' = c
         /\ \/ frame' = [frame EXCEPT !.lread = l]
            \/ frame' = [frame EXCEPT !.lread = l, !.plSet = TRUE]
  BY DEF ReadLength, Taken, Refuse
<1>3. /\ DOMAIN c = DOMAIN NoConnection
      /\ c.sent = ws.sent /\ c.delivered = ws.delivered /\ c.pos = ws.pos + n
      /\ c.byApp = ws.byApp
  BY TakenFields
<1> HIDE DEF c
<1>4. CASE Teardown(c, "too large")
  BY <1>3, <1>4, TeardownRefuses DEF Reads
<1>5. ASSUME ws' = c,
             \/ frame' = [frame EXCEPT !.lread = l]
             \/ frame' = [frame EXCEPT !.lread = l, !.plSet = TRUE]
      PROVE  Reads(n)
  <2>1. /\ frame'.hread = 2 /\ frame'.lread = l
        /\ frame'.mread = frame.mread /\ frame'.xread = frame.xread
        /\ frame'.hdr = frame.hdr
    BY <1>1, <1>5, SoundFacts
  <2>2. Got(frame') = Got(frame) + n
    BY <1>1, <2>1, SoundFacts DEF Got
  <2> QED
    BY <1>1, <1>3, <1>5, <2>1, <2>2 DEF Reads, Advanced
<1> QED
  BY <1>2, <1>4, <1>5

LEMMA ReadMaskReads ==
  ASSUME Sound, NEW n \in 1..4, ReadMask(n)
  PROVE  Reads(n)
<1> DEFINE c == Taken(n)
           y == frame.mread + n
<1>1. frame.plSet /\ frame.mread < 4 /\ n \in Fills(frame.mread, 4)
  BY DEF ReadMask
<1>2. y <= 4 /\ y \in Nat
  <2>1. frame.mread \in Nat
    BY SoundFacts
  <2> QED
    BY <1>1, <2>1 DEF Fills
<1>3. /\ frame.hread = 2 /\ frame.lread = frame.hdr.form /\ frame.hdr.masked
      /\ frame.xread = 0
  <2>1. frame.mread # 4
    BY <1>1, SoundFacts
  <2> QED
    BY <1>1, <2>1, SoundFacts DEF Parts
<1>4. \/ Teardown(c, "no memory")
      \/ /\ ws' = c
         /\ \/ frame' = [frame EXCEPT !.mread = y]
            \/ frame' = [frame EXCEPT !.mread = y, !.alloc = TRUE]
      \/ frame.hdr.pl = 0 /\ Deliver(c, Base) /\ ~(y < 4)
  BY DEF ReadMask, Taken, Refuse
<1>5. /\ DOMAIN c = DOMAIN NoConnection
      /\ c.sent = ws.sent /\ c.delivered = ws.delivered /\ c.pos = ws.pos + n
      /\ c.byApp = ws.byApp
  BY TakenFields
<1>6. CASE Teardown(c, "no memory")
  <2> HIDE DEF c
  <2> QED
    BY <1>5, <1>6, TeardownRefuses DEF Reads
<1>7. ASSUME ws' = c,
             \/ frame' = [frame EXCEPT !.mread = y]
             \/ frame' = [frame EXCEPT !.mread = y, !.alloc = TRUE]
      PROVE  Reads(n)
  <2> HIDE DEF c
  <2>1. /\ frame'.hread = 2 /\ frame'.lread = frame.lread
        /\ frame'.mread = y /\ frame'.xread = frame.xread
        /\ frame'.hdr = frame.hdr
    BY <1>3, <1>7, SoundFacts
  <2>2. Got(frame') = Got(frame) + n
    BY <1>3, <2>1, SoundFacts DEF Got
  <2> QED
    BY <1>3, <1>5, <1>7, <2>1, <2>2 DEF Reads, Advanced
<1>8. CASE frame.hdr.pl = 0 /\ Deliver(c, Base) /\ ~(y < 4)
  <2>1. Got(frame) + n = FrameLen(frame.hdr)
    <3>1. frame.mread + n = 4
      BY <1>2, <1>8
    <3> QED
      BY <1>3, <1>8, <3>1, SoundFacts DEF Got, FrameLen
  <2> QED
    BY <1>3, <1>8, <2>1, DeliverCompletes
<1> QED
  BY <1>4, <1>6, <1>7, <1>8

LEMMA ReadPayloadReads ==
  ASSUME Sound, NEW n \in 1..MaxPayload, ReadPayload(n)
  PROVE  Reads(n)
<1> DEFINE c == Taken(n)
           x == frame.xread + n
<1>0. n \in Int
  OBVIOUS
<1>1. frame.alloc /\ n \in Fills(frame.xread, frame.hdr.pl)
  BY DEF ReadPayload
<1>2. x <= frame.hdr.pl /\ x \in Nat
  BY <1>1, SoundFacts DEF Fills
<1>3. /\ frame.hread = 2 /\ frame.lread = frame.hdr.form /\ frame.hdr.masked
      /\ frame.mread = 4
  <2>1. frame.mread = 4
    BY <1>1, SoundFacts DEF Parts
  <2> QED
    BY <2>1, SoundFacts DEF Parts
<1>4. \/ ws' = c /\ frame' = [frame EXCEPT !.xread = x]
      \/ Deliver(c, Base) /\ ~(x < frame.hdr.pl)
  BY DEF ReadPayload, Taken, Progress
<1>5. /\ DOMAIN c = DOMAIN NoConnection
      /\ c.sent = ws.sent /\ c.delivered = ws.delivered /\ c.pos = ws.pos + n
      /\ c.byApp = ws.byApp
  BY TakenFields
<1>6. ASSUME ws' = c, frame' = [frame EXCEPT !.xread = x]
      PROVE  Reads(n)
  <2> HIDE DEF c
  <2>1. /\ frame'.hread = 2 /\ frame'.lread = frame.lread
        /\ frame'.mread = frame.mread /\ frame'.xread = x
        /\ frame'.hdr = frame.hdr
    BY <1>3, <1>6, SoundFacts
  <2>2. Got(frame') = Got(frame) + n
    BY <1>0, <1>3, <2>1, SoundFacts DEF Got
  <2> QED
    BY <1>3, <1>5, <1>6, <2>1, <2>2 DEF Reads, Advanced
<1>7. CASE Deliver(c, Base) /\ ~(x < frame.hdr.pl)
  <2>1. Got(frame) + n = FrameLen(frame.hdr)
    <3>1. frame.xread + n = frame.hdr.pl
      BY <1>2, <1>7, SoundFacts
    <3> QED
      BY <1>0, <1>3, <3>1, SoundFacts DEF Got, FrameLen
  <2> QED
    BY <1>3, <1>7, <2>1, DeliverCompletes
<1> QED
  BY <1>4, <1>6, <1>7

Placed == Sound /\ InPlace /\ DeliveredInOrder

LEMMA InitPlaced == Init => Placed
<1> SUFFICES ASSUME Init PROVE Placed
  OBVIOUS
<1>1. Sound
  BY InitSound
<1>2. ws.delivered = <<>> /\ ~ws.open
  BY DEF Init, NoConnection
<1>3. InPlace /\ DeliveredInOrder
  BY <1>2 DEF InPlace, DeliveredInOrder
<1> QED
  BY <1>1, <1>3 DEF Placed

\* Frames delivered before stay where they were.
LEMMA RefusedPlaced ==
  ASSUME Placed, Sound', Refused
  PROVE  Placed'
BY DEF Placed, Refused, InPlace, DeliveredInOrder

LEMMA UpgradePlaced ==
  ASSUME WsFramesAssumption, Sound', NEW sent \in Traffic, Upgrade(sent)
  PROVE  Placed'
<1>1. /\ ws'.delivered = <<>> /\ ws'.pos = 0 /\ ws'.sent = sent
      /\ frame' = Reset
  BY DEF Upgrade, Opened, NoConnection
<1>2. sent \in Seq(Frame) /\ Len(sent) \in Nat
  BY LenProperties DEF WsFramesAssumption
<1>3. /\ FrameStart(sent, 1) = 0 /\ FrameStart(sent, Len(sent) + 1) \in Nat
  <2>1. Len(sent) + 1 \in 1..(Len(sent) + 1)
    BY <1>2
  <2> QED
    BY <1>2, <2>1, FrameStarts
<1>4. Len(ws'.delivered) = 0
  BY <1>1
<1>5. Base' = 0 /\ frame'.hread # 2
  BY <1>1, ResetTyped DEF Base
<1>6. InPlace'
  BY <1>1, <1>2, <1>3, <1>4, <1>5 DEF InPlace
<1>7. DeliveredInOrder'
  BY <1>1, <1>4 DEF DeliveredInOrder
<1> QED
  BY <1>6, <1>7 DEF Placed

\* The next part of the frame after those delivered.
LEMMA ReadsPlaced ==
  ASSUME WsFramesAssumption, Placed, ws.open, ~ws.byApp, Sound', NEW n \in Nat,
         n >= 1,
         ws.pos + n <= FrameStart(ws.sent, Len(ws.sent) + 1), Reads(n)
  PROVE  Placed'
<1> DEFINE k == Len(ws.delivered) + 1
           last == Len(ws.sent) + 1
           At(x) == FrameStart(ws.sent, x)
<1>1. /\ ws.sent \in Seq(Frame) /\ Len(ws.sent) \in Nat
      /\ ws.delivered \in Seq(Nat) /\ Len(ws.delivered) \in Nat
      /\ ws.pos \in Nat /\ Got(frame) \in Nat /\ Sound
  BY SentAreFrames, LenProperties, InHand DEF Placed, Sound, TypeOK, Connected
<1>2. /\ k \in 1..last /\ Base = At(k) /\ ws.pos = At(k) + Got(frame)
      /\ frame.hread = 2 => k <= Len(ws.sent) /\ frame.hdr = ws.sent[k]
  <2>1. /\ k <= last /\ Base = At(k)
        /\ frame.hread = 2 => k <= Len(ws.sent) /\ frame.hdr = ws.sent[k]
    BY DEF Placed, InPlace
  <2>2. At(k) = ws.pos - Got(frame)
    BY <2>1, SoundFacts, <1>1 DEF Base, Got
  <2>3. At(k) \in Nat
    BY <1>1, <2>1, FrameStarts
  <2> HIDE DEF At
  <2> QED
    BY <1>1, <2>1, <2>2, <2>3
<1>3. /\ At(k) \in Nat /\ At(last) \in Nat /\ last \in 1..last
      /\ k \in 1..Len(ws.sent) => At(k + 1) = At(k) + FrameLen(ws.sent[k])
  <2>1. /\ \A x \in 1..last : At(x) \in Nat
        /\ \A x \in 1..Len(ws.sent) : At(x + 1) = At(x) + FrameLen(ws.sent[x])
    BY <1>1, FrameStarts
  <2>2. last \in 1..last
    BY <1>1
  <2> HIDE DEF At, last, k
  <2> QED
    BY <1>2, <2>1, <2>2
<1>4. k \in 1..Len(ws.sent)
  <2>1. ws.pos + n <= At(last)
    OBVIOUS
  <2>2. At(k) < At(last)
    <3> HIDE DEF At, k, last
    <3> QED
      BY <1>1, <1>2, <1>3, <2>1
  <2>3. k # last
    <3> HIDE DEF At, k, last
    <3> QED
      BY <1>3, <2>2
  <2> HIDE DEF At
  <2> QED
    BY <1>1, <1>2, <2>3
<1>5. DeliveredInOrder
  BY DEF Placed
<1>6. CASE Refused
  BY <1>6, RefusedPlaced
<1>7. CASE Advanced(n)
  <2>1. Base' = At(k)
    <3>1. Base' = ws'.pos - Got(frame')
      <4>1. Counters(frame') /\ ws'.pos \in Nat
        BY DEF Sound, TypeOK, Connected
      <4> QED
        BY <4>1 DEF Base, Got, Counters
    <3> HIDE DEF At
    <3> QED
      BY <1>1, <1>2, <1>3, <1>7, <3>1 DEF Advanced
  <2>2. ASSUME frame'.hread = 2
        PROVE  frame'.hdr = ws.sent[k]
    <3>1. CASE frame.hread = 2
      BY <1>2, <1>7, <2>2, <3>1 DEF Advanced
    <3>2. CASE frame.hread # 2
      <4>1. frame'.hdr \in HeadersAt(At(k))
        BY <1>2, <1>7, <2>2, <3>2 DEF Advanced
      <4>2. PICK x \in 1..Len(ws.sent) : At(x) = At(k) /\ frame'.hdr = ws.sent[x]
        BY <1>4, <4>1 DEF HeadersAt
      <4>3. ~(x < k) /\ ~(k < x)
        <5>1. x \in 1..last /\ At(x) \in Nat /\ ~(At(k) < At(k))
          BY <1>1, <1>3, <4>2
        <5> QED
          BY <1>1, <1>2, <4>2, <5>1, FrameStartsGrow
      <4> QED
        BY <1>4, <4>2, <4>3
    <3> QED
      BY <3>1, <3>2
  <2>3. InPlace'
    BY <1>1, <1>2, <1>4, <1>7, <2>1, <2>2 DEF InPlace, Advanced
  <2>4. DeliveredInOrder'
    BY <1>5, <1>7 DEF DeliveredInOrder, Advanced
  <2> QED
    BY <2>3, <2>4 DEF Placed
<1>8. CASE Completed(n)
  <2>1. ws'.delivered = Append(ws.delivered, At(k)) /\ ws'.sent = ws.sent
    BY <1>2, <1>8 DEF Completed
  <2>2. /\ Len(ws'.delivered) = k /\ ws'.delivered[k] = At(k)
        /\ \A x \in 1..Len(ws.delivered) : ws'.delivered[x] = ws.delivered[x]
        /\ ws'.delivered \in Seq(Nat)
    <3> HIDE DEF At
    <3> QED
      BY <1>1, <1>3, <2>1, AppendProperties
  <2>3. ws'.pos = At(k + 1)
    <3>1. FrameLen(frame.hdr) = FrameLen(ws.sent[k])
      BY <1>2, <1>8 DEF Completed
    <3>2. FrameLen(ws.sent[k]) \in Nat
      BY <1>1, <1>4, FrameLengths, SMTT(40)
    <3> HIDE DEF At
    <3> QED
      BY <1>1, <1>2, <1>3, <1>4, <1>8, <3>1, <3>2 DEF Completed
  <2>4. Base' = At(k + 1) /\ frame'.hread # 2
    <3>1. frame' = Reset /\ ws'.pos \in Nat
      BY <1>8 DEF Completed, Sound, TypeOK, Connected
    <3> QED
      BY <2>3, <3>1, ResetTyped DEF Base
  <2>5. InPlace'
    <3>1. ws'.pos <= At(last)
      BY <1>8 DEF Completed
    <3>2. k + 1 <= Len(ws.sent) + 1
      BY <1>1, <1>4
    <3> QED
      BY <2>1, <2>2, <2>4, <3>1, <3>2 DEF InPlace
  <2>6. DeliveredInOrder'
    <3>1. \A x \in 1..k : ws'.delivered[x] = At(x)
      <4> SUFFICES ASSUME NEW x \in 1..k
                   PROVE  ws'.delivered[x] = At(x)
        OBVIOUS
      <4>1. x \in 1..Len(ws.delivered) => ws.delivered[x] = At(x)
        BY <1>5 DEF DeliveredInOrder
      <4> QED
        BY <1>1, <2>2, <4>1
    <3>2. ws'.delivered = [x \in 1..k |-> ws'.delivered[x]]
      BY <2>2, LenProperties
    <3> QED
      BY <2>1, <2>2, <3>1, <3>2 DEF DeliveredInOrder
  <2> QED
    BY <2>5, <2>6 DEF Placed
<1> QED
  BY <1>6, <1>7, <1>8 DEF Reads


\* What each read finds: some bytes, and no more than the peer has sent.
LEMMA ReadsSome ==
  ASSUME WsFramesAssumption, Sound, NEW n,
         \/ ReadHead(n) \/ ReadLength(n) \/ ReadMask(n) \/ ReadPayload(n)
  PROVE  /\ n \in Nat /\ n >= 1
         /\ ws.pos + n <= FrameStart(ws.sent, Len(ws.sent) + 1)
<1> DEFINE Some == /\ n \in Nat /\ n >= 1
                   /\ ws.pos + n <= FrameStart(ws.sent, Len(ws.sent) + 1)
<1>0. TypeOK
  BY DEF Sound
<1>1. ASSUME NEW got \in Nat, NEW need \in Nat, n \in Fills(got, need)
      PROVE  Some
  BY <1>0, <1>1, FillsSome
<1>2. /\ frame.hread \in Nat /\ frame.lread \in Nat /\ frame.mread \in Nat
      /\ frame.xread \in Nat /\ frame.hdr.form \in Nat /\ frame.hdr.pl \in Nat
  BY SoundFacts
<1>3. \/ n \in Fills(frame.hread, 2) \/ n \in Fills(frame.lread, frame.hdr.form)
      \/ n \in Fills(frame.mread, 4) \/ n \in Fills(frame.xread, frame.hdr.pl)
  BY DEF ReadHead, ReadLength, ReadMask, ReadPayload
<1> HIDE DEF Some
<1>4. Some
  BY <1>1, <1>2, <1>3
<1> QED
  BY <1>4 DEF Some

\* Nothing is said of the frames after axil_ws_close(): it resets the slot of a
\* frame half read.
LEMMA ByAppPlaced ==
  ASSUME Sound', ws'.byApp
  PROVE  Placed'
BY DEF Placed, InPlace, DeliveredInOrder

LEMMA NextPlaced ==
  ASSUME WsFramesAssumption, Placed, [Next]_vars
  PROVE  Placed'
<1>1. Sound /\ Sound'
  BY NextSound DEF Placed
<1>2. ASSUME NEW sent \in Traffic, Upgrade(sent)
      PROVE  Placed'
  BY <1>1, <1>2, UpgradePlaced
<1>3. CASE OtherClose \/ ReadEnds
  <2>1. Teardown(ws, "other") \/ Teardown(ws, "eof")
    BY <1>3 DEF OtherClose, ReadEnds, Refuse
  <2>2. DOMAIN ws = DOMAIN NoConnection
    BY <1>1 DEF Sound, TypeOK, Connected
  <2> QED
    BY <1>1, <2>1, <2>2, TeardownRefuses, RefusedPlaced
<1>4. ASSUME NEW n, ws.open, Reads(n),
             \/ ReadHead(n) \/ ReadLength(n) \/ ReadMask(n) \/ ReadPayload(n)
      PROVE  Placed'
  <2>1. /\ n \in Nat /\ n >= 1
        /\ ws.pos + n <= FrameStart(ws.sent, Len(ws.sent) + 1)
    BY <1>1, <1>4, ReadsSome
  <2>2. CASE ws.byApp
    <3>1. ws'.byApp
      BY <1>4, <2>2 DEF Reads, Refused, Advanced, Completed
    <3> QED
      BY <1>1, <3>1, ByAppPlaced
  <2>3. CASE ~ws.byApp
    BY <1>1, <1>4, <2>1, <2>3, ReadsPlaced
  <2> QED
    BY <2>2, <2>3
<1>5. ASSUME NEW n \in 1..2, ws.open, ReadHead(n)
      PROVE  Placed'
  BY <1>1, <1>4, <1>5, ReadHeadReads
<1>6. ASSUME NEW n \in 1..8, ws.open, ReadLength(n)
      PROVE  Placed'
  BY <1>1, <1>4, <1>6, ReadLengthReads
<1>7. ASSUME NEW n \in 1..4, ws.open, ReadMask(n)
      PROVE  Placed'
  BY <1>1, <1>4, <1>7, ReadMaskReads
<1>8. ASSUME NEW n \in 1..MaxPayload, ws.open, ReadPayload(n)
      PROVE  Placed'
  BY <1>1, <1>4, <1>8, ReadPayloadReads
<1>9. CASE UNCHANGED vars
  BY <1>1, <1>9 DEF vars, Placed, InPlace, DeliveredInOrder, Base
<1>10. CASE AppClose
  <2>1. ws' = [CloseStatus(ws) EXCEPT !.byApp = TRUE]
    BY <1>10 DEF AppClose
  <2>2. DOMAIN ws = DOMAIN NoConnection
    BY <1>1 DEF Sound, TypeOK, Connected
  <2>3. ws'.byApp
    BY <2>1, <2>2, Fields DEF CloseStatus
  <2> QED
    BY <1>1, <2>3, ByAppPlaced
<1> QED
  BY <1>2, <1>3, <1>5, <1>6, <1>7, <1>8, <1>9, <1>10 DEF Next

LEMMA StaysPlaced ==
  ASSUME WsFramesAssumption
  PROVE  Spec => []Placed
<1>1. Placed /\ [Next]_vars => Placed'
  BY NextPlaced
<1> QED
  BY <1>1, InitPlaced, PTL DEF Spec

\* ws_read() resumes a frame that arrived in pieces where it left it, and never
\* takes payload for a header; descr_read_ws() hands the program the peer's
\* frames in order, each once: until the program calls axil_ws_close(), which
\* resets the slot of a frame half read.
THEOREM FramesAreFound ==
  ASSUME WsFramesAssumption
  PROVE  Spec => []FramesFound
<1>1. Placed => InStep
  <2> SUFFICES ASSUME Placed, ws.open, ~ws.byApp
               PROVE  \E x \in 1..(Len(ws.sent) + 1) : FrameStart(ws.sent, x) = Base
    BY DEF InStep
  <2> DEFINE k == Len(ws.delivered) + 1
  <2>1. k <= Len(ws.sent) + 1 /\ Base = FrameStart(ws.sent, k)
    BY DEF Placed, InPlace
  <2>2. Len(ws.delivered) \in Nat /\ Len(ws.sent) \in Nat
    BY SentAreFrames, LenProperties DEF Placed, Sound, TypeOK, Connected
  <2>3. k \in 1..(Len(ws.sent) + 1)
    BY <2>1, <2>2
  <2> QED
    BY <2>1, <2>3
<1>2. Placed => FramesFound
  BY <1>1 DEF Placed, FramesFound
<1> QED
  BY <1>2, StaysPlaced, PTL

-----------------------------------------------------------------------------
(* The calendar.  A year is counted from March, so that the day a leap year *)
(* has more is its last.                                                    *)

\* C's division rounds up below zero, and eras round down.
LEMMA Eras == \A y \in Int : y >= -1 => Date!EraOf(y) = y \div 400
BY DEF Date!EraOf, Date!Quotient

\* Days up to the years of an era.
YearDays(y) ==
  LET yoe == y - (y \div 400) * 400
  IN  (y \div 400) * 146097 + (yoe * 365 + yoe \div 4 - yoe \div 100)

LEMMA YearDaysInt == ASSUME NEW y \in Int PROVE YearDays(y) \in Int
BY DEF YearDays

\* The year that begins in a March is as long as its February is.
LEMMA YearEnds ==
  ASSUME NEW y \in Int
  PROVE  YearDays(y + 1) = YearDays(y) + (IF Date!LeapYear(y + 1) THEN 366 ELSE 365)
<1>1. PICK q \in Int, r \in 0..399 :
        y = 400 * q + r /\ y \div 400 = q
  OBVIOUS
<1>2. CASE r = 399
  <2>1. (y + 1) \div 400 = q + 1 /\ y + 1 = 400 * (q + 1) /\ Date!LeapYear(y + 1)
    BY <1>1, <1>2 DEF Date!LeapYear
  <2>2. YearDays(y) = q * 146097 + 399 * 365 + 99 - 3
    BY <1>1, <1>2 DEF YearDays
  <2>3. YearDays(y + 1) = (q + 1) * 146097
    BY <2>1 DEF YearDays
  <2> QED
    BY <2>1, <2>2, <2>3
<1>3. CASE r # 399
  <2>1. (y + 1) \div 400 = q /\ y + 1 = 400 * q + (r + 1) /\ r + 1 \in 1..399
    BY <1>1, <1>3
  <2>2. Date!LeapYear(y + 1) <=> (r + 1) % 4 = 0 /\ (r + 1) % 100 # 0
    BY <2>1 DEF Date!LeapYear
  <2>3. (r + 1) \div 4 = r \div 4 + (IF (r + 1) % 4 = 0 THEN 1 ELSE 0)
    OBVIOUS
  <2>4. (r + 1) \div 100 = r \div 100 + (IF (r + 1) % 100 = 0 THEN 1 ELSE 0)
    OBVIOUS
  <2>5. (r + 1) % 100 = 0 => (r + 1) % 4 = 0
    OBVIOUS
  <2>6. YearDays(y) = q * 146097 + (r * 365 + r \div 4 - r \div 100)
    BY <1>1 DEF YearDays
  <2>7. YearDays(y + 1)
          = q * 146097 + ((r + 1) * 365 + (r + 1) \div 4 - (r + 1) \div 100)
    BY <2>1 DEF YearDays
  <2> QED
    BY <1>1, <2>2, <2>3, <2>4, <2>5, <2>6, <2>7
<1> QED
  BY <1>2, <1>3

\* Days up to a month of them.
MonthDays(k) == (153 * Date!MonthFrom(k) + 2) \div 5

\* What C computes of a year counted from March.
FromMarch(z, k, e) ==
  Date!EraOf(z) * 146097
    + ((z - Date!EraOf(z) * 400) * 365 + (z - Date!EraOf(z) * 400) \div 4
         - (z - Date!EraOf(z) * 400) \div 100 + (MonthDays(k) + e - 1))
    - 719468

LEMMA FromMarchIs ==
  ASSUME NEW z \in Int, z >= -1, NEW k \in 1..12, NEW e \in Int
  PROVE  FromMarch(z, k, e) = YearDays(z) + MonthDays(k) + e - 719469
<1>1. PICK q \in Int : q = Date!EraOf(z) /\ q = z \div 400
  BY Eras
<1>2. PICK n \in Int : n = MonthDays(k)
  BY DEF MonthDays, Date!MonthFrom
<1>3. PICK r \in Int : r = z - q * 400
  BY <1>1
<1>4. PICK a \in Int : a = r * 365 + r \div 4 - r \div 100
  BY <1>3
<1>5. YearDays(z) = q * 146097 + a
  BY <1>1, <1>3, <1>4 DEF YearDays
<1>6. FromMarch(z, k, e)
        = q * 146097 + (r * 365 + r \div 4 - r \div 100 + (n + e - 1)) - 719468
  BY <1>1, <1>2, <1>3 DEF FromMarch
<1>7. FromMarch(z, k, e) = q * 146097 + (a + (n + e - 1)) - 719468
  BY <1>4, <1>6
<1> QED
  BY <1>2, <1>5, <1>7

\* tm_to_time_t_utc() adds days up to the year, the month and the day.
LEMMA TmDaysIs ==
  ASSUME NEW y \in Nat, NEW k \in 1..12, NEW e \in Int
  PROVE  Date!TmDays(y, k, e) =
           YearDays(IF k <= 2 THEN y - 1 ELSE y) + MonthDays(k) + e - 719469
<1>1. PICK z \in Int : z = (IF k <= 2 THEN y - 1 ELSE y) /\ z >= -1
  OBVIOUS
<1>2. Date!TmDays(y, k, e) = FromMarch(z, k, e)
  BY <1>1 DEF Date!TmDays, FromMarch, MonthDays
<1> QED
  BY <1>1, <1>2, FromMarchIs

\* A month further.
LEMMA MonthEnds ==
  ASSUME NEW y \in Nat, NEW k \in 1..11
  PROVE  Date!TmDays(y, k + 1, 1) = Date!TmDays(y, k, Date!DaysOf(y, k)) + 1
<1>1. CASE k = 2
  <2>1. MonthDays(2) = 337 /\ MonthDays(3) = 0
    BY DEF MonthDays, Date!MonthFrom
  <2>2. PICK a \in Int : a = YearDays(y - 1)
    BY YearDaysInt
  <2>3. YearDays(y) = a + (IF Date!LeapYear(y) THEN 366 ELSE 365)
    <3>1. (y - 1) + 1 = y
      OBVIOUS
    <3> QED
      BY <2>2, <3>1, YearEnds
  <2>4. Date!TmDays(y, 3, 1) = YearDays(y) + MonthDays(3) + 1 - 719469
    BY TmDaysIs
  <2>5. ASSUME NEW e \in Int PROVE Date!TmDays(y, 2, e) = a + MonthDays(2) + e - 719469
    BY <2>2, TmDaysIs
  <2>6. CASE Date!LeapYear(y)
    BY <1>1, <2>1, <2>3, <2>4, <2>5, <2>6 DEF Date!DaysOf
  <2>7. CASE ~Date!LeapYear(y)
    BY <1>1, <2>1, <2>3, <2>4, <2>5, <2>7 DEF Date!DaysOf
  <2> QED
    BY <2>6, <2>7
<1>2. CASE k # 2
  <2>1. PICK e \in Int : e = Date!DaysOf(y, k) /\ e = IF k \in {4, 6, 9, 11} THEN 30 ELSE 31
    BY <1>2 DEF Date!DaysOf
  <2>2. MonthDays(k + 1) = MonthDays(k) + e
    BY <1>2, <2>1 DEF MonthDays, Date!MonthFrom
  <2>3. MonthDays(k) \in Int
    BY DEF MonthDays, Date!MonthFrom
  <2>4. PICK a \in Int : a = YearDays(IF k <= 2 THEN y - 1 ELSE y)
                        /\ a = YearDays(IF k + 1 <= 2 THEN y - 1 ELSE y)
    BY <1>2, YearDaysInt
  <2>5. Date!TmDays(y, k + 1, 1) = a + MonthDays(k + 1) + 1 - 719469
    BY <2>4, TmDaysIs
  <2>6. Date!TmDays(y, k, e) = a + MonthDays(k) + e - 719469
    BY <2>4, TmDaysIs
  <2> QED
    BY <2>1, <2>2, <2>3, <2>5, <2>6
<1> QED
  BY <1>1, <1>2

\* A day further.
LEMMA DayEnds ==
  ASSUME NEW y \in Nat, NEW k \in 1..12, NEW e \in Int
  PROVE  Date!TmDays(y, k, e + 1) = Date!TmDays(y, k, e) + 1 /\ Date!TmDays(y, k, e) \in Int
<1>1. PICK a \in Int : a = YearDays(IF k <= 2 THEN y - 1 ELSE y)
  BY YearDaysInt
<1>2. MonthDays(k) \in Int
  BY DEF MonthDays, Date!MonthFrom
<1>3. \A x \in Int : Date!TmDays(y, k, x) = a + MonthDays(k) + x - 719469
  BY <1>1, TmDaysIs
<1> QED
  BY <1>2, <1>3

\* From December to January.
LEMMA NewYear ==
  ASSUME NEW y \in Nat
  PROVE  Date!TmDays(y + 1, 1, 1) = Date!TmDays(y, 12, 31) + 1
<1>1. MonthDays(1) = 306 /\ MonthDays(12) = 275
  BY DEF MonthDays, Date!MonthFrom
<1>2. PICK a \in Int : a = YearDays(y)
  BY YearDaysInt
<1>3. Date!TmDays(y, 12, 31) = a + MonthDays(12) + 31 - 719469
  BY <1>2, TmDaysIs
<1>4. Date!TmDays(y + 1, 1, 1) = a + MonthDays(1) + 1 - 719469
  <2>1. y + 1 \in Nat /\ (y + 1) - 1 = y
    OBVIOUS
  <2> QED
    BY <1>2, <2>1, TmDaysIs
<1> QED
  BY <1>1, <1>3, <1>4

\* The dates are dates, and the days are theirs.
Dates ==
  /\ year \in FirstYear..LastYear /\ month \in 1..12 /\ day \in 1..Date!DaysOf(year, month)
  /\ days \in Int /\ Date!DateReadsBack

\* The epoch.
LEMMA FirstDay == Date!TmDays(1970, 1, 1) = 0
BY DEF Date!TmDays, Date!EraOf, Date!Quotient, Date!MonthFrom

LEMMA Months == ASSUME NEW y \in Nat, NEW k \in 1..12 PROVE Date!DaysOf(y, k) \in 28..31
BY DEF Date!DaysOf

\* A step of the calendar, either way.
LEMMA DatesStep == Dates /\ Date!Next => Dates'
<1> SUFFICES ASSUME Dates, Date!Next PROVE Dates'
  OBVIOUS
<1>1. /\ year \in Nat /\ FirstYear \in Nat /\ LastYear \in Nat
      /\ year \in FirstYear..LastYear /\ month \in 1..12
      /\ day \in 1..Date!DaysOf(year, month) /\ Date!DaysOf(year, month) \in 28..31
      /\ day \in Nat /\ days \in Int /\ Date!TmDays(year, month, day) = days
  <2>1. year \in Nat /\ FirstYear \in Nat /\ LastYear \in Nat /\ month \in 1..12
    BY RoutingAssumption DEF Dates, Date!HttpDateAssumption
  <2>2. Date!DaysOf(year, month) \in 28..31
    BY <2>1, Months
  <2> QED
    BY <2>1, <2>2 DEF Dates, Date!DateReadsBack
<1>2. CASE Date!NextDay
  <2>1. CASE day < Date!DaysOf(year, month) /\ day' = day + 1 /\ UNCHANGED <<year, month>>
    <3>1. Date!TmDays(year, month, day + 1) = days + 1
      <4>1. PICK e \in Int : e = day
        BY <1>1
      <4>2. Date!TmDays(year, month, e + 1) = Date!TmDays(year, month, e) + 1
        BY <1>1, DayEnds
      <4> QED
        BY <1>1, <4>1, <4>2
    <3>2. day + 1 \in 1..Date!DaysOf(year, month)
      BY <1>1, <2>1
    <3> QED
      BY <1>1, <1>2, <2>1, <3>1, <3>2 DEF Date!NextDay, Dates, Date!DateReadsBack
  <2>2. CASE /\ day = Date!DaysOf(year, month) /\ month < 12
             /\ day' = 1 /\ month' = month + 1 /\ UNCHANGED year
    <3>1. PICK k \in 1..11 : k = month
      BY <1>1, <2>2
    <3>2. Date!TmDays(year, k + 1, 1) = days + 1
      BY <1>1, <2>2, <3>1, MonthEnds
    <3>3. k + 1 \in 1..12 /\ Date!DaysOf(year, k + 1) \in 28..31
      BY <1>1, Months
    <3>4. 1 \in 1..Date!DaysOf(year, k + 1)
      BY <3>3
    <3> QED
      BY <1>1, <1>2, <2>2, <3>1, <3>2, <3>3, <3>4 DEF Date!NextDay, Dates, Date!DateReadsBack
  <2>3. CASE /\ day = 31 /\ month = 12 /\ year < LastYear
             /\ day' = 1 /\ month' = 1 /\ year' = year + 1
    <3>1. Date!TmDays(year + 1, 1, 1) = days + 1
      BY <1>1, <2>3, NewYear
    <3>2. year + 1 \in FirstYear..LastYear
      BY <1>1, <2>3
    <3>3. 1 \in 1..Date!DaysOf(year + 1, 1)
      BY DEF Date!DaysOf
    <3> QED
      BY <1>1, <1>2, <2>3, <3>1, <3>2, <3>3 DEF Date!NextDay, Dates, Date!DateReadsBack
  <2> QED
    BY <1>2, <2>1, <2>2, <2>3 DEF Date!NextDay
<1>3. CASE Date!PreviousDay
  <2>1. CASE day > 1 /\ day' = day - 1 /\ UNCHANGED <<year, month>>
    <3>1. PICK e \in Nat : e = day - 1 /\ day = e + 1
      BY <1>1, <2>1
    <3>2. Date!TmDays(year, month, e) = days - 1
      <4>1. e \in Int
        BY <3>1
      <4>2. Date!TmDays(year, month, e + 1) = Date!TmDays(year, month, e) + 1
        BY <1>1, <4>1, DayEnds
      <4>3. Date!TmDays(year, month, e) \in Int
        BY <1>1, <4>1, DayEnds
      <4> QED
        BY <1>1, <3>1, <4>2, <4>3
    <3>3. e \in 1..Date!DaysOf(year, month)
      BY <1>1, <2>1, <3>1
    <3> QED
      BY <1>1, <1>3, <2>1, <3>1, <3>2, <3>3 DEF Date!PreviousDay, Dates, Date!DateReadsBack
  <2>2. CASE /\ day = 1 /\ month > 1
             /\ month' = month - 1 /\ day' = Date!DaysOf(year, month - 1) /\ UNCHANGED year
    <3>1. PICK k \in 1..11 : k = month - 1 /\ month = k + 1
      BY <1>1, <2>2
    <3>2. k \in 1..12 /\ Date!DaysOf(year, k) \in 28..31
      BY <1>1, Months
    <3>3. PICK n \in 28..31 : n = Date!DaysOf(year, k)
      BY <3>2
    <3>4. Date!TmDays(year, k, n) \in Int
      <4>1. n \in Int /\ year \in Nat /\ k \in 1..12
        BY <1>1, <3>2, <3>3
      <4> QED
        BY <4>1, DayEnds
    <3>5. Date!TmDays(year, k, n) = days - 1
      BY <1>1, <2>2, <3>1, <3>3, <3>4, MonthEnds
    <3>6. n \in 1..n
      OBVIOUS
    <3> QED
      BY <1>1, <1>3, <2>2, <3>1, <3>2, <3>3, <3>5, <3>6 DEF Date!PreviousDay, Dates, Date!DateReadsBack
  <2>3. CASE /\ day = 1 /\ month = 1 /\ year > FirstYear
             /\ day' = 31 /\ month' = 12 /\ year' = year - 1
    <3>1. PICK y \in Nat : y = year - 1 /\ year = y + 1
      BY <1>1, <2>3
    <3>2. Date!TmDays(y, 12, 31) \in Int
      BY DayEnds
    <3>3. Date!TmDays(y, 12, 31) = days - 1
      BY <1>1, <2>3, <3>1, <3>2, NewYear
    <3>4. y \in FirstYear..LastYear /\ 31 \in 1..Date!DaysOf(y, 12)
      BY <1>1, <2>3, <3>1 DEF Date!DaysOf
    <3> QED
      BY <1>1, <1>3, <2>3, <3>1, <3>3, <3>4 DEF Date!PreviousDay, Dates, Date!DateReadsBack
  <2> QED
    BY <1>3, <2>1, <2>2, <2>3 DEF Date!PreviousDay
<1> QED
  BY <1>2, <1>3 DEF Date!Next

\* tm_to_time_t_utc() of every date, in any year from 0 on, is the number of
\* days counted one by one from 1 January 1970, before it or after: a
\* Last-Modified reads back as the time it was written for.
THEOREM DatesReadBack == RoutingSpec => []DateReadsBack
<1>1. RoutingInit => Dates
  <2> SUFFICES ASSUME RoutingInit PROVE Dates
    OBVIOUS
  <2>1. year = 1970 /\ month = 1 /\ day = 1 /\ days = 0
    BY DEF RoutingInit, Date!Init
  <2>2. 1970 \in FirstYear..LastYear /\ FirstYear \in Nat /\ LastYear \in Nat
    BY RoutingAssumption DEF Date!HttpDateAssumption
  <2>3. 1 \in 1..Date!DaysOf(1970, 1)
    BY DEF Date!DaysOf
  <2> QED
    BY <2>1, <2>2, <2>3, FirstDay DEF Dates, Date!DateReadsBack
<1>2. Dates /\ [RoutingNext]_RoutingVars => Dates'
  <2> SUFFICES ASSUME Dates, [RoutingNext]_RoutingVars PROVE Dates'
    OBVIOUS
  <2>1. CASE Date!Next
    BY <2>1, DatesStep
  <2>2. CASE UNCHANGED dateVars
    BY <2>2 DEF dateVars, Dates, Date!DateReadsBack
  <2> QED
    BY <2>1, <2>2 DEF RoutingNext, RoutingVars
<1>3. Dates => DateReadsBack
  BY DEF Dates, DateReadsBack
<1> QED
  BY <1>1, <1>2, <1>3, PTL DEF RoutingSpec

-----------------------------------------------------------------------------
(* Who answers.                                                             *)

\* A pattern as one is registered: not the placeholder for none.
IsPattern(p) ==
  /\ p.segs \in Seq(STRING)
  /\ p.method \in Methods \cup {"any"} /\ p.method # "none"

LEMMA TriedArePatterns ==
  ASSUME program.routes \subseteq Routes, program.patterns \subseteq Patterns,
         NEW p \in Table!Tried
  PROVE  IsPattern(p)
<1>1. CASE p \in program.patterns
  BY <1>1, RoutingAssumption DEF Table!DispatchAssumption, IsPattern
<1>2. CASE p \notin program.patterns
  <2>1. PICK r \in Routes : p = [method |-> r.method, segs |-> r.path]
    BY <1>2 DEF Table!Tried
  <2> QED
    BY <2>1, RoutingAssumption DEF Table!DispatchAssumption, IsPattern
<1> QED
  BY <1>1, <1>2

LEMMA CardinalitySame == \A S : Table!Cardinality(S) = Cardinality(S)
BY DEF Cardinality, Table!Cardinality

\* What pattern_better_match() compares are numbers.
LEMMA Ranks ==
  ASSUME NEW p, IsPattern(p)
  PROVE  /\ Table!Wild(p) \in Nat /\ Table!Literals(p) \in Nat
         /\ Table!Cardinality(Table!CapturesOf(p)) \in Nat
<1>1. Table!Wild(p) \in Nat
  BY DEF Table!Wild
<1>2. IsFiniteSet(Table!Fixed(p))
  <2>1. PICK n \in Int : n = Len(p.segs) - Table!Wild(p)
    <3>1. Len(p.segs) \in Nat
      BY DEF IsPattern
    <3> QED
      BY <1>1, <3>1
  <2> QED
    BY <2>1, FS_Interval DEF Table!Fixed
<1>3. Table!Literals(p) \in Nat
  <2> DEFINE L == {k \in Table!Fixed(p) : ~Table!IsCapture(p.segs[k])}
  <2>1. IsFiniteSet(L)
    BY <1>2, FS_Subset
  <2>2. PICK n \in Nat : n = Table!Cardinality(L)
    BY <2>1, FS_CardinalityType, CardinalitySame
  <2>3. Table!Literals(p) = n + (IF p.method = "any" THEN 0 ELSE 4)
    <3>1. Table!Literals(p) = Table!Cardinality(L) + (IF p.method = "any" THEN 0 ELSE 4)
      BY DEF Table!Literals
    <3> QED
      BY <2>2, <3>1
  <2> QED
    BY <2>3
<1>4. Table!Cardinality(Table!CapturesOf(p)) \in Nat
  <2>1. IsFiniteSet({":x", ":y"})
    <3>1. IsFiniteSet({":x"})
      BY FS_Singleton
    <3>2. {":x", ":y"} = {":x"} \cup {":y"}
      OBVIOUS
    <3> QED
      BY <3>1, <3>2, FS_AddElement
  <2>2. Table!CapturesOf(p) \subseteq {":x", ":y"}
    BY DEF Table!CapturesOf, Table!IsCapture
  <2> QED
    BY <2>1, <2>2, FS_Subset, FS_CardinalityType, CardinalitySame
<1> QED
  BY <1>1, <1>3, <1>4

\* pattern_better_match() is a strict order, whichever comes first.
LEMMA BetterIsStrict ==
  ASSUME NEW p, IsPattern(p) PROVE ~Table!Better(p, p)
<1>1. p # Table!NoPattern
  BY DEF IsPattern, Table!NoPattern
<1>2. /\ ~(Table!Wild(p) < Table!Wild(p))
      /\ ~(Table!Literals(p) > Table!Literals(p))
      /\ ~(Table!Cardinality(Table!CapturesOf(p)) < Table!Cardinality(Table!CapturesOf(p)))
  BY Ranks
<1> QED
  BY <1>1, <1>2, Zenon DEF Table!Better

LEMMA BetterStays ==
  ASSUME NEW p, NEW q, NEW b, IsPattern(p), IsPattern(q), IsPattern(b),
         Table!Better(p, b), ~Table!Better(q, b)
  PROVE  ~Table!Better(q, p)
<1>1. p # Table!NoPattern /\ b # Table!NoPattern
  BY DEF IsPattern, Table!NoPattern
<1>2. PICK w1 \in Nat, w2 \in Nat, w3 \in Nat :
        w1 = Table!Wild(p) /\ w2 = Table!Wild(q) /\ w3 = Table!Wild(b)
  BY Ranks
<1>3. PICK l1 \in Nat, l2 \in Nat, l3 \in Nat :
        l1 = Table!Literals(p) /\ l2 = Table!Literals(q) /\ l3 = Table!Literals(b)
  BY Ranks
<1>4. PICK c1 \in Nat, c2 \in Nat, c3 \in Nat :
        /\ c1 = Table!Cardinality(Table!CapturesOf(p)) /\ c2 = Table!Cardinality(Table!CapturesOf(q))
        /\ c3 = Table!Cardinality(Table!CapturesOf(b))
  BY Ranks
<1>5. \/ w1 < w3
      \/ w1 = w3 /\ l1 > l3
      \/ w1 = w3 /\ l1 = l3 /\ c1 < c3
  <2>1. \/ Table!Wild(p) < Table!Wild(b)
        \/ Table!Wild(p) = Table!Wild(b) /\ Table!Literals(p) > Table!Literals(b)
        \/ /\ Table!Wild(p) = Table!Wild(b) /\ Table!Literals(p) = Table!Literals(b)
           /\ Table!Cardinality(Table!CapturesOf(p))
                < Table!Cardinality(Table!CapturesOf(b))
    BY <1>1, Zenon DEF Table!Better
  <2> QED
    BY <1>2, <1>3, <1>4, <2>1
<1>6. ~ \/ w2 < w3
        \/ w2 = w3 /\ l2 > l3
        \/ w2 = w3 /\ l2 = l3 /\ c2 < c3
  BY <1>2, <1>3, <1>4, Zenon DEF Table!Better
<1>7. ~ \/ w2 < w1
        \/ w2 = w1 /\ l2 > l1
        \/ w2 = w1 /\ l2 = l1 /\ c2 < c1
  BY <1>2, <1>3, <1>4, <1>5, <1>6
<1>8. ~ \/ Table!Wild(q) < Table!Wild(p)
        \/ Table!Wild(q) = Table!Wild(p) /\ Table!Literals(q) > Table!Literals(p)
        \/ /\ Table!Wild(q) = Table!Wild(p) /\ Table!Literals(q) = Table!Literals(p)
           /\ Table!Cardinality(Table!CapturesOf(q))
                < Table!Cardinality(Table!CapturesOf(p))
  BY <1>2, <1>3, <1>4, <1>7
<1> QED
  BY <1>1, <1>8, Zenon DEF Table!Better

-----------------------------------------------------------------------------

\* No pattern matches the request under this method.
Nobody(method) == \A p \in Table!Tried : ~Table!Matches(p, method, req.path)

\* The method of a round of matching: the request's, then a HEAD's GET.
Round(as) == as = req.method \/ (as = "GET" /\ req.method = "HEAD" /\ Nobody("HEAD"))

\* Of these patterns no other would have been preferred.
BestOf(best, as, tried) ==
  IF best = Table!NoPattern
    THEN \A p \in tried : ~Table!Matches(p, as, req.path)
    ELSE /\ best \in Table!Tried /\ Table!Matches(best, as, req.path)
         /\ \A p \in tried : Table!Matches(p, as, req.path) => ~Table!Better(p, best)

\* Neither the request nor, for a HEAD, its GET has a pattern.
Unmatched == Nobody(req.method) /\ (req.method = "HEAD" => Nobody("GET"))

Preferred == \E as : Round(as) /\ BestOf(answer.to, as, Table!Tried)

Matching ==
  /\ program.routes \subseteq Routes /\ program.patterns \subseteq Patterns
  /\ stage = "pattern" =>
       /\ match.todo \subseteq Table!Tried /\ Round(match.as)
       /\ BestOf(match.best, match.as, Table!Tried \ match.todo)
  /\ stage = "rest" => Unmatched
  /\ stage = "idle" /\ answer.by = "pattern" =>
       answer.to # Table!NoPattern /\ Preferred
  /\ stage = "idle" /\ answer.by \in {"default", "fallback", "notFound"} => Unmatched

\* One turn of the loop keeps the best.
LEMMA BestKept ==
  ASSUME program.routes \subseteq Routes, program.patterns \subseteq Patterns,
         NEW as, NEW b, NEW tried \in SUBSET Table!Tried, NEW p \in Table!Tried,
         BestOf(b, as, tried)
  PROVE  BestOf(IF Table!Matches(p, as, req.path) /\ Table!Better(p, b) THEN p ELSE b,
                as, tried \cup {p})
<1>1. \A q \in Table!Tried : IsPattern(q) /\ q # Table!NoPattern
  BY TriedArePatterns DEF IsPattern, Table!NoPattern
<1>2. CASE Table!Matches(p, as, req.path) /\ Table!Better(p, b)
  <2>1. ~Table!Better(p, p)
    BY <1>1, BetterIsStrict
  <2>2. ASSUME NEW q \in tried, Table!Matches(q, as, req.path)
        PROVE  ~Table!Better(q, p)
    <3>1. b # Table!NoPattern /\ b \in Table!Tried /\ ~Table!Better(q, b)
      BY <2>2 DEF BestOf
    <3> QED
      BY <1>1, <1>2, <3>1, BetterStays
  <2> QED
    BY <1>1, <1>2, <2>1, <2>2, Zenon DEF BestOf
<1>3. CASE ~(Table!Matches(p, as, req.path) /\ Table!Better(p, b))
  <2>1. CASE b = Table!NoPattern
    <3>1. ~Table!Matches(p, as, req.path)
      BY <1>3, <2>1 DEF Table!Better
    <3> QED
      BY <1>3, <2>1, <3>1 DEF BestOf
  <2>2. CASE b # Table!NoPattern
    BY <1>3, <2>2 DEF BestOf
  <2> QED
    BY <2>1, <2>2
<1> QED
  BY <1>2, <1>3

\* A path that is an exact route of GET is matched as a pattern, too.
LEMMA RoutesAreTried ==
  ASSUME program.routes \subseteq Routes, Nobody("GET")
  PROVE  Table!Route("GET") \notin program.routes
<1> SUFFICES ASSUME Table!Route("GET") \in program.routes PROVE FALSE
  OBVIOUS
<1> DEFINE p == [method |-> "GET", segs |-> req.path]
<1>1. p \in Table!Tried
  BY DEF Table!Tried, Table!Route
<1>2. req.path \in Seq(STRING)
  BY RoutingAssumption DEF Table!DispatchAssumption, Table!Route
<1>3. Table!Matches(p, "GET", req.path)
  <2>1. Len(req.path) >= Len(p.segs) /\ Len(req.path) = Len(p.segs)
    BY <1>2
  <2> QED
    BY <2>1 DEF Table!Matches, Table!PathMatches
<1> QED
  BY <1>1, <1>3 DEF Nobody

\* Who matches depends on the program and the request only.
LEMMA SameTable ==
  ASSUME program' = program, req' = req
  PROVE  /\ Table!Tried' = Table!Tried
         /\ Unmatched => Unmatched'
         /\ Preferred /\ answer' = answer => Preferred'
         /\ \A as : Round(as) => Round(as)'
<1>1. Table!Tried' = Table!Tried
  BY DEF Table!Tried
<1>2. \A as : Nobody(as)' <=> Nobody(as)
  BY <1>1 DEF Nobody
<1>3. Unmatched => Unmatched'
  BY <1>2 DEF Unmatched
<1>4. \A as : Round(as) => Round(as)'
  BY <1>2 DEF Round
<1>5. ASSUME answer' = answer, NEW as, BestOf(answer.to, as, Table!Tried)
      PROVE  BestOf(answer.to, as, Table!Tried)'
  BY <1>1, <1>5 DEF BestOf
<1> QED
  BY <1>1, <1>3, <1>4, <1>5 DEF Preferred

LEMMA SameMatching ==
  ASSUME Matching, UNCHANGED <<program, req, stage, match, answer>>
  PROVE  Matching'
<1>1. Table!Tried' = Table!Tried
  BY DEF Table!Tried
<1>2. BestOf(match.best, match.as, Table!Tried \ match.todo)
        => BestOf(match.best, match.as, Table!Tried \ match.todo)'
  BY <1>1 DEF BestOf
<1>3. Round(match.as) => Round(match.as)'
  BY SameTable
<1> QED
  BY <1>1, <1>2, <1>3, SameTable DEF Matching

\* A turn of the loop.
LEMMA Tries ==
  ASSUME Matching, Table!TryPattern
  PROVE  Matching'
<1> DEFINE Kept(p) ==
      IF Table!Matches(p, match.as, req.path) /\ Table!Better(p, match.best)
        THEN p ELSE match.best
<1>1. PICK p \in match.todo :
        match' = [match EXCEPT !.todo = @ \ {p}, !.best = Kept(p)]
  BY DEF Table!TryPattern
<1>2. stage = "pattern" /\ UNCHANGED <<program, req, stage, answer>>
  BY DEF Table!TryPattern
<1>3. /\ match.todo \subseteq Table!Tried /\ Round(match.as)
      /\ BestOf(match.best, match.as, Table!Tried \ match.todo)
      /\ program.routes \subseteq Routes /\ program.patterns \subseteq Patterns
  BY <1>2 DEF Matching
<1> DEFINE done == Table!Tried \ match.todo
<1>4. BestOf(Kept(p), match.as, done \cup {p})
  <2>1. p \in Table!Tried /\ done \in SUBSET Table!Tried
    BY <1>3
  <2>2. BestOf(match.best, match.as, done)
    BY <1>3
  <2> HIDE DEF done
  <2> QED
    BY <1>3, <2>1, <2>2, BestKept
<1>5. done \cup {p} = Table!Tried \ (match.todo \ {p})
  BY <1>3
<1>6. match'.todo = match.todo \ {p}
  BY <1>1
<1>7. match'.as = match.as /\ match'.best = Kept(p)
  BY <1>1
<1>8. Table!Tried' = Table!Tried
  BY <1>2, SameTable
<1>9. BestOf(match.best, match.as, Table!Tried \ match.todo)'
  <2> HIDE DEF Kept
  <2>1. BestOf(Kept(p), match.as, Table!Tried \ (match.todo \ {p}))
    BY <1>4, <1>5
  <2> QED
    BY <1>2, <1>6, <1>7, <1>8, <2>1 DEF BestOf
<1>10. Round(match.as)'
  BY <1>2, <1>3, <1>7, SameTable
<1> QED
  BY <1>2, <1>3, <1>6, <1>8, <1>9, <1>10 DEF Matching

\* The end of the loop: the best answers, a HEAD gets its second round, or no
\* pattern matched in any round.
LEMMA Ends ==
  ASSUME Matching, Table!Matched
  PROVE  Matching'
<1>1. stage = "pattern" /\ match.todo = {} /\ program' = program /\ req' = req
  BY DEF Table!Matched, Table!Goes
<1>2. PICK a, b : a = match.as /\ b = match.best
  OBVIOUS
<1>3. /\ Round(a) /\ BestOf(b, a, Table!Tried)
      /\ program.routes \subseteq Routes /\ program.patterns \subseteq Patterns
  <2>1. Table!Tried \ match.todo = Table!Tried
    BY <1>1
  <2> QED
    BY <1>1, <1>2, <2>1 DEF Matching
<1>4. Table!Tried' = Table!Tried /\ Round(a)'
  BY <1>1, <1>3, SameTable
<1>5. CASE b # Table!NoPattern
  <2>1. /\ answer' = [by |-> "pattern", to |-> b, body |-> ~conn.head]
        /\ stage' = "idle"
    BY <1>2, <1>5 DEF Table!Matched
  <2>2. answer'.to = b /\ answer'.by = "pattern"
    BY <2>1
  <2>3. BestOf(answer.to, a, Table!Tried)'
    BY <1>1, <1>3, <1>4, <1>5, <2>2 DEF BestOf
  <2>4. Preferred'
    BY <1>4, <2>3 DEF Preferred
  <2> QED
    BY <1>1, <1>3, <1>5, <2>1, <2>2, <2>4 DEF Matching
<1>6. ASSUME b = Table!NoPattern PROVE Nobody(a)
  BY <1>3, <1>6 DEF BestOf, Nobody
<1>7. CASE b = Table!NoPattern /\ Table!HeadFallback
  <2>1. /\ match' = [todo |-> Table!Tried, best |-> Table!NoPattern, as |-> "GET"]
        /\ stage' = stage /\ answer' = answer
    BY <1>2, <1>7 DEF Table!Matched
  <2>2. /\ match'.todo = Table!Tried /\ match'.best = Table!NoPattern
        /\ match'.as = "GET"
    BY <2>1
  <2>3. req.method = "HEAD" /\ Nobody("HEAD")
    BY <1>2, <1>6, <1>7 DEF Table!HeadFallback
  <2>4. Round("GET")'
    <3>1. Round("GET")
      BY <2>3 DEF Round
    <3> QED
      BY <1>1, <3>1, SameTable
  <2>5. Round(match.as)'
    BY <2>2, <2>4 DEF Round
  <2>6. BestOf(match.best, match.as, Table!Tried \ match.todo)'
    BY <1>4, <2>2 DEF BestOf
  <2> QED
    BY <1>1, <1>3, <1>4, <2>1, <2>2, <2>5, <2>6 DEF Matching
<1>8. CASE b = Table!NoPattern /\ ~Table!HeadFallback
  <2>1. Table!Goes("rest")
    BY <1>2, <1>8 DEF Table!Matched
  <2>2. stage' = "rest"
    BY <2>1 DEF Table!Goes
  <2>3. Unmatched
    BY <1>2, <1>3, <1>6, <1>8 DEF Round, Unmatched, Table!HeadFallback
  <2> QED
    BY <1>1, <1>3, <2>2, <2>3, SameTable DEF Matching
<1> QED
  BY <1>5, <1>7, <1>8

\* A step of request_handle().
LEMMA MatchingStep == Matching /\ Table!Next => Matching'
<1> SUFFICES ASSUME Matching, Table!Next PROVE Matching'
  OBVIOUS
<1> USE DEF Matching
<1>1. CASE Table!Request
  <2>1. program' = program /\ stage' = "slash"
    BY <1>1 DEF Table!Request
  <2> QED
    BY <2>1
<1>2. CASE Table!Refuse
  BY <1>2, SameMatching DEF Table!Refuse
<1>3. ASSUME NEW next \in {"proxy", "file", "listing", "https"}, Table!Goes(next)
      PROVE  Matching'
  BY <1>3 DEF Table!Goes
<1>4. ASSUME NEW by \in {"slash", "file", "listing", "https", "route"}, NEW body,
             Table!Answers(by, Table!NoPattern, body)
      PROVE  Matching'
  BY <1>4 DEF Table!Answers
<1>5. CASE Table!SlashRedirect
  BY <1>3, <1>4, <1>5 DEF Table!SlashRedirect
<1>6. CASE Table!Proxy
  <2>1. CASE req.path \in program.server.proxied
    BY <1>6, <2>1 DEF Table!Proxy, Table!NoAnswer
  <2>2. CASE req.path \notin program.server.proxied
    BY <1>3, <1>6, <2>2 DEF Table!Proxy
  <2> QED
    BY <2>1, <2>2
<1>7. CASE Table!StaticFile
  BY <1>3, <1>4, <1>7 DEF Table!StaticFile
<1>8. CASE Table!Listing
  BY <1>3, <1>4, <1>8 DEF Table!Listing
<1>9. CASE Table!HttpsRedirect
  <2>1. Table!Answers("https", Table!NoPattern, FALSE) \/ Table!Goes("route")
    BY <1>9 DEF Table!HttpsRedirect
  <2>2. CASE Table!Goes("route")
    BY <2>2 DEF Table!Goes
  <2> QED
    BY <1>4, <2>1, <2>2
<1>10. CASE Table!ExactRoute
  <2>1. CASE Table!Handler("route", Table!NoPattern)
    BY <1>4, <2>1 DEF Table!Handler
  <2>2. CASE /\ stage' = "pattern"
             /\ match' = [todo |-> Table!Tried, best |-> Table!NoPattern,
                          as |-> req.method]
             /\ UNCHANGED <<program, conn, req, answer>>
    <3>1. Table!Tried' = Table!Tried /\ req' = req
      BY <2>2 DEF Table!Tried
    <3>2. /\ match'.todo = Table!Tried /\ match'.best = Table!NoPattern
          /\ match'.as = req.method
      BY <2>2
    <3>3. Round(match.as)'
      BY <3>1, <3>2 DEF Round
    <3>4. BestOf(match.best, match.as, Table!Tried \ match.todo)'
      BY <3>1, <3>2 DEF BestOf
    <3> QED
      BY <2>2, <3>1, <3>2, <3>3, <3>4
  <2> QED
    BY <1>10, <2>1, <2>2 DEF Table!ExactRoute
<1>11. CASE Table!TryPattern
  BY <1>11, Tries
<1>12. CASE Table!Matched
  BY <1>12, Ends
<1>13. CASE Table!Rest
  <2>1. PICK by \in {"default", "fallback", "notFound"}, body \in BOOLEAN :
          Table!Answers(by, Table!NoPattern, body)
    BY <1>13 DEF Table!Rest, Table!Handler
  <2>2. stage = "rest"
    BY <1>13 DEF Table!Rest
  <2>3. /\ stage' = "idle" /\ answer'.by = by /\ program' = program /\ req' = req
    BY <2>1 DEF Table!Answers
  <2>4. Unmatched'
    BY <2>2, <2>3, SameTable
  <2> QED
    BY <2>3, <2>4
<1>14. CASE Table!Drain \/ Table!Ended
  BY <1>14, SameMatching DEF Table!Drain, Table!Ended, Table!vars
<1> QED
  BY <1>1, <1>2, <1>5, <1>6, <1>7, <1>8, <1>9, <1>10, <1>11, <1>12, <1>13, <1>14
  DEF Table!Next

\* What holds of the table's part.
Offered == part = "table" => Matching

LEMMA OfferedInit == RoutingInit => Offered
<1> SUFFICES ASSUME RoutingInit PROVE Offered
  OBVIOUS
<1>1. CASE part = "table"
  <2>1. Table!Init
    BY <1>1 DEF RoutingInit
  <2>2. program.routes \subseteq Routes /\ program.patterns \subseteq Patterns
    BY <2>1 DEF Table!Init
  <2>3. stage = "idle" /\ answer.by = "none"
    BY <2>1 DEF Table!Init, Table!NoAnswer
  <2> QED
    BY <1>1, <2>2, <2>3 DEF Offered, Matching
<1>2. CASE part # "table"
  BY <1>2 DEF Offered
<1> QED
  BY <1>1, <1>2

LEMMA OfferedStep == Offered /\ [RoutingNext]_RoutingVars => Offered'
<1> SUFFICES ASSUME Offered, [RoutingNext]_RoutingVars PROVE Offered'
  OBVIOUS
<1>1. CASE part = "table" /\ Table!Next /\ part' = part
  BY <1>1, MatchingStep DEF Offered
<1>2. CASE UNCHANGED <<part, tableVars>>
  <2>1. UNCHANGED <<part, program, req, stage, match, answer>>
    BY <1>2 DEF tableVars
  <2> QED
    BY <2>1, SameMatching DEF Offered
<1> QED
  BY <1>1, <1>2 DEF RoutingNext, RoutingVars

LEMMA StaysOffered == RoutingSpec => []Offered
  BY OfferedInit, OfferedStep, PTL DEF RoutingSpec

\* However the table is iterated, the pattern that answers matches the request
\* (or, for a HEAD that none matches, its GET), and no other that matches is
\* preferred to it by pattern_better_match().
THEOREM BestMatchAnswers ==
  RoutingSpec => [](part = "table" /\ stage = "idle" /\ answer.by = "pattern"
                      => answer.to # Table!NoPattern /\ Preferred)
<1>1. Offered => (part = "table" /\ stage = "idle" /\ answer.by = "pattern"
                    => answer.to # Table!NoPattern /\ Preferred)
  BY DEF Offered, Matching
<1> QED
  BY <1>1, StaysOffered, PTL

\* A HEAD comes to the default handler, the fallbacks or 404 only where no
\* pattern and no exact route would take a GET of the path, though the second
\* lookup of request_handle() asks the patterns alone.
THEOREM HeadsFindGets == RoutingSpec => [](part = "table" => Table!HeadFindsGet)
<1>1. Offered => (part = "table" => Table!HeadFindsGet)
  <2> SUFFICES ASSUME Offered, part = "table", Table!Answered, req.method = "HEAD",
                      answer.by \in {"default", "fallback", "notFound"}
               PROVE  /\ \A p \in Table!Tried : ~Table!Matches(p, "GET", req.path)
                      /\ Table!Route("GET") \notin program.routes
    BY DEF Table!HeadFindsGet
  <2>1. Nobody("GET") /\ program.routes \subseteq Routes
    BY DEF Offered, Matching, Unmatched, Table!Answered
  <2> QED
    BY <2>1, RoutesAreTried DEF Nobody
<1> QED
  BY <1>1, StaysOffered, PTL

-----------------------------------------------------------------------------
(* Patterns: the two pointers.                                              *)

\* A match so far: what pattern_match() has put in axil_pattern_match_t.
PatternMatches ==
  [matched : BOOLEAN, literals : Nat, params : Seq(Seq(STRING)), wild : BOOLEAN]

PatternInv ==
  /\ pat \in Seq(STRING) /\ path \in Seq(STRING) /\ m \in PatternMatches
  /\ Pattern!TypeOK

\* The first of the places that are looked for is one of them.
LEMMA LeastIs ==
  ASSUME NEW S, S \subseteq Nat, S # {}
  PROVE  Pattern!Min(S) \in S /\ \A x \in S : Pattern!Min(S) <= x
  BY Least DEF Pattern!Min

\* A string's terminator ends a segment and is no slash to skip.
LEMMA Terminators ==
  ASSUME NEW s \in Seq(STRING), NEW k \in 1..(Len(s) + 1)
  PROVE  /\ Pattern!Skipped(s, k) \in k..(Len(s) + 1)
         /\ Pattern!SegmentEnd(s, k) \in k..(Len(s) + 1)
<1> DEFINE e == Len(s) + 1
           S == {l \in k..e : ~Pattern!Redundant(s, l)}
           T == {l \in k..e : Pattern!At(s, l) = "/" \/ Pattern!Ends(Pattern!At(s, l))}
<1>1. Len(s) \in Nat /\ e \in k..e /\ ~(e <= Len(s))
  OBVIOUS
<1>2. Pattern!At(s, e) = "nul"
  BY <1>1, Zenon DEF Pattern!At
<1>3. e \in S
  BY <1>1, <1>2 DEF Pattern!Redundant
<1>4. e \in T
  BY <1>1, <1>2 DEF Pattern!Ends
<1>5. S \subseteq Nat /\ T \subseteq Nat /\ S \subseteq k..e /\ T \subseteq k..e
  BY <1>1
<1>6. Pattern!Skipped(s, k) = Pattern!Min(S) /\ Pattern!SegmentEnd(s, k) = Pattern!Min(T)
  BY DEF Pattern!Skipped, Pattern!SegmentEnd
<1> HIDE DEF S, T
<1>7. Pattern!Min(S) \in S /\ Pattern!Min(T) \in T
  BY <1>3, <1>4, <1>5, LeastIs
<1> QED
  BY <1>5, <1>6, <1>7

LEMMA PatternInit == Pattern!Init => PatternInv
<1> SUFFICES ASSUME Pattern!Init PROVE PatternInv
  OBVIOUS
<1>1. pat \in Seq(STRING) /\ path \in Seq(STRING) /\ MaxParams \in Nat
  BY RoutingAssumption DEF Pattern!MatchAssumption, Pattern!Init
<1>2. m = [matched |-> FALSE, literals |-> 0, params |-> <<>>, wild |-> FALSE]
  BY DEF Pattern!Init, Pattern!NoMatch
<1>3. <<>> \in Seq(Seq(STRING)) /\ Len(<<>>) = 0 /\ DOMAIN <<>> = {}
  OBVIOUS
<1>4. m \in PatternMatches /\ m.matched \in BOOLEAN /\ m.wild \in BOOLEAN /\ m.params = <<>>
  BY <1>2, <1>3 DEF PatternMatches
<1>5. pc = "loop" /\ i \in 1..(Len(pat) + 1) /\ j \in 1..(Len(path) + 1)
  BY <1>1 DEF Pattern!Init
<1> QED
  BY <1>1, <1>3, <1>4, <1>5 DEF PatternInv, Pattern!TypeOK

\* The entries of a match stay within params[], and their values within value[].
Held(r) ==
  /\ r \in PatternMatches
  /\ Len(r.params) <= MaxParams /\ \A n \in DOMAIN r.params : Len(r.params[n]) < MaxValue

\* A capture that NoEntry lets through has an entry, and fits it.
LEMMA OneMoreHeld ==
  ASSUME NEW r, Held(r), NEW v \in Seq(STRING), Len(r.params) < MaxParams, Len(v) < MaxValue
  PROVE  Held([r EXCEPT !.params = Append(@, v)])
<1>1. PICK a \in Seq(Seq(STRING)) : a = r.params
  BY DEF Held, PatternMatches
<1>2. PICK b \in Seq(Seq(STRING)) : b = Append(a, v)
  BY AppendProperties
<1>3. /\ Len(b) = Len(a) + 1 /\ \A n \in 1..Len(a) : b[n] = a[n]
      /\ b[Len(a) + 1] = v /\ DOMAIN b = 1..(Len(a) + 1) /\ DOMAIN a = 1..Len(a)
      /\ Len(a) \in Nat
  BY <1>2, AppendProperties, LenProperties
<1>4. Len(b) <= MaxParams
  BY <1>1, <1>3, RoutingAssumption DEF Pattern!MatchAssumption
<1>5. \A n \in DOMAIN b : Len(b[n]) < MaxValue
  <2>1. \A n \in 1..Len(a) : Len(a[n]) < MaxValue
    BY <1>1, <1>3 DEF Held
  <2> SUFFICES ASSUME NEW n \in 1..(Len(a) + 1) PROVE Len(b[n]) < MaxValue
    BY <1>3
  <2>2. CASE n = Len(a) + 1
    BY <1>3, <2>2
  <2>3. CASE n \in 1..Len(a)
    BY <1>3, <2>1, <2>3
  <2> QED
    BY <1>3, <2>2, <2>3
<1>6. [r EXCEPT !.params = Append(@, v)] = [r EXCEPT !.params = b]
  BY <1>1, <1>2
<1>7. [r EXCEPT !.params = b] \in PatternMatches /\ [r EXCEPT !.params = b].params = b
  BY DEF Held, PatternMatches
<1> QED
  BY <1>4, <1>5, <1>6, <1>7 DEF Held

\* A turn of pattern_match()'s loop.
LEMMA PatternStep == PatternInv /\ Pattern!Next => PatternInv'
<1> SUFFICES ASSUME PatternInv, Pattern!Next PROVE PatternInv'
  OBVIOUS
<1>1. /\ pat \in Seq(STRING) /\ path \in Seq(STRING) /\ Held(m)
      /\ pc \in {"loop", "end"}
      /\ i \in 1..(Len(pat) + 1) /\ j \in 1..(Len(path) + 1)
  BY DEF PatternInv, Pattern!TypeOK, Held
<1>2. ASSUME Held(m'), pc' \in {"loop", "end"}, pat' = pat, path' = path,
             i' \in 1..(Len(pat) + 1), j' \in 1..(Len(path) + 1)
      PROVE  PatternInv'
  BY <1>1, <1>2 DEF PatternInv, Pattern!TypeOK, Held, PatternMatches
<1>3. ASSUME NEW r, Held(r), Pattern!Return(r) PROVE PatternInv'
  BY <1>1, <1>2, <1>3 DEF Pattern!Return
<1>4. CASE Pattern!Returned
  BY <1>1, <1>2, <1>4 DEF Pattern!Returned, Pattern!vars
<1>5. CASE Pattern!Turn
  <2>1. PICK p \in 1..(Len(pat) + 1) : p = Pattern!Skipped(pat, i)
    BY <1>1, Terminators
  <2>2. PICK u \in 1..(Len(path) + 1) : u = Pattern!Skipped(path, j)
    BY <1>1, Terminators
  <2>3. \/ Pattern!AtTheEnd(p, u)
        \/ /\ ~Pattern!Ends(Pattern!At(pat, p)) /\ ~Pattern!Ends(Pattern!At(path, u))
           /\ Pattern!Wildcard(p, u) \/ Pattern!Slash(p, u) \/ Pattern!Segment(p, u)
    BY <1>5, <2>1, <2>2 DEF Pattern!Turn
  <2>4. Held(Pattern!Yes(m)) /\ Held([Pattern!Yes(m) EXCEPT !.wild = TRUE])
    BY <1>1 DEF Held, PatternMatches, Pattern!Yes
  <2>5. CASE Pattern!AtTheEnd(p, u)
    BY <1>1, <1>3, <2>4, <2>5 DEF Pattern!AtTheEnd
  <2>6. CASE Pattern!Wildcard(p, u)
    BY <1>3, <2>4, <2>6 DEF Pattern!Wildcard
  <2>7. CASE /\ ~Pattern!Ends(Pattern!At(pat, p)) /\ ~Pattern!Ends(Pattern!At(path, u))
             /\ Pattern!Slash(p, u)
    <3>1. CASE Pattern!Return(m)
      BY <1>1, <1>3, <3>1
    <3>2. CASE i' = p + 1 /\ j' = u + 1 /\ UNCHANGED <<pat, path, m, pc>>
      <4>1. p <= Len(pat) /\ u <= Len(path)
        BY <2>7 DEF Pattern!At, Pattern!Ends
      <4>2. p + 1 \in 1..(Len(pat) + 1) /\ u + 1 \in 1..(Len(path) + 1)
        BY <1>1, <4>1
      <4> QED
        BY <1>1, <1>2, <3>2, <4>2 DEF Held
    <3> QED
      BY <2>7, <3>1, <3>2 DEF Pattern!Slash
  <2>8. CASE Pattern!Segment(p, u)
    <3>1. PICK q \in p..(Len(pat) + 1) : q = Pattern!SegmentEnd(pat, p)
      BY <1>1, Terminators
    <3>2. PICK v \in u..(Len(path) + 1) : v = Pattern!SegmentEnd(path, u)
      BY <1>1, Terminators
    <3>3. q \in 1..(Len(pat) + 1) /\ v \in 1..(Len(path) + 1)
      BY <1>1, <3>1, <3>2
    <3>4. CASE Pattern!Return(m)
      BY <1>1, <1>3, <3>4
    <3>5. CASE /\ ~Pattern!NoEntry(v - u)
               /\ m' = [m EXCEPT !.params = Append(@, Pattern!Captured(u, v))]
               /\ i' = q /\ j' = v /\ UNCHANGED <<pat, path, pc>>
      <4>1. PICK w : w = Pattern!Captured(u, v)
        OBVIOUS
      <4>2. w \in Seq(STRING) /\ Len(w) = v - u
        <5>1. PICK e \in 0..Len(path) : e = v - 1 /\ u \in 1..(e + 1)
          BY <1>1, <3>2
        <5>2. w = SubSeq(path, u, e) /\ e - u + 1 = v - u
          BY <4>1, <5>1 DEF Pattern!Captured
        <5>3. w \in Seq(STRING) /\ Len(w) = e - u + 1
          BY <1>1, <5>1, <5>2, SubSeqProperties
        <5> QED
          BY <5>2, <5>3
      <4>3. Len(m.params) \in Nat
        BY <1>1 DEF Held, PatternMatches
      <4>4. Len(m.params) < MaxParams /\ Len(w) < MaxValue
        BY <3>2, <3>5, <4>2, <4>3, RoutingAssumption
        DEF Pattern!NoEntry, Pattern!MatchAssumption
      <4>5. Held(m')
        BY <1>1, <3>5, <4>1, <4>2, <4>4, OneMoreHeld
      <4> QED
        BY <1>1, <1>2, <3>3, <3>5, <4>5
    <3>6. CASE /\ m' = [m EXCEPT !.literals = @ + Len(SubSeq(pat, p, q - 1))]
               /\ i' = q /\ j' = v /\ UNCHANGED <<pat, path, pc>>
      <4>1. PICK n \in Nat : n = Len(SubSeq(pat, p, q - 1))
        BY <1>1, <3>1
      <4>2. PICK k \in Nat : k = m.literals + n
        BY <1>1 DEF Held, PatternMatches
      <4>3. m' = [m EXCEPT !.literals = k]
        BY <3>6, <4>1, <4>2
      <4>4. m' \in PatternMatches /\ m'.params = m.params
        BY <1>1, <4>3 DEF Held, PatternMatches
      <4>5. Held(m')
        BY <1>1, <4>4 DEF Held
      <4> QED
        BY <1>1, <1>2, <3>3, <3>6, <4>5
    <3> QED
      BY <2>8, <3>1, <3>2, <3>4, <3>5, <3>6 DEF Pattern!Segment
  <2> QED
    BY <2>3, <2>5, <2>6, <2>7, <2>8
<1> QED
  BY <1>4, <1>5 DEF Pattern!Next

\* Types, the pointers and entries of pattern_match() in bounds, and what the
\* counters of a frame, its header and its place say of each other.
THEOREM RoutingTypes == RoutingSpec => []TypesOK
<1>1. RoutingSpec => Spec
  <2>1. RoutingInit => Init
    BY DEF RoutingInit
  <2>2. [RoutingNext]_RoutingVars => [Next]_vars
    BY DEF RoutingNext, RoutingVars
  <2> QED
    BY <2>1, <2>2, PTL DEF RoutingSpec, Spec
<1>2. Spec => []Placed
  BY RoutingAssumption, StaysPlaced
<1>3. Spec => []HeldForAFrame
  BY RoutingAssumption, PayloadsHeld
<1> DEFINE I == part = "pattern" => PatternInv
<1>4. RoutingInit => I
  BY PatternInit DEF RoutingInit
<1>5. I /\ [RoutingNext]_RoutingVars => I'
  <2> SUFFICES ASSUME I, [RoutingNext]_RoutingVars PROVE I'
    OBVIOUS
  <2>1. CASE part = "pattern" /\ Pattern!Next
    BY <2>1, PatternStep
  <2>2. CASE UNCHANGED <<part, patternVars>>
    BY <2>2 DEF patternVars, PatternInv, Pattern!TypeOK
  <2>3. CASE part # "pattern" /\ part' = part
    BY <2>3
  <2> QED
    BY <2>1, <2>2, <2>3 DEF RoutingNext, RoutingVars
<1>6. RoutingSpec => []I
  <2> HIDE DEF I
  <2> QED
    BY <1>4, <1>5, PTL DEF RoutingSpec
<1>7. I /\ Placed /\ HeldForAFrame => TypesOK
  BY DEF PatternInv, Placed, Sound, TypesOK
<1> QED
  <2> HIDE DEF I
  <2> QED
    BY <1>1, <1>2, <1>3, <1>6, <1>7, PTL

-----------------------------------------------------------------------------
(* The narrower route wins, when requests may name any path.                *)

Lits(p) == {k \in Table!Fixed(p) : ~Table!IsCapture(p.segs[k])}
Caps(p) == Table!Fixed(p) \ Lits(p)

\* No two captures of a pattern have one name.
OwnCaptures(p) == \A k, n \in Caps(p) : p.segs[k] = p.segs[n] => k = n

\* There is another one.
Varied(S) == S # {} /\ \A x \in S : \E y \in S : y # x

\* A pattern in numbers.
LEMMA Shape ==
  ASSUME NEW p, IsPattern(p)
  PROVE  /\ Len(p.segs) \in Nat /\ \A k \in 1..Len(p.segs) : p.segs[k] \in STRING
         /\ Table!Wild(p) \in {0, 1} /\ (Table!Wild(p) = 1 => Len(p.segs) > 0)
         /\ Table!Wild(p) = 0 => Table!Fixed(p) = 1..Len(p.segs)
         /\ Table!Wild(p) = 1 => Table!Fixed(p) = 1..(Len(p.segs) - 1)
         /\ IsFiniteSet(Table!Fixed(p)) /\ Table!Fixed(p) \subseteq 1..Len(p.segs)
<1>1. p.segs \in Seq(STRING) /\ Len(p.segs) \in Nat
  BY DEF IsPattern
<1>2. \A k \in 1..Len(p.segs) : p.segs[k] \in STRING
  BY <1>1
<1>3. Table!Wild(p) \in {0, 1} /\ (Table!Wild(p) = 1 => Len(p.segs) > 0)
  <2>1. p.segs # <<>> => Len(p.segs) > 0
    BY <1>1
  <2> QED
    BY <2>1 DEF Table!Wild
<1>4. PICK n \in Nat, w \in {0, 1} : n = Len(p.segs) /\ w = Table!Wild(p)
  BY <1>1, <1>3
<1>5. Table!Fixed(p) = 1..(n - w)
  BY <1>4 DEF Table!Fixed
<1>6. /\ w = 0 => Table!Fixed(p) = 1..n
      /\ w = 1 => Table!Fixed(p) = 1..(n - 1)
  BY <1>5
<1>7. IsFiniteSet(Table!Fixed(p)) /\ Table!Fixed(p) \subseteq 1..n
  <2>1. n - w \in Int /\ 1..(n - w) \subseteq 1..n
    OBVIOUS
  <2> QED
    BY <1>5, <2>1, FS_Interval
<1> QED
  BY <1>1, <1>2, <1>3, <1>4, <1>6, <1>7

\* A path as long as it needs to be, with the literals where they belong.
Suits(p, n) == IF Table!Wild(p) = 1 THEN n >= Len(p.segs) ELSE n = Len(p.segs)
Spelt(p, v) == \A k \in Lits(p) : p.segs[k] = v[k]

LEMMA PathTaken ==
  ASSUME NEW p, NEW v
  PROVE  /\ Table!PathMatches(p, v) => Suits(p, Len(v)) /\ Spelt(p, v)
         /\ Suits(p, Len(v)) /\ Spelt(p, v) => Table!PathMatches(p, v)
<1>1. /\ Spelt(p, v) =>
           \A k \in Table!Fixed(p) : Table!IsCapture(p.segs[k]) \/ p.segs[k] = v[k]
      /\ (\A k \in Table!Fixed(p) : Table!IsCapture(p.segs[k]) \/ p.segs[k] = v[k])
           => Spelt(p, v)
  BY Zenon DEF Spelt, Lits
<1> QED
  BY <1>1, Zenon DEF Table!PathMatches, Suits

\* Two patterns that take one request, of which one takes what the other does.
LEMMA WithinShape ==
  ASSUME NEW p, IsPattern(p), NEW q, IsPattern(q),
         NEW W, Varied(W), NEW u \in Seq(W),
         Table!PathMatches(p, u), Table!PathMatches(q, u),
         \A v \in Seq(W) : Table!PathMatches(p, v) => Table!PathMatches(q, v),
         Table!Wild(q) = 1 => Table!Wild(p) = 1
  PROVE  /\ Table!Wild(p) = Table!Wild(q) /\ Len(q.segs) <= Len(p.segs)
         /\ Table!Fixed(q) \subseteq Table!Fixed(p) /\ Lits(q) \subseteq Lits(p)
         /\ \A k \in Lits(q) : p.segs[k] = q.segs[k]
<1>1. PICK a \in Nat, b \in Nat, c \in Nat :
        a = Len(p.segs) /\ b = Len(q.segs) /\ c = Len(u)
  BY Shape
<1>2. \A k \in Lits(p) : p.segs[k] = u[k]
  BY PathTaken DEF Spelt
<1>3. \A k \in Lits(q) : q.segs[k] = u[k]
  BY PathTaken DEF Spelt
<1>4. /\ IF Table!Wild(p) = 1 THEN c >= a ELSE c = a
      /\ IF Table!Wild(q) = 1 THEN c >= b ELSE c = b
  BY <1>1, PathTaken DEF Suits
<1>5. Lits(p) \subseteq 1..a /\ Lits(q) \subseteq 1..b /\ a <= c
  BY <1>1, <1>4, Shape DEF Lits
<1>6. Table!Wild(p) = Table!Wild(q)
  <2> SUFFICES ASSUME Table!Wild(p) = 1, Table!Wild(q) = 0 PROVE FALSE
    BY Shape
  <2>0. PICK x \in W : TRUE
    BY DEF Varied
  <2>1. PICK v \in Seq(W) : v = Append(u, x)
    BY AppendProperties
  <2>2. Len(v) = c + 1 /\ \A k \in 1..c : v[k] = u[k]
    BY <1>1, <2>1
  <2>3. \A k \in Lits(p) : p.segs[k] = v[k]
    BY <1>2, <1>5, <2>2
  <2>4. Table!PathMatches(p, v)
    <3>1. Suits(p, c + 1)
      BY <1>1, <1>5 DEF Suits
    <3> QED
      BY <2>2, <2>3, <3>1, PathTaken DEF Spelt
  <2>5. Len(v) = b
    BY <1>1, <2>4, PathTaken DEF Suits
  <2> QED
    BY <1>4, <2>2, <2>5
<1>7. b <= a
  <2>1. CASE Table!Wild(p) = 0
    BY <1>4, <1>6, <2>1
  <2>2. CASE Table!Wild(p) = 1
    <3>1. PICK v : v = SubSeq(u, 1, a)
      OBVIOUS
    <3>2. v \in Seq(W) /\ Len(v) = a /\ \A k \in 1..a : v[k] = u[k]
      <4>1. Len(u) \in Nat /\ 1 \in 1..(a + 1) /\ a \in 0..Len(u)
        BY <1>1, <1>5
      <4> QED
        BY <1>1, <3>1, <4>1
    <3>3. \A k \in Lits(p) : p.segs[k] = v[k]
      BY <1>2, <1>5, <3>2
    <3>4. Table!PathMatches(p, v)
      <4>1. Suits(p, a)
        BY <1>1, <2>2 DEF Suits
      <4> QED
        BY <3>2, <3>3, <4>1, PathTaken DEF Spelt
    <3>5. Len(v) >= b
      BY <1>1, <1>6, <2>2, <3>2, <3>4, PathTaken DEF Suits
    <3> QED
      BY <3>2, <3>5
  <2> QED
    BY <2>1, <2>2, Shape
<1>8. Table!Fixed(q) \subseteq Table!Fixed(p)
  <2>1. CASE Table!Wild(p) = 0
    BY <1>1, <1>6, <1>7, <2>1, Shape
  <2>2. CASE Table!Wild(p) = 1
    <3>1. Table!Fixed(p) = 1..(a - 1) /\ Table!Fixed(q) = 1..(b - 1)
      BY <1>1, <1>6, <2>2, Shape
    <3> QED
      BY <1>7, <3>1
  <2> QED
    BY <2>1, <2>2, Shape
<1>9. Lits(q) \subseteq Lits(p)
  <2> SUFFICES ASSUME NEW k \in Lits(q), k \notin Lits(p) PROVE FALSE
    OBVIOUS
  <2>1. k \in Table!Fixed(p) /\ k \in 1..c
    BY <1>1, <1>5, <1>8, Shape DEF Lits
  <2>2. PICK y \in W : y # q.segs[k]
    <3>1. q.segs[k] = u[k] /\ u[k] \in W
      BY <1>1, <1>3, <2>1
    <3> QED
      BY <3>1 DEF Varied
  <2>3. PICK v : v = [u EXCEPT ![k] = y]
    OBVIOUS
  <2>4. /\ v \in Seq(W) /\ Len(v) = c /\ v[k] = y
        /\ \A n \in 1..c : n # k => v[n] = u[n]
    BY <1>1, <2>1, <2>2, <2>3
  <2>5. \A n \in Lits(p) : p.segs[n] = v[n]
    BY <1>2, <1>5, <2>4
  <2>6. Table!PathMatches(p, v)
    <3>1. Suits(p, c)
      BY <1>1, PathTaken
    <3> QED
      BY <2>4, <2>5, <3>1, PathTaken DEF Spelt
  <2>7. q.segs[k] = v[k]
    BY <2>4, <2>6, PathTaken DEF Spelt
  <2> QED
    BY <2>2, <2>4, <2>7
<1> QED
  BY <1>1, <1>2, <1>3, <1>6, <1>7, <1>8, <1>9

\* What pattern_better_match() counts of a pattern.
LEMMA Counted ==
  ASSUME NEW p, IsPattern(p)
  PROVE  /\ IsFiniteSet(Lits(p)) /\ IsFiniteSet(Caps(p))
         /\ Table!Literals(p) = Cardinality(Lits(p)) + (IF p.method = "any" THEN 0 ELSE 4)
         /\ Cardinality(Lits(p)) \in Nat /\ Cardinality(Caps(p)) \in Nat
         /\ Table!CapturesOf(p) = {p.segs[k] : k \in Caps(p)}
<1>1. IsFiniteSet(Lits(p)) /\ IsFiniteSet(Caps(p))
  BY Shape, FS_Subset DEF Lits, Caps
<1>2. Table!Literals(p) = Cardinality(Lits(p)) + (IF p.method = "any" THEN 0 ELSE 4)
  <2>1. Table!Cardinality(Lits(p)) = Cardinality(Lits(p))
    BY CardinalitySame
  <2> QED
    BY <2>1 DEF Table!Literals, Lits
<1>3. Table!CapturesOf(p) = {p.segs[k] : k \in Caps(p)}
  BY DEF Table!CapturesOf, Caps, Lits
<1> QED
  BY <1>1, <1>2, <1>3, FS_CardinalityType

\* A pattern that has an other's captures and more has more names.
LEMMA MoreCaptures ==
  ASSUME NEW p, IsPattern(p), OwnCaptures(p), NEW q, IsPattern(q),
         Caps(q) \subseteq Caps(p), Caps(q) # Caps(p)
  PROVE  Table!CapturesOf(p) # Table!CapturesOf(q)
<1> DEFINE P == {p.segs[k] : k \in Caps(p)}
           Q == {q.segs[k] : k \in Caps(q)}
           f == [k \in Caps(p) |-> p.segs[k]]
           g == [k \in Caps(q) |-> q.segs[k]]
<1>1. /\ IsFiniteSet(Caps(p)) /\ IsFiniteSet(Caps(q))
      /\ Table!CapturesOf(p) = P /\ Table!CapturesOf(q) = Q
      /\ Cardinality(Caps(p)) \in Nat /\ Cardinality(Caps(q)) \in Nat
  BY Counted
<1>2. Cardinality(Caps(q)) < Cardinality(Caps(p))
  <2>1. /\ Cardinality(Caps(q)) <= Cardinality(Caps(p))
        /\ Cardinality(Caps(p)) = Cardinality(Caps(q)) => Caps(p) = Caps(q)
    BY <1>1, FS_Subset
  <2> QED
    BY <1>1, <2>1
<1>3. Cardinality(P) = Cardinality(Caps(p))
  <2>1. f \in Surjection(Caps(p), P)
    <3>1. f \in [Caps(p) -> P] /\ \A x \in P : \E k \in Caps(p) : f[k] = x
      OBVIOUS
    <3> QED
      BY <3>1, Fun_IsSurj
  <2>2. f \in Injection(Caps(p), P)
    <3>1. f \in [Caps(p) -> P] /\ \A k, n \in Caps(p) : f[k] = f[n] => k = n
      BY DEF OwnCaptures
    <3> QED
      BY <3>1, Fun_IsInj
  <2> HIDE DEF f, P
  <2> QED
    BY <1>1, <2>1, <2>2, FS_Surjection
<1>4. Cardinality(Q) <= Cardinality(Caps(q)) /\ IsFiniteSet(Q)
  <2>1. g \in Surjection(Caps(q), Q)
    <3>1. g \in [Caps(q) -> Q] /\ \A x \in Q : \E k \in Caps(q) : g[k] = x
      OBVIOUS
    <3> QED
      BY <3>1, Fun_IsSurj
  <2> HIDE DEF g, Q
  <2> QED
    BY <1>1, <2>1, FS_Surjection
<1>5. Cardinality(Q) \in Nat
  BY <1>4, FS_CardinalityType
<1> HIDE DEF P, Q
<1> QED
  BY <1>1, <1>2, <1>3, <1>4, <1>5

\* Of two patterns that take a request, where all that p takes q takes and not
\* the other way round, the wider q is best only by the exception.
LEMMA NarrowerIsBetter ==
  ASSUME NEW W, Varied(W), Routed = Seq(W), Varied(Methods),
         NEW p, IsPattern(p), OwnCaptures(p), NEW q, IsPattern(q),
         NEW u \in Seq(W), NEW as,
         Table!Matches(p, as, u), Table!Matches(q, as, u), ~Table!Better(p, q),
         \A mm \in Methods, v \in Routed :
           Table!Matches(p, mm, v) => Table!Matches(q, mm, v),
         \E mm \in Methods, v \in Routed :
           Table!Matches(q, mm, v) /\ ~Table!Matches(p, mm, v)
  PROVE  Table!Wild(p) = 1 /\ Table!CapturesOf(p) # Table!CapturesOf(q)
<1>1. /\ p.method \in {as, "any"} /\ q.method \in {as, "any"}
      /\ p.method # "none" /\ q.method # "none"
      /\ Table!PathMatches(p, u) /\ Table!PathMatches(q, u)
  BY DEF Table!Matches, IsPattern
<1>2. q.method = "any" \/ p.method = q.method
  <2> SUFFICES ASSUME q.method = as, p.method = "any", q.method # "any" PROVE FALSE
    BY <1>1
  <2>1. PICK y \in Methods : y # as
    BY <1>1 DEF Varied
  <2>2. Table!Matches(p, y, u)
    BY <1>1 DEF Table!Matches
  <2>3. Table!Matches(q, y, u)
    BY <2>2
  <2> QED
    BY <2>1, <2>3 DEF Table!Matches
<1>3. PICK mm \in Methods : p.method \in {mm, "any"}
  BY DEF Varied, IsPattern
<1>4. \A v \in Seq(W) : Table!PathMatches(p, v) => Table!PathMatches(q, v)
  BY <1>3 DEF Table!Matches
<1>5. /\ ~(Table!Wild(p) < Table!Wild(q))
      /\ ~(Table!Wild(p) = Table!Wild(q) /\ Table!Literals(p) > Table!Literals(q))
  BY DEF Table!Better
<1>6. Table!Wild(q) = 1 => Table!Wild(p) = 1
  BY <1>5, Shape
<1>7. /\ Table!Wild(p) = Table!Wild(q) /\ Len(q.segs) <= Len(p.segs)
      /\ Table!Fixed(q) \subseteq Table!Fixed(p) /\ Lits(q) \subseteq Lits(p)
      /\ \A k \in Lits(q) : p.segs[k] = q.segs[k]
  BY <1>1, <1>4, <1>6, WithinShape
<1>8. Lits(p) = Lits(q) /\ p.method = q.method
  <2>1. PICK a \in Nat, b \in Nat : a = Cardinality(Lits(p)) /\ b = Cardinality(Lits(q))
    BY Counted
  <2>2. /\ Table!Literals(p) = a + (IF p.method = "any" THEN 0 ELSE 4)
        /\ Table!Literals(q) = b + (IF q.method = "any" THEN 0 ELSE 4)
    BY <2>1, Counted
  <2>3. b <= a /\ (a = b => Lits(p) = Lits(q))
    BY <1>7, <2>1, Counted, FS_Subset
  <2>4. a + (IF p.method = "any" THEN 0 ELSE 4) <= b + (IF q.method = "any" THEN 0 ELSE 4)
    BY <1>5, <1>7, <2>2
  <2>5. a = b /\ (p.method = "any" <=> q.method = "any")
    BY <1>2, <2>3, <2>4
  <2> QED
    BY <1>2, <2>3, <2>5
<1>9. Len(p.segs) # Len(q.segs)
  <2> SUFFICES ASSUME Len(p.segs) = Len(q.segs) PROVE FALSE
    OBVIOUS
  <2>1. PICK nn \in Methods, v \in Routed :
          Table!Matches(q, nn, v) /\ ~Table!Matches(p, nn, v)
    OBVIOUS
  <2>2. Table!PathMatches(q, v) /\ ~Table!PathMatches(p, v)
    BY <1>8, <2>1 DEF Table!Matches
  <2>3. Suits(q, Len(v)) /\ Spelt(q, v)
    BY <2>2, PathTaken
  <2>4. Suits(p, Len(v))
    BY <1>7, <2>3 DEF Suits
  <2>5. Spelt(p, v)
    BY <1>7, <1>8, <2>3 DEF Spelt
  <2> QED
    BY <2>2, <2>4, <2>5, PathTaken
<1>10. PICK a \in Nat, b \in Nat : a = Len(p.segs) /\ b = Len(q.segs)
  BY Shape
<1>11. Table!Wild(p) = 1
  <2> SUFFICES ASSUME Table!Wild(p) = 0 PROVE FALSE
    BY Shape
  <2>1. Len(u) = a /\ Len(u) = b
    BY <1>1, <1>7, <1>10, PathTaken DEF Suits
  <2> QED
    BY <1>9, <1>10, <2>1
<1>12. /\ Table!Fixed(p) = 1..(a - 1) /\ Table!Fixed(q) = 1..(b - 1) /\ b > 0
  BY <1>7, <1>10, <1>11, Shape
<1>13. b \in Table!Fixed(p) /\ b \notin Table!Fixed(q)
  BY <1>7, <1>9, <1>10, <1>12
<1>14. Caps(q) \subseteq Caps(p) /\ Caps(q) # Caps(p)
  BY <1>7, <1>8, <1>13 DEF Caps, Lits
<1> QED
  BY <1>11, <1>14, MoreCaptures

\* A request is one that may be made.
Asking ==
  part = "table" => req.path \in Routed \cup {<<>>}

LEMMA StaysAsking == RoutingSpec => []Asking
<1>1. RoutingInit => Asking
  BY DEF RoutingInit, Asking, Table!Init, Table!NoRequest
<1>2. Asking /\ [RoutingNext]_RoutingVars => Asking'
  <2> SUFFICES ASSUME Asking, [RoutingNext]_RoutingVars, part' = "table" PROVE Asking'
    BY DEF Asking
  <2>1. CASE UNCHANGED <<part, tableVars>>
    BY <2>1 DEF tableVars, Asking
  <2>2. CASE part = "table" /\ Table!Request
    <3>1. PICK method \in Methods, v \in Routed, slash \in BOOLEAN :
            req' = [method |-> method, path |-> v, slash |-> slash \/ v = <<>>]
      BY <2>2 DEF Table!Request
    <3>2. req'.path = v
      BY <3>1
    <3> QED
      BY <3>2 DEF Asking
  <2>3. CASE part = "table" /\ req' = req
    BY <2>3 DEF Asking
  <2>4. CASE part = "table" /\ Table!Next
    <3>1. Table!Request \/ req' = req
      BY <2>4 DEF Table!Next, Table!Refuse, Table!SlashRedirect, Table!Proxy,
        Table!StaticFile, Table!Listing, Table!HttpsRedirect, Table!ExactRoute,
        Table!TryPattern, Table!Matched, Table!Rest, Table!Drain, Table!Ended,
        Table!Goes, Table!Answers, Table!Handler, Table!vars
    <3> QED
      BY <2>2, <2>3, <2>4, <3>1
  <2> QED
    BY <2>1, <2>4 DEF RoutingNext, RoutingVars
<1> QED
  BY <1>1, <1>2, PTL DEF RoutingSpec

\* Paths are all the sequences of some words.
AnyPath == \E W : Varied(W) /\ Routed = Seq(W)

\* No route or pattern names two of its captures alike.
NamesApart ==
  /\ \A p \in Patterns : OwnCaptures(p)
  /\ \A r \in Routes : OwnCaptures([method |-> r.method, segs |-> r.path])

\* Whatever order the table is iterated in, the pattern that answers does not
\* strictly contain another that matches in the same round, but for a catch-all
\* with as many literals and more captures; and a HEAD comes to the default
\* handler, the fallbacks or 404 only where a GET would.  A request may name any
\* path: with fewer paths two patterns may take the same ones and not look it.
THEOREM NarrowestAnswers ==
  ASSUME AnyPath, Varied(Methods), NamesApart
  PROVE  RoutingSpec => []WhoAnswers
<1>1. ASSUME Offered, Asking, part = "table", Table!Answered, answer.by = "pattern",
             NEW p \in Table!Tried, Table!Matches(p, Table!MatchedAs, req.path),
             NEW P, P = {r \in Methods \X Routed : Table!Matches(p, r[1], r[2])},
             NEW Q, Q = {r \in Methods \X Routed : Table!Matches(answer.to, r[1], r[2])},
             P \subseteq Q, P # Q
      PROVE  Table!Wild(p) = 1 /\ Table!CapturesOf(p) # Table!CapturesOf(answer.to)
  <2>1. /\ program.routes \subseteq Routes /\ program.patterns \subseteq Patterns
        /\ answer.to # Table!NoPattern /\ Preferred
    BY <1>1 DEF Offered, Matching, Table!Answered
  <2>2. PICK as : Round(as) /\ BestOf(answer.to, as, Table!Tried)
    BY <2>1 DEF Preferred
  <2>3. as = Table!MatchedAs
    BY <2>1, <2>2 DEF Round, Nobody, BestOf, Table!MatchedAs
  <2>4. PICK q \in Table!Tried :
          /\ q = answer.to /\ Table!Matches(q, as, req.path)
          /\ Table!Matches(p, as, req.path) => ~Table!Better(p, q)
    BY <2>1, <2>2 DEF BestOf
  <2>5. IsPattern(p) /\ IsPattern(q)
    BY <2>1, TriedArePatterns
  <2>6. OwnCaptures(p)
    <3>1. CASE p \in program.patterns
      BY <2>1, <3>1 DEF NamesApart
    <3>2. CASE p \notin program.patterns
      BY <2>1, <3>2 DEF Table!Tried, NamesApart
    <3> QED
      BY <3>1, <3>2
  <2>7. PICK W : Varied(W) /\ Routed = Seq(W)
    BY DEF AnyPath
  <2>8. req.path \in Seq(W)
    <3>1. <<>> \in Seq(W)
      OBVIOUS
    <3> QED
      BY <1>1, <2>7, <3>1 DEF Asking
  <2>9. ASSUME NEW mm \in Methods, NEW v \in Routed, Table!Matches(p, mm, v)
        PROVE  Table!Matches(q, mm, v)
    <3>1. <<mm, v>> \in P
      BY <1>1, <2>9
    <3>2. <<mm, v>> \in Q
      BY <1>1, <3>1
    <3> QED
      BY <1>1, <2>4, <3>2
  <2>10. \E mm \in Methods, v \in Routed :
           Table!Matches(q, mm, v) /\ ~Table!Matches(p, mm, v)
    <3>1. PICK r \in Methods \X Routed : r \in Q /\ r \notin P
      BY <1>1
    <3>2. Table!Matches(q, r[1], r[2]) /\ ~Table!Matches(p, r[1], r[2])
      BY <1>1, <2>4, <3>1
    <3> QED
      BY <3>2
  <2>11. ~Table!Better(p, q) /\ Table!Matches(p, as, req.path)
    BY <1>1, <2>3, <2>4
  <2> QED
    BY <2>4, <2>5, <2>6, <2>7, <2>8, <2>9, <2>10, <2>11, NarrowerIsBetter
<1>2. Offered /\ Asking => (part = "table" => Table!NarrowestWins)
  BY <1>1 DEF Table!NarrowestWins
<1>3. Offered /\ Asking /\ (part = "table" => Table!HeadFindsGet) => WhoAnswers
  BY <1>2 DEF WhoAnswers
<1> QED
  BY <1>3, StaysOffered, StaysAsking, HeadsFindGets, PTL
=============================================================================
