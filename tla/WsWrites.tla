------------------------------ MODULE WsWrites ------------------------------
(***************************************************************************)
(* The write side of a WebSocket connection: ws_write() passes a header    *)
(* and a payload to axil_low_write() one after the other; ws_close_status()*)
(* writes its Close straight to the socket.  The queue is a sequence here: *)
(* WriteQueue shows that its buffer is one.  An operator in the plural is  *)
(* the set of outcomes of a C function.                                    *)
(***************************************************************************)
EXTENDS Integers, Sequences

CONSTANTS
  MaxPayload,   \* bound: bytes of one message
  MaxFrames,    \* bound: messages written on one connection
  AppCloses     \* does the program call axil_ws_close() itself?

WsWritesAssumption ==
  MaxPayload \in Nat /\ MaxFrames \in Nat /\ AppCloses \in BOOLEAN

VARIABLE
  c   \* the connection: its queue, its wire, the messages written so far

vars == <<c>>

\* The bytes of message i: a header and n of payload, each named <<i, place>>;
\* a header is one unit, it is the message boundaries that matter.
Header(i) == << <<i, 0>> >>
Payload(i, n) == [k \in 1..n |-> <<i, k>>]
CloseFrame == << <<0, 1>>, <<0, 2>> >>

\* sizes holds the payload sizes of the messages written; ret is the last
\* return of ws_write().
Fresh == [open |-> TRUE, queue |-> <<>>, wire |-> <<>>, sizes |-> <<>>,
          closeSent |-> FALSE, ret |-> 0]

Init == c = Fresh

-----------------------------------------------------------------------------

\* The socket takes k of these bytes.
Took(d, bytes, k) == [d EXCEPT !.wire = @ \o SubSeq(bytes, 1, k)]

After(bytes, k) == SubSeq(bytes, k + 1, Len(bytes))

\* ws_close_status(): the Close goes past the queue, whole, cut or not at all.
CloseStatuses(d) ==
  IF d.closeSent THEN {d}
  ELSE {Took([d EXCEPT !.closeSent = TRUE], CloseFrame, k) :
          k \in 0..Len(CloseFrame)}

\* axil_close(): the queue is freed, then ws_close().
Closes(d) ==
  CloseStatuses([d EXCEPT !.open = FALSE, !.queue = <<>>])

\* axil_write_remaining(): some of the queue, EAGAIN, or an error.
Flushes(d) ==
  Closes(d) \cup
  {[Took(d, d.queue, k) EXCEPT !.queue = After(d.queue, k)] : k \in 0..Len(d.queue)}

\* axil_low_write() on a queue that holds bytes: after them, or no memory.
Queues(d, bytes) == Closes(d) \cup Flushes([d EXCEPT !.queue = @ \o bytes])

\* Mutant of Sends: what a partial send leaves is not queued.
SendsShort(d, bytes) ==
  Closes(d) \cup {Took(d, bytes, k) : k \in 0..Len(bytes)}

\* axil_low_write() on an empty queue: what send() leaves is queued.
Sends(d, bytes) ==
  Closes(d) \cup
  {[Took(d, bytes, k) EXCEPT !.queue = After(bytes, k)] : k \in 0..Len(bytes)}

LowWrites(d, bytes) ==
  IF d.queue # <<>> THEN Queues(d, bytes) ELSE Sends(d, bytes)

\* Mutant of Return: any -1 of axil_low_write(), queued or gone, is a failure.
ReturnQueued(d, n) == IF d.queue # <<>> THEN -1 ELSE n + 1

\* -1 from axil_low_write() is "queued" while the descriptor is still its own.
Return(d, n) == IF d.open THEN n + 1 ELSE -1

\* ws_write() of n bytes: the header, then, unless that closed, the payload.
WsWrite(n) ==
  /\ c.open
  /\ Len(c.sizes) < MaxFrames
  /\ LET i == Len(c.sizes) + 1
         d == [c EXCEPT !.sizes = Append(@, n)]
     IN  \E h \in LowWrites(d, Header(i)) :
         \E p \in (IF h.open /\ n > 0 THEN LowWrites(h, Payload(i, n)) ELSE {h}) :
           c' = [p EXCEPT !.ret = Return(p, n)]

\* The event loop, on a writable socket.
Flush ==
  /\ c.open /\ c.queue # <<>>
  /\ c' \in Flushes(c)

\* axil_ws_close() by the program.
AppClose ==
  /\ AppCloses /\ c.open
  /\ c' \in CloseStatuses(c)

\* axil_close(): the peer ended, or the program.
Teardown ==
  /\ c.open
  /\ c' \in Closes(c)

\* axil_ws_upgrade() of the next connection with this number.
Upgrade ==
  /\ ~c.open
  /\ c' = Fresh

Next ==
  \/ \E n \in 0..MaxPayload : WsWrite(n)
  \/ Flush
  \/ AppClose
  \/ Teardown
  \/ Upgrade

Spec == Init /\ [][Next]_vars

-----------------------------------------------------------------------------
(* Properties.                                                              *)

IsData(b) == b[1] # 0

\* Sequences, one after the other.
Flat(w) ==
  LET all[k \in 0..Len(w)] == IF k = 0 THEN <<>> ELSE all[k - 1] \o w[k]
  IN  all[Len(w)]

\* What of these bytes is messages.
Data(bytes) ==
  Flat([k \in 1..Len(bytes) |-> IF IsData(bytes[k]) THEN <<bytes[k]>> ELSE <<>>])

\* Every message written, in order.
Messages(sizes) == Flat([k \in 1..Len(sizes) |-> Header(k) \o Payload(k, sizes[k])])

Written == Messages(c.sizes)

\* Until a Close is sent, what is on the wire and what is queued are together
\* the messages written, whole, in order and each once, with nothing between
\* their bytes (ws_write() through axil_low_write(): "neither half is lost to
\* EAGAIN").  A Close goes past the queue, so that it may come inside a message of
\* which a part is still queued; of the bytes but the Close's it stays true that
\* none is lost, repeated or overtaken while the connection lives, and that the
\* wire has a beginning of the messages when it is gone.
MessagesWhole ==
  LET data == Data(c.wire)
  IN  /\ ~c.closeSent => c.wire \o c.queue = Written
      /\ IF c.open THEN data \o c.queue = Written
         ELSE data = SubSeq(Written, 1, Len(data))

\* ws_write() returns -1 exactly when the connection is gone, and otherwise
\* the size of the frame it has written or queued: -1 never stands for bytes
\* that will still be sent, nor a size for bytes that never will.
HonestReturn ==
  [][c.open /\ Len(c'.sizes) > Len(c.sizes)
       => IF c'.open THEN c'.ret = c'.sizes[Len(c'.sizes)] + 1 ELSE c'.ret = -1]_vars

=============================================================================
