----------------------------- MODULE WriteQueue -----------------------------
(***************************************************************************)
(* The write side of one descriptor slot of libaxil: the queue             *)
(* remaining/remaining_off/remaining_len/remaining_size of struct descr,   *)
(* axil_rem_may_inc(), axil_low_write(), axil_write_remaining(), and the   *)
(* responses that drive them (axil_respond(), the deferred responses,      *)
(* static_write()) up to the axil_close() that frees the queue.            *)
(*                                                                         *)
(* The kernel's send() and realloc() are nondeterministic: send() takes    *)
(* all, some or none of the bytes or fails, realloc() fails or not.  An    *)
(* operator in the plural (Flushes, LowWrites, ...) is the set of states   *)
(* a C function can return in, over those choices; a handler that makes    *)
(* several calls composes these sets in the order of the calls.            *)
(***************************************************************************)
EXTENDS Integers, Sequences

CONSTANTS
  QueueSize,   \* bytes descr_new() allocates: BUFSIZ * 1024
  MaxWrite,    \* bound: largest single write
  MaxBytes,    \* bound: bytes the program tries to write on one connection
  MaxChunks,   \* bound: reads static_write() makes of one file
  Handlers     \* the kinds of handler the requests reach

ASSUME ConstantsAssumption ==
  /\ QueueSize \in Nat \ {0}
  /\ MaxWrite \in Nat \ {0}
  /\ MaxBytes \in Nat
  /\ MaxChunks \in Nat
  /\ Handlers \subseteq {"respond", "file", "static", "defer", "write"}

VARIABLE
  d    \* descr_map[fd] (open: d->fd == fd), with history fields

vars == <<d>>

Causes == {"none", "drained", "error", "nomem", "closed"}

-----------------------------------------------------------------------------
(* The slot.  A byte is the number of its place in the accepted stream; a   *)
(* cell of the buffer nothing was copied to holds 0.                        *)

\* descr_new(): an empty queue in a fresh buffer, and no flag of before.
FreshDescr ==
  [open |-> TRUE, toClose |-> FALSE, deferred |-> FALSE,
   off |-> 0, len |-> 0, size |-> QueueSize,
   buf |-> [i \in 0..(QueueSize - 1) |-> 0],
   chunks |-> 0,
   accepted |-> 0, tried |-> 0, wire |-> <<>>, pipelined |-> FALSE,
   cause |-> "none", early |-> FALSE]

\* What is left of the buffer once it is freed.
NoBuffer == [i \in {} |-> 0]

\* axil_close(): the guard that makes it idempotent, then free(d->remaining)
\* and the memset.  cause and early are history: why, and whether a deferred
\* response was still pending.
Close(c, why) ==
  IF ~c.open THEN c
  ELSE [c EXCEPT !.open = FALSE, !.toClose = FALSE, !.deferred = FALSE,
                 !.off = 0, !.len = 0, !.size = 0, !.buf = NoBuffer,
                 !.cause = why, !.early = c.deferred]

-----------------------------------------------------------------------------
(* axil_write_remaining().                                                  *)

\* Mutants of Sent: a done response closes with its first send(); a drained one
\* is left open.
SentAndGone(c, k) ==
  LET e == [c EXCEPT !.wire = @ \o [i \in 1..k |-> c.buf[c.off + i - 1]],
                     !.len = @ - k,
                     !.off = IF k = c.len THEN 0 ELSE @ + k]
  IN  IF c.toClose THEN Close(e, "drained") ELSE e

SentLeftOpen(c, k) ==
  [c EXCEPT !.wire = @ \o [i \in 1..k |-> c.buf[c.off + i - 1]],
            !.len = @ - k,
            !.off = IF k = c.len THEN 0 ELSE @ + k]

\* send() took the first k bytes of the queue.
Sent(c, k) ==
  LET e == [c EXCEPT !.wire = @ \o [i \in 1..k |-> c.buf[c.off + i - 1]],
                     !.len = @ - k,
                     !.off = IF k = c.len THEN 0 ELSE @ + k]
  IN  IF k = c.len /\ c.toClose THEN Close(e, "drained") ELSE e

Flushes(c) ==
  IF c.len = 0 THEN {c}
  ELSE {c, Close(c, "error")} \cup {Sent(c, k) : k \in 1..c.len}

-----------------------------------------------------------------------------
(* axil_rem_may_inc(): room for n more bytes after the queued ones.         *)

TailRoom(c) == c.size - (c.off + c.len)

\* memmove() of the queued bytes to the start of the buffer.
Compact(c) ==
  [c EXCEPT !.off = 0,
            !.buf = [i \in 0..(c.size - 1) |->
                       IF i < c.len THEN c.buf[c.off + i] ELSE c.buf[i]]]

\* The size the doubling loop stops at: the first size * 2^k above need.
DoubledSizes(size, need) ==
  {s \in (need + 1)..(2 * need) : \E k \in 1..need : s = size * 2^k}

\* Mutant of Realloc: a new buffer, the queued bytes not copied.
ReallocFresh(c, size) ==
  [c EXCEPT !.size = size, !.buf = [i \in 0..(size - 1) |-> 0]]

Realloc(c, size) ==
  [c EXCEPT !.size = size,
            !.buf = [i \in 0..(size - 1) |->
                       IF i < c.size THEN c.buf[i] ELSE 0]]

MustGrow(c, n) == c.size - c.len < n

\* Mutant of Rooms, and the bug its comment tells of: a failed realloc() reads
\* as success.
RoomsUnchecked(c, n) == IF TailRoom(c) >= n THEN {c} ELSE {Compact(c)}

\* The states it returns 0 in.
Rooms(c, n) ==
  IF TailRoom(c) >= n THEN {c}
  ELSE IF ~MustGrow(c, n) THEN {Compact(c)}
  ELSE {Realloc(Compact(c), s) : s \in DoubledSizes(c.size, c.len + n)}

\* The states its callers close in when it returns -1: realloc() failed.
NoRooms(c, n) == IF MustGrow(c, n) THEN {Close(c, "nomem")} ELSE {}

-----------------------------------------------------------------------------
(* axil_low_write().                                                        *)

\* memcpy(d->remaining + at, ...) of the n bytes numbered first, first+1, ...
\* It writes n cells whether or not the buffer has them.
Memcpy(buf, at, first, n) ==
  [i \in (DOMAIN buf) \cup (at..(at + n - 1)) |->
     IF i \in at..(at + n - 1) THEN first + (i - at) ELSE buf[i]]

\* Bytes are already queued: append, then try to flush.
Appended(c, n) ==
  [c EXCEPT !.buf = Memcpy(@, c.off + c.len, c.accepted - n + 1, n),
            !.len = @ + n]

\* Nothing was queued: the n bytes send() left over become the queue.
Queued(c, n) ==
  [c EXCEPT !.buf = Memcpy(@, 0, c.accepted - n + 1, n),
            !.off = 0,
            !.len = n]

\* send() took k of the n bytes just accepted, straight from the caller.
Direct(c, k, n) ==
  [c EXCEPT !.wire = @ \o [i \in 1..k |-> c.accepted - n + i]]

Accept(c, n) == [c EXCEPT !.accepted = @ + n]

Appends(c, n) ==
  NoRooms(c, n) \cup UNION {Flushes(Appended(e, n)) : e \in Rooms(c, n)}

\* k = 0 is EAGAIN, EINTR or a send() of nothing: all of it is queued.
Sends(c, n) ==
  {Close(c, "error"), Direct(c, n, n)} \cup
  UNION {LET e == Direct(c, k, n)
         IN  NoRooms(e, n - k) \cup {Queued(f, n - k) : f \in Rooms(e, n - k)}
           : k \in 0..(n - 1)}

\* On a number that was closed, send() fails and axil_close() returns at its
\* guard: the bytes are dropped.
LowWrites(c, n) ==
  LET t == [c EXCEPT !.tried = @ + n]
  IN  IF ~c.open THEN {t}
      ELSE IF c.len > 0 THEN Appends(Accept(t, n), n)
      ELSE Sends(Accept(t, n), n)

-----------------------------------------------------------------------------
(* What the responses do with the queue.                                    *)

MarkToClose(c) == [c EXCEPT !.toClose = TRUE]

\* request_handle(): the descriptor is marked before the handler is called.
Request(c) == [MarkToClose(c) EXCEPT !.pipelined = @ \/ c.toClose]

\* The end of axil_respond() and of the deferred responses.
Finishes(c) ==
  IF c.len = 0 THEN {Close(MarkToClose(c), "drained")}
  ELSE Flushes(MarkToClose(c))

\* axil_respond(): head and body in one write, or in two above 64 KiB.
Responds(c, n) ==
  UNION {Finishes(e) :
    e \in LowWrites(c, n) \cup
          UNION {LowWrites(f, n - 1) : f \in IF n > 1 THEN LowWrites(c, 1) ELSE {}}}

\* axil_respond_defer(): refused (NULL) when a response is already deferred.
Defers(c, n) ==
  IF c.deferred THEN {c}
  ELSE {[e EXCEPT !.deferred = TRUE] : e \in LowWrites(c, n)}

\* axil_respond_defer_done(): a number with no deferred response is left alone.
Dones(c) ==
  IF c.deferred THEN Finishes([c EXCEPT !.deferred = FALSE]) ELSE {c}

\* Mutant of RespondFiles, and the bug its comment tells of: the response is
\* done before the file is queued.
RespondFilesHeadOnly(c, n) ==
  IF c.deferred THEN {c}
  ELSE UNION {LowWrites(e, n - 1) : e \in UNION {Dones(f) : f \in Defers(c, 1)}}

\* axil_respond_file(): a deferred head, the whole file, done().
RespondFiles(c, n) ==
  IF c.deferred THEN {c}
  ELSE UNION {Dones(e) : e \in UNION {LowWrites(f, n - 1) : f \in Defers(c, 1)}}

\* The end of static_write(), and of static_not_modified().
StaticEnd(c) ==
  IF c.toClose /\ c.len = 0 THEN Close(c, "drained") ELSE c

-----------------------------------------------------------------------------
(* The actions.  The daemon is one thread: while static_write() loops over  *)
(* its file (chunks > 0) nothing else runs.                                 *)

Idle == d.chunks = 0

CanWrite(n) == d.tried + n <= MaxBytes

\* descr_new() on the number the closed connection had.
DescrNew ==
  /\ Idle
  /\ ~d.open
  /\ d' = FreshDescr

\* request_handle() marks the descriptor, then calls what the route names.
HandleRespond ==
  /\ Idle /\ d.open /\ "respond" \in Handlers
  /\ \E n \in 1..MaxWrite :
       CanWrite(n) /\ d' \in Responds(Request(d), n)

HandleRespondFile ==
  /\ Idle /\ d.open /\ "file" \in Handlers
  /\ \E n \in 2..MaxWrite :
       CanWrite(n) /\ d' \in RespondFiles(Request(d), n)

\* A handler that defers its response to a later turn of the event loop.
HandleDefer ==
  /\ Idle /\ d.open /\ "defer" \in Handlers
  /\ \E n \in 1..MaxWrite :
       CanWrite(n) /\ d' \in Defers(Request(d), n)

\* request_handle_static(): the head and the first read of the file go out in
\* one write, and static_write() enters its loop; a 304, a HEAD and a file of
\* one read make no further write.
HandleStatic ==
  /\ Idle /\ d.open /\ "static" \in Handlers
  /\ \E n \in 1..MaxWrite, more \in 0..MaxChunks :
       /\ CanWrite(n + more)
       /\ \E e \in LowWrites(Request(d), n) :
            d' = IF more = 0 THEN StaticEnd(e) ELSE [e EXCEPT !.chunks = more]

\* One turn of that loop: axil_write() of the next read, its result unused.
StaticChunk ==
  /\ ~Idle
  /\ \E e \in LowWrites(d, 1) :
       LET f == [e EXCEPT !.chunks = d.chunks - 1]
       IN  d' = IF d.chunks = 1 THEN StaticEnd(f) ELSE f

\* axil_write() outside a request: a deferred response streamed in parts, a
\* pty's or a watched descriptor's output, a WebSocket frame.
AppWrite ==
  /\ Idle /\ "write" \in Handlers
  /\ \E n \in 1..MaxWrite : CanWrite(n) /\ d' \in LowWrites(d, n)

DeferFinish ==
  /\ Idle /\ d.deferred
  /\ \E n \in 1..MaxWrite :
       /\ CanWrite(n)
       /\ \E e \in LowWrites([d EXCEPT !.deferred = FALSE], n) :
            d' \in Finishes(e)

DeferDone ==
  /\ Idle /\ d.deferred
  /\ d' \in Dones(d)

DeferAbort ==
  /\ Idle /\ d.deferred
  /\ d' = Close([d EXCEPT !.deferred = FALSE], "closed")

\* axil_main(): every turn starts by flushing every non-empty queue.
Flush ==
  /\ Idle /\ d.len > 0
  /\ d' \in Flushes(d)

\* The peer went away, or a module closed the descriptor.
CloseNow ==
  /\ Idle /\ d.open
  /\ d' = Close(d, "closed")

Init == d = FreshDescr

Next ==
  \/ DescrNew \/ CloseNow \/ Flush \/ AppWrite
  \/ HandleRespond \/ HandleRespondFile \/ HandleDefer \/ HandleStatic \/ StaticChunk
  \/ DeferFinish \/ DeferDone \/ DeferAbort

Spec == Init /\ [][Next]_vars

\* The event loop flushes every queue each turn and the peer keeps reading; a
\* handler's loop runs to its end.
FairSpec == Spec /\ WF_vars(Flush) /\ WF_vars(StaticChunk)

-----------------------------------------------------------------------------
(* Properties.                                                              *)

\* What every operator above preserves.  A slot is a record of these fields; an
\* open one has a buffer of remaining_size bytes that holds the queue, the queue
\* is the accepted bytes the kernel has not taken, and the wire shows the bytes
\* before them; a closed one has no queue, and nothing unsent if it drained.
Fields ==
  {"open", "toClose", "deferred", "off", "len", "size", "buf", "chunks",
   "accepted", "tried", "wire", "pipelined", "cause", "early"}

Flags(c) ==
  /\ c.open \in BOOLEAN /\ c.toClose \in BOOLEAN /\ c.deferred \in BOOLEAN
  /\ c.pipelined \in BOOLEAN /\ c.early \in BOOLEAN
  /\ c.cause \in Causes

Counts(c) ==
  /\ c.off \in Nat /\ c.len \in Nat /\ c.size \in Nat
  /\ c.chunks \in Nat /\ c.accepted \in Nat /\ c.tried \in Nat

Bytes(c) ==
  /\ c.buf \in [0..(c.size - 1) -> Nat]
  /\ c.wire \in Seq(Nat)

InOrder(c) == \A i \in 1..Len(c.wire) : c.wire[i] = i

Typed(c) == DOMAIN c = Fields /\ Flags(c) /\ Counts(c) /\ Bytes(c)

Queue(c) ==
  /\ c.off + c.len <= c.size
  /\ c.accepted = Len(c.wire) + c.len
  /\ \A i \in 0..(c.len - 1) : c.buf[c.off + i] = Len(c.wire) + 1 + i

NoQueue(c) ==
  /\ c.len = 0
  /\ Len(c.wire) <= c.accepted
  /\ c.cause = "drained" => Len(c.wire) = c.accepted

Sound(c) ==
  /\ Typed(c)
  /\ InOrder(c)
  /\ IF c.open THEN Queue(c) ELSE NoQueue(c)

IndInv == Sound(d)

\* Every field has its type, and the buffer is as long as remaining_size says:
\* no memcpy() of axil_low_write() wrote past what axil_rem_may_inc() made.
TypeOK == Typed(d)

\* The queued bytes lie inside the allocation, whatever compaction and growth
\* axil_rem_may_inc() did to make room for them.
QueueInBounds == d.open => d.off + d.len <= d.size

\* On an open connection nothing is lost, repeated or reordered: the queue is
\* exactly the accepted bytes the kernel has not taken, at remaining_off.
QueueIsTheRest ==
  d.open =>
    /\ d.accepted = Len(d.wire) + d.len
    /\ \A i \in 0..(d.len - 1) : d.buf[d.off + i] = Len(d.wire) + 1 + i

\* The peer sees the accepted bytes in order, to the end if the connection
\* ended because its queue drained: ByteStream, which WriteQueue implements.
Stream == INSTANCE ByteStream WITH
  accepted <- d.accepted,
  wire <- d.wire,
  ended <- IF d.open THEN "no" ELSE IF d.cause = "drained" THEN "flushed" ELSE "cut"

InOrderDelivery == Stream!Spec

\* A response that is done (DF_TO_CLOSE) and still queued is sent and closed,
\* or the connection breaks: it never lingers with a queue nobody flushes.
DoneResponsesClose == (d.open /\ d.toClose /\ d.len > 0) ~> ~d.open

\* When the server closes a connection because the response is out, the
\* handler had written all of it: no byte of it met a closed descriptor.  (Of
\* the only request: every response says "Connection: close".)
ResponseComplete ==
  d.cause = "drained" /\ ~d.pipelined => Len(d.wire) = d.tried

\* axil_respond_defer() keeps the connection open until finish(), done() or
\* abort(): the queue draining does not close it under the worker.
DeferredStaysOpen == ~(d.cause = "drained" /\ d.early)
=============================================================================
