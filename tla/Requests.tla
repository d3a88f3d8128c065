------------------------------ MODULE Requests ------------------------------
(***************************************************************************)
(* How libaxil assembles requests: axil_read() and stash_head() gather the *)
(* head, descr_read() answers one that is too long, buffer_post_body()     *)
(* gathers the body.  All connections go through the one buffer `input`,   *)
(* which grows as it is filled and is shrunk by any axil_close(); a head   *)
(* that has only partly arrived waits in a stash of its connection.        *)
(*                                                                         *)
(* The event loop visits one connection at a time: `reader` is the         *)
(* function it is in.  Each read is a step: it returns some of the bytes   *)
(* the peer has sent, EAGAIN, or the end.  realloc() may fail.             *)
(***************************************************************************)
EXTENDS Integers, Sequences, FiniteSets

CONSTANTS
  Conns,       \* connections (descriptor numbers)
  Streams,     \* what a peer may send: sequences over Kinds
  BufSize,     \* BUFSIZ, the most one read returns
  FirstSize,   \* FIRST_INPUT_SIZE
  MaxHead,     \* MAX_REQUEST_HEAD
  MaxBody,     \* axil_config.max_body_size
  MaxStalls,   \* MAX_BODY_STALL_RETRIES
  Slow         \* may a response stay queued, or deferred, after its handler?

\* Bytes: CR, LF, the first of a POST's, PUT's or DELETE's name, one of a
\* Content-Length header's value, any other.
Kinds == {"r", "n", "b", "c", "x"}

RequestsAssumption ==
  /\ Streams \subseteq Seq(Kinds)
  /\ BufSize \in Nat \ {0}
  /\ FirstSize \in Nat \ {0}
  /\ MaxHead \in Nat
  /\ MaxBody \in Nat
  /\ MaxStalls \in Nat
  /\ Slow \in BOOLEAN

\* Line ends are CR LF; cmd_new() and headers_get() know no other.
CrLf ==
  \A s \in Streams : \A i \in 1..Len(s) : s[i] = "n" => i > 1 /\ s[i - 1] = "r"

VARIABLES
  conn,     \* descr_map[]: the read side of each connection
  input,    \* the shared buffer: its size and the bytes input[0..input_len)
  reader    \* where the event loop is

vars == <<conn, input, reader>>

\* descr_new(): nothing read, no stash.  pos counts the bytes read from the
\* stream; start is history, the value of pos when the last head was taken.
Fresh(s) ==
  [open |-> TRUE, accepted |-> TRUE, toClose |-> FALSE, stream |-> s,
   pos |-> 0, start |-> 0, head |-> <<>>, headCap |-> 0]

Closed ==
  [open |-> FALSE, accepted |-> FALSE, toClose |-> FALSE, stream |-> <<>>,
   pos |-> 0, start |-> 0, head |-> <<>>, headCap |-> 0]

\* No connection is being served.
Idle == [at |-> "idle"]
At(where, c) == [at |-> where, fd |-> c, stalls |-> 0]

Init ==
  /\ conn = [c \in Conns |-> Closed]
  /\ input = [size |-> FirstSize, data |-> <<>>]
  /\ reader = Idle

-----------------------------------------------------------------------------
(* The bytes.  Byte i of connection c's stream is <<c, i>>.                 *)

KindsOf(data) == [i \in 1..Len(data) |-> conn[data[i][1]].stream[data[i][2]]]

\* The bytes the connection's next read returns, n of them.
NextBytes(c, n) == [i \in 1..n |-> <<c, conn[c].pos + i>>]

\* How many bytes a read may return.
Readable(c) ==
  {n \in 1..BufSize : conn[c].pos + n <= Len(conn[c].stream)}

\* Mutant of HeadComplete: only a blank line at the very end counts.
HeadCompleteAtEnd(k) ==
  /\ Len(k) >= 4
  /\ k[Len(k)] = "n" /\ k[Len(k) - 1] = "r" /\ k[Len(k) - 2] = "n"

\* head_complete(): LF LF or LF CR LF, anywhere in what has been gathered.
HeadComplete(k) ==
  /\ Len(k) >= 4
  /\ \E i \in 1..(Len(k) - 1) :
       /\ k[i] = "n"
       /\ \/ k[i + 1] = "n"
          \/ i + 2 <= Len(k) /\ k[i + 1] = "r" /\ k[i + 2] = "n"

\* A blank line ends at j.
EndsHead(k, j) == k[j] = "n" /\ k[j - 1] = "r" /\ k[j - 2] = "n"

\* Where headers_get() leaves body_start + 1: past the first blank line.
HeadEnd(k) ==
  CHOOSE j \in 4..Len(k) :
    EndsHead(k, j) /\ \A h \in 4..(j - 1) : ~EndsHead(k, h)

\* HTTP_CONTENT_LENGTH: as many as the head has "c" bytes.
ContentLength(k) == Cardinality({i \in 1..HeadEnd(k) : k[i] = "c"})

\* req_flags & (AXIL_POST | AXIL_PUT | AXIL_DELETE): the body is waited for.
Buffers(k) == k[1] = "b"

\* Of a GET or a HEAD nothing is, whatever it declares.
Awaited(k) == IF Buffers(k) THEN ContentLength(k) ELSE 0

\* buffer_post_body()'s needed: the head and the declared body.
Needed == LET k == KindsOf(input.data) IN HeadEnd(k) + Awaited(k)

-----------------------------------------------------------------------------
(* The shared buffer.                                                       *)

\* What realloc() leaves: the new size, or the old one when it fails.
Clear(size) == [size |-> size, data |-> <<>>]

\* The end of axil_close(): an input that grew excessively is shrunk.
AfterClose ==
  IF input.size > FirstSize * 4 THEN {Clear(FirstSize), Clear(input.size)}
  ELSE {Clear(input.size)}

\* The reader closes its connection.
CloseReader ==
  /\ conn' = [conn EXCEPT ![reader.fd] = Closed]
  /\ input' \in AfterClose
  /\ reader' = Idle

\* The reader leaves its connection open, with this record.
Leave(d) ==
  /\ conn' = [conn EXCEPT ![reader.fd] = d]
  /\ input' = Clear(input.size)
  /\ reader' = Idle

\* axil_respond(): the peer takes it all and the connection is closed, or some
\* of it stays queued and the connection open until Drained.
Respond(d) ==
  \/ CloseReader
  \/ Slow /\ Leave([d EXCEPT !.toClose = TRUE])

-----------------------------------------------------------------------------
(* axil_read() and stash_head().                                            *)

Accept(c, s) ==
  /\ reader = Idle
  /\ ~conn[c].open
  /\ conn' = [conn EXCEPT ![c] = Fresh(s)]
  /\ UNCHANGED <<input, reader>>

\* The buffer a stash of n bytes is copied back to.
ResumedSize(n) == IF n >= input.size THEN n * 2 + 1 ELSE input.size

\* descr_read() and the start of axil_read(): the stash goes back to input.
StartRead(c) ==
  /\ reader = Idle
  /\ conn[c].open /\ conn[c].accepted
  /\ LET n == Len(conn[c].head) IN
       /\ input' = [size |-> ResumedSize(n), data |-> conn[c].head]
       /\ reader' = At("head", c)
  /\ UNCHANGED conn

\* Its realloc() fails.
StartReadFails(c) ==
  /\ reader = Idle
  /\ conn[c].open /\ conn[c].accepted
  /\ Len(conn[c].head) >= input.size
  /\ Len(conn[c].head) > 0
  /\ conn' = [conn EXCEPT ![c] = Closed]
  /\ input' \in AfterClose
  /\ UNCHANGED reader

\* The bound on a head: this read would pass it.
TooLong(n) == Len(input.data) + n > MaxHead

GrownSize(n) ==
  IF Len(input.data) + n >= input.size THEN input.size * 2 + n + 1
  ELSE input.size

\* n more bytes of the head arrive.  The stash is dropped once it is complete.
ReadHead(n) ==
  /\ reader.at = "head"
  /\ n \in Readable(reader.fd)
  /\ ~TooLong(n)
  /\ LET c == reader.fd
         d == [conn[c] EXCEPT !.pos = @ + n]
         data == input.data \o NextBytes(c, n)
     IN /\ input' = [size |-> GrownSize(n), data |-> data]
        /\ IF HeadComplete(KindsOf(data))
           THEN /\ conn' = [conn EXCEPT ![c] = [d EXCEPT !.head = <<>>]]
                /\ reader' = At("route", c)
           ELSE /\ conn' = [conn EXCEPT ![c] = d]
                /\ UNCHANGED reader

ReadHeadNoMemory(n) ==
  /\ reader.at = "head"
  /\ n \in Readable(reader.fd)
  /\ ~TooLong(n)
  /\ GrownSize(n) # input.size
  /\ CloseReader

\* EMSGSIZE: descr_read() answers 431.  The bytes are gone, the stash stays.
ReadHeadTooLong(n) ==
  /\ reader.at = "head"
  /\ n \in Readable(reader.fd)
  /\ TooLong(n)
  /\ Respond([conn[reader.fd] EXCEPT !.pos = @ + n])

\* Mutant of StashCap: doubling is not clamped.
StashCapUnclamped(d, n) ==
  IF n <= d.headCap THEN d.headCap
  ELSE IF d.headCap * 2 < n THEN n ELSE d.headCap * 2

\* The capacity stash_head() gives a stash of n bytes.
StashCap(d, n) ==
  LET twice == IF d.headCap * 2 < n THEN n ELSE d.headCap * 2
  IN  IF n <= d.headCap THEN d.headCap
      ELSE IF twice > MaxHead THEN MaxHead ELSE twice

\* Mutant of Stashed: only the bytes this pass read replace the stash.
StashedTail(d) ==
  LET n == Len(input.data)
  IN  [d EXCEPT !.head = SubSeq(input.data, Len(d.head) + 1, n),
                !.headCap = StashCap(d, n)]

Stashed(d) ==
  LET n == Len(input.data)
  IN  IF n = 0 THEN d
      ELSE [d EXCEPT !.head = input.data, !.headCap = StashCap(d, n)]

\* EAGAIN mid-head: what there is goes to the stash.
ReadHeadAgain ==
  /\ reader.at = "head"
  /\ Leave(Stashed(conn[reader.fd]))

\* EOF, an error, or a stash that will not grow: errno is not EAGAIN.
ReadHeadEnds ==
  /\ reader.at = "head"
  /\ CloseReader

-----------------------------------------------------------------------------
(* cmd_parse(), request_handle() and buffer_post_body().                    *)

\* cmd_new(): a text that begins with a line end has no first line.
HasCommand == KindsOf(input.data)[1] \notin {"r", "n"}

\* cmd_proc() has no command of this name: nothing is answered; or it is the
\* preface of HTTP/2, and the connection is closed.
RouteIgnored ==
  /\ reader.at = "route"
  /\ \/ Leave([conn[reader.fd] EXCEPT !.start = conn[reader.fd].pos])
     \/ HasCommand /\ CloseReader

\* buffer_post_body() starts, if it is called; without a Content-Length it returns
\* at once.
RouteRequest ==
  /\ reader.at = "route" /\ HasCommand
  /\ LET n == Awaited(KindsOf(input.data)) IN
       /\ n <= MaxBody
       /\ reader' = At(IF n = 0 THEN "handler" ELSE "body", reader.fd)
  /\ UNCHANGED <<conn, input>>

\* 413: axil_set_flags() leaves DF_TO_CLOSE the only flag.
RouteTooLarge ==
  /\ reader.at = "route" /\ HasCommand
  /\ Awaited(KindsOf(input.data)) > MaxBody
  /\ Respond([conn[reader.fd] EXCEPT !.start = conn[reader.fd].pos,
                                    !.accepted = FALSE])

BodySize(n) ==
  IF Len(input.data) + n > input.size THEN (Len(input.data) + n) * 2
  ELSE input.size

ReadBody(n) ==
  /\ reader.at = "body"
  /\ Len(input.data) < Needed
  /\ n \in Readable(reader.fd)
  /\ input' = [size |-> BodySize(n),
               data |-> input.data \o NextBytes(reader.fd, n)]
  /\ conn' = [conn EXCEPT ![reader.fd].pos = @ + n]
  /\ UNCHANGED reader

\* Mutant of Stall: a stall costs nothing.
StallFree(r) == r

Stall(r) == [r EXCEPT !.stalls = @ + 1]

\* Mutant of MayStall: one retry too many.
MayStallOnce(r) == r.stalls <= MaxStalls

MayStall(r) == r.stalls < MaxStalls

\* EAGAIN within the budget: sleep and retry.
ReadBodyStalls ==
  /\ reader.at = "body"
  /\ Len(input.data) < Needed
  /\ MayStall(reader)
  /\ reader' = Stall(reader)
  /\ UNCHANGED <<conn, input>>

\* EAGAIN past the budget.
ReadBodyGivesUp ==
  /\ reader.at = "body"
  /\ Len(input.data) < Needed
  /\ ~MayStall(reader)
  /\ CloseReader

\* EOF, an error, or no memory.
ReadBodyEnds ==
  /\ reader.at = "body"
  /\ Len(input.data) < Needed
  /\ CloseReader

\* The loop's exit.
BodyDone == Len(input.data) >= Needed

\* The body is terminated at its declared end, which is within what was read, and
\* the handler called.
ReadBodyDone ==
  /\ reader.at = "body"
  /\ BodyDone
  /\ reader' = [reader EXCEPT !.at = "handler"]
  /\ UNCHANGED <<conn, input>>

\* The handler answers (or, Slow, defers its answer).
Handle ==
  /\ reader.at = "handler"
  /\ Respond([conn[reader.fd] EXCEPT !.start = conn[reader.fd].pos])

\* axil_write_remaining() sends the last of a response, or fails.
Drained(c) ==
  /\ reader = Idle
  /\ conn[c].open /\ conn[c].toClose
  /\ conn' = [conn EXCEPT ![c] = Closed]
  /\ input' \in AfterClose
  /\ UNCHANGED reader

\* What the loop does even if the peers say nothing more.
Silent ==
  \/ ReadHeadAgain
  \/ RouteIgnored
  \/ RouteRequest
  \/ RouteTooLarge
  \/ ReadBodyStalls
  \/ ReadBodyGivesUp
  \/ ReadBodyDone
  \/ Handle

Next ==
  \/ Silent
  \/ \E n \in 1..BufSize :
       ReadHead(n) \/ ReadHeadNoMemory(n) \/ ReadHeadTooLong(n) \/ ReadBody(n)
  \/ ReadHeadEnds
  \/ ReadBodyEnds
  \/ \E c \in Conns :
       \/ \E s \in Streams : Accept(c, s)
       \/ StartRead(c)
       \/ StartReadFails(c)
       \/ Drained(c)

Spec == Init /\ [][Next]_vars

\* The event loop is one thread: it does not stop inside a function, and a
\* socket with nothing to read says so.
Fairness == WF_vars(Silent)

FairSpec == Spec /\ Fairness

-----------------------------------------------------------------------------
(* Properties.                                                              *)

Connection ==
  [open : BOOLEAN, accepted : BOOLEAN, toClose : BOOLEAN,
   stream : Streams \cup {<<>>}, pos : Nat, start : Nat,
   head : Seq(Conns \X Nat), headCap : Nat]

\* Every variable has its type.
TypeOK ==
  /\ conn \in [Conns -> Connection]
  /\ \A c \in Conns :
       conn[c].pos <= Len(conn[c].stream) /\ conn[c].start <= conn[c].pos
  /\ input \in [size : Nat, data : Seq(Conns \X Nat)]
  /\ reader \in {Idle} \cup [at : {"head", "route", "body", "handler"},
                             fd : Conns, stalls : 0..MaxStalls]

\* Bytes a..b of c's stream.
Slice(c, a, b) == [i \in 1..(b - a) |-> <<c, a + i>>]

\* What has been gathered of c's current request: in input while it is read,
\* in its stash between two visits.
Gathered(c) ==
  IF reader # Idle /\ reader.fd = c THEN input.data ELSE conn[c].head

\* A request is made of the bytes of its own connection, in order, each once
\* and none missing, however the network cuts it and whichever connections
\* are read through the same buffer in between (axil_read(), stash_head()).
GatheredInOrder ==
  \A c \in Conns : Gathered(c) = Slice(c, conn[c].start, conn[c].pos)

\* A head whose blank line has arrived never waits in a stash, wherever the
\* cut fell, a cut through the blank line included (head_complete()).
NoCompleteHeadWaits ==
  \A c \in Conns :
    LET k == KindsOf(conn[c].head)
    IN  ~\E i \in 1..(Len(k) - 3) : SubSeq(k, i, i + 3) = <<"r", "n", "r", "n">>

\* The bytes written to input fit it: strictly, with the terminator that
\* axil_read() and cmd_new() write, until a body is read after them; and a
\* stash fits its allocation (axil_close() of another connection may have
\* shrunk input since the stash was made).
InBounds ==
  /\ reader.at \in {"head", "route"} /\ Len(input.data) > 0
       => Len(input.data) < input.size
  /\ Len(input.data) <= input.size
  /\ \A c \in Conns : Len(conn[c].head) <= conn[c].headCap

\* However a peer dribbles its head, and whatever bodies pass through, memory
\* stays bounded (MAX_REQUEST_HEAD's two uses, axil_read()'s bound before
\* growing, max_body_size).
MemoryBounded ==
  /\ \A c \in Conns : conn[c].headCap <= MaxHead
  /\ input.size <= FirstSize \/ input.size <= 2 * (MaxHead + MaxBody + BufSize)
                             \/ input.size <= 3 * MaxHead + 1

\* A handler is called with a whole head, and a POST's, PUT's or DELETE's with all
\* of the body that the head declares, or not at all when that is more than
\* max_body_size (buffer_post_body()).  A GET's or a HEAD's body is not waited for:
\* its handler has what came with the head.
BodyWhole ==
  reader.at = "handler" =>
    LET k == KindsOf(input.data) IN
      /\ HeadComplete(k)
      /\ Buffers(k) => /\ Len(k) >= HeadEnd(k) + ContentLength(k)
                       /\ ContentLength(k) <= MaxBody

RequestsWhole == GatheredInOrder /\ BodyWhole

BuffersBounded == InBounds /\ MemoryBounded

\* What the two rest on.  Bytes of c that it has read:
ReadFrom(data, c) ==
  \A i \in 1..Len(data) : data[i][1] = c /\ data[i][2] \in 1..conn[c].pos

\* The buffer holds the reader's bytes and nothing between two visits, a stash
\* its connection's.
BytesOwned ==
  /\ IF reader = Idle THEN input.data = <<>> ELSE ReadFrom(input.data, reader.fd)
  /\ \A c \in Conns : ReadFrom(conn[c].head, c)

\* A head is read until it is complete, within its bound, and is in one place.
HeadsCut ==
  /\ \A c \in Conns : ~HeadComplete(KindsOf(conn[c].head))
  /\ reader.at = "head" =>
       /\ ~HeadComplete(KindsOf(input.data))
       /\ Len(conn[reader.fd].head) <= Len(input.data)
  /\ reader.at \in {"route", "body", "handler"} =>
       HeadComplete(KindsOf(input.data)) /\ conn[reader.fd].head = <<>>
  /\ reader.at \in {"head", "route"} => Len(input.data) <= MaxHead

\* A body is read for a head that headers_get() finds the end of.
BodyKnown ==
  reader.at \in {"body", "handler"} =>
    LET k == KindsOf(input.data) IN
      /\ \E j \in 4..Len(k) : EndsHead(k, j)
      /\ HeadEnd(k) <= MaxHead
      /\ Awaited(k) <= MaxBody

\* Whatever the peers send or do not, the event loop gets back to select():
\* no head and no body holds it, because nothing waits on a silent peer but
\* buffer_post_body(), whose stalls are counted (MAX_BODY_STALL_RETRIES).
LoopReturns == reader # Idle ~> reader = Idle

=============================================================================
