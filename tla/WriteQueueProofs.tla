--------------------------- MODULE WriteQueueProofs ---------------------------
(***************************************************************************)
(* Proofs about WriteQueue, for every size of the queue and every bound.   *)
(* Each operator of WriteQueue stands for a C function; one lemma per      *)
(* operator says that, from a slot in which the queue is the unsent rest   *)
(* of the stream, every state the function can return in is such a slot    *)
(* again, and that the stream only grew.  The lemmas compose as the calls  *)
(* do, up to the actions; the theorems at the end follow.                  *)
(***************************************************************************)
EXTENDS WriteQueue, SequenceTheorems, TLAPS

\* n bytes are accepted and not yet in the queue or on the wire: the state
\* axil_low_write() is in between its steps.
Owing(c, n) ==
  /\ Typed(c)
  /\ InOrder(c)
  /\ c.open
  /\ c.off + c.len <= c.size
  /\ c.accepted = Len(c.wire) + c.len + n
  /\ \A i \in 0..(c.len - 1) : c.buf[c.off + i] = Len(c.wire) + 1 + i

\* When nothing is owed, the state between the steps of axil_low_write() is
\* that of an open slot whose queue is sound.
LEMMA OwingNothing ==
  ASSUME NEW c
  PROVE  Owing(c, 0) <=> Sound(c) /\ c.open
BY DEF Owing, Sound, Queue, Typed, Counts, Bytes

\* axil_close(), wherever a write calls it, leaves a slot with no queue; it may
\* call the end "drained" only when nothing was owed or queued.
LEMMA CloseOwing ==
  ASSUME NEW c, NEW n \in Nat, Owing(c, n), NEW why \in Causes,
         why = "drained" => n = 0 /\ c.len = 0
  PROVE  /\ Sound(Close(c, why))
         /\ Close(c, why).accepted = c.accepted /\ Close(c, why).wire = c.wire
<1> DEFINE e == Close(c, why)
<1>1. /\ DOMAIN e = Fields
      /\ e.open = FALSE /\ e.toClose = FALSE /\ e.deferred = FALSE
      /\ e.off = 0 /\ e.len = 0 /\ e.size = 0 /\ e.buf = NoBuffer
      /\ e.chunks = c.chunks /\ e.accepted = c.accepted /\ e.tried = c.tried
      /\ e.wire = c.wire /\ e.pipelined = c.pipelined
      /\ e.cause = why /\ e.early = c.deferred
  BY DEF Close, Owing, Typed, Fields
<1> HIDE DEF e
<1>2. Flags(e)
  BY <1>1 DEF Owing, Typed, Flags
<1>3. Counts(e)
  BY <1>1 DEF Owing, Typed, Counts
<1>4. Bytes(e)
  BY <1>1 DEF Owing, Typed, Bytes, NoBuffer
<1>5. InOrder(e)
  BY <1>1 DEF Owing, InOrder
<1>6. NoQueue(e)
  BY <1>1 DEF Owing, NoQueue, Typed, Counts, Bytes
<1> QED
  BY <1>1, <1>2, <1>3, <1>4, <1>5, <1>6 DEF Sound, Typed, e

\* send() of the next k bytes of the stream leaves a wire that is a prefix of it.
LEMMA WireGrows ==
  ASSUME NEW c, NEW n \in Nat, Owing(c, n), NEW k \in Nat, NEW t,
         t \in [1..k -> Nat], \A i \in 1..k : t[i] = Len(c.wire) + i
  PROVE  /\ c.wire \o t \in Seq(Nat)
         /\ Len(c.wire \o t) = Len(c.wire) + k
         /\ \A i \in 1..Len(c.wire \o t) : (c.wire \o t)[i] = i
<1>1. t \in Seq(Nat) /\ Len(t) = k
  <2>1. t \in Seq(Nat)
    BY SeqDef
  <2>2. DOMAIN t = 1..Len(t) /\ Len(t) \in Nat
    BY <2>1, LenProperties
  <2> QED
    BY <2>1, <2>2
<1>2. c.wire \in Seq(Nat) /\ Len(c.wire) \in Nat /\ InOrder(c)
  BY DEF Owing, Typed, Bytes
<1>3. /\ c.wire \o t \in Seq(Nat)
      /\ Len(c.wire \o t) = Len(c.wire) + k
      /\ \A i \in 1..(Len(c.wire) + k) :
           (c.wire \o t)[i] =
             IF i <= Len(c.wire) THEN c.wire[i] ELSE t[i - Len(c.wire)]
  BY <1>1, <1>2, ConcatProperties
<1>4. ASSUME NEW i \in 1..(Len(c.wire) + k)
      PROVE  (c.wire \o t)[i] = i
  <2>1. CASE i <= Len(c.wire)
    BY <1>2, <1>3, <2>1 DEF InOrder
  <2>2. CASE ~(i <= Len(c.wire))
    <3>1. i - Len(c.wire) \in 1..k
      BY <1>2, <2>2
    <3> QED
      BY <1>2, <1>3, <2>2, <3>1
  <2> QED
    BY <2>1, <2>2
<1> QED
  BY <1>3, <1>4

\* axil_write_remaining(): send() takes k bytes from the front of the queue and
\* what is left is still the rest of the stream, at the offset it kept.
LEMMA SentSound ==
  ASSUME NEW c, Owing(c, 0), NEW k \in 1..c.len
  PROVE  /\ Sound(Sent(c, k))
         /\ Sent(c, k).accepted = c.accepted
         /\ Len(Sent(c, k).wire) = Len(c.wire) + k
<1> DEFINE t == [i \in 1..k |-> c.buf[c.off + i - 1]]
           e == [c EXCEPT !.wire = @ \o t,
                          !.len = @ - k,
                          !.off = IF k = c.len THEN 0 ELSE @ + k]
<1>0. /\ c.off \in Nat /\ c.len \in Nat /\ c.size \in Nat /\ k \in Nat
      /\ c.buf \in [0..(c.size - 1) -> Nat]
      /\ Len(c.wire) \in Nat
      /\ c.off + c.len <= c.size /\ c.accepted = Len(c.wire) + c.len
  BY DEF Owing, Typed, Counts, Bytes
<1>1. t \in [1..k -> Nat] /\ \A i \in 1..k : t[i] = Len(c.wire) + i
  <2>1. ASSUME NEW i \in 1..k
        PROVE  c.buf[c.off + i - 1] \in Nat /\ c.buf[c.off + i - 1] = Len(c.wire) + i
    <3>1. i - 1 \in 0..(c.len - 1) /\ c.off + i - 1 = c.off + (i - 1)
      BY <1>0
    <3> QED
      BY <1>0, <3>1 DEF Owing
  <2> QED
    BY <2>1
<1> HIDE DEF t
<1>2. /\ DOMAIN e = Fields
      /\ e.open = c.open /\ e.toClose = c.toClose /\ e.deferred = c.deferred
      /\ e.off = (IF k = c.len THEN 0 ELSE c.off + k) /\ e.len = c.len - k
      /\ e.size = c.size /\ e.buf = c.buf
      /\ e.chunks = c.chunks /\ e.accepted = c.accepted /\ e.tried = c.tried
      /\ e.wire = c.wire \o t /\ e.pipelined = c.pipelined
      /\ e.cause = c.cause /\ e.early = c.early
  BY DEF Owing, Typed, Fields
<1> HIDE DEF e
<1>3. /\ e.wire \in Seq(Nat)
      /\ Len(e.wire) = Len(c.wire) + k
      /\ InOrder(e)
  <2>1. /\ c.wire \o t \in Seq(Nat)
        /\ Len(c.wire \o t) = Len(c.wire) + k
        /\ \A i \in 1..Len(c.wire \o t) : (c.wire \o t)[i] = i
    BY <1>0, <1>1, WireGrows
  <2> QED
    BY <1>2, <2>1 DEF InOrder
<1>4. Flags(e)
  BY <1>2 DEF Owing, Typed, Flags
<1>5. Counts(e)
  <2>1. e.off \in Nat /\ e.len \in Nat
    BY <1>0, <1>2
  <2> QED
    BY <1>2, <2>1 DEF Owing, Typed, Counts
<1>6. Bytes(e)
  BY <1>2, <1>3 DEF Owing, Typed, Bytes
<1>7. Owing(e, 0)
  <2>1. e.off + e.len <= e.size
    BY <1>0, <1>2
  <2>2. e.accepted = Len(e.wire) + e.len + 0 /\ e.open
    BY <1>0, <1>2, <1>3 DEF Owing
  <2>3. ASSUME NEW i \in 0..(e.len - 1)
        PROVE  e.buf[e.off + i] = Len(e.wire) + 1 + i
    <3>1. k # c.len /\ i + k \in 0..(c.len - 1) /\ e.off + i = c.off + (i + k)
      BY <1>0, <1>2
    <3>2. c.buf[c.off + (i + k)] = Len(c.wire) + 1 + (i + k)
      BY <3>1 DEF Owing
    <3>3. e.buf = c.buf
      BY <1>2
    <3>4. i \in Int
      OBVIOUS
    <3>5. e.buf[e.off + i] = Len(c.wire) + 1 + (i + k)
      BY <3>1, <3>2, <3>3
    <3>6. Len(e.wire) + 1 + i = Len(c.wire) + 1 + (i + k)
      <4>1. Len(e.wire) = Len(c.wire) + k
        BY <1>3
      <4>2. Len(c.wire) \in Int /\ k \in Int
        BY <1>0
      <4>3. ASSUME NEW a \in Int, NEW p \in Int, NEW q \in Int
            PROVE  a + q + 1 + p = a + 1 + (p + q)
        OBVIOUS
      <4>4. Len(c.wire) + k + 1 + i = Len(c.wire) + 1 + (i + k)
        BY <3>4, <4>2, <4>3
      <4> QED
        BY <4>1, <4>4
    <3> QED
      BY <3>5, <3>6
  <2> QED
    BY <1>2, <1>3, <1>4, <1>5, <1>6, <2>1, <2>2, <2>3 DEF Owing, Typed
<1>8. Sent(c, k) = IF k = c.len /\ c.toClose THEN Close(e, "drained") ELSE e
  BY DEF Sent, e, t
<1>9. CASE k = c.len /\ c.toClose
  <2>1. e.len = 0
    BY <1>0, <1>2, <1>9
  <2> QED
    <3>1. /\ Sound(Close(e, "drained"))
          /\ Close(e, "drained").accepted = e.accepted
          /\ Close(e, "drained").wire = e.wire
      BY <1>7, <2>1, CloseOwing DEF Causes
    <3> QED
      BY <1>2, <1>3, <1>8, <1>9, <3>1
<1>10. CASE ~(k = c.len /\ c.toClose)
  BY <1>2, <1>3, <1>7, <1>8, <1>10, OwingNothing
<1> QED
  BY <1>9, <1>10
-----------------------------------------------------------------------------
\* What a step may do to the history of a connection: the stream grows while it
\* is open, and nothing happens to it once it is closed.
Grows(c, e) ==
  IF c.open
    THEN e.accepted >= c.accepted /\ Len(e.wire) >= Len(c.wire)
    ELSE ~e.open /\ e.accepted = c.accepted /\ e.wire = c.wire /\ e.cause = c.cause

Steps(c, e) == Sound(e) /\ Grows(c, e)

\* The types of a sound slot's fields, as the later proofs use them.
LEMMA SoundTypes ==
  ASSUME NEW c, Sound(c)
  PROVE  /\ Typed(c) /\ c.open \in BOOLEAN
         /\ c.len \in Nat /\ c.accepted \in Nat /\ Len(c.wire) \in Nat
         /\ Len(c.wire) <= c.accepted
         /\ c.open => Owing(c, 0)
         /\ ~c.open => c.len = 0
<1>1. Typed(c) /\ c.open \in BOOLEAN /\ c.wire \in Seq(Nat)
  BY DEF Sound, Typed, Flags, Bytes
<1>2. c.len \in Nat /\ c.accepted \in Nat /\ Len(c.wire) \in Nat
  BY <1>1, LenProperties DEF Typed, Counts
<1>3. CASE c.open
  BY <1>1, <1>2, <1>3, OwingNothing DEF Sound, Queue
<1>4. CASE ~c.open
  BY <1>1, <1>2, <1>4 DEF Sound, NoQueue
<1> QED
  BY <1>1, <1>2, <1>3, <1>4

\* Two calls in a row, as a handler makes them, do together what one may do.
LEMMA StepsCompose ==
  ASSUME NEW c, NEW e, NEW f, Sound(c), Steps(c, e), Steps(e, f)
  PROVE  Steps(c, f)
<1>1. /\ c.accepted \in Nat /\ e.accepted \in Nat /\ f.accepted \in Nat
      /\ Len(c.wire) \in Nat /\ Len(e.wire) \in Nat /\ Len(f.wire) \in Nat
      /\ c.open \in BOOLEAN /\ e.open \in BOOLEAN
  BY SoundTypes DEF Steps
<1>2. CASE c.open /\ e.open
  BY <1>1, <1>2 DEF Steps, Grows
<1>3. CASE c.open /\ ~e.open
  BY <1>1, <1>3 DEF Steps, Grows
<1>4. CASE ~c.open
  BY <1>1, <1>4 DEF Steps, Grows
<1> QED
  BY <1>1, <1>2, <1>3, <1>4

\* A call that leaves the slot as it is, is such a step.
LEMMA StepsSame ==
  ASSUME NEW c, Sound(c)
  PROVE  Steps(c, c)
BY SoundTypes DEF Steps, Grows

\* axil_close() from outside a write, on a live number or a dead one.
LEMMA CloseSteps ==
  ASSUME NEW c, Sound(c), NEW why \in Causes,
         why = "drained" => c.len = 0
  PROVE  Steps(c, Close(c, why))
<1>1. CASE c.open
  BY <1>1, SoundTypes, CloseOwing DEF Steps, Grows
<1>2. CASE ~c.open
  BY <1>2, StepsSame DEF Close
<1> QED
  BY <1>1, <1>2, SoundTypes

\* axil_write_remaining() on a live number: sound, and nothing newly accepted.
LEMMA FlushesKeep ==
  ASSUME NEW c, Sound(c), c.open, NEW e \in Flushes(c)
  PROVE  Sound(e) /\ e.accepted = c.accepted /\ Len(e.wire) >= Len(c.wire)
<1>1. Owing(c, 0) /\ Len(c.wire) \in Nat
  BY SoundTypes
<1>2. CASE e = c
  BY <1>1, <1>2
<1>3. CASE e = Close(c, "error")
  BY <1>1, <1>3, CloseOwing DEF Causes
<1>4. ASSUME NEW k \in 1..c.len, e = Sent(c, k)
      PROVE  Sound(e) /\ e.accepted = c.accepted /\ Len(e.wire) >= Len(c.wire)
  <2>1. /\ Sound(e) /\ e.accepted = c.accepted
        /\ Len(e.wire) = Len(c.wire) + k
    BY <1>1, <1>4, SentSound
  <2> QED
    BY <1>1, <2>1
<1> QED
  BY <1>2, <1>3, <1>4 DEF Flushes

\* axil_write_remaining() on any number.
LEMMA FlushesSteps ==
  ASSUME NEW c, Sound(c), NEW e \in Flushes(c)
  PROVE  Steps(c, e)
<1>1. CASE c.open
  <2>1. Sound(e) /\ e.accepted = c.accepted /\ Len(e.wire) >= Len(c.wire)
    BY <1>1, FlushesKeep
  <2> QED
    BY <1>1, <2>1, SoundTypes DEF Steps, Grows
<1>2. CASE ~c.open
  <2>1. e = c
    BY <1>2, SoundTypes DEF Flushes
  <2> QED
    BY <2>1, StepsSame
<1> QED
  BY <1>1, <1>2, SoundTypes

-----------------------------------------------------------------------------
\* e differs from c in flags and counters that say nothing of the stream.
SameStream(c, e) ==
  /\ DOMAIN e = Fields /\ e.open = c.open
  /\ e.off = c.off /\ e.len = c.len /\ e.size = c.size /\ e.buf = c.buf
  /\ e.accepted = c.accepted /\ e.wire = c.wire /\ e.cause = c.cause

\* Setting flags and counters does not touch the stream.
LEMMA SameStreamSteps ==
  ASSUME NEW c, NEW e, Sound(c), SameStream(c, e), Flags(e),
         e.chunks \in Nat, e.tried \in Nat
  PROVE  Steps(c, e)
<1>1. Counts(e)
  BY DEF SameStream, Sound, Typed, Counts
<1>2. Bytes(e)
  BY DEF SameStream, Sound, Typed, Bytes
<1>3. InOrder(e)
  BY DEF SameStream, Sound, InOrder
<1>4. CASE c.open
  <2>1. Queue(e)
    BY <1>4 DEF SameStream, Sound, Queue
  <2> QED
    BY <1>1, <1>2, <1>3, <1>4, <2>1, SoundTypes
    DEF SameStream, Sound, Typed, Steps, Grows
<1>5. CASE ~c.open
  <2>1. NoQueue(e)
    BY <1>5 DEF SameStream, Sound, NoQueue
  <2> QED
    BY <1>1, <1>2, <1>3, <1>5, <2>1 DEF SameStream, Sound, Typed, Steps, Grows
<1> QED
  BY <1>4, <1>5

\* The flags the responses set and clear: DF_TO_CLOSE, DF_DEFERRED, and the
\* counters of the model.
LEMMA FlagSteps ==
  ASSUME NEW c, Sound(c), NEW b \in BOOLEAN, NEW n \in Nat
  PROVE  /\ Steps(c, MarkToClose(c))
         /\ Steps(c, Request(c))
         /\ Steps(c, [c EXCEPT !.deferred = b])
         /\ Steps(c, [c EXCEPT !.chunks = n])
         /\ Steps(c, [c EXCEPT !.tried = @ + n])
<1>1. DOMAIN c = Fields /\ Flags(c) /\ c.chunks \in Nat /\ c.tried \in Nat
  BY DEF Sound, Typed, Counts
<1>2. Steps(c, MarkToClose(c))
  <2> DEFINE e == MarkToClose(c)
  <2>1. /\ SameStream(c, e) /\ e.chunks = c.chunks /\ e.tried = c.tried
        /\ e.toClose = TRUE /\ e.deferred = c.deferred
        /\ e.pipelined = c.pipelined /\ e.early = c.early
    BY <1>1 DEF MarkToClose, SameStream, Fields
  <2> HIDE DEF e
  <2>2. Flags(e)
    BY <1>1, <2>1 DEF Flags, SameStream
  <2> QED
    BY <1>1, <2>1, <2>2, SameStreamSteps DEF e
<1>3. Steps(c, Request(c))
  <2> DEFINE e == Request(c)
  <2>1. /\ SameStream(c, e) /\ e.chunks = c.chunks /\ e.tried = c.tried
        /\ e.toClose = TRUE /\ e.deferred = c.deferred
        /\ e.pipelined = (c.pipelined \/ c.toClose) /\ e.early = c.early
    BY <1>1 DEF Request, MarkToClose, SameStream, Fields
  <2> HIDE DEF e
  <2>2. Flags(e)
    BY <1>1, <2>1 DEF Flags, SameStream
  <2> QED
    BY <1>1, <2>1, <2>2, SameStreamSteps DEF e
<1>4. Steps(c, [c EXCEPT !.deferred = b])
  <2> DEFINE e == [c EXCEPT !.deferred = b]
  <2>1. /\ SameStream(c, e) /\ e.chunks = c.chunks /\ e.tried = c.tried
        /\ e.toClose = c.toClose /\ e.deferred = b
        /\ e.pipelined = c.pipelined /\ e.early = c.early
    BY <1>1 DEF SameStream, Fields
  <2> HIDE DEF e
  <2>2. Flags(e)
    BY <1>1, <2>1 DEF Flags, SameStream
  <2> QED
    BY <1>1, <2>1, <2>2, SameStreamSteps DEF e
<1>5. Steps(c, [c EXCEPT !.chunks = n])
  <2> DEFINE e == [c EXCEPT !.chunks = n]
  <2>1. /\ SameStream(c, e) /\ e.chunks = n /\ e.tried = c.tried
        /\ e.toClose = c.toClose /\ e.deferred = c.deferred
        /\ e.pipelined = c.pipelined /\ e.early = c.early
    BY <1>1 DEF SameStream, Fields
  <2> HIDE DEF e
  <2>2. Flags(e)
    BY <1>1, <2>1 DEF Flags, SameStream
  <2> QED
    BY <1>1, <2>1, <2>2, SameStreamSteps DEF e
<1>6. Steps(c, [c EXCEPT !.tried = @ + n])
  <2> DEFINE e == [c EXCEPT !.tried = @ + n]
  <2>1. /\ SameStream(c, e) /\ e.chunks = c.chunks /\ e.tried = c.tried + n
        /\ e.toClose = c.toClose /\ e.deferred = c.deferred
        /\ e.pipelined = c.pipelined /\ e.early = c.early
    BY <1>1 DEF SameStream, Fields
  <2> HIDE DEF e
  <2>2. Flags(e)
    BY <1>1, <2>1 DEF Flags, SameStream
  <2>3. e.tried \in Nat
    BY <1>1, <2>1
  <2> QED
    BY <1>1, <2>1, <2>2, <2>3, SameStreamSteps DEF e
<1> QED
  BY <1>2, <1>3, <1>4, <1>5, <1>6

-----------------------------------------------------------------------------
\* axil_rem_may_inc(): what it returns holds the same queue, with the room.

\* axil_write() of n bytes begins by owing them.
LEMMA AcceptOwing ==
  ASSUME NEW c, Owing(c, 0), NEW n \in Nat
  PROVE  /\ Owing(Accept(c, n), n)
         /\ Accept(c, n).len = c.len /\ Accept(c, n).wire = c.wire
         /\ Accept(c, n).accepted = c.accepted + n
<1> DEFINE e == Accept(c, n)
<1>1. /\ DOMAIN e = Fields
      /\ e.open = c.open /\ e.toClose = c.toClose /\ e.deferred = c.deferred
      /\ e.off = c.off /\ e.len = c.len /\ e.size = c.size /\ e.buf = c.buf
      /\ e.chunks = c.chunks /\ e.accepted = c.accepted + n /\ e.tried = c.tried
      /\ e.wire = c.wire /\ e.pipelined = c.pipelined
      /\ e.cause = c.cause /\ e.early = c.early
  BY DEF Accept, Owing, Typed, Fields
<1> HIDE DEF e
<1>2. Flags(e)
  BY <1>1 DEF Owing, Typed, Flags
<1>3. Counts(e)
  BY <1>1 DEF Owing, Typed, Counts
<1>4. Bytes(e) /\ InOrder(e)
  BY <1>1 DEF Owing, Typed, Bytes, InOrder
<1>5. e.accepted = Len(e.wire) + e.len + n
  <2>1. c.accepted = Len(c.wire) + c.len + 0 /\ Len(c.wire) \in Nat /\ c.len \in Nat
    BY LenProperties DEF Owing, Typed, Counts, Bytes
  <2> QED
    BY <1>1, <2>1
<1>6. Owing(e, n)
  BY <1>1, <1>2, <1>3, <1>4, <1>5 DEF Owing, Typed
<1> QED
  BY <1>1, <1>6 DEF e

\* A buffer that holds the queue as c's does, possibly elsewhere and larger, and
\* from which m more of the n owed bytes have been filled in.
LEMMA RebufferOwing ==
  ASSUME NEW c, NEW n \in Nat, NEW m \in 0..n, Owing(c, n), NEW e,
         DOMAIN e = Fields,
         e.open = c.open, e.toClose = c.toClose, e.deferred = c.deferred,
         e.chunks = c.chunks, e.accepted = c.accepted, e.tried = c.tried,
         e.wire = c.wire, e.pipelined = c.pipelined, e.cause = c.cause,
         e.early = c.early,
         e.off \in Nat, e.size \in Nat, e.len = c.len + m,
         e.buf \in [0..(e.size - 1) -> Nat],
         e.off + e.len <= e.size,
         \A i \in 0..(e.len - 1) : e.buf[e.off + i] = Len(c.wire) + 1 + i
  PROVE  Owing(e, n - m)
<1>1. /\ c.len \in Nat /\ Len(c.wire) \in Nat /\ c.accepted \in Nat
      /\ c.accepted = Len(c.wire) + c.len + n
  BY LenProperties DEF Owing, Typed, Counts, Bytes
<1>2. Flags(e)
  BY DEF Owing, Typed, Flags
<1>3. Counts(e)
  <2>1. e.len \in Nat
    BY <1>1
  <2>2. c.chunks \in Nat /\ c.accepted \in Nat /\ c.tried \in Nat
    BY DEF Owing, Typed, Counts
  <2> QED
    BY <2>1, <2>2 DEF Counts
<1>4. Bytes(e) /\ InOrder(e)
  BY DEF Owing, Typed, Bytes, InOrder
<1>5. e.accepted = Len(e.wire) + e.len + (n - m)
  <2>1. ASSUME NEW a \in Nat, NEW b \in Nat
        PROVE  a + b + n = a + (b + m) + (n - m)
    OBVIOUS
  <2> QED
    BY <1>1, <2>1
<1>6. \A i \in 0..(e.len - 1) : e.buf[e.off + i] = Len(e.wire) + 1 + i
  OBVIOUS
<1> QED
  BY <1>2, <1>3, <1>4, <1>5, <1>6 DEF Owing, Typed

\* The memmove() of axil_rem_may_inc() moves the queue and changes nothing of it.
LEMMA CompactOwing ==
  ASSUME NEW c, NEW n \in Nat, Owing(c, n)
  PROVE  /\ Owing(Compact(c), n)
         /\ Compact(c).off = 0 /\ Compact(c).size = c.size
         /\ Compact(c).len = c.len /\ Compact(c).wire = c.wire
         /\ Compact(c).accepted = c.accepted
<1> DEFINE b == [i \in 0..(c.size - 1) |->
                   IF i < c.len THEN c.buf[c.off + i] ELSE c.buf[i]]
           e == Compact(c)
<1>1. /\ c.off \in Nat /\ c.len \in Nat /\ c.size \in Nat
      /\ c.buf \in [0..(c.size - 1) -> Nat]
      /\ c.off + c.len <= c.size
  BY DEF Owing, Typed, Counts, Bytes
<1>2. b \in [0..(c.size - 1) -> Nat]
  <2>1. ASSUME NEW i \in 0..(c.size - 1)
        PROVE  (IF i < c.len THEN c.buf[c.off + i] ELSE c.buf[i]) \in Nat
    <3>1. CASE i < c.len
      <4>1. c.off + i \in 0..(c.size - 1)
        BY <1>1, <3>1
      <4> QED
        BY <1>1, <3>1, <4>1
    <3>2. CASE ~(i < c.len)
      BY <1>1, <3>2
    <3> QED
      BY <3>1, <3>2
  <2> QED
    BY <2>1
<1>3. ASSUME NEW i \in 0..(c.len - 1)
      PROVE  b[0 + i] = Len(c.wire) + 1 + i
  <2>1. 0 + i \in 0..(c.size - 1) /\ i < c.len /\ 0 + i = i
    BY <1>1
  <2>2. b[i] = c.buf[c.off + i]
    BY <2>1
  <2> QED
    BY <2>1, <2>2 DEF Owing
<1> HIDE DEF b
<1>4. /\ DOMAIN e = Fields
      /\ e.open = c.open /\ e.toClose = c.toClose /\ e.deferred = c.deferred
      /\ e.off = 0 /\ e.len = c.len /\ e.size = c.size /\ e.buf = b
      /\ e.chunks = c.chunks /\ e.accepted = c.accepted /\ e.tried = c.tried
      /\ e.wire = c.wire /\ e.pipelined = c.pipelined
      /\ e.cause = c.cause /\ e.early = c.early
  BY DEF Compact, Owing, Typed, Fields, b
<1> HIDE DEF e
<1>5. Owing(e, n - 0)
  <2>1. e.off \in Nat /\ e.size \in Nat /\ e.len = c.len + 0 /\ e.off + e.len <= e.size
    BY <1>1, <1>4
  <2>2. e.buf \in [0..(e.size - 1) -> Nat]
    BY <1>2, <1>4
  <2>3. \A i \in 0..(e.len - 1) : e.buf[e.off + i] = Len(c.wire) + 1 + i
    BY <1>3, <1>4
  <2>4. 0 \in 0..n
    OBVIOUS
  <2> QED
    BY <1>4, <2>1, <2>2, <2>3, <2>4, RebufferOwing
<1> QED
  BY <1>4, <1>5 DEF e

\* The realloc() of axil_rem_may_inc() keeps the queue where it is.
LEMMA ReallocOwing ==
  ASSUME NEW c, NEW n \in Nat, Owing(c, n), NEW s \in Nat, s >= c.size
  PROVE  /\ Owing(Realloc(c, s), n)
         /\ Realloc(c, s).off = c.off /\ Realloc(c, s).size = s
         /\ Realloc(c, s).len = c.len /\ Realloc(c, s).wire = c.wire
         /\ Realloc(c, s).accepted = c.accepted
<1> DEFINE b == [i \in 0..(s - 1) |-> IF i < c.size THEN c.buf[i] ELSE 0]
           e == Realloc(c, s)
<1>1. /\ c.off \in Nat /\ c.len \in Nat /\ c.size \in Nat
      /\ c.buf \in [0..(c.size - 1) -> Nat]
      /\ c.off + c.len <= c.size
  BY DEF Owing, Typed, Counts, Bytes
<1>2. b \in [0..(s - 1) -> Nat]
  <2>1. ASSUME NEW i \in 0..(s - 1)
        PROVE  (IF i < c.size THEN c.buf[i] ELSE 0) \in Nat
    BY <1>1
  <2> QED
    BY <2>1
<1>3. ASSUME NEW i \in 0..(c.len - 1)
      PROVE  b[c.off + i] = Len(c.wire) + 1 + i
  <2>1. c.off + i \in 0..(s - 1) /\ c.off + i < c.size
    BY <1>1
  <2>2. b[c.off + i] = c.buf[c.off + i]
    BY <2>1
  <2> QED
    BY <2>2 DEF Owing
<1> HIDE DEF b
<1>4. /\ DOMAIN e = Fields
      /\ e.open = c.open /\ e.toClose = c.toClose /\ e.deferred = c.deferred
      /\ e.off = c.off /\ e.len = c.len /\ e.size = s /\ e.buf = b
      /\ e.chunks = c.chunks /\ e.accepted = c.accepted /\ e.tried = c.tried
      /\ e.wire = c.wire /\ e.pipelined = c.pipelined
      /\ e.cause = c.cause /\ e.early = c.early
  BY DEF Realloc, Owing, Typed, Fields, b
<1> HIDE DEF e
<1>5. Owing(e, n - 0)
  <2>1. e.off \in Nat /\ e.size \in Nat /\ e.len = c.len + 0 /\ e.off + e.len <= e.size
    BY <1>1, <1>4
  <2>2. e.buf \in [0..(e.size - 1) -> Nat]
    BY <1>2, <1>4
  <2>3. \A i \in 0..(e.len - 1) : e.buf[e.off + i] = Len(c.wire) + 1 + i
    BY <1>3, <1>4
  <2>4. 0 \in 0..n
    OBVIOUS
  <2> QED
    BY <1>4, <2>1, <2>2, <2>3, <2>4, RebufferOwing
<1> QED
  BY <1>4, <1>5 DEF e

\* When axil_rem_may_inc() returns 0 the queue is the same and the room is there.
LEMMA RoomsOwing ==
  ASSUME NEW c, NEW n \in Nat, Owing(c, n), NEW m \in Nat, NEW e \in Rooms(c, m)
  PROVE  /\ Owing(e, n)
         /\ e.off + e.len + m <= e.size
         /\ e.len = c.len /\ e.wire = c.wire /\ e.accepted = c.accepted
<1>1. c.off \in Nat /\ c.len \in Nat /\ c.size \in Nat
  BY DEF Owing, Typed, Counts
<1>2. CASE TailRoom(c) >= m
  BY <1>1, <1>2 DEF Rooms, TailRoom
<1>3. CASE ~(TailRoom(c) >= m) /\ ~MustGrow(c, m)
  BY <1>1, <1>3, CompactOwing DEF Rooms, MustGrow
<1>4. CASE ~(TailRoom(c) >= m) /\ MustGrow(c, m)
  <2>1. PICK s \in DoubledSizes(c.size, c.len + m) : e = Realloc(Compact(c), s)
    BY <1>4 DEF Rooms
  <2>2. s \in Nat /\ s > c.len + m /\ s >= c.size
    BY <1>1, <1>4, <2>1 DEF DoubledSizes, MustGrow
  <2>3. /\ Owing(Compact(c), n)
        /\ Compact(c).off = 0 /\ Compact(c).size = c.size
        /\ Compact(c).len = c.len /\ Compact(c).wire = c.wire
        /\ Compact(c).accepted = c.accepted
    BY CompactOwing
  <2>4. /\ Owing(e, n) /\ e.off = 0 /\ e.size = s /\ e.len = c.len
        /\ e.wire = c.wire /\ e.accepted = c.accepted
    BY <2>1, <2>2, <2>3, ReallocOwing
  <2> QED
    BY <1>1, <2>2, <2>4
<1> QED
  BY <1>2, <1>3, <1>4

-----------------------------------------------------------------------------
\* axil_low_write(): the owed bytes go to the queue or to the wire.

MemcpyFits(size, buf, at, first, n) ==
  /\ Memcpy(buf, at, first, n) \in [0..(size - 1) -> Nat]
  /\ \A i \in 0..(size - 1) :
       Memcpy(buf, at, first, n)[i] =
         IF i \in at..(at + n - 1) THEN first + (i - at) ELSE buf[i]

\* A memcpy() into room that exists stays inside the buffer and leaves the rest.
LEMMA MemcpyInside ==
  ASSUME NEW size \in Nat, NEW buf \in [0..(size - 1) -> Nat],
         NEW at \in Nat, NEW first \in Nat, NEW n \in Nat, at + n <= size
  PROVE  MemcpyFits(size, buf, at, first, n)
<1>1. (DOMAIN buf) \cup (at..(at + n - 1)) = 0..(size - 1)
  OBVIOUS
<1>2. ASSUME NEW i \in 0..(size - 1)
      PROVE  (IF i \in at..(at + n - 1) THEN first + (i - at) ELSE buf[i]) \in Nat
  <2>1. CASE i \in at..(at + n - 1)
    BY <2>1
  <2>2. CASE i \notin at..(at + n - 1)
    BY <2>2
  <2> QED
    BY <2>1, <2>2
<1> QED
  BY <1>1, <1>2 DEF Memcpy, MemcpyFits

\* axil_low_write() behind queued bytes: with room for all n, the queue is sound.
LEMMA AppendedSound ==
  ASSUME NEW c, NEW n \in Nat, Owing(c, n), c.off + c.len + n <= c.size
  PROVE  /\ Sound(Appended(c, n)) /\ Appended(c, n).open
         /\ Appended(c, n).wire = c.wire
         /\ Appended(c, n).accepted = c.accepted
<1> DEFINE b == Memcpy(c.buf, c.off + c.len, c.accepted - n + 1, n)
           e == Appended(c, n)
<1>1. /\ c.off \in Nat /\ c.len \in Nat /\ c.size \in Nat
      /\ c.buf \in [0..(c.size - 1) -> Nat]
      /\ Len(c.wire) \in Nat
      /\ c.accepted - n + 1 = Len(c.wire) + c.len + 1
  BY LenProperties DEF Owing, Typed, Counts, Bytes
<1>2. /\ b \in [0..(c.size - 1) -> Nat]
      /\ \A i \in 0..(c.size - 1) :
           b[i] = IF i \in (c.off + c.len)..(c.off + c.len + n - 1)
                    THEN c.accepted - n + 1 + (i - (c.off + c.len))
                    ELSE c.buf[i]
  <2> DEFINE at == c.off + c.len
             first == c.accepted - n + 1
  <2>1. at \in Nat /\ first \in Nat /\ at + n <= c.size
    BY <1>1
  <2> HIDE DEF at, first
  <2>2. MemcpyFits(c.size, c.buf, at, first, n)
    BY <1>1, <2>1, MemcpyInside
  <2> QED
    BY <2>2 DEF at, first, MemcpyFits
<1>3. ASSUME NEW i \in 0..(c.len + n - 1)
      PROVE  b[c.off + i] = Len(c.wire) + 1 + i
  <2>1. c.off + i \in 0..(c.size - 1)
    BY <1>1
  <2>2. CASE i < c.len
    <3>1. c.off + i \notin (c.off + c.len)..(c.off + c.len + n - 1)
      BY <1>1, <2>2
    <3>2. i \in 0..(c.len - 1)
      BY <1>1, <2>2
    <3> QED
      BY <1>2, <2>1, <3>1, <3>2 DEF Owing
  <2>3. CASE ~(i < c.len)
    <3>1. c.off + i \in (c.off + c.len)..(c.off + c.len + n - 1)
      BY <1>1, <2>3
    <3>2. b[c.off + i] = c.accepted - n + 1 + ((c.off + i) - (c.off + c.len))
      BY <1>2, <2>1, <3>1
    <3> QED
      BY <1>1, <3>2
  <2> QED
    BY <2>2, <2>3
<1> HIDE DEF b
<1>4. /\ DOMAIN e = Fields
      /\ e.open = c.open /\ e.toClose = c.toClose /\ e.deferred = c.deferred
      /\ e.off = c.off /\ e.len = c.len + n /\ e.size = c.size /\ e.buf = b
      /\ e.chunks = c.chunks /\ e.accepted = c.accepted /\ e.tried = c.tried
      /\ e.wire = c.wire /\ e.pipelined = c.pipelined
      /\ e.cause = c.cause /\ e.early = c.early
  BY DEF Appended, Owing, Typed, Fields, b
<1> HIDE DEF e
<1>5. Owing(e, 0)
  <2>1. e.off \in Nat /\ e.size \in Nat /\ e.off + e.len <= e.size
    BY <1>1, <1>4
  <2>2. e.buf \in [0..(e.size - 1) -> Nat]
    BY <1>2, <1>4
  <2>3. \A i \in 0..(e.len - 1) : e.buf[e.off + i] = Len(c.wire) + 1 + i
    <3>1. e.buf = b /\ e.off = c.off /\ e.len - 1 = c.len + n - 1
      <4>1. e.buf = b /\ e.off = c.off /\ e.len = c.len + n
        BY <1>4
      <4>2. c.len \in Int /\ n \in Int
        BY <1>1
      <4>3. ASSUME NEW p \in Int, NEW q \in Int
            PROVE  (p + q) - 1 = p + (q - 1)
        OBVIOUS
      <4>4. (c.len + n) - 1 = c.len + (n - 1)
        BY <4>2, <4>3
      <4> QED
        BY <4>1, <4>4
    <3>2. \A i \in 0..(c.len + n - 1) : b[c.off + i] = Len(c.wire) + 1 + i
      BY <1>3
    <3> QED
      BY <3>1, <3>2
  <2>4. n \in 0..n /\ n - n = 0
    OBVIOUS
  <2>5. Owing(e, n - n)
    BY <1>4, <2>1, <2>2, <2>3, <2>4, RebufferOwing
  <2> QED
    BY <2>4, <2>5
<1> QED
  BY <1>4, <1>5, OwingNothing DEF e

\* axil_low_write() with nothing queued: what send() left over becomes the queue.
LEMMA QueuedSound ==
  ASSUME NEW c, NEW n \in Nat, Owing(c, n), c.len = 0, n <= c.size
  PROVE  /\ Sound(Queued(c, n)) /\ Queued(c, n).wire = c.wire
         /\ Queued(c, n).accepted = c.accepted
<1> DEFINE b == Memcpy(c.buf, 0, c.accepted - n + 1, n)
           e == Queued(c, n)
<1>1. /\ c.size \in Nat /\ Len(c.wire) \in Nat
      /\ c.buf \in [0..(c.size - 1) -> Nat]
      /\ c.accepted - n + 1 = Len(c.wire) + 1
  BY LenProperties DEF Owing, Typed, Counts, Bytes
<1>2. /\ b \in [0..(c.size - 1) -> Nat]
      /\ \A i \in 0..(c.size - 1) :
           b[i] = IF i \in 0..(0 + n - 1) THEN c.accepted - n + 1 + (i - 0)
                  ELSE c.buf[i]
  <2> DEFINE at == 0
             first == c.accepted - n + 1
  <2>1. at \in Nat /\ first \in Nat /\ at + n <= c.size
    BY <1>1
  <2> HIDE DEF at, first
  <2>2. MemcpyFits(c.size, c.buf, at, first, n)
    BY <1>1, <2>1, MemcpyInside
  <2> QED
    BY <2>2 DEF at, first, MemcpyFits
<1>3. ASSUME NEW i \in 0..(n - 1)
      PROVE  b[0 + i] = Len(c.wire) + 1 + i
  <2>1. i \in 0..(c.size - 1) /\ i \in 0..(0 + n - 1) /\ 0 + i = i
    BY <1>1
  <2>2. b[i] = c.accepted - n + 1 + (i - 0)
    BY <1>2, <2>1
  <2> QED
    BY <1>1, <2>1, <2>2
<1> HIDE DEF b
<1>4. /\ DOMAIN e = Fields
      /\ e.open = c.open /\ e.toClose = c.toClose /\ e.deferred = c.deferred
      /\ e.off = 0 /\ e.len = n /\ e.size = c.size /\ e.buf = b
      /\ e.chunks = c.chunks /\ e.accepted = c.accepted /\ e.tried = c.tried
      /\ e.wire = c.wire /\ e.pipelined = c.pipelined
      /\ e.cause = c.cause /\ e.early = c.early
  BY DEF Queued, Owing, Typed, Fields, b
<1> HIDE DEF e
<1>5. Owing(e, 0)
  <2>1. e.off \in Nat /\ e.size \in Nat /\ e.len = c.len + n /\ e.off + e.len <= e.size
    BY <1>1, <1>4
  <2>2. e.buf \in [0..(e.size - 1) -> Nat]
    BY <1>2, <1>4
  <2>3. \A i \in 0..(e.len - 1) : e.buf[e.off + i] = Len(c.wire) + 1 + i
    BY <1>3, <1>4
  <2>4. n \in 0..n /\ n - n = 0
    OBVIOUS
  <2>5. Owing(e, n - n)
    BY <1>4, <2>1, <2>2, <2>3, <2>4, RebufferOwing
  <2> QED
    BY <2>4, <2>5
<1> QED
  BY <1>4, <1>5, OwingNothing DEF e

\* axil_low_write(): the k bytes send() took straight from the caller are no
\* longer owed.
LEMMA DirectOwing ==
  ASSUME NEW c, NEW n \in Nat, Owing(c, n), c.len = 0, NEW k \in 0..n
  PROVE  /\ Owing(Direct(c, k, n), n - k)
         /\ Direct(c, k, n).len = 0 /\ Direct(c, k, n).accepted = c.accepted
         /\ Len(Direct(c, k, n).wire) = Len(c.wire) + k
<1> DEFINE t == [i \in 1..k |-> c.accepted - n + i]
           e == Direct(c, k, n)
<1>1. /\ c.accepted \in Nat /\ Len(c.wire) \in Nat /\ c.accepted - n = Len(c.wire)
      /\ k \in Nat
  BY LenProperties DEF Owing, Typed, Counts, Bytes
<1>2. t \in [1..k -> Nat] /\ \A i \in 1..k : t[i] = Len(c.wire) + i
  <2>1. ASSUME NEW i \in 1..k
        PROVE  c.accepted - n + i \in Nat /\ c.accepted - n + i = Len(c.wire) + i
    BY <1>1
  <2> QED
    BY <2>1
<1> HIDE DEF t
<1>3. /\ c.wire \o t \in Seq(Nat)
      /\ Len(c.wire \o t) = Len(c.wire) + k
      /\ \A i \in 1..Len(c.wire \o t) : (c.wire \o t)[i] = i
  BY <1>1, <1>2, WireGrows, SMTT(40)
<1>4. /\ DOMAIN e = Fields
      /\ e.open = c.open /\ e.toClose = c.toClose /\ e.deferred = c.deferred
      /\ e.off = c.off /\ e.len = c.len /\ e.size = c.size /\ e.buf = c.buf
      /\ e.chunks = c.chunks /\ e.accepted = c.accepted /\ e.tried = c.tried
      /\ e.wire = c.wire \o t /\ e.pipelined = c.pipelined
      /\ e.cause = c.cause /\ e.early = c.early
  BY DEF Direct, Owing, Typed, Fields, t
<1> HIDE DEF e
<1>5. Flags(e)
  BY <1>4 DEF Owing, Typed, Flags
<1>6. Counts(e)
  BY <1>4 DEF Owing, Typed, Counts
<1>7. Bytes(e) /\ InOrder(e)
  BY <1>3, <1>4 DEF Owing, Typed, Bytes, InOrder
<1>8. e.accepted = Len(e.wire) + e.len + (n - k)
  <2>1. e.accepted = c.accepted /\ Len(e.wire) = Len(c.wire) + k /\ e.len = 0
    BY <1>3, <1>4
  <2> QED
    BY <1>1, <2>1
<1>9. e.off + e.len <= e.size /\ e.open
  BY <1>4 DEF Owing
<1>10. \A i \in 0..(e.len - 1) : e.buf[e.off + i] = Len(e.wire) + 1 + i
  BY <1>4
<1>11. Owing(e, n - k)
  BY <1>4, <1>5, <1>6, <1>7, <1>8, <1>9, <1>10 DEF Owing, Typed
<1> QED
  BY <1>3, <1>4, <1>11 DEF e

\* axil_low_write() behind queued bytes, with every outcome of realloc() and of
\* the flush that follows.
LEMMA AppendsSteps ==
  ASSUME NEW c, NEW n \in Nat, Owing(c, n), NEW e \in Appends(c, n)
  PROVE  Sound(e) /\ e.accepted = c.accepted /\ Len(e.wire) >= Len(c.wire)
<1>0. Len(c.wire) \in Nat
  BY DEF Owing, Typed, Bytes
<1>1. CASE e \in NoRooms(c, n)
  <2>1. e = Close(c, "nomem")
    BY <1>1 DEF NoRooms
  <2> QED
    BY <1>0, <2>1, CloseOwing DEF Causes
<1>2. ASSUME NEW r \in Rooms(c, n), e \in Flushes(Appended(r, n))
      PROVE  Sound(e) /\ e.accepted = c.accepted /\ Len(e.wire) >= Len(c.wire)
  <2> DEFINE a == Appended(r, n)
  <2>1. /\ Owing(r, n) /\ r.off + r.len + n <= r.size
        /\ r.wire = c.wire /\ r.accepted = c.accepted
    BY RoomsOwing
  <2>2. Sound(a) /\ a.open /\ a.wire = c.wire /\ a.accepted = c.accepted
    BY <2>1, AppendedSound
  <2> HIDE DEF a
  <2>3. Sound(e) /\ e.accepted = a.accepted /\ Len(e.wire) >= Len(a.wire)
    BY <1>2, <2>2, FlushesKeep DEF a
  <2> QED
    BY <2>2, <2>3
<1> QED
  BY <1>1, <1>2 DEF Appends

\* axil_low_write() with nothing queued, with every outcome of send() and of
\* realloc().
LEMMA SendsSteps ==
  ASSUME NEW c, NEW n \in Nat, Owing(c, n), c.len = 0, NEW e \in Sends(c, n)
  PROVE  Sound(e) /\ e.accepted = c.accepted /\ Len(e.wire) >= Len(c.wire)
<1>0. Len(c.wire) \in Nat
  BY DEF Owing, Typed, Bytes
<1>1. CASE e = Close(c, "error")
  BY <1>0, <1>1, CloseOwing DEF Causes
<1>2. CASE e = Direct(c, n, n)
  <2>1. n \in 0..n /\ n - n = 0
    OBVIOUS
  <2>2. /\ Owing(e, n - n) /\ e.accepted = c.accepted
        /\ Len(e.wire) = Len(c.wire) + n
    BY <1>2, <2>1, DirectOwing
  <2>3. Owing(e, 0)
    BY <2>1, <2>2
  <2> QED
    BY <1>0, <2>2, <2>3, OwingNothing
<1>3. ASSUME NEW k \in 0..(n - 1),
             e \in NoRooms(Direct(c, k, n), n - k) \cup
                   {Queued(f, n - k) : f \in Rooms(Direct(c, k, n), n - k)}
      PROVE  Sound(e) /\ e.accepted = c.accepted /\ Len(e.wire) >= Len(c.wire)
  <2> DEFINE f == Direct(c, k, n)
             m == n - k
  <2>1. k \in 0..n /\ m \in Nat /\ k \in Nat
    OBVIOUS
  <2>2. /\ Owing(f, m) /\ f.len = 0 /\ f.accepted = c.accepted
        /\ Len(f.wire) = Len(c.wire) + k
    BY <2>1, DirectOwing
  <2> HIDE DEF f, m
  <2>3. CASE e \in NoRooms(f, m)
    <3>1. e = Close(f, "nomem")
      BY <2>3 DEF NoRooms
    <3> QED
      BY <1>0, <2>1, <2>2, <3>1, CloseOwing DEF Causes
  <2>4. ASSUME NEW g \in Rooms(f, m), e = Queued(g, m)
        PROVE  Sound(e) /\ e.accepted = c.accepted /\ Len(e.wire) >= Len(c.wire)
    <3>1. /\ Owing(g, m) /\ g.off + g.len + m <= g.size
          /\ g.len = f.len /\ g.wire = f.wire /\ g.accepted = f.accepted
      BY <2>1, <2>2, RoomsOwing
    <3>2. m <= g.size
      BY <2>1, <2>2, <3>1 DEF Owing, Typed, Counts
    <3>3. Sound(e) /\ e.wire = f.wire /\ e.accepted = f.accepted
      BY <2>1, <2>2, <2>4, <3>1, <3>2, QueuedSound
    <3> QED
      BY <1>0, <2>1, <2>2, <3>3
  <2> QED
    BY <1>3, <2>3, <2>4 DEF f, m
<1> QED
  BY <1>1, <1>2, <1>3 DEF Sends

\* Whatever send() and realloc() do, axil_low_write() keeps the queue and the
\* wire in agreement with what it accepted, on a live number and on a dead one.
LEMMA LowWritesSteps ==
  ASSUME NEW c, Sound(c), NEW n \in Nat, NEW e \in LowWrites(c, n)
  PROVE  Steps(c, e)
<1> DEFINE t == [c EXCEPT !.tried = @ + n]
<1>1. Steps(c, t)
  BY FlagSteps
<1>2. t.open = c.open /\ t.len = c.len /\ t.wire = c.wire /\ t.accepted = c.accepted
  BY DEF Sound, Typed, Fields
<1> HIDE DEF t
<1>3. CASE ~c.open
  BY <1>1, <1>3 DEF LowWrites, t
<1>4. CASE c.open
  <2> DEFINE a == Accept(t, n)
  <2>1. Owing(t, 0)
    BY <1>1, <1>2, <1>4, SoundTypes DEF Steps
  <2>2. /\ Owing(a, n) /\ a.len = t.len /\ a.wire = t.wire
        /\ a.accepted = t.accepted + n
    BY <2>1, AcceptOwing
  <2>3. c.len \in Nat /\ c.accepted \in Nat /\ Len(c.wire) \in Nat
    BY SoundTypes
  <2> HIDE DEF a
  <2>4. e \in IF c.len > 0 THEN Appends(a, n) ELSE Sends(a, n)
    BY <1>4 DEF LowWrites, t, a
  <2>5. Sound(e) /\ e.accepted = a.accepted /\ Len(e.wire) >= Len(a.wire)
    <3>1. CASE c.len > 0
      BY <2>2, <2>4, <3>1, AppendsSteps
    <3>2. CASE ~(c.len > 0)
      <4>1. a.len = 0
        BY <1>2, <2>2, <2>3, <3>2
      <4> QED
        BY <2>2, <2>4, <3>2, <4>1, SendsSteps
    <3> QED
      BY <3>1, <3>2
  <2>6. e.accepted >= c.accepted /\ Len(e.wire) >= Len(c.wire)
    BY <1>2, <2>2, <2>3, <2>5
  <2> QED
    BY <1>4, <2>5, <2>6 DEF Steps, Grows
<1> QED
  BY <1>3, <1>4, SoundTypes

-----------------------------------------------------------------------------
\* The responses compose these calls.

\* The end of axil_respond() and of the deferred responses.
LEMMA FinishesSteps ==
  ASSUME NEW c, Sound(c), NEW e \in Finishes(c)
  PROVE  Steps(c, e)
<1> DEFINE f == MarkToClose(c)
<1>1. Steps(c, f)
  BY FlagSteps
<1>2. f.len = c.len
  BY DEF MarkToClose, Sound, Typed, Fields
<1> HIDE DEF f
<1>3. Sound(f)
  BY <1>1 DEF Steps
<1>4. Steps(f, e)
  <2>1. CASE c.len = 0
    <3>1. e = Close(f, "drained")
      BY <2>1 DEF Finishes, f
    <3> QED
      BY <1>2, <1>3, <2>1, <3>1, CloseSteps DEF Causes
  <2>2. CASE c.len # 0
    BY <1>3, <2>2, FlushesSteps DEF Finishes, f
  <2> QED
    BY <2>1, <2>2
<1> QED
  BY <1>1, <1>4, StepsCompose

\* axil_respond(), in one write or in two.
LEMMA RespondsSteps ==
  ASSUME NEW c, Sound(c), NEW n \in Nat \ {0}, NEW e \in Responds(c, n)
  PROVE  Steps(c, e)
<1>1. ASSUME NEW f, Steps(c, f), e \in Finishes(f)
      PROVE  Steps(c, e)
  BY <1>1, FinishesSteps, StepsCompose DEF Steps
<1>2. ASSUME NEW f \in LowWrites(c, n), e \in Finishes(f)
      PROVE  Steps(c, e)
  BY <1>1, <1>2, LowWritesSteps
<1>3. ASSUME NEW g \in LowWrites(c, 1), NEW f \in LowWrites(g, n - 1),
             e \in Finishes(f)
      PROVE  Steps(c, e)
  <2>1. Steps(c, g)
    BY LowWritesSteps
  <2>2. n - 1 \in Nat /\ Sound(g)
    BY <2>1 DEF Steps
  <2>3. Steps(g, f)
    BY <2>2, LowWritesSteps
  <2> QED
    BY <1>1, <1>3, <2>1, <2>3, StepsCompose
<1> QED
  BY <1>2, <1>3 DEF Responds

\* axil_respond_defer().
LEMMA DefersSteps ==
  ASSUME NEW c, Sound(c), NEW n \in Nat, NEW e \in Defers(c, n)
  PROVE  Steps(c, e)
<1>1. CASE c.deferred
  BY <1>1, StepsSame DEF Defers
<1>2. ASSUME NEW f \in LowWrites(c, n), e = [f EXCEPT !.deferred = TRUE]
      PROVE  Steps(c, e)
  <2>1. Steps(c, f)
    BY LowWritesSteps
  <2>2. Steps(f, e)
    BY <1>2, <2>1, FlagSteps DEF Steps
  <2> QED
    BY <2>1, <2>2, StepsCompose
<1> QED
  BY <1>1, <1>2 DEF Defers

\* axil_respond_defer_done().
LEMMA DonesSteps ==
  ASSUME NEW c, Sound(c), NEW e \in Dones(c)
  PROVE  Steps(c, e)
<1>1. CASE ~c.deferred
  BY <1>1, StepsSame DEF Dones
<1>2. CASE c.deferred
  <2> DEFINE f == [c EXCEPT !.deferred = FALSE]
  <2>1. Steps(c, f)
    BY FlagSteps
  <2> HIDE DEF f
  <2>2. e \in Finishes(f)
    BY <1>2 DEF Dones, f
  <2> QED
    BY <2>1, <2>2, FinishesSteps, StepsCompose DEF Steps
<1> QED
  BY <1>1, <1>2

\* axil_respond_file(): its deferred head, the file and done().
LEMMA RespondFilesSteps ==
  ASSUME NEW c, Sound(c), NEW n \in Nat \ {0}, NEW e \in RespondFiles(c, n)
  PROVE  Steps(c, e)
<1>1. CASE c.deferred
  BY <1>1, StepsSame DEF RespondFiles
<1>2. ASSUME NEW f \in Defers(c, 1), NEW g \in LowWrites(f, n - 1), e \in Dones(g)
      PROVE  Steps(c, e)
  <2>1. Steps(c, f)
    BY DefersSteps
  <2>2. n - 1 \in Nat /\ Sound(f)
    BY <2>1 DEF Steps
  <2>3. Steps(f, g)
    BY <2>2, LowWritesSteps
  <2>4. Steps(g, e)
    BY <1>2, <2>3, DonesSteps DEF Steps
  <2> QED
    BY <2>1, <2>3, <2>4, StepsCompose
<1> QED
  BY <1>1, <1>2 DEF RespondFiles

\* The end of static_write().
LEMMA StaticEndSteps ==
  ASSUME NEW c, Sound(c)
  PROVE  Steps(c, StaticEnd(c))
BY StepsSame, CloseSteps DEF StaticEnd, Causes

-----------------------------------------------------------------------------
\* The specification.

\* descr_new() makes a sound, open slot.
LEMMA FreshSound == Sound(FreshDescr) /\ FreshDescr.open
                    /\ FreshDescr.wire = <<>> /\ FreshDescr.accepted = 0
<1> DEFINE e == FreshDescr
           b == [i \in 0..(QueueSize - 1) |-> 0]
<1>1. b \in [0..(QueueSize - 1) -> Nat]
  OBVIOUS
<1>2. /\ DOMAIN e = Fields
      /\ e.open = TRUE /\ e.toClose = FALSE /\ e.deferred = FALSE
      /\ e.off = 0 /\ e.len = 0 /\ e.size = QueueSize /\ e.buf = b
      /\ e.chunks = 0 /\ e.accepted = 0 /\ e.tried = 0
      /\ e.wire = <<>> /\ e.pipelined = FALSE
      /\ e.cause = "none" /\ e.early = FALSE
  BY DEF FreshDescr, Fields
<1> HIDE DEF b, e
<1>3. QueueSize \in Nat
  BY ConstantsAssumption
<1>4. <<>> \in Seq(Nat) /\ Len(<<>>) = 0
  BY EmptySeq
<1>5. Flags(e)
  BY <1>2 DEF Flags, Causes
<1>6. Counts(e)
  BY <1>2, <1>3 DEF Counts
<1>7. Bytes(e)
  BY <1>1, <1>2, <1>4 DEF Bytes
<1>8. InOrder(e)
  BY <1>2, <1>4 DEF InOrder
<1>9. Queue(e)
  BY <1>2, <1>3, <1>4 DEF Queue
<1> QED
  BY <1>2, <1>5, <1>6, <1>7, <1>8, <1>9 DEF Sound, Typed, e

\* What an action does to the slot: it starts a new connection on a closed
\* number, or it takes the connection it finds a step further.
LEMMA NextSteps ==
  ASSUME IndInv, Next
  PROVE  \/ ~d.open /\ d' = FreshDescr
         \/ Steps(d, d')
<1> USE DEF IndInv
<1>0. Steps(d, Request(d)) /\ Sound(Request(d))
  <2>1. FALSE \in BOOLEAN /\ 0 \in Nat
    OBVIOUS
  <2>2. Steps(d, Request(d))
    BY <2>1, FlagSteps
  <2> QED
    BY <2>2 DEF Steps
<1>1. CASE DescrNew
  BY <1>1 DEF DescrNew
<1>2. CASE CloseNow
  BY <1>2, CloseSteps DEF CloseNow, Causes
<1>3. CASE Flush
  BY <1>3, FlushesSteps DEF Flush
<1>4. CASE AppWrite
  BY <1>4, LowWritesSteps DEF AppWrite
<1>5. CASE HandleRespond
  <2>1. PICK n \in 1..MaxWrite : d' \in Responds(Request(d), n)
    BY <1>5 DEF HandleRespond
  <2>2. n \in Nat \ {0}
    BY ConstantsAssumption
  <2>3. Steps(Request(d), d')
    BY <1>0, <2>1, <2>2, RespondsSteps
  <2> QED
    BY <1>0, <2>3, StepsCompose
<1>6. CASE HandleRespondFile
  <2>1. PICK n \in 2..MaxWrite : d' \in RespondFiles(Request(d), n)
    BY <1>6 DEF HandleRespondFile
  <2>2. n \in Nat \ {0}
    BY ConstantsAssumption
  <2>3. Steps(Request(d), d')
    BY <1>0, <2>1, <2>2, RespondFilesSteps
  <2> QED
    BY <1>0, <2>3, StepsCompose
<1>7. CASE HandleDefer
  <2>1. PICK n \in 1..MaxWrite : d' \in Defers(Request(d), n)
    BY <1>7 DEF HandleDefer
  <2>2. n \in Nat
    BY ConstantsAssumption
  <2>3. Steps(Request(d), d')
    BY <1>0, <2>1, <2>2, DefersSteps
  <2> QED
    BY <1>0, <2>3, StepsCompose
<1>8. CASE HandleStatic
  <2>1. PICK n \in 1..MaxWrite, more \in 0..MaxChunks :
          \E e \in LowWrites(Request(d), n) :
            d' = IF more = 0 THEN StaticEnd(e) ELSE [e EXCEPT !.chunks = more]
    BY <1>8 DEF HandleStatic
  <2>2. PICK e \in LowWrites(Request(d), n) :
          d' = IF more = 0 THEN StaticEnd(e) ELSE [e EXCEPT !.chunks = more]
    BY <2>1
  <2>3. n \in Nat /\ more \in Nat
    BY ConstantsAssumption
  <2>4. Steps(Request(d), e)
    BY <1>0, <2>3, LowWritesSteps
  <2>5. Steps(e, StaticEnd(e)) /\ Steps(e, [e EXCEPT !.chunks = more])
    BY <2>3, <2>4, StaticEndSteps, FlagSteps DEF Steps
  <2>6. Steps(e, d')
    BY <2>2, <2>5
  <2>7. Steps(d, e)
    BY <1>0, <2>4, StepsCompose
  <2> QED
    BY <2>6, <2>7, StepsCompose
<1>9. CASE StaticChunk
  <2> DEFINE f(e) == [e EXCEPT !.chunks = d.chunks - 1]
  <2>1. PICK e \in LowWrites(d, 1) :
          d' = IF d.chunks = 1 THEN StaticEnd(f(e)) ELSE f(e)
    BY <1>9 DEF StaticChunk
  <2>2. Steps(d, e)
    BY LowWritesSteps
  <2>3. d.chunks - 1 \in Nat
    BY <1>9 DEF StaticChunk, Idle, Sound, Typed, Counts
  <2>4. Steps(e, f(e))
    BY <2>2, <2>3, FlagSteps DEF Steps
  <2> HIDE DEF f
  <2>5. Steps(f(e), d')
    BY <2>1, <2>4, StaticEndSteps, StepsSame DEF Steps
  <2> QED
    BY <2>2, <2>4, <2>5, StepsCompose
<1>10. CASE DeferFinish
  <2> DEFINE f == [d EXCEPT !.deferred = FALSE]
  <2>1. Steps(d, f)
    BY FlagSteps
  <2> HIDE DEF f
  <2>2. PICK n \in 1..MaxWrite : \E e \in LowWrites(f, n) : d' \in Finishes(e)
    BY <1>10 DEF DeferFinish, f
  <2>6. PICK e \in LowWrites(f, n) : d' \in Finishes(e)
    BY <2>2
  <2>3. n \in Nat
    BY ConstantsAssumption
  <2>4. Steps(f, e)
    BY <2>1, <2>3, LowWritesSteps DEF Steps
  <2>5. Steps(e, d')
    BY <2>4, <2>6, FinishesSteps DEF Steps
  <2> QED
    BY <2>1, <2>4, <2>5, StepsCompose
<1>11. CASE DeferDone
  BY <1>11, DonesSteps DEF DeferDone
<1>12. CASE DeferAbort
  <2> DEFINE f == [d EXCEPT !.deferred = FALSE]
  <2>1. Steps(d, f)
    BY FlagSteps
  <2>2. Steps(f, Close(f, "closed"))
    BY <2>1, CloseSteps DEF Steps, Causes
  <2> QED
    BY <1>12, <2>1, <2>2, StepsCompose DEF DeferAbort
<1> QED
  BY <1>1, <1>2, <1>3, <1>4, <1>5, <1>6, <1>7, <1>8, <1>9, <1>10, <1>11, <1>12
  DEF Next

\* IndInv is inductive: no interleaving of handlers, partial sends, failed
\* allocations and reuses of the number breaks what axil_low_write() and
\* axil_write_remaining() assume of the queue.
THEOREM Inductive == Spec => []IndInv
<1>1. Init => IndInv
  BY FreshSound DEF Init, IndInv
<1>2. IndInv /\ [Next]_vars => IndInv'
  <2>1. ASSUME IndInv, Next
        PROVE  IndInv'
    BY <2>1, NextSteps, FreshSound DEF Steps, IndInv
  <2>2. IndInv /\ UNCHANGED vars => IndInv'
    BY DEF IndInv, vars
  <2> QED
    BY <2>1, <2>2
<1> QED
  BY <1>1, <1>2, PTL DEF Spec

\* Every field keeps its type and the buffer its size, so no memcpy() of the
\* write path went past the allocation.
THEOREM TypeCorrect == Spec => []TypeOK
<1>1. IndInv => TypeOK
  BY DEF IndInv, Sound, TypeOK
<1> QED
  BY <1>1, Inductive, PTL

\* The queued bytes stay inside the allocation axil_rem_may_inc() manages.
THEOREM InBounds == Spec => []QueueInBounds
<1>1. IndInv => QueueInBounds
  BY DEF IndInv, Sound, Queue, QueueInBounds
<1> QED
  BY <1>1, Inductive, PTL

\* While the connection is open, the queue is exactly what the kernel has not
\* taken of the bytes axil_write() accepted.
THEOREM NothingLost == Spec => []QueueIsTheRest
<1>1. IndInv => QueueIsTheRest
  BY DEF IndInv, Sound, Queue, QueueIsTheRest
<1> QED
  BY <1>1, Inductive, PTL

\* What the peer of a sound slot has seen is a prefix of the stream, and all of
\* it if the connection drained.
LEMMA SoundWire ==
  ASSUME NEW c, Sound(c)
  PROVE  /\ c.wire = [i \in 1..Len(c.wire) |-> i]
         /\ c.cause = "drained" /\ ~c.open => Len(c.wire) = c.accepted
<1>1. c.wire \in Seq(Nat) /\ \A i \in 1..Len(c.wire) : c.wire[i] = i
  BY DEF Sound, Typed, Bytes, InOrder
<1>2. DOMAIN c.wire = 1..Len(c.wire) /\ c.wire \in [1..Len(c.wire) -> Nat]
  BY <1>1, LenProperties
<1>3. c.wire = [i \in 1..Len(c.wire) |-> i]
  BY <1>1, <1>2
<1>4. c.cause = "drained" /\ ~c.open => Len(c.wire) = c.accepted
  BY DEF Sound, NoQueue
<1> QED
  BY <1>3, <1>4

\* WriteQueue implements ByteStream: the peer sees the accepted bytes in order,
\* and all of them when the server ends the connection for want of more.
THEOREM Implements == Spec => InOrderDelivery
<1>1. Init => Stream!Init
  BY FreshSound DEF Init, Stream!Init
<1>2. IndInv /\ IndInv' /\ [Next]_vars => [Stream!Next]_(Stream!vars)
  <2>1. ASSUME IndInv, IndInv', Next, ~d.open, d' = FreshDescr
        PROVE  Stream!Reuse
    BY <2>1, FreshSound DEF Stream!Reuse
  <2>2. ASSUME IndInv, IndInv', Next, Steps(d, d'), d.open
        PROVE  Stream!Advance
    <3>1. /\ d'.accepted \in Nat /\ Len(d'.wire) \in Nat
          /\ Len(d'.wire) <= d'.accepted /\ d'.open \in BOOLEAN
          /\ d'.accepted >= d.accepted /\ Len(d'.wire) >= Len(d.wire)
      BY <2>2, SoundTypes DEF Steps, Grows
    <3>2. /\ d'.wire = [i \in 1..Len(d'.wire) |-> i]
          /\ d'.cause = "drained" /\ ~d'.open => Len(d'.wire) = d'.accepted
      BY <2>2, SoundWire DEF Steps
    <3> QED
      BY <2>2, <3>1, <3>2 DEF Stream!Advance, Stream!FirstBytes
  <2>3. ASSUME IndInv, IndInv', Next, Steps(d, d'), ~d.open
        PROVE  UNCHANGED Stream!vars
    BY <2>3 DEF Stream!vars, Steps, Grows
  <2>4. UNCHANGED vars => UNCHANGED Stream!vars
    BY DEF vars, Stream!vars
  <2>5. ASSUME IndInv
        PROVE  d.open \in BOOLEAN
    BY <2>5, SoundTypes DEF IndInv
  <2> QED
    BY <2>1, <2>2, <2>3, <2>4, <2>5, NextSteps DEF Stream!Next
<1> QED
  BY <1>1, <1>2, Inductive, PTL DEF Spec, InOrderDelivery, Stream!Spec


-----------------------------------------------------------------------------
(* Whole responses.  What the calls make of the flags and the counts of     *)
(* bytes, the queue's content aside.                                        *)

\* A call that accepts nothing, and leaves the slot live or closes it.
Counted(c, e) ==
  /\ DOMAIN e = Fields
  /\ e.accepted = c.accepted /\ e.tried = c.tried
  /\ e.pipelined = c.pipelined /\ e.chunks = c.chunks

Stays(c, e) ==
  /\ e.open = c.open /\ e.toClose = c.toClose /\ e.deferred = c.deferred
  /\ e.cause = c.cause

Ends(e, whys) == ~e.open /\ ~e.deferred /\ e.cause \in whys

Ruptures == {"error", "nomem"}

LEMMA CloseEnds ==
  ASSUME NEW c, DOMAIN c = Fields, c.open, NEW why
  PROVE  Counted(c, Close(c, why)) /\ Ends(Close(c, why), {why})
BY DEF Close, Counted, Ends, Fields

\* axil_write_remaining(): only here may a write end a connection well.
LEMMA FlushesEnd ==
  ASSUME NEW c, DOMAIN c = Fields, c.open, NEW e \in Flushes(c)
  PROVE  Counted(c, e) /\ (Stays(c, e) \/ Ends(e, {"error", "drained"}))
<1>1. CASE e = c
  BY <1>1 DEF Counted, Stays
<1>2. CASE e = Close(c, "error")
  BY <1>2, CloseEnds DEF Ends
<1>3. ASSUME NEW k \in 1..c.len, e = Sent(c, k)
      PROVE  Counted(c, e) /\ (Stays(c, e) \/ Ends(e, {"error", "drained"}))
  <2> DEFINE t == [c EXCEPT !.wire = @ \o [i \in 1..k |-> c.buf[c.off + i - 1]],
                            !.len = @ - k,
                            !.off = IF k = c.len THEN 0 ELSE @ + k]
  <2>1. /\ Counted(c, t) /\ Stays(c, t) /\ t.open
    BY DEF Counted, Stays, Fields
  <2>2. e = t \/ e = Close(t, "drained")
    BY <1>3 DEF Sent
  <2> HIDE DEF t
  <2>3. CASE e = Close(t, "drained")
    <3>1. Counted(t, e) /\ Ends(e, {"drained"})
      BY <2>1, <2>3, CloseEnds DEF Counted
    <3> QED
      BY <2>1, <3>1 DEF Counted, Ends
  <2> QED
    BY <2>1, <2>2, <2>3
<1> QED
  BY <1>1, <1>2, <1>3 DEF Flushes

LEMMA RoomsStay ==
  ASSUME NEW c, DOMAIN c = Fields, NEW n, NEW e \in Rooms(c, n)
  PROVE  Counted(c, e) /\ Stays(c, e)
<1>1. Counted(c, Compact(c)) /\ Stays(c, Compact(c))
  BY DEF Compact, Counted, Stays, Fields
<1>2. ASSUME NEW f, Counted(c, f), Stays(c, f), NEW size
      PROVE  Counted(c, Realloc(f, size)) /\ Stays(c, Realloc(f, size))
  BY <1>2 DEF Realloc, Counted, Stays, Fields
<1>3. \/ e = c \/ e = Compact(c)
      \/ \E size \in DoubledSizes(c.size, c.len + n) : e = Realloc(Compact(c), size)
  BY DEF Rooms
<1> QED
  BY <1>1, <1>2, <1>3 DEF Counted, Stays

LEMMA AppendsEnd ==
  ASSUME NEW c, DOMAIN c = Fields, c.open, NEW n, NEW e \in Appends(c, n)
  PROVE  Counted(c, e) /\ (Stays(c, e) \/ Ends(e, Ruptures \cup {"drained"}))
<1>1. CASE e = Close(c, "nomem")
  BY <1>1, CloseEnds DEF Ends, Ruptures
<1>2. ASSUME NEW r \in Rooms(c, n), e \in Flushes(Appended(r, n))
      PROVE  Counted(c, e) /\ (Stays(c, e) \/ Ends(e, Ruptures \cup {"drained"}))
  <2> DEFINE a == Appended(r, n)
  <2>1. Counted(c, r) /\ Stays(c, r)
    BY RoomsStay
  <2>2. Counted(c, a) /\ Stays(c, a)
    BY <2>1 DEF Appended, Counted, Stays, Fields
  <2> HIDE DEF a
  <2>3. Counted(a, e) /\ (Stays(a, e) \/ Ends(e, {"error", "drained"}))
    BY <1>2, <2>2, FlushesEnd DEF Counted, Stays, a
  <2> QED
    BY <2>2, <2>3 DEF Counted, Stays, Ends, Ruptures
<1> QED
  BY <1>1, <1>2 DEF Appends, NoRooms

\* With nothing queued before, axil_low_write() never flushes: what it queues
\* stays until the next call.
LEMMA SendsEnd ==
  ASSUME NEW c, DOMAIN c = Fields, c.open, NEW n, NEW e \in Sends(c, n)
  PROVE  Counted(c, e) /\ (Stays(c, e) \/ Ends(e, Ruptures))
<1>1. ASSUME NEW k
      PROVE  Counted(c, Direct(c, k, n)) /\ Stays(c, Direct(c, k, n))
  BY DEF Direct, Counted, Stays, Fields
<1>2. CASE e = Close(c, "error")
  BY <1>2, CloseEnds DEF Ends, Ruptures
<1>3. CASE e = Direct(c, n, n)
  BY <1>1, <1>3
<1>4. ASSUME NEW k \in 0..(n - 1),
             e \in NoRooms(Direct(c, k, n), n - k) \cup
                   {Queued(f, n - k) : f \in Rooms(Direct(c, k, n), n - k)}
      PROVE  Counted(c, e) /\ (Stays(c, e) \/ Ends(e, Ruptures))
  <2> DEFINE f == Direct(c, k, n)
             m == n - k
  <2>1. Counted(c, f) /\ Stays(c, f)
    BY <1>1
  <2> HIDE DEF f, m
  <2>2. CASE e = Close(f, "nomem")
    <3>1. Counted(f, e) /\ Ends(e, {"nomem"})
      BY <2>1, <2>2, CloseEnds DEF Counted, Stays
    <3> QED
      BY <2>1, <3>1 DEF Counted, Ends, Ruptures
  <2>3. ASSUME NEW g \in Rooms(f, m), e = Queued(g, m)
        PROVE  Counted(c, e) /\ Stays(c, e)
    <3>1. Counted(f, g) /\ Stays(f, g)
      BY <2>1, RoomsStay DEF Counted
    <3>2. Counted(g, e) /\ Stays(g, e)
      BY <2>3, <3>1 DEF Queued, Counted, Stays, Fields
    <3> QED
      BY <2>1, <3>1, <3>2 DEF Counted, Stays
  <2> QED
    BY <1>4, <2>2, <2>3 DEF NoRooms, f, m
<1> QED
  BY <1>2, <1>3, <1>4 DEF Sends

\* axil_low_write(): it accepts all it is given while the number is live.
Wrote(c, e, n) ==
  /\ DOMAIN e = Fields
  /\ e.tried = c.tried + n
  /\ e.pipelined = c.pipelined /\ e.chunks = c.chunks
  /\ IF ~c.open THEN Stays(c, e) /\ e.accepted = c.accepted
     ELSE /\ e.accepted = c.accepted + n
          /\ Stays(c, e) \/ Ends(e, Ruptures)
               \/ (c.len # 0 /\ Ends(e, {"drained"}))

LEMMA LowWritesWrote ==
  ASSUME NEW c, DOMAIN c = Fields, NEW n, NEW e \in LowWrites(c, n)
  PROVE  Wrote(c, e, n)
<1> DEFINE t == [c EXCEPT !.tried = @ + n]
           a == Accept(t, n)
<1>1. /\ DOMAIN t = Fields /\ t.tried = c.tried + n /\ t.accepted = c.accepted
      /\ t.pipelined = c.pipelined /\ t.chunks = c.chunks /\ Stays(c, t)
      /\ t.len = c.len
  BY DEF Stays, Fields
<1>2. CASE ~c.open
  BY <1>1, <1>2 DEF LowWrites, Wrote
<1>3. CASE c.open
  <2> HIDE DEF t
  <2>1. /\ DOMAIN a = Fields /\ a.tried = t.tried /\ a.accepted = t.accepted + n
        /\ a.pipelined = t.pipelined /\ a.chunks = t.chunks /\ Stays(t, a)
    BY <1>1 DEF Accept, Stays, Fields
  <2> HIDE DEF a
  <2>2. a.open
    BY <1>1, <1>3, <2>1 DEF Stays
  <2>3. e \in IF c.len > 0 THEN Appends(a, n) ELSE Sends(a, n)
    BY <1>3 DEF LowWrites, t, a
  <2>4. /\ Counted(a, e)
        /\ Stays(a, e) \/ Ends(e, Ruptures) \/ (c.len # 0 /\ Ends(e, {"drained"}))
    <3>1. CASE c.len > 0
      <4>1. c.len # 0
        BY <3>1
      <4>2. Counted(a, e) /\ (Stays(a, e) \/ Ends(e, Ruptures \cup {"drained"}))
        BY <2>1, <2>2, <2>3, <3>1, AppendsEnd
      <4> QED
        BY <4>1, <4>2 DEF Ends
    <3>2. CASE ~(c.len > 0)
      BY <2>1, <2>2, <2>3, <3>2, SendsEnd
    <3> QED
      BY <3>1, <3>2
  <2> QED
    BY <1>1, <1>3, <2>1, <2>4 DEF Wrote, Counted, Stays
<1> QED
  BY <1>2, <1>3

\* In the middle of a response: while the number is live no byte was dropped,
\* and the response is marked to end the connection.
Mid(c) ==
  /\ Sound(c) /\ c.chunks = 0
  /\ c.open => c.toClose /\ c.cause = "none" /\ c.accepted = c.tried
  /\ c.cause = "drained" /\ ~c.pipelined => c.accepted = c.tried

\* Before its last write, only the queue of an earlier response may have ended
\* the connection.
Unended(c) == Mid(c) /\ (~c.open => c.pipelined \/ c.cause # "drained")

LEMMA MidFields ==
  ASSUME NEW c, Mid(c)
  PROVE  DOMAIN c = Fields /\ c.open \in BOOLEAN /\ c.deferred \in BOOLEAN
BY DEF Mid, Sound, Typed, Flags

\* The first write, on a queue that is empty or another response's, and those
\* after it.
LEMMA FirstWrite ==
  ASSUME NEW c, Unended(c), c.open, ~c.pipelined => c.len = 0, NEW n \in Nat,
         NEW e \in LowWrites(c, n)
  PROVE  Unended(e) /\ (~c.deferred => ~e.deferred)
<1>1. Wrote(c, e, n) /\ Sound(e)
  BY MidFields, LowWritesWrote, LowWritesSteps DEF Unended, Mid, Steps
<1>2. /\ e.tried = c.tried + n /\ e.accepted = c.accepted + n
      /\ e.pipelined = c.pipelined /\ e.chunks = 0
      /\ Stays(c, e) \/ Ends(e, Ruptures) \/ (c.len # 0 /\ Ends(e, {"drained"}))
  BY <1>1 DEF Wrote, Unended, Mid
<1>3. e.accepted = e.tried
  BY <1>2 DEF Unended, Mid
<1>4. CASE Stays(c, e)
  BY <1>1, <1>2, <1>3, <1>4 DEF Stays, Unended, Mid
<1>5. CASE Ends(e, Ruptures)
  BY <1>1, <1>2, <1>3, <1>5 DEF Ends, Ruptures, Unended, Mid
<1>6. CASE c.len # 0 /\ Ends(e, {"drained"})
  BY <1>1, <1>2, <1>3, <1>6 DEF Ends, Unended, Mid
<1> QED
  BY <1>2, <1>4, <1>5, <1>6

LEMMA LastWrite ==
  ASSUME NEW c, Unended(c), NEW n \in Nat, NEW e \in LowWrites(c, n)
  PROVE  Mid(e) /\ (~c.deferred => ~e.deferred)
<1>1. Wrote(c, e, n) /\ Sound(e)
  BY MidFields, LowWritesWrote, LowWritesSteps DEF Unended, Mid, Steps
<1>2. e.tried = c.tried + n /\ e.pipelined = c.pipelined /\ e.chunks = 0
  BY <1>1 DEF Wrote, Unended, Mid
<1>3. CASE ~c.open
  <2>1. Stays(c, e)
    BY <1>1, <1>3 DEF Wrote
  <2> QED
    BY <1>1, <1>2, <1>3, <2>1 DEF Stays, Unended, Mid
<1>4. CASE c.open
  <2>1. /\ e.accepted = c.accepted + n
        /\ Stays(c, e) \/ Ends(e, Ruptures \cup {"drained"})
    BY <1>1, <1>4 DEF Wrote, Ends
  <2>2. e.accepted = e.tried
    BY <1>2, <1>4, <2>1 DEF Unended, Mid
  <2>3. CASE Stays(c, e)
    BY <1>1, <1>2, <1>4, <2>2, <2>3 DEF Stays, Unended, Mid
  <2>4. CASE Ends(e, Ruptures \cup {"drained"})
    BY <1>1, <1>2, <2>2, <2>4 DEF Ends, Ruptures, Unended, Mid
  <2> QED
    BY <2>1, <2>3, <2>4
<1> QED
  BY <1>3, <1>4

\* The queue is flushed, and closes the connection when it is empty.
LEMMA FlushesMid ==
  ASSUME NEW c, Mid(c), ~c.deferred, c.open, NEW e \in Flushes(c)
  PROVE  Mid(e) /\ ~e.deferred
<1>1. Counted(c, e) /\ (Stays(c, e) \/ Ends(e, {"error", "drained"}))
  BY MidFields, FlushesEnd
<1>2. Sound(e)
  BY FlushesSteps DEF Mid, Steps
<1>3. /\ e.accepted = e.tried /\ e.chunks = 0 /\ e.pipelined = c.pipelined
  BY <1>1 DEF Counted, Mid
<1> QED
  BY <1>1, <1>2, <1>3 DEF Stays, Ends, Mid

LEMMA FinishesMid ==
  ASSUME NEW c, Mid(c), ~c.deferred, NEW e \in Finishes(c)
  PROVE  Mid(e) /\ ~e.deferred
<1> DEFINE m == MarkToClose(c)
<1>1. Mid(m) /\ ~m.deferred /\ m.open = c.open /\ m.len = c.len /\ Sound(m)
  <2>1. Sound(m)
    BY FlagSteps DEF Mid, Steps, MarkToClose
  <2>2. /\ m.chunks = c.chunks /\ m.open = c.open /\ m.toClose /\ m.cause = c.cause
        /\ m.accepted = c.accepted /\ m.tried = c.tried /\ m.len = c.len
        /\ m.pipelined = c.pipelined /\ m.deferred = c.deferred
    BY MidFields DEF MarkToClose, Fields
  <2> QED
    BY <2>1, <2>2 DEF Mid
<1>2. e \in IF c.len = 0 THEN {Close(m, "drained")} ELSE Flushes(m)
  BY DEF Finishes
<1>3. Sound(e)
  BY FinishesSteps DEF Mid, Steps
<1> HIDE DEF m
<1>4. CASE ~m.open
  <2>1. m.len = 0
    BY <1>1, <1>4 DEF Sound, NoQueue
  <2>2. e = m
    BY <1>1, <1>2, <1>4, <2>1 DEF Close
  <2> QED
    BY <1>1, <2>2
<1>5. CASE m.open /\ c.len = 0
  <2>1. Counted(m, e) /\ Ends(e, {"drained"})
    BY <1>1, <1>2, <1>5, CloseEnds, MidFields
  <2> QED
    BY <1>1, <1>3, <1>5, <2>1 DEF Mid, Counted, Ends
<1>6. CASE m.open /\ c.len # 0
  BY <1>1, <1>2, <1>6, FlushesMid
<1> QED
  BY <1>1, <1>4, <1>5, <1>6

\* Between the calls of an event loop whose routes answer with axil_respond()
\* and axil_respond_file(): no queue but that of a response that is done.
Told(c) ==
  /\ Sound(c) /\ c.chunks = 0 /\ ~c.deferred
  /\ c.open => c.cause = "none" /\ c.accepted = c.tried /\ (~c.toClose => c.len = 0)
  /\ c.cause = "drained" /\ ~c.pipelined => c.accepted = c.tried

LEMMA MidTold ==
  ASSUME NEW c, Mid(c), ~c.deferred
  PROVE  Told(c)
BY DEF Mid, Told

\* request_handle() marks the descriptor.
LEMMA RequestUnended ==
  ASSUME NEW c, Told(c), c.open
  PROVE  /\ Unended(Request(c)) /\ Request(c).open /\ ~Request(c).deferred
         /\ ~Request(c).pipelined => Request(c).len = 0
<1> DEFINE e == Request(c)
<1>1. /\ DOMAIN c = Fields /\ c.open \in BOOLEAN /\ c.toClose \in BOOLEAN
      /\ c.pipelined \in BOOLEAN
  BY DEF Told, Sound, Typed, Flags
<1>2. /\ e.open = c.open /\ e.toClose /\ e.cause = c.cause
      /\ e.accepted = c.accepted /\ e.tried = c.tried /\ e.len = c.len
      /\ e.chunks = c.chunks /\ e.deferred = c.deferred
      /\ e.pipelined <=> c.pipelined \/ c.toClose
  BY <1>1 DEF Request, MarkToClose, Fields
<1>3. Sound(e)
  BY FlagSteps DEF Told, Steps
<1> HIDE DEF e
<1>4. Unended(e) /\ e.open /\ ~e.deferred /\ (~e.pipelined => e.len = 0)
  BY <1>1, <1>2, <1>3 DEF Told, Unended, Mid
<1> QED
  BY <1>4 DEF e

LEMMA RespondsTold ==
  ASSUME NEW c, Told(c), c.open, NEW n \in Nat \ {0},
         NEW e \in Responds(Request(c), n)
  PROVE  Told(e)
<1> DEFINE r == Request(c)
<1>1. Unended(r) /\ r.open /\ ~r.deferred /\ (~r.pipelined => r.len = 0)
  BY RequestUnended
<1>2. ASSUME NEW f, Mid(f), ~f.deferred, e \in Finishes(f)
      PROVE  Told(e)
  BY <1>2, FinishesMid, MidTold
<1> HIDE DEF r
<1>3. ASSUME NEW f \in LowWrites(r, n), e \in Finishes(f)
      PROVE  Told(e)
  <2>1. Mid(f) /\ ~f.deferred
    BY <1>1, <1>3, FirstWrite DEF Unended
  <2> QED
    BY <1>2, <1>3, <2>1
<1>4. ASSUME NEW g \in LowWrites(r, 1), NEW f \in LowWrites(g, n - 1),
             e \in Finishes(f)
      PROVE  Told(e)
  <2>1. Unended(g) /\ ~g.deferred
    BY <1>1, <1>4, FirstWrite
  <2>2. n - 1 \in Nat
    OBVIOUS
  <2>3. Mid(f) /\ ~f.deferred
    BY <1>4, <2>1, <2>2, LastWrite
  <2> QED
    BY <1>2, <1>4, <2>3
<1> QED
  BY <1>3, <1>4 DEF Responds, r

\* axil_respond_defer_done() ends a response, deferred or not.
LEMMA DonesTold ==
  ASSUME NEW c, Mid(c), NEW e \in Dones(c)
  PROVE  Told(e)
<1>1. CASE ~c.deferred
  BY <1>1, MidTold DEF Dones
<1>2. CASE c.deferred
  <2> DEFINE f == [c EXCEPT !.deferred = FALSE]
  <2>1. Sound(f)
    BY FlagSteps DEF Mid, Steps
  <2>2. /\ f.chunks = c.chunks /\ f.open = c.open /\ f.toClose = c.toClose
        /\ f.cause = c.cause /\ f.accepted = c.accepted /\ f.tried = c.tried
        /\ f.pipelined = c.pipelined /\ ~f.deferred
    BY MidFields DEF Fields
  <2>3. e \in Finishes(f)
    BY <1>2 DEF Dones
  <2> HIDE DEF f
  <2>4. Mid(f)
    BY <2>1, <2>2 DEF Mid
  <2> QED
    BY <2>2, <2>3, <2>4, FinishesMid, MidTold
<1> QED
  BY <1>1, <1>2

LEMMA RespondFilesTold ==
  ASSUME NEW c, Told(c), c.open, NEW n \in Nat \ {0},
         NEW e \in RespondFiles(Request(c), n)
  PROVE  Told(e)
<1> DEFINE r == Request(c)
<1>1. Unended(r) /\ r.open /\ ~r.deferred /\ (~r.pipelined => r.len = 0)
  BY RequestUnended
<1> HIDE DEF r
<1>2. PICK f \in Defers(r, 1) : \E g \in LowWrites(f, n - 1) : e \in Dones(g)
  BY <1>1 DEF RespondFiles, r
<1>3. PICK g \in LowWrites(f, n - 1) : e \in Dones(g)
  BY <1>2
<1>4. PICK h \in LowWrites(r, 1) : f = [h EXCEPT !.deferred = TRUE]
  BY <1>1, <1>2 DEF Defers
<1>5. Unended(h)
  BY <1>1, <1>4, FirstWrite
<1>6. Unended(f)
  <2>1. Sound(f)
    BY <1>4, <1>5, FlagSteps DEF Unended, Mid, Steps
  <2>2. /\ f.chunks = h.chunks /\ f.open = h.open /\ f.toClose = h.toClose
        /\ f.cause = h.cause /\ f.accepted = h.accepted /\ f.tried = h.tried
        /\ f.pipelined = h.pipelined
    BY <1>4, <1>5, MidFields DEF Unended, Fields
  <2> QED
    BY <1>5, <2>1, <2>2 DEF Unended, Mid
<1>7. n - 1 \in Nat
  OBVIOUS
<1>8. Mid(g)
  BY <1>3, <1>6, <1>7, LastWrite
<1> QED
  BY <1>3, <1>8, DonesTold

LEMMA FlushesTold ==
  ASSUME NEW c, Told(c), c.len # 0, NEW e \in Flushes(c)
  PROVE  Told(e)
<1>1. c.open
  BY DEF Told, Sound, NoQueue
<1>2. Mid(c)
  BY <1>1 DEF Told, Mid
<1> QED
  BY <1>1, <1>2, FlushesMid, MidTold DEF Told

\* Every route answers with axil_respond() or axil_respond_file(), and nothing
\* else writes to its connection.
WholeResponses == Handlers \subseteq {"respond", "file"}

LEMMA NextTold ==
  ASSUME WholeResponses, Told(d), [Next]_vars
  PROVE  Told(d')
<1>0. /\ d.open \in BOOLEAN /\ DOMAIN d = Fields /\ d.len \in Nat
      /\ "static" \notin Handlers /\ "write" \notin Handlers
      /\ "defer" \notin Handlers
  BY DEF Told, Sound, Typed, Flags, Counts, WholeResponses
<1>1. CASE DescrNew
  <2>1. d' = FreshDescr
    BY <1>1 DEF DescrNew
  <2> QED
    BY <2>1, FreshSound DEF FreshDescr, Told
<1>2. CASE CloseNow
  <2>1. d.open /\ d' = Close(d, "closed")
    BY <1>2 DEF CloseNow
  <2>2. Counted(d, d') /\ Ends(d', {"closed"})
    BY <1>0, <2>1, CloseEnds
  <2>3. Sound(d')
    BY <2>1, CloseSteps DEF Told, Steps, Causes
  <2> QED
    BY <2>2, <2>3 DEF Counted, Ends, Told
<1>3. CASE Flush
  BY <1>0, <1>3, FlushesTold DEF Flush
<1>4. CASE HandleRespond
  <2>1. PICK n \in 1..MaxWrite : d' \in Responds(Request(d), n)
    BY <1>4 DEF HandleRespond
  <2>2. n \in Nat \ {0} /\ d.open
    BY <1>4, ConstantsAssumption DEF HandleRespond
  <2> QED
    BY <2>1, <2>2, RespondsTold
<1>5. CASE HandleRespondFile
  <2>1. PICK n \in 2..MaxWrite : d' \in RespondFiles(Request(d), n)
    BY <1>5 DEF HandleRespondFile
  <2>2. n \in Nat \ {0} /\ d.open
    BY <1>5, ConstantsAssumption DEF HandleRespondFile
  <2> QED
    BY <2>1, <2>2, RespondFilesTold
<1>6. CASE UNCHANGED vars
  BY <1>6 DEF vars
<1>7. ~AppWrite /\ ~HandleDefer /\ ~HandleStatic
  BY <1>0 DEF AppWrite, HandleDefer, HandleStatic
<1>8. ~StaticChunk /\ ~DeferFinish /\ ~DeferDone /\ ~DeferAbort
  BY DEF Told, StaticChunk, Idle, DeferFinish, DeferDone, DeferAbort
<1> QED
  BY <1>1, <1>2, <1>3, <1>4, <1>5, <1>6, <1>7, <1>8 DEF Next

\* Where every response is an axil_respond() or an axil_respond_file(), a
\* connection the server closes because the response is out has got all of it:
\* only a queue left by an earlier response can drain under a later one.
THEOREM ResponsesAreWhole ==
  ASSUME WholeResponses
  PROVE  Spec => []ResponseComplete
<1>1. Init => Told(d)
  BY FreshSound DEF Init, FreshDescr, Told
<1>2. Told(d) /\ [Next]_vars => Told(d)'
  BY NextTold
<1>3. Told(d) => ResponseComplete
  <2> SUFFICES ASSUME Told(d), d.cause = "drained", ~d.pipelined
               PROVE  Len(d.wire) = d.tried
    BY DEF ResponseComplete
  <2>1. ~d.open /\ d.accepted = d.tried
    BY DEF Told
  <2>2. Len(d.wire) = d.accepted
    BY <2>1, SoundWire DEF Told
  <2> QED
    BY <2>1, <2>2
<1> QED
  BY <1>1, <1>2, <1>3, PTL DEF Spec
=============================================================================
