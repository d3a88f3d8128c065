--------------------------- MODULE RequestsProofs ---------------------------
(***************************************************************************)
(* Proofs about Requests, for any connections, any streams and any sizes.  *)
(* A step of the loop closes a connection, leaves it, or reads some more   *)
(* of it; each is a lemma, and the actions are instances of them.          *)
(***************************************************************************)
EXTENDS Requests, Induction, SequenceTheorems, FiniteSetTheorems

\* The kinds of gathered bytes, of any table of connections.
KindsIn(cn, data) == [i \in 1..Len(data) |-> cn[data[i][1]].stream[data[i][2]]]

Data == Seq(Conns \X Nat)

\* Bytes of c, of the first p it sent.
UpTo(data, c, p) == \A i \in 1..Len(data) : data[i][1] = c /\ data[i][2] \in 1..p

LEMMA KindsAre == ASSUME NEW data PROVE KindsOf(data) = KindsIn(conn, data)
BY DEF KindsOf, KindsIn

LEMMA KindsNext == KindsOf(input.data)' = KindsIn(conn', input'.data)
BY DEF KindsOf, KindsIn

LEMMA Joined ==
  ASSUME NEW u \in Seq(Conns \X Nat), NEW v \in Seq(Conns \X Nat)
  PROVE  /\ u \o v \in Seq(Conns \X Nat) /\ Len(u \o v) = Len(u) + Len(v)
         /\ \A i \in 1..Len(u) + Len(v) :
              (u \o v)[i] = IF i <= Len(u) THEN u[i] ELSE v[i - Len(u)]
BY ConcatProperties

\* As many kinds as bytes.
LEMMA KindsLength ==
  ASSUME NEW cn, NEW data \in Data
  PROVE  /\ Len(KindsIn(cn, data)) = Len(data) /\ Len(data) \in Nat
         /\ \A i \in 1..Len(data) :
              KindsIn(cn, data)[i] = cn[data[i][1]].stream[data[i][2]]
BY DEF KindsIn, Data

LEMMA UpToMore ==
  ASSUME NEW data, NEW c, NEW p \in Nat, NEW q \in Nat, p <= q, UpTo(data, c, p)
  PROVE  UpTo(data, c, q)
BY DEF UpTo

\* A record with bytes read, with its stash dropped.
LEMMA PosMoved ==
  ASSUME NEW d \in Connection, NEW n \in Nat
  PROVE  LET e == [d EXCEPT !.pos = @ + n]
         IN  /\ e \in Connection /\ e.pos = d.pos + n /\ e.stream = d.stream
             /\ e.start = d.start /\ e.head = d.head /\ e.headCap = d.headCap
BY DEF Connection

LEMMA StashDropped ==
  ASSUME NEW d \in Connection
  PROVE  LET e == [d EXCEPT !.head = <<>>]
         IN  /\ e \in Connection /\ e.pos = d.pos /\ e.stream = d.stream
             /\ e.start = d.start /\ e.head = <<>> /\ e.headCap = d.headCap
<1>1. <<>> \in Seq(Conns \X Nat)
  OBVIOUS
<1> QED
  BY <1>1 DEF Connection

\* Nothing, or almost nothing, is no complete head.
LEMMA EmptyIncomplete ==
  ASSUME NEW cn
  PROVE  ~HeadComplete(KindsIn(cn, <<>>))
BY DEF HeadComplete, KindsIn

\* The inductive invariant of the bytes and the buffers.
Inv ==
  /\ TypeOK
  /\ BytesOwned
  /\ HeadsCut
  /\ InBounds
  /\ \A c \in Conns : conn[c].headCap <= MaxHead

LEMMA ClosedTyped == Closed \in Connection
BY DEF Closed, Connection

LEMMA InitInv == RequestsAssumption /\ Init => Inv
<1> SUFFICES ASSUME RequestsAssumption, Init PROVE Inv
  OBVIOUS
<1>1. TypeOK
  BY ClosedTyped DEF TypeOK, Init, Idle, RequestsAssumption, Closed
<1>2. BytesOwned
  BY DEF BytesOwned, ReadFrom, Init, Closed
<1>3. HeadsCut
  BY KindsAre, EmptyIncomplete DEF HeadsCut, Init, Closed, Idle
<1>4. InBounds /\ \A c \in Conns : conn[c].headCap <= MaxHead
  BY DEF InBounds, Init, Closed, Idle, RequestsAssumption
<1> QED
  BY <1>1, <1>2, <1>3, <1>4 DEF Inv

\* A step that changes one connection leaves the stashes of the others alone.
LEMMA OthersStay ==
  ASSUME Inv, NEW c \in Conns, \A e \in Conns \ {c} : conn'[e] = conn[e]
  PROVE  \A e \in Conns \ {c} :
           /\ ReadFrom(conn[e].head, e)'
           /\ ~HeadComplete(KindsIn(conn', conn'[e].head))
           /\ Len(conn'[e].head) <= conn'[e].headCap
           /\ conn'[e].headCap <= MaxHead
<1> TAKE e \in Conns \ {c}
<1>1. conn[e].head \in Data /\ ReadFrom(conn[e].head, e)
  BY DEF Inv, TypeOK, Connection, Data, BytesOwned
<1>2. ReadFrom(conn[e].head, e)'
  BY <1>1 DEF ReadFrom
<1>3. KindsIn(conn', conn[e].head) = KindsIn(conn, conn[e].head)
  BY <1>1 DEF KindsIn, ReadFrom
<1>4. ~HeadComplete(KindsIn(conn, conn[e].head))
  BY DEF Inv, HeadsCut, KindsOf, KindsIn
<1> QED
  BY <1>2, <1>3, <1>4 DEF Inv, InBounds

\* What axil_close() leaves of the shared buffer.
LEMMA Cleared ==
  ASSUME RequestsAssumption, Inv, NEW b \in AfterClose
  PROVE  b.data = <<>> /\ b \in [size : Nat, data : Data]
<1>1. FirstSize \in Nat /\ input.size \in Nat /\ <<>> \in Data
  BY DEF Inv, TypeOK, RequestsAssumption, Data
<1>2. b = Clear(FirstSize) \/ b = Clear(input.size)
  BY DEF AfterClose
<1> QED
  BY <1>1, <1>2 DEF Clear

\* The loop is between two connections, one of which has the new record d.
LEMMA LeftKeeps ==
  ASSUME RequestsAssumption, Inv, NEW c \in Conns, NEW d \in Connection,
         conn' = [conn EXCEPT ![c] = d], reader' = Idle,
         input'.data = <<>>, input' \in [size : Nat, data : Data],
         d.pos <= Len(d.stream), d.start <= d.pos,
         UpTo(d.head, c, d.pos), ~HeadComplete(KindsIn(conn', d.head)),
         Len(d.head) <= d.headCap, d.headCap <= MaxHead
  PROVE  Inv'
<1>1. /\ conn' \in [Conns -> Connection] /\ conn'[c] = d
      /\ \A e \in Conns \ {c} : conn'[e] = conn[e]
  BY DEF Inv, TypeOK
<1>2. TypeOK'
  BY <1>1 DEF TypeOK, Inv, Data
<1>3. \A e \in Conns : /\ ReadFrom(conn[e].head, e)'
                       /\ ~HeadComplete(KindsIn(conn', conn'[e].head))
                       /\ Len(conn'[e].head) <= conn'[e].headCap
                       /\ conn'[e].headCap <= MaxHead
  BY <1>1, OthersStay DEF ReadFrom, UpTo
<1>4. BytesOwned'
  BY <1>3 DEF BytesOwned
<1>5. HeadsCut'
  BY <1>3 DEF HeadsCut, Idle, KindsOf, KindsIn
<1>6. InBounds'
  BY <1>2, <1>3 DEF InBounds, TypeOK, Idle
<1> QED
  BY <1>2, <1>3, <1>4, <1>5, <1>6 DEF Inv

\* axil_close(), wherever it is called from.
LEMMA CloseKeeps ==
  ASSUME RequestsAssumption, Inv, NEW c \in Conns,
         conn' = [conn EXCEPT ![c] = Closed], input' \in AfterClose,
         reader' = Idle
  PROVE  Inv'
<1>1. /\ Closed.head = <<>>
      /\ Closed.pos <= Len(Closed.stream) /\ Closed.start <= Closed.pos
      /\ Len(Closed.head) <= Closed.headCap /\ Closed.headCap <= MaxHead
  BY DEF Closed, RequestsAssumption
<1>2. input'.data = <<>> /\ input' \in [size : Nat, data : Data]
  BY Cleared
<1>3. UpTo(Closed.head, c, Closed.pos) /\ ~HeadComplete(KindsIn(conn', Closed.head))
  BY <1>1, EmptyIncomplete DEF UpTo
<1> QED
  BY <1>1, <1>2, <1>3, ClosedTyped, LeftKeeps

\* The reader closes its connection.
LEMMA CloseReaderKeeps ==
  ASSUME RequestsAssumption, Inv, reader # Idle, CloseReader
  PROVE  Inv'
BY CloseKeeps DEF CloseReader, Inv, TypeOK

\* The reader leaves its connection, having read as far as d says, with a stash
\* of its bytes that is no complete head.
LEMMA LeaveKeeps ==
  ASSUME RequestsAssumption, Inv, reader # Idle, NEW d \in Connection, Leave(d),
         d.stream = conn[reader.fd].stream,
         d.pos <= Len(d.stream), d.start <= d.pos, conn[reader.fd].pos <= d.pos,
         ReadFrom(d.head, reader.fd), ~HeadComplete(KindsIn(conn, d.head)),
         Len(d.head) <= d.headCap, d.headCap <= MaxHead
  PROVE  Inv'
<1>1. PICK c \in Conns : c = reader.fd
  BY DEF Inv, TypeOK
<1>2. /\ conn' = [conn EXCEPT ![c] = d] /\ reader' = Idle
      /\ conn'[c] = d /\ conn[c] \in Connection
  BY <1>1 DEF Leave, Inv, TypeOK
<1>3. input'.data = <<>> /\ input' \in [size : Nat, data : Data]
  <2>1. input.size \in Nat /\ <<>> \in Data
    BY DEF Inv, TypeOK, Data
  <2> QED
    BY <2>1 DEF Leave, Clear
<1>4. UpTo(d.head, c, d.pos)
  BY <1>1, <1>2 DEF ReadFrom, UpTo, Connection
<1>5. KindsIn(conn', d.head) = KindsIn(conn, d.head)
  <2>1. \A i \in 1..Len(d.head) :
          conn'[d.head[i][1]].stream = conn[d.head[i][1]].stream
    BY <1>1, <1>2 DEF ReadFrom
  <2> QED
    BY <2>1 DEF KindsIn
<1> QED
  BY <1>1, <1>2, <1>3, <1>4, <1>5, LeftKeeps

\* Accept().
LEMMA AcceptKeeps ==
  ASSUME RequestsAssumption, Inv, NEW c \in Conns, NEW s \in Streams, Accept(c, s)
  PROVE  Inv'
<1> DEFINE d == Fresh(s)
<1>1. /\ d \in Connection /\ d.head = <<>>
      /\ d.pos <= Len(d.stream) /\ d.start <= d.pos
      /\ Len(d.head) <= d.headCap /\ d.headCap <= MaxHead
  <2>1. Len(s) \in Nat /\ MaxHead \in Nat
    BY DEF RequestsAssumption
  <2> QED
    BY <2>1 DEF Fresh, Connection
<1>2. conn' = [conn EXCEPT ![c] = d] /\ reader' = Idle
  BY DEF Accept
<1>3. input'.data = <<>> /\ input' \in [size : Nat, data : Data]
  BY DEF Accept, Inv, TypeOK, BytesOwned, Data
<1>4. UpTo(d.head, c, d.pos) /\ ~HeadComplete(KindsIn(conn', d.head))
  BY <1>1, EmptyIncomplete DEF UpTo
<1> HIDE DEF d
<1> QED
  BY <1>1, <1>2, <1>3, <1>4, LeftKeeps

\* The loop goes on with connection c, whose record is now d, and r says where:
\* in b, it has read bytes of c that make a head as complete as r needs it.
LEMMA GoesOnKeeps ==
  ASSUME RequestsAssumption, Inv, NEW c \in Conns, NEW d \in Connection,
         NEW b \in [size : Nat, data : Data],
         NEW r \in [at : {"head", "route", "body", "handler"},
                    fd : {c}, stalls : 0..MaxStalls],
         conn' = [conn EXCEPT ![c] = d], input' = b, reader' = r,
         d.pos <= Len(d.stream), d.start <= d.pos,
         UpTo(d.head, c, d.pos), ~HeadComplete(KindsIn(conn', d.head)),
         Len(d.head) <= d.headCap, d.headCap <= MaxHead,
         UpTo(b.data, c, d.pos), Len(b.data) <= b.size,
         IF r.at = "head"
           THEN ~HeadComplete(KindsIn(conn', b.data)) /\ Len(d.head) <= Len(b.data)
           ELSE HeadComplete(KindsIn(conn', b.data)) /\ d.head = <<>>,
         r.at \in {"head", "route"} =>
           Len(b.data) <= MaxHead /\ (Len(b.data) > 0 => Len(b.data) < b.size)
  PROVE  Inv'
<1>1. /\ conn' \in [Conns -> Connection] /\ conn'[c] = d
      /\ \A e \in Conns \ {c} : conn'[e] = conn[e]
  BY DEF Inv, TypeOK
<1>2. TypeOK'
  BY <1>1 DEF TypeOK, Inv, Data
<1>3. \A e \in Conns : /\ ReadFrom(conn[e].head, e)'
                       /\ ~HeadComplete(KindsIn(conn', conn'[e].head))
                       /\ Len(conn'[e].head) <= conn'[e].headCap
                       /\ conn'[e].headCap <= MaxHead
  <2>1. \A e \in Conns \ {c} : /\ ReadFrom(conn[e].head, e)'
                               /\ ~HeadComplete(KindsIn(conn', conn'[e].head))
                               /\ Len(conn'[e].head) <= conn'[e].headCap
                               /\ conn'[e].headCap <= MaxHead
    BY <1>1, OthersStay
  <2>2. ReadFrom(conn[c].head, c)'
    BY <1>1 DEF ReadFrom, UpTo
  <2>3. /\ ~HeadComplete(KindsIn(conn', conn'[c].head))
        /\ Len(conn'[c].head) <= conn'[c].headCap
        /\ conn'[c].headCap <= MaxHead
    BY <1>1
  <2> QED
    BY <2>1, <2>2, <2>3
<1>4. r # Idle /\ r.fd = c
  BY DEF Idle
<1>5. BytesOwned'
  BY <1>1, <1>3, <1>4 DEF BytesOwned, ReadFrom, UpTo
<1>6. HeadsCut'
  <2>1. \A e \in Conns : ~HeadComplete(KindsOf(conn[e].head))'
    BY <1>3 DEF KindsOf, KindsIn
  <2>2. KindsOf(input.data)' = KindsIn(conn', b.data)
    BY KindsNext
  <2> QED
    BY <1>1, <1>4, <2>1, <2>2 DEF HeadsCut
<1>7. InBounds'
  BY <1>3 DEF InBounds
<1> QED
  BY <1>2, <1>3, <1>5, <1>6, <1>7 DEF Inv

\* What Inv says of the connection being served, and of what it has sent.
LEMMA Served ==
  ASSUME RequestsAssumption, Inv, reader # Idle
  PROVE  /\ reader.fd \in Conns /\ reader.stalls \in 0..MaxStalls
         /\ reader.at \in {"head", "route", "body", "handler"}
         /\ conn[reader.fd] \in Connection
         /\ conn[reader.fd].pos <= Len(conn[reader.fd].stream)
         /\ conn[reader.fd].start <= conn[reader.fd].pos
         /\ input.data \in Data /\ input.size \in Nat
         /\ Len(input.data) \in Nat /\ Len(input.data) <= input.size
         /\ UpTo(input.data, reader.fd, conn[reader.fd].pos)
         /\ UpTo(conn[reader.fd].head, reader.fd, conn[reader.fd].pos)
         /\ ~HeadComplete(KindsIn(conn, conn[reader.fd].head))
         /\ Len(conn[reader.fd].head) <= conn[reader.fd].headCap
         /\ conn[reader.fd].headCap <= MaxHead
         /\ MaxHead \in Nat /\ BufSize \in Nat
<1>1. /\ reader.fd \in Conns /\ reader.stalls \in 0..MaxStalls
      /\ reader.at \in {"head", "route", "body", "handler"}
      /\ input.data \in Data /\ input.size \in Nat
  BY DEF Inv, TypeOK, Data
<1>2. /\ conn[reader.fd] \in Connection
      /\ conn[reader.fd].pos <= Len(conn[reader.fd].stream)
      /\ conn[reader.fd].start <= conn[reader.fd].pos
  BY <1>1 DEF Inv, TypeOK
<1>3. /\ UpTo(input.data, reader.fd, conn[reader.fd].pos)
      /\ UpTo(conn[reader.fd].head, reader.fd, conn[reader.fd].pos)
  BY <1>1 DEF Inv, BytesOwned, ReadFrom, UpTo
<1>4. /\ ~HeadComplete(KindsIn(conn, conn[reader.fd].head))
      /\ Len(conn[reader.fd].head) <= conn[reader.fd].headCap
      /\ conn[reader.fd].headCap <= MaxHead /\ Len(input.data) <= input.size
  BY <1>1 DEF Inv, HeadsCut, InBounds, KindsOf, KindsIn
<1> QED
  BY <1>1, <1>2, <1>3, <1>4 DEF Data, RequestsAssumption

\* A read of n bytes of the connection being served appends bytes of its own.
LEMMA ReadAppends ==
  ASSUME RequestsAssumption, Inv, reader # Idle, NEW n \in Readable(reader.fd)
  PROVE  LET c == reader.fd
             data == input.data \o NextBytes(c, n)
         IN  /\ n \in Nat \ {0} /\ n <= BufSize
             /\ conn[c].pos + n <= Len(conn[c].stream)
             /\ data \in Data /\ Len(data) = Len(input.data) + n
             /\ UpTo(data, c, conn[c].pos + n)
             /\ \A i \in 1..Len(input.data) : data[i] = input.data[i]
<1> DEFINE c == reader.fd
           next == NextBytes(c, n)
           data == input.data \o next
<1>1. n \in Nat \ {0} /\ n <= BufSize /\ conn[c].pos + n <= Len(conn[c].stream)
  BY Served DEF Readable
<1>2. conn[c].pos \in Nat /\ c \in Conns
  BY Served DEF Connection
<1>3. /\ next \in Seq(Conns \X Nat) /\ Len(next) = n
      /\ \A i \in 1..n : next[i] = <<c, conn[c].pos + i>>
  BY <1>1, <1>2 DEF NextBytes
<1>4. /\ input.data \in Seq(Conns \X Nat) /\ Len(input.data) \in Nat
      /\ UpTo(input.data, c, conn[c].pos)
  BY Served DEF Data
<1> HIDE DEF next
<1>5. /\ data \in Seq(Conns \X Nat) /\ Len(data) = Len(input.data) + n
      /\ \A i \in 1..Len(input.data) + n :
           data[i] = IF i <= Len(input.data) THEN input.data[i]
                     ELSE next[i - Len(input.data)]
  <2> HIDE DEF c
  <2>1. /\ data \in Seq(Conns \X Nat) /\ Len(data) = Len(input.data) + Len(next)
        /\ \A i \in 1..Len(input.data) + Len(next) :
             data[i] = IF i <= Len(input.data) THEN input.data[i]
                       ELSE next[i - Len(input.data)]
    BY <1>3, <1>4, Joined
  <2> QED
    BY <1>3, <2>1
<1>6. UpTo(data, c, conn[c].pos + n)
  <2> SUFFICES ASSUME NEW i \in 1..Len(data)
               PROVE  data[i][1] = c /\ data[i][2] \in 1..(conn[c].pos + n)
    BY DEF UpTo
  <2> HIDE DEF c, data
  <2>3. i \in 1..(Len(input.data) + n)
    BY <1>5
  <2>4. data[i] = IF i <= Len(input.data) THEN input.data[i]
                  ELSE next[i - Len(input.data)]
    BY <1>5, <2>3
  <2>1. CASE i <= Len(input.data)
    <3>1. i \in 1..Len(input.data)
      BY <1>1, <1>4, <2>1, <2>3
    <3>2. data[i][1] = c /\ data[i][2] \in 1..conn[c].pos
      BY <1>4, <2>1, <2>4, <3>1 DEF UpTo
    <3> QED
      BY <1>1, <1>2, <3>2
  <2>2. CASE i > Len(input.data)
    <3>1. i - Len(input.data) \in 1..n
      BY <1>1, <1>4, <2>2, <2>3
    <3>2. data[i] = <<c, conn[c].pos + (i - Len(input.data))>>
      BY <1>3, <1>4, <2>2, <2>3, <2>4, <3>1
    <3> QED
      BY <1>1, <1>2, <3>1, <3>2
  <2> QED
    BY <1>1, <1>4, <2>1, <2>2, <2>3
<1>7. \A i \in 1..Len(input.data) : data[i] = input.data[i]
  BY <1>1, <1>4, <1>5
<1> HIDE DEF data
<1>8. data \in Data
  BY <1>5 DEF Data
<1> QED
  BY <1>1, <1>5, <1>6, <1>7, <1>8 DEF data, next

\* What is appended to a complete head leaves it complete.
LEMMA CompleteStays ==
  ASSUME NEW k, NEW l, Len(k) \in Nat, Len(l) \in Nat, Len(k) <= Len(l),
         \A i \in 1..Len(k) : l[i] = k[i], HeadComplete(k)
  PROVE  HeadComplete(l)
BY DEF HeadComplete

-----------------------------------------------------------------------------
(* The actions.                                                             *)

\* axil_respond(), after which d is the connection's record if it lives.
LEMMA RespondKeeps ==
  ASSUME RequestsAssumption, Inv, reader # Idle, NEW d \in Connection, Respond(d),
         d.stream = conn[reader.fd].stream,
         d.pos <= Len(d.stream), d.start <= d.pos, conn[reader.fd].pos <= d.pos,
         d.head = conn[reader.fd].head, d.headCap = conn[reader.fd].headCap
  PROVE  Inv'
<1>1. CASE CloseReader
  BY <1>1, CloseReaderKeeps
<1>2. CASE Leave([d EXCEPT !.toClose = TRUE])
  <2> DEFINE e == [d EXCEPT !.toClose = TRUE]
  <2>1. /\ e \in Connection /\ e.stream = d.stream /\ e.pos = d.pos
        /\ e.start = d.start /\ e.head = d.head /\ e.headCap = d.headCap
    BY DEF Connection
  <2>2. ReadFrom(d.head, reader.fd)
    BY Served DEF ReadFrom, UpTo
  <2> HIDE DEF e
  <2> QED
    BY <1>2, <2>1, <2>2, Served, LeaveKeeps DEF e
<1> QED
  BY <1>1, <1>2 DEF Respond

\* StartRead().
LEMMA StartReadKeeps ==
  ASSUME RequestsAssumption, Inv, NEW c \in Conns, StartRead(c)
  PROVE  Inv'
<1> DEFINE d == conn[c]
           n == Len(d.head)
           b == [size |-> ResumedSize(n), data |-> d.head]
           r == At("head", c)
<1>1. /\ d \in Connection /\ d.pos <= Len(d.stream) /\ d.start <= d.pos
      /\ d.head \in Data /\ n \in Nat /\ input.size \in Nat
  BY DEF Inv, TypeOK, Connection, Data
<1>2. /\ UpTo(d.head, c, d.pos) /\ ~HeadComplete(KindsIn(conn, d.head))
      /\ n <= d.headCap /\ d.headCap <= MaxHead
  BY DEF Inv, BytesOwned, ReadFrom, UpTo, HeadsCut, KindsOf, KindsIn, InBounds
<1>3. /\ b \in [size : Nat, data : Data] /\ b.data = d.head
      /\ n < b.size \/ n = 0
  BY <1>1 DEF ResumedSize
<1>4. /\ r \in [at : {"head", "route", "body", "handler"}, fd : {c},
               stalls : 0..MaxStalls] /\ r.at = "head"
  BY DEF At, RequestsAssumption
<1>5. conn' = conn /\ input' = b /\ reader' = r
  BY DEF StartRead
<1>6. conn' = [conn EXCEPT ![c] = d]
  BY <1>5 DEF Inv, TypeOK
<1>7. n <= b.size /\ n <= MaxHead
  BY <1>1, <1>2, <1>3 DEF Connection, RequestsAssumption
<1>8. ~HeadComplete(KindsIn(conn', d.head))
  BY <1>2, <1>5
<1>9. /\ UpTo(b.data, c, d.pos) /\ Len(b.data) <= b.size
      /\ ~HeadComplete(KindsIn(conn', b.data)) /\ Len(d.head) <= Len(b.data)
      /\ Len(b.data) <= MaxHead /\ (Len(b.data) > 0 => Len(b.data) < b.size)
  BY <1>1, <1>2, <1>3, <1>7, <1>8
<1> HIDE DEF b, r, d
<1> QED
  BY <1>1, <1>2, <1>3, <1>4, <1>5, <1>6, <1>8, <1>9, GoesOnKeeps

\* ReadHead().
LEMMA ReadHeadKeeps ==
  ASSUME RequestsAssumption, Inv, NEW n, ReadHead(n)
  PROVE  Inv'
<1> DEFINE c == reader.fd
           d == [conn[c] EXCEPT !.pos = @ + n]
           data == input.data \o NextBytes(c, n)
           b == [size |-> GrownSize(n), data |-> data]
<1>1. reader # Idle /\ n \in Readable(c)
  BY DEF ReadHead, Idle
<1>2. /\ n \in Nat \ {0} /\ n <= BufSize
      /\ conn[c].pos + n <= Len(conn[c].stream)
      /\ data \in Data /\ Len(data) = Len(input.data) + n
      /\ UpTo(data, c, conn[c].pos + n)
  BY <1>1, ReadAppends
<1> HIDE DEF data
<1>3. /\ c \in Conns /\ conn[c] \in Connection
      /\ Len(input.data) \in Nat /\ input.size \in Nat
      /\ MaxHead \in Nat /\ reader.stalls \in 0..MaxStalls
      /\ conn[c].start <= conn[c].pos
      /\ UpTo(conn[c].head, c, conn[c].pos)
      /\ ~HeadComplete(KindsIn(conn, conn[c].head))
      /\ Len(conn[c].head) <= conn[c].headCap /\ conn[c].headCap <= MaxHead
      /\ Len(conn[c].head) <= Len(input.data)
      /\ Len(input.data) > 0 => Len(input.data) < input.size
  BY <1>1, Served DEF Inv, HeadsCut, InBounds, ReadHead
<1>4. /\ d \in Connection /\ d.pos = conn[c].pos + n /\ d.stream = conn[c].stream
      /\ d.start = conn[c].start /\ d.head = conn[c].head
      /\ d.headCap = conn[c].headCap
  BY <1>2, <1>3, PosMoved
<1>5. Len(data) <= MaxHead
  BY <1>2, <1>3 DEF ReadHead, TooLong
<1>6. /\ b \in [size : Nat, data : Data] /\ b.data = data
      /\ Len(data) < b.size /\ Len(data) <= b.size
  BY <1>2, <1>3 DEF GrownSize
<1>7. input' = b
  BY DEF ReadHead, data
<1>8. UpTo(d.head, c, d.pos)
  <2>1. conn[c].pos \in Nat
    BY <1>3 DEF Connection
  <2> QED
    BY <1>2, <1>3, <1>4, <2>1, UpToMore
<1> HIDE DEF d, b
<1>9. CASE HeadComplete(KindsIn(conn, data))
  <2> DEFINE e == [d EXCEPT !.head = <<>>]
             r == At("route", c)
  <2>1. /\ e \in Connection /\ e.pos = d.pos /\ e.stream = d.stream
        /\ e.start = d.start /\ e.head = <<>> /\ e.headCap = d.headCap
    BY <1>4, StashDropped
  <2>2. conn' = [conn EXCEPT ![c] = e] /\ reader' = r
    BY <1>9, KindsAre DEF ReadHead, d, data
  <2>3. conn'[c] = e
    BY <1>3, <2>2 DEF Inv, TypeOK
  <2>4. HeadComplete(KindsIn(conn', data))
    <3>1. KindsIn(conn', data) = KindsIn(conn, data)
      BY <1>2, <1>4, <2>1, <2>3 DEF KindsIn, UpTo
    <3> QED
      BY <1>9, <3>1
  <2>5. r \in [at : {"head", "route", "body", "handler"}, fd : {c},
               stalls : 0..MaxStalls] /\ r.at = "route"
    BY DEF At, RequestsAssumption
  <2>6. UpTo(<<>>, c, e.pos) /\ ~HeadComplete(KindsIn(conn', <<>>))
    BY EmptyIncomplete DEF UpTo
  <2>7. Len(e.head) <= e.headCap /\ e.headCap <= MaxHead
    BY <1>3, <1>4, <2>1 DEF Connection
  <2>8. e.pos <= Len(e.stream) /\ e.start <= e.pos /\ UpTo(data, c, e.pos)
    BY <1>2, <1>3, <1>4, <2>1 DEF Connection
  <2> HIDE DEF e, r
  <2> QED
    BY <1>3, <1>5, <1>6, <1>7, <2>1, <2>2, <2>4, <2>5, <2>6, <2>7, <2>8, GoesOnKeeps
<1>10. CASE ~HeadComplete(KindsIn(conn, data))
  <2>1. conn' = [conn EXCEPT ![c] = d] /\ reader' = reader
    BY <1>10, KindsAre DEF ReadHead, d, data
  <2>2. conn'[c] = d
    BY <1>3, <2>1 DEF Inv, TypeOK
  <2>3. ~HeadComplete(KindsIn(conn', data))
    <3>1. KindsIn(conn', data) = KindsIn(conn, data)
      BY <1>2, <1>4, <2>2 DEF KindsIn, UpTo
    <3> QED
      BY <1>10, <3>1
  <2>4. ~HeadComplete(KindsIn(conn', d.head))
    <3>1. KindsIn(conn', conn[c].head) = KindsIn(conn, conn[c].head)
      BY <1>3, <1>4, <2>2 DEF KindsIn, UpTo
    <3> QED
      BY <1>3, <1>4, <3>1
  <2>5. reader \in [at : {"head", "route", "body", "handler"}, fd : {c},
                    stalls : 0..MaxStalls] /\ reader.at = "head"
    BY <1>1 DEF Inv, TypeOK, ReadHead
  <2>6. /\ Len(d.head) <= Len(data) /\ Len(d.head) <= d.headCap
        /\ d.headCap <= MaxHead
    BY <1>2, <1>3, <1>4, SMTT(40) DEF Connection, Data
  <2>7. d.pos <= Len(d.stream) /\ d.start <= d.pos /\ UpTo(data, c, d.pos)
    BY <1>2, <1>3, <1>4 DEF Connection
  <2> QED
    BY <1>3, <1>4, <1>5, <1>6, <1>7, <1>8, <2>1, <2>3, <2>4, <2>5, <2>6, <2>7,
       GoesOnKeeps
<1> QED
  BY <1>9, <1>10

\* A stash is as long as what is put in it, and no longer than a head may be.
LEMMA StashFits ==
  ASSUME NEW d \in Connection, NEW n \in Nat, n <= MaxHead, d.headCap <= MaxHead,
         MaxHead \in Nat
  PROVE  /\ StashCap(d, n) \in Nat
         /\ n <= StashCap(d, n) /\ StashCap(d, n) <= MaxHead
BY DEF StashCap, Connection

\* ReadHeadAgain(): stash_head().
LEMMA ReadHeadAgainKeeps ==
  ASSUME RequestsAssumption, Inv, ReadHeadAgain
  PROVE  Inv'
<1> DEFINE d == conn[reader.fd]
           e == Stashed(d)
           n == Len(input.data)
<1>1. reader # Idle
  BY DEF ReadHeadAgain, Idle
<1>2. ~HeadComplete(KindsIn(conn, input.data)) /\ n <= MaxHead
  BY KindsAre DEF ReadHeadAgain, Inv, HeadsCut
<1>3. CASE n = 0
  <2>1. e = d
    BY <1>3 DEF Stashed
  <2>2. ReadFrom(d.head, reader.fd)
    BY <1>1, Served DEF ReadFrom, UpTo
  <2>3. d \in Connection /\ d.pos \in Nat /\ Leave(d)
    BY <1>1, <2>1, Served DEF ReadHeadAgain, Connection
  <2> HIDE DEF e
  <2> QED
    BY <1>1, <2>2, <2>3, Served, LeaveKeeps
<1>4. CASE n # 0
  <2>1. e = [d EXCEPT !.head = input.data, !.headCap = StashCap(d, n)]
    BY <1>4 DEF Stashed
  <2>2. /\ d \in Connection /\ input.data \in Seq(Conns \X Nat) /\ n \in Nat
        /\ StashCap(d, n) \in Nat
        /\ n <= StashCap(d, n) /\ StashCap(d, n) <= MaxHead
    BY <1>1, <1>2, Served, StashFits DEF Data
  <2>3. /\ e \in Connection /\ e.stream = d.stream /\ e.pos = d.pos
        /\ e.start = d.start /\ e.head = input.data /\ e.headCap = StashCap(d, n)
    BY <2>1, <2>2 DEF Connection
  <2>4. ReadFrom(input.data, reader.fd)
    BY <1>1, Served DEF ReadFrom, UpTo
  <2>5. d.pos <= Len(d.stream) /\ d.start <= d.pos /\ d.pos \in Nat
    BY <1>1, Served DEF Connection
  <2>6. Leave(e)
    BY DEF ReadHeadAgain
  <2> HIDE DEF e
  <2> QED
    BY <1>1, <1>2, <2>2, <2>3, <2>4, <2>5, <2>6, LeaveKeeps
<1> QED
  BY <1>3, <1>4

\* ReadHeadTooLong(): the 431.
LEMMA ReadHeadTooLongKeeps ==
  ASSUME RequestsAssumption, Inv, NEW n, ReadHeadTooLong(n)
  PROVE  Inv'
<1> DEFINE c == reader.fd
           d == [conn[c] EXCEPT !.pos = @ + n]
<1>1. reader # Idle /\ n \in Readable(c) /\ Respond(d)
  BY DEF ReadHeadTooLong, Idle
<1>2. n \in Nat /\ conn[c].pos + n <= Len(conn[c].stream)
  BY <1>1, ReadAppends
<1>3. conn[c] \in Connection /\ conn[c].start <= conn[c].pos
  BY <1>1, Served
<1>4. /\ d \in Connection /\ d.pos = conn[c].pos + n /\ d.stream = conn[c].stream
      /\ d.start = conn[c].start /\ d.head = conn[c].head
      /\ d.headCap = conn[c].headCap
  BY <1>2, <1>3, PosMoved
<1>5. d.pos <= Len(d.stream) /\ d.start <= d.pos /\ conn[c].pos <= d.pos
  BY <1>2, <1>3, <1>4 DEF Connection
<1> HIDE DEF d
<1> QED
  BY <1>1, <1>4, <1>5, RespondKeeps

\* A record whose request has been taken.
LEMMA StartMoved ==
  ASSUME NEW d \in Connection, NEW a \in BOOLEAN
  PROVE  /\ [d EXCEPT !.start = d.pos] \in Connection
         /\ [d EXCEPT !.start = d.pos].start = d.pos
         /\ LET e == [d EXCEPT !.start = d.pos, !.accepted = a]
            IN  /\ e \in Connection /\ e.pos = d.pos /\ e.stream = d.stream
                /\ e.start = d.pos /\ e.head = d.head /\ e.headCap = d.headCap
         /\ LET e == [d EXCEPT !.start = d.pos]
            IN  /\ e.pos = d.pos /\ e.stream = d.stream
                /\ e.head = d.head /\ e.headCap = d.headCap
BY DEF Connection

\* The handlers of a request that is complete, or is not answered.
LEMMA AnswerKeeps ==
  ASSUME RequestsAssumption, Inv,
         RouteIgnored \/ RouteTooLarge \/ Handle
  PROVE  Inv'
<1> DEFINE d == conn[reader.fd]
<1>1. reader # Idle
  BY DEF RouteIgnored, RouteTooLarge, Handle, Idle
<1>2. /\ d \in Connection /\ d.pos \in Nat /\ d.pos <= Len(d.stream)
      /\ ReadFrom(d.head, reader.fd) /\ ~HeadComplete(KindsIn(conn, d.head))
      /\ Len(d.head) <= d.headCap /\ d.headCap <= MaxHead
  BY <1>1, Served DEF Connection, ReadFrom, UpTo
<1>3. CASE RouteIgnored
  <2>1. CASE CloseReader
    BY <1>1, <2>1, CloseReaderKeeps
  <2>2. CASE Leave([d EXCEPT !.start = d.pos])
    <3> DEFINE e == [d EXCEPT !.start = d.pos]
    <3>1. /\ e \in Connection /\ e.pos = d.pos /\ e.stream = d.stream
          /\ e.start = d.pos /\ e.head = d.head /\ e.headCap = d.headCap
      BY <1>2, StartMoved
    <3>2. Leave(e)
      BY <2>2
    <3>3. e.pos <= Len(e.stream) /\ e.start <= e.pos /\ d.pos <= e.pos
      BY <1>2, <3>1
    <3> HIDE DEF e
    <3> QED
      BY <1>1, <1>2, <3>1, <3>2, <3>3, LeaveKeeps
  <2> QED
    BY <1>3, <2>1, <2>2 DEF RouteIgnored
<1>4. CASE RouteTooLarge
  <2> DEFINE e == [d EXCEPT !.start = d.pos, !.accepted = FALSE]
  <2>1. /\ e \in Connection /\ e.pos = d.pos /\ e.stream = d.stream
        /\ e.start = d.pos /\ e.head = d.head /\ e.headCap = d.headCap
    BY <1>2, StartMoved
  <2>2. Respond(e)
    BY <1>4 DEF RouteTooLarge
  <2> HIDE DEF e
  <2> QED
    BY <1>1, <1>2, <2>1, <2>2, RespondKeeps
<1>5. CASE Handle
  <2> DEFINE e == [d EXCEPT !.start = d.pos]
  <2>1. /\ e \in Connection /\ e.pos = d.pos /\ e.stream = d.stream
        /\ e.start = d.pos /\ e.head = d.head /\ e.headCap = d.headCap
    BY <1>2, StartMoved
  <2>2. Respond(e)
    BY <1>5 DEF Handle
  <2> HIDE DEF e
  <2> QED
    BY <1>1, <1>2, <2>1, <2>2, RespondKeeps
<1> QED
  BY <1>3, <1>4, <1>5

\* The steps from one function to the next, on bytes already read.
LEMMA MovesOnKeeps ==
  ASSUME RequestsAssumption, Inv,
         RouteRequest \/ ReadBodyStalls \/ ReadBodyDone
  PROVE  Inv'
<1> DEFINE c == reader.fd
           d == conn[c]
<1>1. reader # Idle /\ reader.at \in {"route", "body"}
  BY DEF RouteRequest, ReadBodyStalls, ReadBodyDone, Idle
<1>2. conn' = [conn EXCEPT ![c] = d] /\ input' = input
  BY <1>1, Served DEF RouteRequest, ReadBodyStalls, ReadBodyDone, Inv, TypeOK
<1>3. /\ reader' \in [at : {"head", "route", "body", "handler"}, fd : {c},
                     stalls : 0..MaxStalls]
      /\ reader'.at \in {"body", "handler"}
  <2>1. reader.stalls \in 0..MaxStalls /\ 0 \in 0..MaxStalls /\ MaxStalls \in Nat
    BY <1>1, Served DEF RequestsAssumption
  <2>2. reader \in [at : {"head", "route", "body", "handler"}, fd : {c},
                    stalls : 0..MaxStalls]
    BY <1>1 DEF Inv, TypeOK
  <2>3. CASE RouteRequest
    BY <2>1, <2>3 DEF RouteRequest, At
  <2>4. CASE ReadBodyStalls
    BY <2>1, <2>2, <2>4 DEF ReadBodyStalls, MayStall, Stall
  <2>5. CASE ReadBodyDone
    BY <2>1, <2>2, <2>5 DEF ReadBodyDone
  <2> QED
    BY <2>3, <2>4, <2>5
<1>4. /\ c \in Conns /\ d \in Connection /\ d.pos <= Len(d.stream) /\ d.start <= d.pos
      /\ UpTo(d.head, c, d.pos) /\ ~HeadComplete(KindsIn(conn, d.head))
      /\ Len(d.head) <= d.headCap /\ d.headCap <= MaxHead
      /\ UpTo(input.data, c, d.pos) /\ Len(input.data) <= input.size
  BY <1>1, Served
<1>5. input \in [size : Nat, data : Data]
  BY DEF Inv, TypeOK, Data
<1>6. HeadComplete(KindsIn(conn, input.data)) /\ d.head = <<>>
  BY <1>1, KindsAre DEF Inv, HeadsCut
<1>7. conn' = conn
  BY <1>1, Served DEF RouteRequest, ReadBodyStalls, ReadBodyDone
<1>8. /\ ~HeadComplete(KindsIn(conn', d.head))
      /\ HeadComplete(KindsIn(conn', input.data))
  BY <1>4, <1>6, <1>7
<1> HIDE DEF d
<1> QED
  BY <1>2, <1>3, <1>4, <1>5, <1>6, <1>8, GoesOnKeeps

\* ReadBody().
LEMMA ReadBodyKeeps ==
  ASSUME RequestsAssumption, Inv, NEW n, ReadBody(n)
  PROVE  Inv'
<1> DEFINE c == reader.fd
           d == [conn[c] EXCEPT !.pos = @ + n]
           data == input.data \o NextBytes(c, n)
           b == [size |-> BodySize(n), data |-> data]
<1>1. reader # Idle /\ n \in Readable(c) /\ reader.at = "body"
  BY DEF ReadBody, Idle
<1>2. /\ n \in Nat \ {0} /\ conn[c].pos + n <= Len(conn[c].stream)
      /\ data \in Data /\ Len(data) = Len(input.data) + n
      /\ UpTo(data, c, conn[c].pos + n)
      /\ \A i \in 1..Len(input.data) : data[i] = input.data[i]
  BY <1>1, ReadAppends
<1>3. /\ c \in Conns /\ conn[c] \in Connection
      /\ input.data \in Data /\ Len(input.data) \in Nat /\ input.size \in Nat
      /\ conn[c].start <= conn[c].pos /\ conn[c].headCap <= MaxHead
      /\ UpTo(input.data, c, conn[c].pos)
  BY <1>1, Served
<1>4. HeadComplete(KindsIn(conn, input.data)) /\ conn[c].head = <<>>
  BY <1>1, KindsAre DEF Inv, HeadsCut
<1>5. /\ d \in Connection /\ d.pos = conn[c].pos + n /\ d.stream = conn[c].stream
      /\ d.start = conn[c].start /\ d.head = <<>> /\ d.headCap = conn[c].headCap
  BY <1>2, <1>3, <1>4, PosMoved
<1>6. conn' = [conn EXCEPT ![c] = d] /\ input' = b /\ reader' = reader
  BY DEF ReadBody
<1> HIDE DEF d, data
<1>7. conn'[c] = d
  BY <1>3, <1>6 DEF Inv, TypeOK
<1>8. b \in [size : Nat, data : Data] /\ b.data = data /\ Len(data) <= b.size
  BY <1>2, <1>3 DEF BodySize
<1>9. reader \in [at : {"head", "route", "body", "handler"}, fd : {c},
                  stalls : 0..MaxStalls]
  BY <1>1 DEF Inv, TypeOK
<1>10. HeadComplete(KindsIn(conn', data)) /\ ~HeadComplete(KindsIn(conn', d.head))
  <2>1. Len(input.data) <= Len(data) /\ Len(data) \in Nat
    BY <1>2, <1>3
  <2>2. /\ Len(KindsIn(conn, input.data)) = Len(input.data)
        /\ Len(KindsIn(conn', data)) = Len(data)
        /\ \A i \in 1..Len(input.data) :
             KindsIn(conn', data)[i] = KindsIn(conn, input.data)[i]
    <3>1. conn'[c].stream = conn[c].stream
      BY <1>5, <1>7
    <3>2. ASSUME NEW i \in 1..Len(input.data)
          PROVE  KindsIn(conn', data)[i] = KindsIn(conn, input.data)[i]
      <4>1. i \in 1..Len(data) /\ data[i] = input.data[i] /\ input.data[i][1] = c
        BY <1>2, <1>3, <2>1 DEF UpTo
      <4>2. KindsIn(conn', data)[i] = conn'[data[i][1]].stream[data[i][2]]
        BY <4>1 DEF KindsIn
      <4>3. KindsIn(conn, input.data)[i]
              = conn[input.data[i][1]].stream[input.data[i][2]]
        BY DEF KindsIn
      <4> QED
        BY <3>1, <4>1, <4>2, <4>3
    <3>3. /\ Len(KindsIn(conn, input.data)) = Len(input.data)
          /\ Len(KindsIn(conn', data)) = Len(data)
      BY <1>3, <2>1 DEF KindsIn
    <3> QED
      BY <3>2, <3>3
  <2>3. HeadComplete(KindsIn(conn', data))
    BY <1>3, <1>4, <2>1, <2>2, CompleteStays
  <2> QED
    BY <1>5, <2>3, EmptyIncomplete
<1>11. /\ d.pos <= Len(d.stream) /\ d.start <= d.pos
       /\ UpTo(d.head, c, d.pos) /\ UpTo(data, c, d.pos)
       /\ Len(d.head) <= d.headCap /\ d.headCap <= MaxHead
  BY <1>2, <1>3, <1>5 DEF Connection, UpTo
<1> HIDE DEF b
<1> QED
  BY <1>1, <1>3, <1>5, <1>6, <1>8, <1>9, <1>10, <1>11, GoesOnKeeps

\* Every way a connection is closed.
LEMMA ClosesKeep ==
  ASSUME RequestsAssumption, Inv,
         \/ ReadHeadEnds \/ ReadBodyEnds \/ ReadBodyGivesUp
         \/ \E n \in 1..BufSize : ReadHeadNoMemory(n)
         \/ \E c \in Conns : StartReadFails(c) \/ Drained(c)
  PROVE  Inv'
<1>1. CASE \/ ReadHeadEnds \/ ReadBodyEnds \/ ReadBodyGivesUp
           \/ \E n \in 1..BufSize : ReadHeadNoMemory(n)
  <2>1. reader # Idle /\ CloseReader
    BY <1>1 DEF ReadHeadEnds, ReadBodyEnds, ReadBodyGivesUp, ReadHeadNoMemory, Idle
  <2> QED
    BY <2>1, CloseReaderKeeps
<1>2. ASSUME NEW c \in Conns, StartReadFails(c) \/ Drained(c)
      PROVE  Inv'
  BY <1>2, CloseKeeps DEF StartReadFails, Drained
<1> QED
  BY <1>1, <1>2

\* The invariant is inductive.
LEMMA StepKeeps ==
  ASSUME RequestsAssumption, Inv, [Next]_vars
  PROVE  Inv'
<1>1. CASE Silent
  BY <1>1, ReadHeadAgainKeeps, AnswerKeeps, MovesOnKeeps, ClosesKeep DEF Silent
<1>2. ASSUME NEW n \in 1..BufSize,
             ReadHead(n) \/ ReadHeadNoMemory(n) \/ ReadHeadTooLong(n) \/ ReadBody(n)
      PROVE  Inv'
  BY <1>2, ReadHeadKeeps, ReadHeadTooLongKeeps, ReadBodyKeeps, ClosesKeep
<1>3. CASE ReadHeadEnds \/ ReadBodyEnds
  BY <1>3, ClosesKeep
<1>4. ASSUME NEW c \in Conns,
             \/ \E s \in Streams : Accept(c, s)
             \/ StartRead(c) \/ StartReadFails(c) \/ Drained(c)
      PROVE  Inv'
  BY <1>4, AcceptKeeps, StartReadKeeps, ClosesKeep
<1>5. CASE UNCHANGED vars
  <2>1. conn' = conn /\ input' = input /\ reader' = reader
    BY <1>5 DEF vars
  <2>2. TypeOK'
    BY <2>1 DEF Inv, TypeOK
  <2>3. BytesOwned'
    BY <2>1 DEF Inv, BytesOwned, ReadFrom
  <2>4. HeadsCut'
    BY <2>1 DEF Inv, HeadsCut, KindsOf
  <2>5. InBounds' /\ \A c \in Conns : conn'[c].headCap <= MaxHead
    BY <2>1 DEF Inv, InBounds
  <2> QED
    BY <2>1, <2>2, <2>3, <2>4, <2>5 DEF Inv
<1> QED
  BY <1>1, <1>2, <1>3, <1>4, <1>5 DEF Next

-----------------------------------------------------------------------------
(* Order, when responses are sent at once.                                  *)

\* Without Slow a response ends its connection.
LEMMA RespondCloses ==
  ASSUME ~Slow, NEW d, Respond(d)
  PROVE  CloseReader
BY DEF Respond

LEMMA SliceIs ==
  ASSUME NEW c \in Conns, NEW a \in Nat, NEW b \in Nat, a <= b
  PROVE  /\ Slice(c, a, b) \in Data /\ Len(Slice(c, a, b)) = b - a
         /\ \A i \in 1..(b - a) : Slice(c, a, b)[i] = <<c, a + i>>
BY DEF Slice, Data

LEMMA SliceNothing ==
  ASSUME NEW c \in Conns, NEW a \in Nat
  PROVE  Slice(c, a, a) = <<>>
BY SliceIs DEF Data

\* The bytes of a read follow the ones gathered.
LEMMA SliceGrows ==
  ASSUME RequestsAssumption, Inv, GatheredInOrder, reader # Idle,
         NEW n \in Readable(reader.fd)
  PROVE  LET c == reader.fd
         IN  input.data \o NextBytes(c, n)
               = Slice(c, conn[c].start, conn[c].pos + n)
<1> DEFINE c == reader.fd
           a == conn[c].start
           p == conn[c].pos
           next == NextBytes(c, n)
<1>1. /\ c \in Conns /\ a \in Nat /\ p \in Nat /\ a <= p /\ n \in Nat \ {0}
      /\ input.data \in Data
  BY Served, ReadAppends DEF Connection
<1>2. input.data = Slice(c, a, p)
  BY <1>1 DEF GatheredInOrder, Gathered
<1>3. /\ next \in Seq(Conns \X Nat) /\ Len(next) = n
      /\ \A i \in 1..n : next[i] = <<c, p + i>>
  BY <1>1 DEF NextBytes
<1>4. p + n \in Nat /\ a <= p + n
  BY <1>1
<1> HIDE DEF a, p, c, next
<1> DEFINE old == Slice(c, a, p)
           data == old \o next
           new == Slice(c, a, p + n)
<1>5. /\ old \in Seq(Conns \X Nat) /\ Len(old) = p - a
      /\ \A i \in 1..(p - a) : old[i] = <<c, a + i>>
  BY <1>1, SliceIs DEF Data
<1>6. /\ new \in Seq(Conns \X Nat) /\ Len(new) = (p + n) - a
      /\ \A i \in 1..((p + n) - a) : new[i] = <<c, a + i>>
  BY <1>1, <1>4, SliceIs DEF Data
<1> HIDE DEF old, new
<1>7. /\ data \in Seq(Conns \X Nat) /\ Len(data) = Len(old) + Len(next)
      /\ \A i \in 1..Len(old) + Len(next) :
           data[i] = IF i <= Len(old) THEN old[i] ELSE next[i - Len(old)]
  BY <1>3, <1>5, ConcatProperties
<1> HIDE DEF data
<1>8. Len(data) = Len(new)
  BY <1>1, <1>3, <1>5, <1>6, <1>7
<1>9. ASSUME NEW i \in 1..Len(data)
      PROVE  data[i] = new[i]
  <2>1. i \in 1..((p + n) - a) /\ new[i] = <<c, a + i>>
    BY <1>6, <1>8
  <2>2. data[i] = IF i <= p - a THEN old[i] ELSE next[i - (p - a)]
    BY <1>5, <1>7
  <2>3. CASE i <= p - a
    BY <1>1, <1>5, <2>1, <2>2, <2>3
  <2>4. CASE i > p - a
    <3>1. i - (p - a) \in 1..n /\ p + (i - (p - a)) = a + i
      BY <1>1, <2>1, <2>4
    <3>2. data[i] = next[i - (p - a)]
      BY <1>1, <2>1, <2>2, <2>4
    <3> QED
      BY <1>3, <2>1, <3>1, <3>2
  <2> QED
    BY <1>1, <2>1, <2>3, <2>4
<1>10. data = new
  BY <1>6, <1>7, <1>8, <1>9, SeqEqual
<1> QED
  BY <1>2, <1>10 DEF a, p, c, next, old, data, new

\* A step after which no connection is served, one of which has a new record.
LEMMA OrderLeft ==
  ASSUME Inv, GatheredInOrder, NEW c \in Conns, NEW d,
         conn' = [conn EXCEPT ![c] = d], reader' = Idle,
         reader = Idle \/ reader.fd = c, d.head = Slice(c, d.start, d.pos)
  PROVE  GatheredInOrder'
<1>1. conn'[c] = d /\ \A e \in Conns \ {c} : conn'[e] = conn[e]
  BY DEF Inv, TypeOK
<1>2. \A e \in Conns \ {c} : conn[e].head = Slice(e, conn[e].start, conn[e].pos)
  BY DEF GatheredInOrder, Gathered
<1>3. \A e \in Conns : Gathered(e)' = conn'[e].head
  BY DEF Gathered
<1> QED
  BY <1>1, <1>2, <1>3 DEF GatheredInOrder, Slice

\* A step after which c is served, with a new record.
LEMMA OrderGoesOn ==
  ASSUME Inv, GatheredInOrder, NEW c \in Conns, NEW d,
         conn' = [conn EXCEPT ![c] = d], reader' # Idle, reader'.fd = c,
         reader = Idle \/ reader.fd = c, input'.data = Slice(c, d.start, d.pos)
  PROVE  GatheredInOrder'
<1>1. conn'[c] = d /\ \A e \in Conns \ {c} : conn'[e] = conn[e]
  BY DEF Inv, TypeOK
<1>2. \A e \in Conns \ {c} : conn[e].head = Slice(e, conn[e].start, conn[e].pos)
  BY DEF GatheredInOrder, Gathered
<1>3. /\ \A e \in Conns \ {c} : Gathered(e)' = conn'[e].head
      /\ Gathered(c)' = input'.data
  BY DEF Gathered
<1> QED
  BY <1>1, <1>2, <1>3, SMTT(40) DEF GatheredInOrder, Slice

\* A connection is closed.
LEMMA OrderClosed ==
  ASSUME Inv, GatheredInOrder, NEW c \in Conns,
         conn' = [conn EXCEPT ![c] = Closed], reader' = Idle,
         reader = Idle \/ reader.fd = c
  PROVE  GatheredInOrder'
<1>1. Closed.head = Slice(c, Closed.start, Closed.pos)
  BY SliceNothing DEF Closed
<1> HIDE DEF Closed
<1> QED
  BY <1>1, OrderLeft

\* The reader's record in a connection it is done with, or goes on with.
LEMMA InOrderStep ==
  ASSUME RequestsAssumption, ~Slow, Inv, GatheredInOrder, [Next]_vars
  PROVE  GatheredInOrder'
<1> DEFINE f == reader.fd
           k == conn[f]
<1>1. ASSUME reader # Idle
      PROVE  /\ f \in Conns /\ k \in Connection /\ k.start \in Nat /\ k.pos \in Nat
             /\ input.data = Slice(f, k.start, k.pos)
  BY <1>1, Served DEF Connection, GatheredInOrder, Gathered
<1>2. ASSUME reader # Idle, CloseReader
      PROVE  GatheredInOrder'
  BY <1>1, <1>2, OrderClosed DEF CloseReader
<1>3. CASE ReadHeadAgain
  <2> DEFINE e == Stashed(k)
  <2>1. reader # Idle /\ Leave(e)
    BY <1>3 DEF ReadHeadAgain, Idle
  <2>2. e.head = Slice(f, e.start, e.pos)
    <3>1. CASE Len(input.data) = 0
      <4>1. Len(k.head) <= Len(input.data) /\ k.head \in Data
        BY <1>1, <1>3, <2>1 DEF Inv, HeadsCut, ReadHeadAgain, Connection, Data
      <4>2. input.data \in Data
        BY <2>1, Served
      <4>3. k.head = input.data
        BY <3>1, <4>1, <4>2 DEF Data
      <4> QED
        BY <1>1, <2>1, <3>1, <4>3 DEF Stashed
    <3>2. CASE Len(input.data) # 0
      BY <1>1, <2>1, <3>2 DEF Stashed, Connection
    <3> QED
      BY <3>1, <3>2
  <2> HIDE DEF e
  <2> QED
    BY <1>1, <2>1, <2>2, OrderLeft DEF Leave
<1>4. CASE RouteIgnored \/ RouteTooLarge \/ Handle
  <2>1. reader # Idle
    BY <1>4 DEF RouteIgnored, RouteTooLarge, Handle, Idle
  <2>2. CASE CloseReader
    BY <1>2, <2>1, <2>2
  <2>3. CASE Leave([k EXCEPT !.start = k.pos]) /\ reader.at = "route"
    <3> DEFINE e == [k EXCEPT !.start = k.pos]
    <3>1. /\ e \in Connection /\ e.pos = k.pos /\ e.start = k.pos
          /\ e.head = k.head
      BY <1>1, <2>1, StartMoved
    <3>2. k.head = <<>>
      BY <2>3 DEF Inv, HeadsCut
    <3>3. e.head = Slice(f, e.start, e.pos)
      BY <1>1, <2>1, <3>1, <3>2, SliceNothing
    <3>4. Leave(e)
      BY <2>3
    <3> HIDE DEF e
    <3> QED
      BY <1>1, <2>1, <3>3, <3>4, OrderLeft DEF Leave
  <2> QED
    BY <1>4, <2>2, <2>3, RespondCloses DEF RouteIgnored, RouteTooLarge, Handle
<1>5. CASE RouteRequest \/ ReadBodyStalls \/ ReadBodyDone
  <2>1. /\ reader # Idle /\ reader' # Idle /\ reader'.fd = f
        /\ conn' = conn /\ input' = input
    <3>1. reader # Idle
      BY <1>5 DEF RouteRequest, ReadBodyStalls, ReadBodyDone, Idle
    <3>2. reader \in [at : {"head", "route", "body", "handler"},
                      fd : Conns, stalls : 0..MaxStalls]
      BY <3>1 DEF Inv, TypeOK
    <3> QED
      BY <1>5, <3>1, <3>2 DEF RouteRequest, ReadBodyStalls, ReadBodyDone, At, Stall, Idle
  <2>2. conn' = [conn EXCEPT ![f] = k]
    BY <1>1, <2>1 DEF Inv, TypeOK
  <2> QED
    BY <1>1, <2>1, <2>2, OrderGoesOn
<1>6. ASSUME NEW n \in 1..BufSize, ReadHead(n) \/ ReadBody(n)
      PROVE  GatheredInOrder'
  <2> DEFINE e == [k EXCEPT !.pos = @ + n]
             g == [e EXCEPT !.head = <<>>]
             data == input.data \o NextBytes(f, n)
  <2>1. reader # Idle /\ n \in Readable(f)
    <3>1. reader.at \in {"head", "body"} /\ n \in Readable(f)
      BY <1>6 DEF ReadHead, ReadBody
    <3> QED
      BY <3>1 DEF Idle
  <2>2. data = Slice(f, k.start, k.pos + n)
    BY <2>1, SliceGrows
  <2>3. /\ e \in Connection /\ e.pos = k.pos + n /\ e.start = k.start
        /\ g.pos = k.pos + n /\ g.start = k.start
    BY <1>1, <2>1, PosMoved, StashDropped
  <2>4. /\ input'.data = data /\ reader'.fd = f /\ reader' # Idle
        /\ conn' = [conn EXCEPT ![f] = e] \/ conn' = [conn EXCEPT ![f] = g]
    <3>1. At("route", f).fd = f /\ At("route", f) # Idle
      BY DEF At, Idle
    <3>2. CASE ReadHead(n)
      BY <2>1, <3>1, <3>2 DEF ReadHead
    <3>3. CASE ReadBody(n)
      <4>1. conn' = [conn EXCEPT ![f] = e]
        BY <1>1, <2>1, <3>3 DEF ReadBody, Inv, TypeOK
      <4> QED
        BY <2>1, <3>3, <4>1 DEF ReadBody
    <3> QED
      BY <1>6, <3>2, <3>3
  <2>5. input'.data = Slice(f, e.start, e.pos) /\ input'.data = Slice(f, g.start, g.pos)
    BY <2>2, <2>3, <2>4
  <2> HIDE DEF e, g, data
  <2> QED
    BY <1>1, <2>1, <2>4, <2>5, OrderGoesOn
<1>7. CASE \/ ReadHeadEnds \/ ReadBodyEnds \/ ReadBodyGivesUp
           \/ \E n \in 1..BufSize : ReadHeadNoMemory(n) \/ ReadHeadTooLong(n)
  <2>1. reader.at \in {"head", "body"} /\ CloseReader
    BY <1>7, RespondCloses DEF ReadHeadEnds, ReadBodyEnds, ReadBodyGivesUp,
                               ReadHeadNoMemory, ReadHeadTooLong
  <2>2. reader # Idle
    BY <2>1 DEF Idle
  <2> QED
    BY <1>2, <2>1, <2>2
<1>8. ASSUME NEW c \in Conns, StartReadFails(c) \/ Drained(c)
      PROVE  GatheredInOrder'
  <2>1. reader = Idle
    BY <1>8 DEF StartReadFails, Drained, Inv, TypeOK, Idle
  <2> QED
    BY <1>8, <2>1, OrderClosed DEF StartReadFails, Drained
<1>9. ASSUME NEW c \in Conns, NEW s \in Streams, Accept(c, s)
      PROVE  GatheredInOrder'
  <2> DEFINE e == Fresh(s)
  <2>1. e.head = Slice(c, e.start, e.pos)
    BY SliceNothing DEF Fresh
  <2>2. reader = Idle /\ reader' = Idle /\ conn' = [conn EXCEPT ![c] = e]
    BY <1>9 DEF Accept
  <2> HIDE DEF e
  <2> QED
    BY <2>1, <2>2, OrderLeft
<1>10. ASSUME NEW c \in Conns, StartRead(c)
       PROVE  GatheredInOrder'
  <2>1. /\ reader = Idle /\ reader' # Idle /\ reader'.fd = c
        /\ input'.data = conn[c].head /\ conn' = [conn EXCEPT ![c] = conn[c]]
    BY <1>10 DEF StartRead, At, Idle, Inv, TypeOK
  <2>2. conn[c].head = Slice(c, conn[c].start, conn[c].pos)
    BY <2>1 DEF GatheredInOrder, Gathered
  <2> QED
    BY <2>1, <2>2, OrderGoesOn
<1>11. CASE UNCHANGED vars
  BY <1>11 DEF vars, GatheredInOrder, Gathered, Slice
<1> QED
  BY <1>3, <1>4, <1>5, <1>6, <1>7, <1>8, <1>9, <1>10, <1>11 DEF Next, Silent

-----------------------------------------------------------------------------
(* Bodies and memory, when also line ends are CR LF.                        *)

\* headers_get() stops at the first blank line, if there is one.
LEMMA HeadEndIs ==
  ASSUME NEW k, Len(k) \in Nat, NEW j \in 4..Len(k), EndsHead(k, j)
  PROVE  /\ HeadEnd(k) \in 4..Len(k) /\ EndsHead(k, HeadEnd(k))
         /\ \A h \in 4..(HeadEnd(k) - 1) : ~EndsHead(k, h)
<1> DEFINE T == {h \in 4..Len(k) : EndsHead(k, h)}
<1>1. PICK m \in T : \A h \in T : m <= h
  <2>1. T \subseteq Nat /\ T # {}
    OBVIOUS
  <2> HIDE DEF T
  <2> QED
    BY <2>1, Least
<1>2. m \in 4..Len(k) /\ EndsHead(k, m) /\ \A h \in 4..(m - 1) : ~EndsHead(k, h)
  BY <1>1
<1> QED
  BY <1>2 DEF HeadEnd

\* What is appended to a head moves neither its end nor its body's.
LEMMA HeadStays ==
  ASSUME NEW k, NEW l, Len(k) \in Nat, Len(l) \in Nat, Len(k) <= Len(l),
         \A i \in 1..Len(k) : l[i] = k[i], NEW j \in 4..Len(k), EndsHead(k, j)
  PROVE  /\ HeadEnd(l) = HeadEnd(k) /\ Awaited(l) = Awaited(k)
         /\ j \in 4..Len(l) /\ EndsHead(l, j)
<1>1. /\ HeadEnd(k) \in 4..Len(k) /\ EndsHead(k, HeadEnd(k))
      /\ \A h \in 4..(HeadEnd(k) - 1) : ~EndsHead(k, h)
  BY HeadEndIs
<1>2. \A h \in 4..Len(k) : EndsHead(l, h) <=> EndsHead(k, h)
  BY SMTT(40) DEF EndsHead
<1>3. j \in 4..Len(l) /\ EndsHead(l, j)
  BY <1>2
<1>4. /\ HeadEnd(l) \in 4..Len(l) /\ EndsHead(l, HeadEnd(l))
      /\ \A h \in 4..(HeadEnd(l) - 1) : ~EndsHead(l, h)
  BY <1>3, HeadEndIs
<1>5. HeadEnd(l) = HeadEnd(k)
  <2>1. ~(HeadEnd(k) < HeadEnd(l))
    BY <1>1, <1>2, <1>4
  <2>2. ~(HeadEnd(l) < HeadEnd(k))
    BY <1>1, <1>2, <1>4
  <2> QED
    BY <1>1, <1>4, <2>1, <2>2
<1>6. {i \in 1..HeadEnd(l) : l[i] = "c"} = {i \in 1..HeadEnd(k) : k[i] = "c"}
  BY <1>1, <1>5
<1> QED
  <2>1. ContentLength(l) = ContentLength(k)
    BY <1>5, <1>6 DEF ContentLength
  <2>2. l[1] = k[1]
    OBVIOUS
  <2> QED
    BY <1>3, <1>5, <2>1, <2>2 DEF Awaited, Buffers

LEMMA LengthIsNatural ==
  ASSUME NEW k, HeadEnd(k) \in Nat
  PROVE  Awaited(k) \in Nat
<1>1. IsFiniteSet(1..HeadEnd(k))
  BY FS_Interval
<1>2. IsFiniteSet({i \in 1..HeadEnd(k) : k[i] = "c"})
  BY <1>1, FS_Subset
<1> QED
  BY <1>2, FS_CardinalityType DEF ContentLength, Awaited

\* A head that goes to a handler has a blank line: of two line ends in a row,
\* the second has its CR, and the first is not the head's beginning.
LEMMA HeadEnds ==
  ASSUME RequestsAssumption, CrLf, Inv, GatheredInOrder,
         reader.at = "route", HasCommand
  PROVE  \E j \in 4..Len(KindsOf(input.data)) : EndsHead(KindsOf(input.data), j)
<1> DEFINE c == reader.fd
           s == conn[c].stream
           a == conn[c].start
           p == conn[c].pos
           k == KindsOf(input.data)
<1>1. reader # Idle
  BY DEF Idle
<1>2. /\ c \in Conns /\ conn[c] \in Connection /\ a \in Nat /\ p \in Nat
      /\ a <= p /\ p <= Len(s) /\ input.data \in Data
  BY <1>1, Served DEF Connection
<1>3. input.data = Slice(c, a, p)
  BY <1>1, <1>2 DEF GatheredInOrder, Gathered
<1>4. /\ Len(input.data) = p - a
      /\ \A i \in 1..Len(input.data) : input.data[i] = <<c, a + i>>
  <2> HIDE DEF c, a, p
  <2> DEFINE q == Slice(c, a, p)
  <2>1. Len(q) = p - a /\ \A i \in 1..(p - a) : q[i] = <<c, a + i>>
    BY <1>2, SliceIs
  <2> HIDE DEF q
  <2>2. input.data = q
    BY <1>3 DEF q
  <2> QED
    BY <2>1, <2>2
<1>5. Len(k) = Len(input.data) /\ Len(k) \in Nat
  BY <1>2, KindsLength, KindsAre
<1>6. \A i \in 1..Len(k) : k[i] = s[a + i]
  <2>1. \A i \in 1..Len(k) : k[i] = conn[input.data[i][1]].stream[input.data[i][2]]
    BY <1>2, <1>5, KindsLength, KindsAre
  <2>2. \A i \in 1..Len(k) : input.data[i][1] = c /\ input.data[i][2] = a + i
    BY <1>4, <1>5
  <2> HIDE DEF k
  <2> QED
    BY <2>1, <2>2
<1>7. s \in Streams \/ Len(s) = 0
  BY <1>2 DEF Connection
<1>8. HeadComplete(k) /\ k[1] \notin {"r", "n"}
  BY DEF Inv, HeadsCut, HasCommand
<1>9. PICK i \in 1..(Len(k) - 1) :
        /\ k[i] = "n"
        /\ \/ k[i + 1] = "n"
           \/ i + 2 <= Len(k) /\ k[i + 1] = "r" /\ k[i + 2] = "n"
  BY <1>8 DEF HeadComplete
<1> HIDE DEF k, s, a, p, c
<1>10. ASSUME NEW h \in 2..Len(k), k[h] = "n"
       PROVE  k[h - 1] = "r"
  <2>1. /\ h \in 1..Len(k) /\ h - 1 \in 1..Len(k)
        /\ a + h \in 1..Len(s) /\ a + (h - 1) = (a + h) - 1
    <3>1. Len(s) \in Nat
      BY <1>7 DEF RequestsAssumption
    <3>2. Len(k) = p - a /\ h \in Nat /\ h >= 2 /\ h <= Len(k)
      BY <1>4, <1>5
    <3> HIDE <1>4, <1>6, <1>8, <1>9
    <3> QED
      BY <1>2, <3>1, <3>2
  <2>2. s[a + h] = "n" /\ k[h - 1] = s[(a + h) - 1]
    BY <1>6, <1>10, <2>1
  <2>3. s \in Streams /\ Len(s) \in Nat
    BY <1>5, <1>7, <2>1 DEF RequestsAssumption
  <2>4. s[(a + h) - 1] = "r"
    BY <2>1, <2>2, <2>3 DEF CrLf
  <2> QED
    BY <2>2, <2>4
<1>11. i \in Nat /\ i # 1 /\ i >= 2
  BY <1>8, <1>9
<1>12. k[i + 1] # "n"
  <2>1. i + 1 \in 2..Len(k) /\ (i + 1) - 1 = i
    BY <1>5, <1>11
  <2> QED
    BY <1>9, <1>10, <2>1
<1>13. i + 2 \in 4..Len(k) /\ (i + 2) - 1 = i + 1 /\ (i + 2) - 2 = i
  BY <1>5, <1>9, <1>11, <1>12
<1>14. EndsHead(k, i + 2)
  BY <1>9, <1>12, <1>13 DEF EndsHead
<1> QED
  BY <1>13, <1>14 DEF k

\* What is read of a connection leaves the kinds of its bytes as they were.
LEMMA KindsStay ==
  ASSUME RequestsAssumption, Inv, NEW n, ReadBody(n)
  PROVE  LET k == KindsOf(input.data)
             l == KindsOf(input.data)'
         IN  /\ Len(k) = Len(input.data) /\ Len(k) \in Nat
             /\ Len(l) = Len(k) + n /\ Len(l) \in Nat /\ n \in Nat
             /\ \A i \in 1..Len(k) : l[i] = k[i]
<1> DEFINE c == reader.fd
           data == input.data \o NextBytes(c, n)
<1>1. reader # Idle /\ n \in Readable(c) /\ reader.at = "body"
  BY DEF ReadBody, Idle
<1>2. /\ n \in Nat \ {0} /\ data \in Data /\ Len(data) = Len(input.data) + n
      /\ \A i \in 1..Len(input.data) : data[i] = input.data[i]
  BY <1>1, ReadAppends
<1>3. /\ c \in Conns /\ conn[c] \in Connection /\ input.data \in Data
      /\ Len(input.data) \in Nat /\ UpTo(input.data, c, conn[c].pos)
  BY <1>1, Served
<1>4. input'.data = data /\ conn'[c].stream = conn[c].stream
  BY <1>3 DEF ReadBody, Inv, TypeOK, Connection
<1>5. /\ Len(KindsIn(conn, input.data)) = Len(input.data)
      /\ \A i \in 1..Len(input.data) : KindsIn(conn, input.data)[i]
           = conn[input.data[i][1]].stream[input.data[i][2]]
  BY <1>3, KindsLength
<1> HIDE DEF data
<1>6. /\ Len(KindsIn(conn', data)) = Len(data)
      /\ \A i \in 1..Len(data) :
           KindsIn(conn', data)[i] = conn'[data[i][1]].stream[data[i][2]]
  BY <1>2, KindsLength
<1>7. ASSUME NEW i \in 1..Len(input.data)
      PROVE  KindsIn(conn', data)[i] = KindsIn(conn, input.data)[i]
  <2>1. i \in 1..Len(data) /\ data[i] = input.data[i] /\ input.data[i][1] = c
    BY <1>2, <1>3 DEF UpTo
  <2> QED
    BY <1>4, <1>5, <1>6, <2>1
<1>8. KindsOf(input.data)' = KindsIn(conn', data)
  BY <1>4 DEF KindsOf, KindsIn
<1> HIDE DEF c
<1> QED
  BY <1>2, <1>3, <1>5, <1>6, <1>7, <1>8, KindsAre

\* A size that MemoryBounded allows.
Small(size) ==
  \/ size <= FirstSize
  \/ size <= 2 * (MaxHead + MaxBody + BufSize)
  \/ size <= 3 * MaxHead + 1

\* The inductive invariant of bodies and memory, with Inv and GatheredInOrder.
Whole ==
  /\ BodyKnown
  /\ reader.at = "handler" => Len(input.data) >= Needed
  /\ Small(input.size)

\* What is known of a body that is read.
LEMMA KnownIs ==
  ASSUME RequestsAssumption, Inv, Whole, reader.at \in {"body", "handler"}
  PROVE  LET k == KindsOf(input.data)
         IN  /\ Len(k) = Len(input.data) /\ Len(k) \in Nat
             /\ \E j \in 4..Len(k) : EndsHead(k, j)
             /\ HeadEnd(k) \in Nat /\ Awaited(k) \in Nat
             /\ HeadEnd(k) <= MaxHead /\ Awaited(k) <= MaxBody
             /\ HeadEnd(k) <= Len(k)
<1> DEFINE k == KindsOf(input.data)
<1>1. input.data \in Data
  BY DEF Inv, TypeOK, Data
<1>2. Len(k) = Len(input.data) /\ Len(k) \in Nat
  BY <1>1, KindsLength, KindsAre
<1>3. /\ \E j \in 4..Len(k) : EndsHead(k, j)
      /\ HeadEnd(k) <= MaxHead /\ Awaited(k) <= MaxBody
  BY DEF Whole, BodyKnown
<1> HIDE DEF k
<1>4. HeadEnd(k) \in 4..Len(k)
  BY <1>2, <1>3, HeadEndIs
<1>5. Awaited(k) \in Nat
  BY <1>2, <1>4, LengthIsNatural
<1> QED
  BY <1>2, <1>3, <1>4, <1>5 DEF k

\* The sizes the buffer is given.
LEMMA SizesSmall ==
  ASSUME RequestsAssumption, Inv, Whole, [Next]_vars
  PROVE  Small(input'.size)
<1>1. /\ FirstSize \in Nat /\ MaxHead \in Nat /\ MaxBody \in Nat /\ BufSize \in Nat
      /\ input.size \in Nat /\ Small(input.size)
  BY DEF RequestsAssumption, Inv, TypeOK, Whole
<1>2. CASE input'.size = input.size \/ input' \in AfterClose
  BY <1>1, <1>2 DEF AfterClose, Clear, Small
<1>3. ASSUME NEW c \in Conns, StartRead(c)
      PROVE  Small(input'.size)
  <2>1. Len(conn[c].head) \in Nat /\ Len(conn[c].head) <= MaxHead
    BY <1>1 DEF Inv, TypeOK, Connection, InBounds
  <2> QED
    BY <1>1, <1>3, <2>1 DEF StartRead, ResumedSize, Small
<1>4. ASSUME NEW n \in 1..BufSize, ReadHead(n)
      PROVE  Small(input'.size)
  <2>1. Len(input.data) \in Nat /\ n \in Nat
    BY DEF Inv, TypeOK
  <2>2. input'.size = GrownSize(n) /\ Len(input.data) + n <= MaxHead
    BY <1>1, <1>4, <2>1 DEF ReadHead, TooLong
  <2> QED
    BY <1>1, <2>1, <2>2 DEF GrownSize, Small
<1>5. ASSUME NEW n \in 1..BufSize, ReadBody(n)
      PROVE  Small(input'.size)
  <2> DEFINE k == KindsOf(input.data)
  <2>1. Len(input.data) \in Nat /\ n \in Nat
    BY DEF Inv, TypeOK
  <2>2. /\ HeadEnd(k) \in Nat /\ Awaited(k) \in Nat
        /\ HeadEnd(k) <= MaxHead /\ Awaited(k) <= MaxBody
    BY <1>5, KnownIs DEF ReadBody
  <2>3. /\ Len(input.data) < HeadEnd(k) + Awaited(k)
        /\ input'.size = BodySize(n)
    BY <1>5 DEF ReadBody, Needed
  <2> HIDE DEF k
  <2>4. Len(input.data) + n <= MaxHead + MaxBody + BufSize
    BY <1>1, <2>1, <2>2, <2>3
  <2> QED
    BY <1>1, <2>1, <2>3, <2>4 DEF BodySize, Small
<1>6. CASE Silent
  <2>1. ASSUME NEW e, Leave(e) \/ Respond(e) \/ CloseReader
        PROVE  input'.size = input.size \/ input' \in AfterClose
    BY <2>1 DEF Leave, Clear, Respond, CloseReader
  <2> QED
    BY <1>2, <1>6, <2>1 DEF Silent, ReadHeadAgain, RouteIgnored, RouteRequest,
         RouteTooLarge, ReadBodyStalls, ReadBodyGivesUp, ReadBodyDone, Handle
<1>7. CASE ReadHeadEnds \/ ReadBodyEnds
  BY <1>2, <1>7 DEF ReadHeadEnds, ReadBodyEnds, CloseReader
<1>8. ASSUME NEW n \in 1..BufSize, ReadHeadNoMemory(n) \/ ReadHeadTooLong(n)
      PROVE  Small(input'.size)
  BY <1>2, <1>8 DEF ReadHeadNoMemory, ReadHeadTooLong, Respond, CloseReader, Leave, Clear
<1>9. ASSUME NEW c \in Conns,
             (\E s \in Streams : Accept(c, s)) \/ StartReadFails(c) \/ Drained(c)
      PROVE  Small(input'.size)
  BY <1>2, <1>9 DEF Accept, StartReadFails, Drained
<1>10. CASE UNCHANGED vars
  BY <1>2, <1>10 DEF vars
<1> QED
  BY <1>3, <1>4, <1>5, <1>6, <1>7, <1>8, <1>9, <1>10 DEF Next

\* A step that is not a read of a body, nor on the way to it, leaves none.
LEMMA NoBodyLeft ==
  ASSUME NEW e, Leave(e) \/ Respond(e) \/ CloseReader
  PROVE  reader'.at = "idle"
BY DEF Leave, Respond, CloseReader, Idle

\* A body is known when it is begun, and stays so.
LEMMA WholeStep ==
  ASSUME RequestsAssumption, CrLf, Inv, GatheredInOrder, Whole, [Next]_vars
  PROVE  Whole'
<1> DEFINE k == KindsOf(input.data)
           Known(q) == /\ \E j \in 4..Len(q) : EndsHead(q, j)
                       /\ HeadEnd(q) <= MaxHead /\ Awaited(q) <= MaxBody
<1>1. Small(input.size)'
  BY SizesSmall DEF Small
<1>2. CASE reader'.at \notin {"body", "handler"}
  BY <1>1, <1>2 DEF Whole, BodyKnown
<1>3. CASE RouteRequest
  <2>1. /\ reader.at = "route" /\ HasCommand /\ Awaited(k) <= MaxBody
        /\ KindsOf(input.data)' = k /\ Len(input.data)' = Len(input.data)
        /\ reader'.at = IF Awaited(k) = 0 THEN "handler" ELSE "body"
    BY <1>3 DEF RouteRequest, At, KindsOf
  <2>2. PICK j \in 4..Len(k) : EndsHead(k, j)
    BY <2>1, HeadEnds
  <2>3. /\ input.data \in Data /\ Len(input.data) <= MaxHead /\ MaxHead \in Nat
    BY <2>1 DEF Inv, TypeOK, HeadsCut, Data, RequestsAssumption
  <2>4. Len(k) = Len(input.data) /\ Len(k) \in Nat
    BY <2>3, KindsLength, KindsAre
  <2> HIDE DEF k
  <2>5. HeadEnd(k) \in 4..Len(k)
    BY <2>2, <2>4, HeadEndIs
  <2>6. Known(k)
    BY <2>1, <2>2, <2>3, <2>4, <2>5
  <2>7. BodyKnown'
    BY <2>1, <2>6 DEF BodyKnown
  <2>8. Awaited(k) = 0 => Len(input.data) >= HeadEnd(k) + Awaited(k)
    BY <2>4, <2>5
  <2>9. Needed' = HeadEnd(k) + Awaited(k)
    BY <2>1 DEF Needed
  <2> QED
    BY <1>1, <2>1, <2>7, <2>8, <2>9 DEF Whole
<1>4. CASE ReadBodyStalls \/ ReadBodyDone
  <2>1. /\ reader.at = "body" /\ KindsOf(input.data)' = k
        /\ Len(input.data)' = Len(input.data)
    BY <1>4 DEF ReadBodyStalls, ReadBodyDone, KindsOf
  <2>2. Known(k)
    BY <2>1 DEF Whole, BodyKnown
  <2> HIDE DEF k
  <2>3. BodyKnown'
    BY <2>1, <2>2 DEF BodyKnown
  <2>4. Needed' = Needed
    BY <2>1 DEF Needed, k
  <2>5. reader'.at = "handler" => Len(input.data) >= Needed
    <3>1. CASE ReadBodyStalls
      <4>1. reader'.at = "body"
        BY <2>1, <3>1 DEF ReadBodyStalls, Stall
      <4> QED
        BY <4>1
    <3>2. CASE ReadBodyDone
      BY <3>2 DEF ReadBodyDone, BodyDone
    <3> QED
      BY <1>4, <3>1, <3>2
  <2> QED
    BY <1>1, <2>1, <2>3, <2>4, <2>5 DEF Whole
<1>5. ASSUME NEW n \in 1..BufSize, ReadBody(n)
      PROVE  Whole'
  <2> DEFINE l == KindsOf(input.data)'
  <2>1. reader.at = "body" /\ reader'.at = "body"
    BY <1>5 DEF ReadBody
  <2>2. /\ Len(k) \in Nat /\ Len(l) = Len(k) + n /\ Len(l) \in Nat /\ n \in Nat
        /\ \A i \in 1..Len(k) : l[i] = k[i]
    BY <1>5, KindsStay
  <2>3. Known(k)
    BY <2>1 DEF Whole, BodyKnown
  <2>4. BodyKnown' <=> Known(l)
    BY <2>1 DEF BodyKnown
  <2> HIDE DEF k, l
  <2>5. PICK j \in 4..Len(k) : EndsHead(k, j)
    BY <2>3
  <2>6. Len(k) <= Len(l)
    BY <2>2
  <2>7. /\ HeadEnd(l) = HeadEnd(k) /\ Awaited(l) = Awaited(k)
        /\ j \in 4..Len(l) /\ EndsHead(l, j)
    BY <2>2, <2>5, <2>6, HeadStays
  <2>8. Known(l)
    BY <2>3, <2>7
  <2> QED
    BY <1>1, <2>1, <2>4, <2>8 DEF Whole
<1>6. CASE Silent
  BY <1>2, <1>3, <1>4, <1>6, NoBodyLeft
     DEF Silent, ReadHeadAgain, RouteIgnored, RouteTooLarge, ReadBodyGivesUp, Handle
<1>7. CASE ReadHeadEnds \/ ReadBodyEnds
  BY <1>2, <1>7, NoBodyLeft DEF ReadHeadEnds, ReadBodyEnds
<1>8. ASSUME NEW n \in 1..BufSize,
             ReadHead(n) \/ ReadHeadNoMemory(n) \/ ReadHeadTooLong(n)
      PROVE  Whole'
  <2>1. CASE ReadHead(n)
    <3>1. reader'.at \in {"head", "route"}
      BY <2>1 DEF ReadHead, At
    <3> QED
      BY <1>2, <3>1
  <2> QED
    BY <1>2, <1>8, <2>1, NoBodyLeft DEF ReadHeadNoMemory, ReadHeadTooLong
<1>9. ASSUME NEW c \in Conns,
             \/ \E s \in Streams : Accept(c, s)
             \/ StartRead(c) \/ StartReadFails(c) \/ Drained(c)
      PROVE  Whole'
  <2>1. reader'.at \in {"idle", "head"}
    BY <1>9 DEF Accept, StartRead, StartReadFails, Drained, Idle, At
  <2> QED
    BY <1>2, <2>1
<1>10. CASE UNCHANGED vars
  <2>1. /\ reader' = reader /\ input' = input /\ KindsOf(input.data)' = k
        /\ Needed' = Needed
    BY <1>10 DEF vars, KindsOf, Needed
  <2> QED
    BY <1>1, <2>1 DEF Whole, BodyKnown
<1> QED
  BY <1>5, <1>6, <1>7, <1>8, <1>9, <1>10 DEF Next

LEMMA InitWhole ==
  RequestsAssumption /\ Init => GatheredInOrder /\ Whole
<1> SUFFICES ASSUME RequestsAssumption, Init
             PROVE  GatheredInOrder /\ Whole
  OBVIOUS
<1>1. GatheredInOrder
  <2>1. \A c \in Conns : Slice(c, 0, 0) = <<>>
    BY SliceNothing
  <2> QED
    BY <2>1 DEF GatheredInOrder, Gathered, Init, Closed
<1>2. Whole
  BY DEF Whole, BodyKnown, Small, Init, Idle, RequestsAssumption
<1> QED
  BY <1>1, <1>2

-----------------------------------------------------------------------------
(* Theorems.                                                                *)

\* Inv always holds.
THEOREM InvHolds == ASSUME RequestsAssumption PROVE Spec => []Inv
<1>1. Init => Inv
  BY InitInv
<1>2. Inv /\ [Next]_vars => Inv'
  BY StepKeeps
<1> QED
  BY <1>1, <1>2, PTL DEF Spec

\* Wherever the network cuts a head, and whatever else goes through the shared
\* buffer, one that is complete is not stashed (axil_read(), head_complete()).
THEOREM CompleteHeadsGoOn ==
  ASSUME RequestsAssumption PROVE Spec => []NoCompleteHeadWaits
<1>1. Inv => NoCompleteHeadWaits
  <2> SUFFICES ASSUME Inv, NEW c \in Conns,
                      NEW i \in 1..(Len(KindsOf(conn[c].head)) - 3),
                      SubSeq(KindsOf(conn[c].head), i, i + 3) = <<"r", "n", "r", "n">>
               PROVE  FALSE
    BY DEF NoCompleteHeadWaits
  <2> DEFINE k == KindsOf(conn[c].head)
  <2>1. Len(k) \in Nat
    <3>1. conn[c].head \in Data
      BY DEF Inv, TypeOK, Connection, Data
    <3> QED
      BY <3>1, KindsLength, KindsAre
  <2>2. k[i + 1] = "n" /\ k[i + 2] = "r" /\ k[i + 3] = "n"
    <3> DEFINE S == {k[j] : j \in i..(i + 3)}
    <3> HIDE DEF k
    <3>1. i \in Int /\ i + 3 \in Int /\ \A j \in i..(i + 3) : k[j] \in S
      BY <2>1 DEF k
    <3>2. \A j \in 1..((i + 3) - i + 1) : SubSeq(k, i, i + 3)[j] = k[i + j - 1]
      <4> HIDE DEF S
      <4> QED
        BY <3>1, SubSeqProperties
    <3>3. /\ SubSeq(k, i, i + 3)[2] = k[i + 2 - 1]
          /\ SubSeq(k, i, i + 3)[3] = k[i + 3 - 1]
          /\ SubSeq(k, i, i + 3)[4] = k[i + 4 - 1]
      BY <3>1, <3>2
    <3>4. i + 2 - 1 = i + 1 /\ i + 3 - 1 = i + 2 /\ i + 4 - 1 = i + 3
      BY <3>1
    <3>5. SubSeq(k, i, i + 3) = <<"r", "n", "r", "n">>
      BY DEF k
    <3>6. /\ SubSeq(k, i, i + 3)[2] = "n" /\ SubSeq(k, i, i + 3)[3] = "r"
          /\ SubSeq(k, i, i + 3)[4] = "n"
      <4> DEFINE q == SubSeq(k, i, i + 3)
      <4>1. q = <<"r", "n", "r", "n">>
        BY <3>5
      <4> HIDE DEF q
      <4>2. q[2] = "n" /\ q[3] = "r" /\ q[4] = "n"
        BY <4>1
      <4> QED
        BY <4>2 DEF q
    <3> QED
      BY <3>3, <3>4, <3>6
  <2>3. HeadComplete(k)
    BY <2>1, <2>2 DEF HeadComplete
  <2> QED
    BY <2>3 DEF Inv, HeadsCut
<1> QED
  BY <1>1, InvHolds, PTL

\* The shared buffer holds what is written to it, and a stash too, with or
\* without responses that stay queued (axil_read(), stash_head(), the shrinking
\* in axil_close()).
THEOREM BuffersInBounds ==
  ASSUME RequestsAssumption PROVE Spec => []InBounds
<1>1. Inv => InBounds
  BY DEF Inv
<1> QED
  BY <1>1, InvHolds, PTL

\* With responses sent at once, a request is its own connection's bytes, in
\* order, each once.
THEOREM OrderHolds ==
  ASSUME RequestsAssumption, ~Slow PROVE Spec => []GatheredInOrder
<1>1. Init => GatheredInOrder
  BY InitWhole
<1>2. Inv /\ GatheredInOrder /\ [Next]_vars => GatheredInOrder'
  BY InOrderStep
<1> QED
  BY <1>1, <1>2, InvHolds, PTL DEF Spec

\* Whole always holds too, when also line ends are CR LF.
THEOREM WholeHolds ==
  ASSUME RequestsAssumption, ~Slow, CrLf PROVE Spec => []Whole
<1>1. Init => Whole
  BY InitWhole
<1>2. Inv /\ GatheredInOrder /\ Whole /\ [Next]_vars => Whole'
  BY WholeStep
<1> QED
  BY <1>1, <1>2, InvHolds, OrderHolds, PTL DEF Spec

\* A request is its own connection's bytes, and the handler of a POST, a PUT or a
\* DELETE is called with its whole declared body, which is within max_body_size
\* (axil_read(), stash_head(), buffer_post_body()).
THEOREM RequestsAreWhole ==
  ASSUME RequestsAssumption, ~Slow, CrLf PROVE Spec => []RequestsWhole
<1>1. Inv /\ GatheredInOrder /\ Whole => RequestsWhole
  <2> SUFFICES ASSUME Inv, GatheredInOrder, Whole, reader.at = "handler"
               PROVE  BodyWhole
    BY DEF RequestsWhole, BodyWhole
  <2> DEFINE k == KindsOf(input.data)
  <2>1. Len(k) = Len(input.data) /\ Len(k) >= HeadEnd(k) + Awaited(k)
    BY KnownIs DEF Whole, Needed
  <2>2. HeadComplete(k) /\ Awaited(k) <= MaxBody
    BY DEF Inv, HeadsCut, Whole, BodyKnown
  <2> HIDE DEF k
  <2>3. /\ HeadComplete(k)
        /\ Buffers(k) => /\ Len(k) >= HeadEnd(k) + ContentLength(k)
                         /\ ContentLength(k) <= MaxBody
    BY <2>1, <2>2 DEF Awaited
  <2> QED
    BY <2>3 DEF BodyWhole, k
<1> QED
  BY <1>1, InvHolds, OrderHolds, WholeHolds, PTL

\* However a peer dribbles its head, the stashes and the shared buffer hold
\* what they are given and stay below bounds that do not depend on how many
\* connections there are or have been.
THEOREM BuffersAreBounded ==
  ASSUME RequestsAssumption, ~Slow, CrLf PROVE Spec => []BuffersBounded
<1>1. Inv /\ Whole => BuffersBounded
  BY DEF BuffersBounded, MemoryBounded, Inv, Whole, Small
<1> QED
  BY <1>1, InvHolds, WholeHolds, PTL
=============================================================================
