-------------------------------- MODULE Tls --------------------------------
(***************************************************************************)
(* One TLS connection: the handshake that ssl_accept() starts in           *)
(* descr_new() and descr_proc_writes() resumes, SSL_read() and SSL_write() *)
(* under the readers and the write queue, and the turns of axil_main() in  *)
(* which either happens.  select() sees the socket; OpenSSL keeps records  *)
(* of its own above it, in both directions, which select() cannot see.     *)
(*                                                                         *)
(* OpenSSL is external and modelled from its documented contract, with the *)
(* modes axil_ctx_new() leaves it in: SSL_write() sends all of a buffer or *)
(* none, and one that could not finish must be retried with the same       *)
(* buffer, of no smaller length, or it fails with "bad write retry".       *)
(***************************************************************************)
EXTENDS Integers, Sequences

CONSTANTS
  Flights,          \* the client's flights in a handshake
  Records,          \* the records a client may send: how many items each holds
  MaxRecords,       \* bound: records the client sends
  MaxWrites,        \* bound: writes of the program
  Reader,           \* "head": axil_read(); "frame": descr_read_ws(), a tunnel
  HandshakeBlocks,  \* may the server's flight find the socket full?
  WriteBlocks,      \* may a write?
  PeerFails         \* may the peer fail the handshake, or reset?

TlsAssumption ==
  /\ Flights \in Nat \ {0}
  /\ Records \subseteq Nat \ {0}
  /\ MaxRecords \in Nat /\ MaxWrites \in Nat
  /\ Reader \in {"head", "frame"}
  /\ {HandshakeBlocks, WriteBlocks, PeerFails} \subseteq BOOLEAN

VARIABLE
  c   \* the connection: socket, OpenSSL's state, the descriptor

vars == <<c>>

\* left: flights of the client still to be processed.  here: one of them is in
\* the kernel.  stuck: part of the server's own flight would not fit.
\* net: records in the kernel.  held: items SSL_read() decrypted and did not
\* return.  pending: the length of the write OpenSSL could not finish and where
\* its buffer was.  taken, out, queue: items axil_low_write() accepted, those
\* the peer has, those in the write queue.
Fresh ==
  [open |-> TRUE, accepted |-> FALSE, left |-> Flights, here |-> FALSE,
   stuck |-> FALSE, net |-> <<>>, held |-> 0, sent |-> 0, records |-> 0,
   read |-> 0, pending |-> [len |-> 0, at |-> "nowhere"], full |-> FALSE,
   taken |-> 0, out |-> 0, queue |-> 0, failed |-> FALSE]

Close(d) == [d EXCEPT !.open = FALSE, !.accepted = FALSE, !.queue = 0,
                      !.net = <<>>, !.here = FALSE, !.stuck = FALSE,
                      !.held = 0, !.pending = [len |-> 0, at |-> "nowhere"]]

-----------------------------------------------------------------------------
(* The handshake.                                                           *)

\* SSL_accept() with a flight of the client at hand: the server answers it.
Processed(d) ==
  LET e == [d EXCEPT !.left = @ - 1, !.here = FALSE]
  IN  {e} \cup {f \in {[e EXCEPT !.stuck = TRUE]} : HandshakeBlocks}

\* SSL_accept(): the rest of the server's flight first, then the client's next.
Resumes(d) ==
  IF d.stuck THEN {d, [d EXCEPT !.stuck = FALSE]}
  ELSE IF d.here THEN Processed(d)
  ELSE {d}

\* ssl_accept(): WANT_READ and WANT_WRITE leave the connection as it is, an
\* error closes it.
SslAccepts(d) ==
  {[e EXCEPT !.accepted = e.left = 0 /\ ~e.stuck /\ e.open] : e \in Resumes(d)}
  \cup {Close([d EXCEPT !.failed = TRUE]) : b \in {d.here /\ PeerFails} \ {FALSE}}

\* The first statement of descr_proc_writes(), for every descriptor in every
\* turn in which select() reported any.
ProcWrites(d) == IF d.open /\ ~d.accepted THEN SslAccepts(d) ELSE {d}

-----------------------------------------------------------------------------
(* Reading.                                                                 *)

\* SSL_read() into a buffer of one item: from what is decrypted, else from the
\* next record.
SslRead(d) ==
  IF d.held > 0 THEN [d EXCEPT !.held = @ - 1, !.read = @ + 1]
  ELSE [d EXCEPT !.net = Tail(@), !.held = Head(d.net) - 1, !.read = @ + 1]

\* Mutant of ReadHead: the loop of axil_read() left after one SSL_read().
ReadHeadOnce(d) == IF d.held > 0 \/ d.net # <<>> THEN SslRead(d) ELSE d

\* So many items, and those of the records behind them.
Items(n, net) ==
  LET items[i \in 0..Len(net)] == IF i = 0 THEN n ELSE items[i - 1] + net[i]
  IN  items[Len(net)]

\* axil_read() on a head that never ends: SSL_read() until it would block.
ReadHead(d) ==
  [d EXCEPT !.net = <<>>, !.held = 0, !.read = @ + Items(d.held, d.net)]

\* descr_read_ws() takes one frame and a tunnel one buffer in a turn.
ReadOne(d) == IF d.held > 0 \/ d.net # <<>> THEN SslRead(d) ELSE d

\* descr_proc_reads() for this descriptor, if select() reported it.
ProcReads(d, reported) ==
  IF ~reported \/ ~d.accepted THEN d
  ELSE IF Reader = "head" THEN ReadHead(d) ELSE ReadOne(d)

-----------------------------------------------------------------------------
(* Writing.                                                                 *)

\* SSL_write() of n items from a buffer.  errno after "bad write retry" is
\* whatever the last system call to fail left there.
SslWrites(d, n, at) ==
  LET p == d.pending
  IN  IF p.len > 0 /\ (p.at # at \/ n < p.len)
        THEN {[d |-> d, ret |-> -1, errno |-> e] : e \in {"EAGAIN", "other"}}
      ELSE IF d.full
        THEN {[d |-> [d EXCEPT !.pending = [len |-> n, at |-> at]],
               ret |-> -1, errno |-> "EAGAIN"]}
      ELSE {[d |-> [d EXCEPT !.out = @ + n, !.pending = Fresh.pending],
             ret |-> n, errno |-> "none"]}

\* axil_write_remaining().
WriteRemaining(d) ==
  IF d.queue = 0 THEN {d}
  ELSE {IF r.ret >= 0 THEN [r.d EXCEPT !.queue = @ - r.ret]
        ELSE IF r.errno = "EAGAIN" THEN r.d
        ELSE Close(r.d) : r \in SslWrites(d, d.queue, "queue")}

\* Mutant of LowWrites: what would block is dropped.
LowWritesDrops(d) ==
  {IF r.ret < 0 /\ r.errno # "EAGAIN" THEN Close(r.d) ELSE r.d :
     r \in SslWrites([d EXCEPT !.taken = @ + 1], 1, "caller")}

\* axil_low_write() of one item: behind the queue, or straight from the
\* caller's buffer.
LowWrites(d) ==
  LET e == [d EXCEPT !.taken = @ + 1]
  IN  IF d.queue > 0 THEN WriteRemaining([e EXCEPT !.queue = @ + 1])
      ELSE {IF r.ret >= 0 THEN r.d
            ELSE IF r.errno = "EAGAIN" THEN [r.d EXCEPT !.queue = 1]
            ELSE Close(r.d) : r \in SslWrites(e, 1, "caller")}

-----------------------------------------------------------------------------
(* The actions.                                                             *)

\* accept(), then ssl_accept() from descr_new().
Init == c \in SslAccepts(Fresh) \cup SslAccepts([Fresh EXCEPT !.here = TRUE])

\* The client sends its next flight once it has all of the server's last one.
ClientFlight ==
  /\ c.open /\ c.left > 0 /\ ~c.here /\ ~c.stuck
  /\ c' = [c EXCEPT !.here = TRUE]

\* The client is done with its side of the handshake.
ClientSends ==
  /\ c.open /\ c.left = 0 /\ ~c.stuck /\ c.records < MaxRecords
  /\ \E n \in Records :
       c' = [c EXCEPT !.net = Append(@, n), !.sent = @ + n, !.records = @ + 1]

\* What select() sees of this descriptor.
Readable == c.here \/ c.net # <<>>

\* A turn in which select() reports this descriptor.
Turn ==
  /\ c.open /\ Readable
  /\ c' \in {ProcReads(d, d.open) : d \in ProcWrites(c)}

\* A turn in which it reports another one only.
OtherTurn == c.open /\ c' \in ProcWrites(c)

\* The flush at the start of a turn, whatever select() is to report.
Flush == c.open /\ c.queue > 0 /\ c' \in WriteRemaining(c)

AppWrite == c.open /\ c.accepted /\ c.taken < MaxWrites /\ c' \in LowWrites(c)

\* The peer stops reading, and goes on.
Fills == c.open /\ WriteBlocks /\ ~c.full /\ c' = [c EXCEPT !.full = TRUE]

Drains == c.open /\ c.full /\ c' = [c EXCEPT !.full = FALSE]

\* The connection was reset.
Reset == c.open /\ PeerFails /\ c' = Close([c EXCEPT !.failed = TRUE])

\* axil_close() returned; the number is nobody's.
Closed == ~c.open /\ UNCHANGED c

Next ==
  \/ ClientFlight \/ ClientSends \/ Turn \/ OtherTurn \/ Flush \/ AppWrite
  \/ Fills \/ Drains \/ Reset \/ Closed

Spec == Init /\ [][Next]_vars

\* The loop calls select(), which reports a readable descriptor, and flushes at
\* the start of each turn; a client goes on with its handshake and goes on
\* reading.  That another descriptor is ever reported is not assumed.
Fairness ==
  WF_vars(ClientFlight) /\ WF_vars(Turn) /\ WF_vars(Flush) /\ WF_vars(Drains)

FairSpec == Spec /\ Fairness

-----------------------------------------------------------------------------

\* Types, and what each buffer may hold.
TypeOK ==
  /\ c.left \in 0..Flights
  /\ c.accepted => c.open /\ c.left = 0 /\ ~c.stuck
  /\ c.net \in Seq(Records)
  /\ {c.held, c.sent, c.read, c.taken, c.out, c.queue} \subseteq Nat

\* axil_read() and descr_read_ws() over axil_ssl_low_read(): nothing sent is
\* skipped or read twice while records arrive, wait in OpenSSL and are read a
\* buffer at a time.
ReadInStep == c.open => Items(c.read + c.held, c.net) = c.sent

\* axil_low_write() and axil_write_remaining() over axil_ssl_lower_write():
\* whatever OpenSSL makes of a retry, an item that was accepted is in exactly
\* one place, on the wire or in the queue, while the connection is open.
SentOnce == c.open => c.out + c.queue = c.taken

\* A handshake the client goes on with is completed, or fails by the client's
\* doing, with no other traffic on the server to wake the loop: ssl_accept()
\* takes WANT_READ for what it is, and descr_proc_writes() comes back to it.
HandshakeEnds == <>(c.accepted \/ c.failed)

\* Everything the client sent is read with no further byte from it: axil_read()
\* goes on until SSL_read() would block, descr_read_ws() does not.
SentIsRead == \A n \in 1..(MaxRecords * 2) : (c.sent >= n) ~> (c.read >= n \/ ~c.open)

=============================================================================
