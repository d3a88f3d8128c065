---------------------------- MODULE Descriptors ----------------------------
(***************************************************************************)
(* The descriptor table of libaxil and the event loop that works on it:    *)
(* descr_map[], tunnel_pair[], the fd_sets, descr_new(), axil_close(),     *)
(* axil_tunnel_close_raw(), the WebSocket proxy of request_handle(), the   *)
(* deferred responses, and descr_proc_reads() over the numbers select()    *)
(* reported.  The kernel reissues the lowest closed number, so a number    *)
(* names one connection after another: sockets are told apart by the order *)
(* in which they were opened.                                              *)
(*                                                                         *)
(* The write queue is abstracted to whether it is empty (WriteQueue has    *)
(* the bytes).  As there, an operator in the plural is the set of states a *)
(* C function can return in.                                               *)
(***************************************************************************)
EXTENDS Naturals, FiniteSets

CONSTANTS
  Fds,          \* the numbers connections and upstreams may get
  Srv,          \* srv_fd, the listening socket
  MaxSockets,   \* bound: sockets opened in a behaviour
  Does          \* what the requests, and the peers, do

ASSUME TableAssumption ==
  /\ Fds \subseteq Nat \ {0}
  /\ IsFiniteSet(Fds)
  /\ Srv \in Nat \ {0}
  /\ Srv \notin Fds
  /\ MaxSockets \in Nat
  /\ Does \subseteq {"respond", "defer", "proxy", "attach", "nomem", "reset"}

VARIABLE
  s    \* the kernel's and the daemon's tables, with history fields

vars == <<s>>

None == 0      \* INVALID_SOCKET; also: no socket open under a number

SlotFlags == {"toClose", "deferred", "pending", "waiting", "tunnel"}

Proxying == {"pending", "waiting", "tunnel"}

\* A slot after memset() and d->fd = -1.
Dead == [live |-> FALSE, flags |-> {}, queued |-> FALSE, gen |-> 0, sock |-> 0]

-----------------------------------------------------------------------------
(* Numbers and teardown.                                                    *)

FreeFds(c) == {fd \in Fds : c.kernel[fd] = None}

\* The number the kernel gives next, if it has one.
NewFds(c) == {fd \in FreeFds(c) : \A k \in FreeFds(c) : fd <= k}

\* socket() or accept(): the next socket, under the lowest closed number.
Opened(c, fd) == [c EXCEPT !.sockets = @ + 1, !.kernel[fd] = c.sockets + 1]

CanOpen(c) == c.sockets < MaxSockets

\* memset(d, 0) and d->fd = fd for a socket just opened.
Fresh(c, fd, gen) ==
  [c EXCEPT !.slot[fd] = [Dead EXCEPT !.live = TRUE, !.gen = gen,
                                      !.sock = c.kernel[fd]]]

AddFlags(c, fd, flags) == [c EXCEPT !.slot[fd].flags = @ \cup flags]

DropFlags(c, fd, flags) == [c EXCEPT !.slot[fd].flags = @ \ flags]

Has(c, fd, flag) == flag \in c.slot[fd].flags

\* Mutant of RawReset: the number stays among those of this pass.
RawResetKeepsRead(c, fd) ==
  [c EXCEPT !.active = @ \ {fd},
            !.kernel[fd] = None, !.pair[fd] = None, !.slot[fd] = Dead]

\* axil_raw_descr_reset(), which is also the tail of axil_close().
RawReset(c, fd) ==
  [c EXCEPT !.active = @ \ {fd}, !.readable = @ \ {fd},
            !.kernel[fd] = None, !.pair[fd] = None, !.slot[fd] = Dead]

\* Mutant of TunnelClose: only the end that was asked for.
TunnelCloseOne(c, fd) == RawReset(c, fd)

\* axil_tunnel_close_raw(): both ends of the pair, without axil_disconnect().
TunnelClose(c, fd) ==
  LET peer == c.pair[fd]
  IN  IF peer \in {None, fd} THEN RawReset(c, fd)
      ELSE RawReset(RawReset(c, fd), peer)

\* Mutant of Disconnect, as it once was: gated, so that only connections a
\* module had set up reach the hook.
DisconnectGated(c, fd) ==
  IF c.module[fd].sock = 0 THEN c
  ELSE [c EXCEPT !.hooks[c.slot[fd].sock] = @ + 1,
                 !.module[fd] = [sock |-> 0, gen |-> 0]]

\* axil_disconnect(): a module releases what it keeps under the number.
Disconnect(c, fd) ==
  [c EXCEPT !.hooks[c.slot[fd].sock] = @ + 1,
            !.module[fd] = [sock |-> 0, gen |-> 0]]

\* Mutant of Close: one side of a pair torn down like any descriptor.
CloseAlone(c, fd) ==
  IF ~c.slot[fd].live THEN c ELSE RawReset(Disconnect(c, fd), fd)

\* axil_close().
Close(c, fd) ==
  IF ~c.slot[fd].live THEN c
  ELSE IF c.slot[fd].flags \cap Proxying # {} THEN TunnelClose(c, fd)
  ELSE RawReset(Disconnect(c, fd), fd)

-----------------------------------------------------------------------------
(* Writes, as far as they leave a queue or close the descriptor.            *)

\* axil_write_remaining(): EAGAIN or part of it, an error, or all of it.
Flushes(c, fd) ==
  IF ~c.slot[fd].queued THEN {c}
  ELSE LET e == [c EXCEPT !.slot[fd].queued = FALSE]
       IN  {c, Close(c, fd), IF Has(c, fd, "toClose") THEN Close(e, fd) ELSE e}

\* axil_write(): on a dead number send() fails and axil_close() returns.
Writes(c, fd) ==
  IF ~c.slot[fd].live THEN {c}
  ELSE IF c.slot[fd].queued THEN Flushes(c, fd)
  ELSE {c, [c EXCEPT !.slot[fd].queued = TRUE], Close(c, fd)}

\* The end of axil_respond(), axil_respond_defer_finish() and _done().
Finishes(c, fd) ==
  LET e == AddFlags(c, fd, {"toClose"})
  IN  IF e.slot[fd].queued THEN Flushes(e, fd) ELSE {Close(e, fd)}

\* request_handle() up to the handler, and axil_respond() in it.
Responds(c, fd) ==
  UNION {Finishes(e, fd) : e \in Writes(AddFlags(c, fd, {"toClose"}), fd)}

\* axil_respond_defer() in it: NULL, or a handle that is just the number.  The
\* model remembers for which connection it was given.
Defers(c, fd) ==
  LET m == AddFlags(c, fd, {"toClose"})
      h == [fd |-> fd, sock |-> c.slot[fd].sock]
  IN  IF Has(c, fd, "deferred") THEN {m}
      ELSE {[AddFlags(e, fd, {"deferred"}) EXCEPT !.handles = @ \cup {h}] :
              e \in Writes(m, fd)}

-----------------------------------------------------------------------------
(* Connections in, and the proxy's connections out.                         *)

\* Mutant of Accepted: the generation is not bumped.
AcceptedSameGeneration(c, fd) ==
  LET e == Fresh(Opened(c, fd), fd, c.generation)
  IN  [e EXCEPT !.active = @ \cup {fd}, !.clients = @ \cup {c.sockets + 1}]

\* descr_new() once accept() gave a number below FD_SETSIZE.
Accepted(c, fd) ==
  LET e == Fresh([Opened(c, fd) EXCEPT !.generation = @ + 1], fd,
                 c.generation + 1)
  IN  [e EXCEPT !.active = @ \cup {fd}, !.clients = @ \cup {c.sockets + 1}]

\* Mutant of AcceptedNoMem: the closed number is still watched.
AcceptedNoMemWatched(c, fd) ==
  [Accepted(c, fd) EXCEPT !.kernel[fd] = None, !.clients = c.clients]

\* The same when malloc() of the queue fails: the socket is closed, the number
\* leaves fds_active, and d->fd stays.
AcceptedNoMem(c, fd) ==
  LET e == Accepted(c, fd)
  IN  [e EXCEPT !.kernel[fd] = None, !.active = @ \ {fd},
                !.clients = c.clients]

\* accept() may fail; a number of FD_SETSIZE or more is closed at once.
Accepts(c) ==
  {c} \cup
  IF ~CanOpen(c) THEN {}
  ELSE IF FreeFds(c) = {} THEN {[c EXCEPT !.sockets = @ + 1]}
  ELSE {Accepted(c, fd) : fd \in NewFds(c)} \cup
       {AcceptedNoMem(c, fd) : fd \in {f \in NewFds(c) : "nomem" \in Does}}

\* Mutant of Paired: the upstream is never watched.
PairedUnwatched(c, fd, up) ==
  LET e == Fresh(Opened(c, up), up, 0)
      f == AddFlags(AddFlags(e, fd, {"pending"}), up, {"waiting", "pending"})
  IN  [f EXCEPT !.pair[fd] = up, !.pair[up] = fd,
                !.proxied = @ \cup {c.slot[fd].sock}]

\* The WebSocket branch of request_handle(): the upstream's slot, the pair, the
\* flags, then a send() to the upstream that may come up short.
Paired(c, fd, up) ==
  LET e == Fresh(Opened(c, up), up, 0)
      f == AddFlags(AddFlags(e, fd, {"pending"}), up, {"waiting", "pending"})
  IN  [f EXCEPT !.pair[fd] = up, !.pair[up] = fd, !.active = @ \cup {up},
                !.proxied = @ \cup {c.slot[fd].sock}]

\* The handler opened no socket, or one of FD_SETSIZE or more, or the request
\* has no key: nothing is left of the upstream, and nothing answers the client.
Proxies(c, fd) ==
  {c} \cup
  IF ~CanOpen(c) THEN {}
  ELSE UNION {{Paired(c, fd, up), TunnelClose(Paired(c, fd, up), up)} :
                up \in NewFds(c)}

\* axil_ws_tunnel(), which asks nothing of the two numbers.
WsTunnel(c, a, b) ==
  LET e == DropFlags(DropFlags(c, a, Proxying), b, Proxying)
      f == AddFlags(AddFlags(e, a, {"tunnel"}), b, {"tunnel"})
  IN  [f EXCEPT !.active = @ \cup {a, b}, !.pair[a] = b, !.pair[b] = a]

\* Forwarding the upstream's 101.  "reset": the client reset its connection
\* before, so the forward fails.
Upgrades(c, peer, up) ==
  {WsTunnel(e, peer, up) :
     e \in {w \in Writes(c, peer) : w.slot[peer].live \/ "reset" \in Does}}

-----------------------------------------------------------------------------
(* axil_main(): flushes and modules' work, select(), one pass of            *)
(* descr_proc_reads() over the numbers it reported, in ascending order.     *)

Top == s.cursor = 0

Due == {i \in s.readable : i >= s.cursor}

Turn(i) == ~Top /\ i \in Due /\ \A j \in Due : i <= j

Passed(c, i) == [c EXCEPT !.cursor = i + 1]

\* Every number select() is given is open.
SelectWorks == \A fd \in s.active \ {Srv} : s.kernel[fd] # None

Select ==
  /\ Top /\ SelectWorks
  /\ \E R \in (SUBSET s.active) \ {{}} :
       s' = [s EXCEPT !.readable = R, !.cursor = 1]

SelectTimeout ==
  /\ Top /\ SelectWorks
  /\ s' = [s EXCEPT !.readable = {}]

\* EINTR, and EBADF when a number is not open: the sets are as given.
SelectFails ==
  /\ Top
  /\ s' = [s EXCEPT !.readable = s.active]

EndPass ==
  /\ ~Top /\ Due = {}
  /\ s' = [s EXCEPT !.cursor = 0]

\* The start of a turn: every non-empty queue.
FlushQueue(fd) ==
  /\ Top /\ s.slot[fd].queued
  /\ s' \in Flushes(s, fd)

AcceptNew ==
  /\ Turn(Srv)
  /\ \E t \in Accepts(s) : s' = Passed(t, Srv)

\* The upstream's answer to the forwarded upgrade.
ReadWaiting(i) ==
  /\ Turn(i) /\ i # Srv /\ s.slot[i].live /\ Has(s, i, "waiting")
  /\ LET peer == s.pair[i]
         ok == /\ peer \notin {None, i}
               /\ s.slot[peer].live
               /\ s.pair[peer] = i
               /\ Has(s, peer, "pending")
     IN  \/ s' = Passed(s, i)                          \* EAGAIN
         \/ s' = Passed(TunnelClose(s, i), i)          \* EOF, error
         \/ /\ ~ok
            /\ s' = Passed(TunnelClose(s, i), i)
         \/ /\ ok
            /\ \E t \in Upgrades(s, peer, i) : s' = Passed(t, i)
         \/ /\ ok                                      \* not a 101
            /\ \E t \in Writes(s, peer) : s' = Passed(TunnelClose(t, i), i)

\* The client's bytes stay in the kernel until the upgrade is answered.
SkipPending(i) ==
  /\ Turn(i) /\ i # Srv /\ s.slot[i].live
  /\ Has(s, i, "pending") /\ ~Has(s, i, "waiting")
  /\ s' = Passed(s, i)

ReadTunnel(i) ==
  /\ Turn(i) /\ i # Srv /\ s.slot[i].live
  /\ Has(s, i, "tunnel") /\ ~Has(s, i, "waiting") /\ ~Has(s, i, "pending")
  /\ LET peer == s.pair[i]
         ok == peer \notin {None, i} /\ s.slot[peer].live
     IN  \/ s' = Passed(s, i)
         \/ s' = Passed(TunnelClose(s, i), i)
         \/ /\ ok
            /\ \E t \in Writes(s, peer) : s' = Passed(t, i)

\* descr_read() of a request, of its end, or of nothing that matters here.
ReadClient(i) ==
  /\ Turn(i) /\ i # Srv /\ s.slot[i].live
  /\ s.slot[i].flags \cap Proxying = {}
  /\ \/ s' = Passed(s, i)
     \/ s' = Passed(Close(s, i), i)
     \/ /\ "respond" \in Does
        /\ \E t \in Responds(s, i) : s' = Passed(t, i)
     \/ /\ "defer" \in Does
        /\ \E t \in Defers(s, i) : s' = Passed(t, i)
     \/ /\ "proxy" \in Does
        /\ \E t \in Proxies(s, i) : s' = Passed(t, i)

\* A handler, or axil_accept(), makes a module keep state under the number,
\* with the generation it read (axil-tty: a pty and its shell).
Attach(i) ==
  /\ "attach" \in Does
  /\ Turn(i) /\ i # Srv /\ s.slot[i].live
  /\ s.slot[i].flags \cap Proxying = {}
  /\ s' = Passed([s EXCEPT !.module[i] = [sock |-> s.slot[i].sock,
                                          gen  |-> s.slot[i].gen]], i)

\* A worker's result arrives, on the loop's thread.
WithoutHandle(h) == [s EXCEPT !.handles = @ \ {h}]

DeferFinish(h) ==
  /\ s' \in LET c == WithoutHandle(h)
            IN  IF ~Has(c, h.fd, "deferred") THEN {c}
                ELSE UNION {Finishes(e, h.fd) :
                       e \in {DropFlags(c, h.fd, {"deferred"})} \cup
                             Writes(DropFlags(c, h.fd, {"deferred"}), h.fd)}

DeferAbort(h) ==
  /\ s' = LET c == WithoutHandle(h)
          IN  IF ~Has(c, h.fd, "deferred") THEN c
              ELSE Close(DropFlags(c, h.fd, {"deferred"}), h.fd)

Init ==
  s = [kernel |-> [fd \in Fds |-> None], slot |-> [fd \in Fds |-> Dead],
       pair |-> [fd \in Fds |-> None],
       active |-> {Srv}, readable |-> {}, cursor |-> 0,
       sockets |-> 0, generation |-> 0, handles |-> {},
       module |-> [fd \in Fds |-> [sock |-> 0, gen |-> 0]],
       clients |-> {}, proxied |-> {}, hooks |-> [n \in 1..MaxSockets |-> 0]]

Next ==
  \/ Select \/ SelectTimeout \/ SelectFails \/ EndPass \/ AcceptNew
  \/ \E fd \in Fds : FlushQueue(fd)
  \/ \E fd \in Fds : ReadWaiting(fd) \/ SkipPending(fd) \/ ReadTunnel(fd)
                       \/ ReadClient(fd) \/ Attach(fd)
  \/ \E h \in s.handles : DeferFinish(h) \/ DeferAbort(h)

Spec == Init /\ [][Next]_vars

-----------------------------------------------------------------------------
(* Properties.                                                              *)

\* They are stated of any tables c, s among them: what one C function leaves
\* behind is what the next one finds.
Fields ==
  {"kernel", "slot", "pair", "active", "readable", "cursor", "sockets",
   "generation", "handles", "module", "clients", "proxied", "hooks"}

SlotTyped(d) ==
  /\ DOMAIN d = DOMAIN Dead
  /\ d.live \in BOOLEAN /\ d.queued \in BOOLEAN
  /\ d.flags \subseteq SlotFlags
  /\ d.gen \in Nat /\ d.sock \in Nat

Typed(c) ==
  /\ DOMAIN c = Fields
  /\ c.kernel \in [Fds -> Nat]
  /\ c.pair \in [Fds -> Fds \cup {None}]
  /\ DOMAIN c.slot = Fds /\ \A fd \in Fds : SlotTyped(c.slot[fd])
  /\ c.active \subseteq Fds \cup {Srv} /\ c.readable \subseteq c.active
  /\ c.cursor \in Nat /\ c.sockets \in Nat /\ c.generation \in Nat
  /\ \A h \in c.handles : h.fd \in Fds

IsOwn(c, fd) == c.slot[fd].live /\ c.slot[fd].sock = c.kernel[fd]

Watched(c) ==
  \A fd \in (c.active \cup c.readable) \ {Srv} :
    c.kernel[fd] # None /\ IsOwn(c, fd)

Owned(c) ==
  \A fd \in Fds : c.kernel[fd] # None => fd \in c.active /\ IsOwn(c, fd)

\* Two open, live slots that name each other, and whose flags say the same.
Mates(c, fd, peer) ==
  /\ peer # fd /\ c.pair[peer] = fd
  /\ c.kernel[fd] # None /\ c.slot[fd].live
  /\ \/ Has(c, fd, "tunnel") /\ Has(c, peer, "tunnel")
     \/ /\ Has(c, fd, "pending") /\ Has(c, peer, "pending")
        /\ Has(c, fd, "waiting") # Has(c, peer, "waiting")

Mutual(c) ==
  \A fd \in Fds :
    IF c.pair[fd] = None THEN c.slot[fd].flags \cap Proxying = {}
    ELSE Mates(c, fd, c.pair[fd])

\* The types of the tables; readable numbers are among the watched ones.
TypeOK == Typed(s)

\* A number the loop watches, or has still to read in this pass, is open, and
\* the socket under it is the one its slot was made for: no turn reads, writes
\* or closes a connection that merely took over the number.
WatchedIsOwn == Watched(s)

\* No socket leaks: every open one has the slot that watches and will close it.
OpenIsOwned == Owned(s)

\* tunnel_pair[] relates two open slots, each to the other, both of them
\* waiting for the upgrade or both tunnelling; a slot that proxies has a peer.
PairsAreMutual == Mutual(s)

IsOpen(n) == \E fd \in Fds : s.kernel[fd] = n

\* axil_disconnect() runs once for a client that was never proxied, when it is
\* closed and not before, whichever of the many calls of axil_close() does it.
DisconnectOnce ==
  \A n \in s.clients :
    s.hooks[n] = IF IsOpen(n) \/ n \in s.proxied THEN 0 ELSE 1

\* A module that compares generations never takes the connection that got its
\* number for the one it kept state for.
GenerationsTellApart ==
  \A fd \in Fds :
    s.slot[fd].live /\ s.module[fd].sock # 0
      /\ s.module[fd].gen = s.slot[fd].gen
    => s.module[fd].sock = s.slot[fd].sock

\* The two ends of a proxied WebSocket close in the same step.
PairsCloseTogether ==
  [][\A fd \in Fds :
       s.pair[fd] # None /\ s'.kernel[fd] # s.kernel[fd]
         => s'.kernel[s.pair[fd]] # s.kernel[s.pair[fd]]]_vars

\* axil.h: finish(), done() and abort() are no-ops if the handle is stale.
StaleHandleIsNoOp ==
  [][\A h \in s.handles :
       s.slot[h.fd].live /\ s.slot[h.fd].sock # h.sock /\ h \notin s'.handles
         => s'.slot[h.fd] = s.slot[h.fd]]_vars

\* axil.h: axil_disconnect() fires whenever a descriptor is torn down.
DisconnectFires == \A n \in s.clients : IsOpen(n) \/ s.hooks[n] > 0

\* axil_close(): no side of a pair survives with a stale tunnel_pair[] entry.
NoStalePair == \A fd \in Fds : s.pair[fd] # None => s.slot[fd].live

\* axil.h: the generation zero means "not a live descriptor".
ZeroIsNotLive == \A fd \in Fds : s.slot[fd].live => s.slot[fd].gen # 0
=============================================================================
