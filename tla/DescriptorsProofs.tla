------------------------- MODULE DescriptorsProofs -------------------------
(***************************************************************************)
(* Proofs about Descriptors, for every set of numbers and any number of    *)
(* connections.  One lemma per C function says that from sound tables      *)
(* every state it can return in has sound tables; the actions compose      *)
(* them.                                                                   *)
(***************************************************************************)
EXTENDS Descriptors, TLAPS

\* The inductive invariant: the tables have their types and agree.
Sound(c) == Typed(c) /\ Watched(c) /\ Owned(c) /\ Mutual(c)

\* The tables as far as Sound speaks of them.
SameTables(c, e) ==
  /\ DOMAIN e = Fields
  /\ e.kernel = c.kernel /\ e.slot = c.slot /\ e.pair = c.pair
  /\ e.active = c.active /\ e.readable \subseteq c.active

\* History, counters and the pass do not matter to the tables.
LEMMA SameTablesSound ==
  ASSUME NEW c, NEW e, Sound(c), SameTables(c, e),
         e.cursor \in Nat, e.sockets \in Nat, e.generation \in Nat,
         \A h \in e.handles : h.fd \in Fds
  PROVE  Sound(e)
<1>1. Typed(e)
  BY DEF Sound, Typed, SameTables
<1>2. Watched(e)
  BY DEF Sound, Typed, Watched, SameTables, IsOwn
<1>3. Owned(e)
  BY DEF Sound, Owned, SameTables, IsOwn
<1>4. Mutual(e)
  BY DEF Sound, Mutual, SameTables, Mates, Has
<1> QED
  BY <1>1, <1>2, <1>3, <1>4 DEF Sound

\* A slot after memset() has the types of a slot.
LEMMA DeadTyped == SlotTyped(Dead)
BY DEF SlotTyped, Dead, SlotFlags

\* e is c with the numbers of D reset.
Resets(c, e, D) ==
  /\ DOMAIN e = Fields
  /\ e.kernel = [f \in Fds |-> IF f \in D THEN None ELSE c.kernel[f]]
  /\ e.slot = [f \in Fds |-> IF f \in D THEN Dead ELSE c.slot[f]]
  /\ e.pair = [f \in Fds |-> IF f \in D THEN None ELSE c.pair[f]]
  /\ e.active = c.active \ D /\ e.readable = c.readable \ D
  /\ e.cursor = c.cursor /\ e.sockets = c.sockets
  /\ e.generation = c.generation /\ e.handles = c.handles

\* No number outside D has its peer in D.
Apart(c, D) == \A f \in Fds : c.pair[f] \in D => f \in D

\* Numbers that have no peer outside them can be reset together.
LEMMA ResetsSound ==
  ASSUME NEW c, NEW e, NEW D, D \subseteq Fds, Sound(c), Resets(c, e, D),
         Apart(c, D)
  PROVE  Sound(e)
<1>1. Typed(e)
  <2>1. e.kernel \in [Fds -> Nat] /\ e.pair \in [Fds -> Fds \cup {None}]
    BY DEF Resets, Sound, Typed, None
  <2>2. DOMAIN e.slot = Fds /\ \A f \in Fds : SlotTyped(e.slot[f])
    BY DeadTyped DEF Resets, Sound, Typed
  <2>3. /\ e.active \subseteq Fds \cup {Srv} /\ e.readable \subseteq e.active
        /\ e.cursor \in Nat /\ e.sockets \in Nat /\ e.generation \in Nat
        /\ \A h \in e.handles : h.fd \in Fds
    BY DEF Resets, Sound, Typed
  <2> QED
    BY <2>1, <2>2, <2>3 DEF Typed, Resets
<1>2. Watched(e)
  BY DEF Resets, Sound, Typed, Watched, IsOwn
<1>3. Owned(e)
  BY DEF Resets, Sound, Typed, Owned, IsOwn
<1>4. Mutual(e)
  <2>1. \A f \in Fds \ D : /\ e.slot[f] = c.slot[f] /\ e.pair[f] = c.pair[f]
                          /\ e.kernel[f] = c.kernel[f]
    BY DEF Resets
  <2>2. \A f \in D : e.pair[f] = None /\ e.slot[f].flags = {}
    BY DEF Resets, Dead
  <2>3. Mutual(c)
    BY DEF Sound
  <2>4. ASSUME NEW f \in Fds \ D, c.pair[f] # None
        PROVE  Mates(e, f, e.pair[f])
    <3>1. PICK p \in Fds : p = c.pair[f]
      BY <2>4 DEF Sound, Typed
    <3>2. e.pair[f] = p /\ Mates(c, f, p)
      BY <2>1, <2>3, <2>4, <3>1 DEF Mutual
    <3>4. p \notin D
      BY <3>1, <3>2 DEF Apart, Mates
    <3>3. /\ e.slot[f] = c.slot[f] /\ e.slot[p] = c.slot[p]
          /\ e.pair[p] = c.pair[p] /\ e.kernel[f] = c.kernel[f]
      BY <2>1, <3>4
    <3> QED
      BY <3>2, <3>3 DEF Mates, Has
  <2>5. ASSUME NEW f \in Fds \ D, c.pair[f] = None
        PROVE  e.pair[f] = None /\ e.slot[f].flags \cap Proxying = {}
    BY <2>1, <2>3, <2>5 DEF Mutual
  <2>6. ASSUME NEW f \in Fds
        PROVE  IF e.pair[f] = None THEN e.slot[f].flags \cap Proxying = {}
               ELSE Mates(e, f, e.pair[f])
    BY <2>1, <2>2, <2>4, <2>5
  <2> QED
    BY <2>6 DEF Mutual
<1> QED
  BY <1>1, <1>2, <1>3, <1>4 DEF Sound

\* axil_raw_descr_reset() resets its number.
LEMMA RawResetResets ==
  ASSUME NEW c, Typed(c), NEW fd \in Fds
  PROVE  Resets(c, RawReset(c, fd), {fd})
BY DEF RawReset, Typed, Resets, Fields

\* axil_raw_descr_reset() of a number without a peer.
LEMMA RawResetSound ==
  ASSUME NEW c, NEW fd \in Fds, Sound(c), c.pair[fd] = None
  PROVE  Sound(RawReset(c, fd))
<1>1. Resets(c, RawReset(c, fd), {fd})
  BY RawResetResets DEF Sound
<1>2. Apart(c, {fd})
  <2>1. ASSUME NEW f \in Fds, c.pair[f] = fd
        PROVE  FALSE
    <3>1. fd # None /\ f # None
      BY TableAssumption DEF None
    <3>2. Mates(c, f, fd)
      BY <2>1, <3>1 DEF Sound, Mutual
    <3> QED
      BY <3>1, <3>2 DEF Mates
  <2> QED
    BY <2>1 DEF Apart
<1> QED
  BY <1>1, <1>2, ResetsSound

\* axil_tunnel_close_raw() of any number: its peer, if it has one, goes with it.
LEMMA TunnelCloseSound ==
  ASSUME NEW c, NEW fd \in Fds, Sound(c)
  PROVE  Sound(TunnelClose(c, fd)) /\ ~TunnelClose(c, fd).slot[fd].live
<1> DEFINE peer == c.pair[fd]
           b == RawReset(c, fd)
           e == RawReset(b, peer)
<1>1. CASE peer = None
  <2>1. TunnelClose(c, fd) = RawReset(c, fd)
    BY <1>1 DEF TunnelClose
  <2>2. ~RawReset(c, fd).slot[fd].live
    <3>1. Resets(c, RawReset(c, fd), {fd})
      BY RawResetResets DEF Sound
    <3> QED
      BY <3>1 DEF Resets, Dead
  <2> QED
    BY <1>1, <2>1, <2>2, RawResetSound
<1>2. CASE peer # None
  <2>1. peer \in Fds /\ peer # fd /\ c.pair[peer] = fd
    <3>1. c.pair[fd] \in Fds
      BY <1>2 DEF Sound, Typed
    <3>2. Mates(c, fd, c.pair[fd])
      BY <1>2 DEF Sound, Mutual
    <3> QED
      BY <3>1, <3>2 DEF Mates
  <2>2. TunnelClose(c, fd) = e
    BY <1>2, <2>1 DEF TunnelClose
  <2>3. Resets(c, b, {fd})
    BY RawResetResets DEF Sound
  <2>4. Resets(c, e, {fd, peer})
    <3> HIDE DEF b, peer
    <3> QED
      BY <2>1, <2>3 DEF Resets, RawReset, Fields, e
  <2>5. Apart(c, {fd, peer})
    <3>1. ASSUME NEW f \in Fds, NEW p \in {fd, peer}, c.pair[f] = p
          PROVE  f \in {fd, peer}
      <4>1. p \in Fds /\ p # None /\ c.pair[p] \in {fd, peer}
        BY <2>1, TableAssumption DEF None
      <4>2. Mates(c, f, p)
        BY <3>1, <4>1 DEF Sound, Mutual
      <4> QED
        BY <4>1, <4>2 DEF Mates
    <3> QED
      BY <3>1 DEF Apart
  <2>6. Sound(e)
    <3> HIDE DEF e, peer
    <3> QED
      BY <2>1, <2>4, <2>5, ResetsSound
  <2>7. ~e.slot[fd].live
    BY <2>4 DEF Resets, Dead
  <2> QED
    BY <2>2, <2>6, <2>7
<1> QED
  BY <1>1, <1>2

\* axil_disconnect() leaves the tables as they are.
LEMMA DisconnectSame ==
  ASSUME NEW c, NEW fd \in Fds, Sound(c)
  PROVE  /\ Sound(Disconnect(c, fd))
         /\ Disconnect(c, fd).slot = c.slot /\ Disconnect(c, fd).pair = c.pair
<1> DEFINE e == Disconnect(c, fd)
<1>1. /\ SameTables(c, e) /\ e.cursor = c.cursor /\ e.sockets = c.sockets
      /\ e.generation = c.generation /\ e.handles = c.handles
  BY DEF Disconnect, SameTables, Sound, Typed, Fields
<1>2. Sound(e)
  <2> HIDE DEF e
  <2>1. /\ e.cursor \in Nat /\ e.sockets \in Nat /\ e.generation \in Nat
        /\ \A h \in e.handles : h.fd \in Fds
    BY <1>1 DEF Sound, Typed
  <2> QED
    BY <1>1, <2>1, SameTablesSound
<1> QED
  BY <1>1, <1>2 DEF SameTables

\* axil_close() of any number.
LEMMA CloseSound ==
  ASSUME NEW c, NEW fd \in Fds, Sound(c)
  PROVE  Sound(Close(c, fd)) /\ ~Close(c, fd).slot[fd].live
<1>1. CASE ~c.slot[fd].live
  BY <1>1 DEF Close
<1>2. CASE c.slot[fd].live /\ c.slot[fd].flags \cap Proxying # {}
  <2>1. Close(c, fd) = TunnelClose(c, fd)
    BY <1>2 DEF Close
  <2> QED
    BY <2>1, TunnelCloseSound
<1>3. CASE c.slot[fd].live /\ c.slot[fd].flags \cap Proxying = {}
  <2> DEFINE d == Disconnect(c, fd)
  <2>1. Close(c, fd) = RawReset(d, fd)
    BY <1>3 DEF Close
  <2>2. Sound(d) /\ d.slot = c.slot /\ d.pair = c.pair
    BY DisconnectSame
  <2>3. c.pair[fd] = None
    <3>1. CASE c.pair[fd] # None
      <4>1. Mates(c, fd, c.pair[fd])
        BY <3>1 DEF Sound, Mutual
      <4> QED
        BY <4>1, <1>3 DEF Mates, Has, Proxying
    <3> QED
      BY <3>1
  <2> HIDE DEF d
  <2>4. Sound(RawReset(d, fd))
    BY <2>2, <2>3, RawResetSound
  <2>5. Resets(d, RawReset(d, fd), {fd})
    BY <2>2, RawResetResets DEF Sound
  <2> QED
    BY <2>1, <2>4, <2>5 DEF Resets, Dead
<1> QED
  BY <1>1, <1>2, <1>3

-----------------------------------------------------------------------------
(* Flags, the queue, and writes.                                            *)

\* A change to one slot that keeps what the tables say of it.
LEMMA TouchSound ==
  ASSUME NEW c, NEW e, NEW fd \in Fds, NEW d, Sound(c), SlotTyped(d),
         d.live = c.slot[fd].live, d.sock = c.slot[fd].sock,
         d.flags \cap Proxying = c.slot[fd].flags \cap Proxying,
         e = [c EXCEPT !.slot[fd] = d]
  PROVE  Sound(e) /\ e.pair = c.pair
<1>1. /\ DOMAIN e = Fields /\ e.kernel = c.kernel /\ e.pair = c.pair
      /\ e.active = c.active /\ e.readable = c.readable
      /\ e.cursor = c.cursor /\ e.sockets = c.sockets
      /\ e.generation = c.generation /\ e.handles = c.handles
      /\ e.slot = [c.slot EXCEPT ![fd] = d]
  BY DEF Sound, Typed, Fields
<1>2. /\ DOMAIN e.slot = Fds
      /\ \A f \in Fds :
           /\ SlotTyped(e.slot[f])
           /\ e.slot[f].live = c.slot[f].live /\ e.slot[f].sock = c.slot[f].sock
           /\ e.slot[f].flags \cap Proxying = c.slot[f].flags \cap Proxying
  BY <1>1 DEF Sound, Typed
<1>3. Typed(e)
  BY <1>1, <1>2 DEF Sound, Typed
<1>4. Watched(e)
  BY <1>1, <1>2 DEF Sound, Typed, Watched, IsOwn
<1>5. Owned(e)
  BY <1>1, <1>2 DEF Sound, Owned, IsOwn
<1>6. Mutual(e)
  <2>1. ASSUME NEW f \in Fds, c.pair[f] # None
        PROVE  Mates(e, f, c.pair[f])
    <3>1. PICK p \in Fds : p = c.pair[f]
      BY <2>1 DEF Sound, Typed
    <3>2. Mates(c, f, p)
      BY <2>1, <3>1 DEF Sound, Mutual
    <3>3. \A flag \in Proxying :
            Has(e, f, flag) = Has(c, f, flag) /\ Has(e, p, flag) = Has(c, p, flag)
      BY <1>2 DEF Has
    <3>4. e.slot[f].live = c.slot[f].live
      BY <1>2
    <3> QED
      BY <1>1, <3>1, <3>2, <3>3, <3>4 DEF Mates, Proxying
  <2>2. ASSUME NEW f \in Fds, c.pair[f] = None
        PROVE  e.slot[f].flags \cap Proxying = {}
    BY <1>2, <2>2 DEF Sound, Mutual
  <2> QED
    BY <1>1, <2>1, <2>2 DEF Mutual
<1> QED
  BY <1>1, <1>3, <1>4, <1>5, <1>6 DEF Sound

\* Flags that say nothing of a proxy come and go.
LEMMA MarkSound ==
  ASSUME NEW c, NEW fd \in Fds, Sound(c),
         NEW S \in SUBSET {"toClose", "deferred"}
  PROVE  /\ Sound(AddFlags(c, fd, S)) /\ AddFlags(c, fd, S).pair = c.pair
         /\ Sound(DropFlags(c, fd, S)) /\ DropFlags(c, fd, S).pair = c.pair
<1> DEFINE a == [c.slot[fd] EXCEPT !.flags = @ \cup S]
           d == [c.slot[fd] EXCEPT !.flags = @ \ S]
<1>1. SlotTyped(c.slot[fd])
  BY DEF Sound, Typed
<1>2. /\ SlotTyped(a) /\ a.live = c.slot[fd].live /\ a.sock = c.slot[fd].sock
      /\ a.flags \cap Proxying = c.slot[fd].flags \cap Proxying
  BY <1>1 DEF SlotTyped, Dead, SlotFlags, Proxying
<1>3. /\ SlotTyped(d) /\ d.live = c.slot[fd].live /\ d.sock = c.slot[fd].sock
      /\ d.flags \cap Proxying = c.slot[fd].flags \cap Proxying
  BY <1>1 DEF SlotTyped, Dead, SlotFlags, Proxying
<1>4. AddFlags(c, fd, S) = [c EXCEPT !.slot[fd] = a]
  BY DEF AddFlags, Sound, Typed
<1>5. DropFlags(c, fd, S) = [c EXCEPT !.slot[fd] = d]
  BY DEF DropFlags, Sound, Typed
<1> HIDE DEF a, d
<1>6. Sound(AddFlags(c, fd, S)) /\ AddFlags(c, fd, S).pair = c.pair
  BY <1>2, <1>4, TouchSound
<1>7. Sound(DropFlags(c, fd, S)) /\ DropFlags(c, fd, S).pair = c.pair
  BY <1>3, <1>5, TouchSound
<1> QED
  BY <1>6, <1>7

\* The queue fills and empties.
LEMMA QueueSound ==
  ASSUME NEW c, NEW fd \in Fds, Sound(c), NEW b \in BOOLEAN
  PROVE  /\ Sound([c EXCEPT !.slot[fd].queued = b])
         /\ [c EXCEPT !.slot[fd].queued = b].pair = c.pair
<1> DEFINE d == [c.slot[fd] EXCEPT !.queued = b]
<1>1. SlotTyped(c.slot[fd])
  BY DEF Sound, Typed
<1>2. /\ SlotTyped(d) /\ d.live = c.slot[fd].live /\ d.sock = c.slot[fd].sock
      /\ d.flags = c.slot[fd].flags
  BY <1>1 DEF SlotTyped, Dead
<1>3. [c EXCEPT !.slot[fd].queued = b] = [c EXCEPT !.slot[fd] = d]
  BY DEF Sound, Typed
<1> HIDE DEF d
<1> QED
  BY <1>2, <1>3, TouchSound

\* axil_write_remaining(): either the descriptor is closed or no pair changed.
LEMMA FlushesSound ==
  ASSUME NEW c, NEW fd \in Fds, Sound(c), NEW e \in Flushes(c, fd)
  PROVE  Sound(e) /\ (e.slot[fd].live => e.pair = c.pair)
<1> DEFINE q == [c EXCEPT !.slot[fd].queued = FALSE]
<1>1. Sound(q) /\ q.pair = c.pair
  BY QueueSound
<1>2. e \in {c, Close(c, fd), Close(q, fd), q}
  BY DEF Flushes
<1> HIDE DEF q
<1> QED
  BY <1>1, <1>2, CloseSound

\* axil_write(), likewise.
LEMMA WritesSound ==
  ASSUME NEW c, NEW fd \in Fds, Sound(c), NEW e \in Writes(c, fd)
  PROVE  Sound(e) /\ (e.slot[fd].live => e.pair = c.pair)
<1> DEFINE q == [c EXCEPT !.slot[fd].queued = TRUE]
<1>1. Sound(q) /\ q.pair = c.pair
  BY QueueSound
<1>2. e \in {c, Close(c, fd), q} \/ e \in Flushes(c, fd)
  BY DEF Writes
<1> HIDE DEF q
<1> QED
  BY <1>1, <1>2, CloseSound, FlushesSound

\* The end of a response, deferred or not.
LEMMA FinishesSound ==
  ASSUME NEW c, NEW fd \in Fds, Sound(c), NEW e \in Finishes(c, fd)
  PROVE  Sound(e)
<1> DEFINE m == AddFlags(c, fd, {"toClose"})
<1>1. Sound(m)
  BY MarkSound
<1>2. e \in Flushes(m, fd) \/ e = Close(m, fd)
  BY DEF Finishes
<1> HIDE DEF m
<1> QED
  BY <1>1, <1>2, FlushesSound, CloseSound

\* A handler that answers.
LEMMA RespondsSound ==
  ASSUME NEW c, NEW fd \in Fds, Sound(c), NEW e \in Responds(c, fd)
  PROVE  Sound(e)
<1> DEFINE m == AddFlags(c, fd, {"toClose"})
<1>1. Sound(m)
  BY MarkSound
<1>2. PICK w \in Writes(m, fd) : e \in Finishes(w, fd)
  BY DEF Responds
<1> HIDE DEF m
<1> QED
  BY <1>1, <1>2, WritesSound, FinishesSound
\* A handler that will answer later: the handle names a number of the table.
LEMMA DefersSound ==
  ASSUME NEW c, NEW fd \in Fds, Sound(c), NEW e \in Defers(c, fd)
  PROVE  Sound(e)
<1> DEFINE m == AddFlags(c, fd, {"toClose"})
           h == [fd |-> fd, sock |-> c.slot[fd].sock]
<1>1. Sound(m)
  BY MarkSound
<1>2. CASE e = m
  BY <1>1, <1>2
<1>3. ASSUME NEW w \in Writes(m, fd),
             e = [AddFlags(w, fd, {"deferred"}) EXCEPT !.handles = @ \cup {h}]
      PROVE  Sound(e)
  <2> DEFINE d == AddFlags(w, fd, {"deferred"})
  <2>1. Sound(d)
    <3> HIDE DEF m
    <3> QED
      BY <1>1, WritesSound, MarkSound
  <2>2. h.fd = fd
    OBVIOUS
  <2> HIDE DEF d, h
  <2>3. e = [d EXCEPT !.handles = @ \cup {h}]
    BY <1>3 DEF d
  <2>4. /\ SameTables(d, e) /\ e.cursor = d.cursor /\ e.sockets = d.sockets
        /\ e.generation = d.generation /\ e.handles = d.handles \cup {h}
    BY <2>1, <2>3 DEF Sound, Typed, SameTables, Fields
  <2> QED
    BY <2>1, <2>2, <2>4, SameTablesSound DEF Sound, Typed
<1> QED
  BY <1>2, <1>3 DEF Defers

-----------------------------------------------------------------------------
(* Connections in, and the proxy's connections out.                         *)

\* A closed number is not watched and is in no pair.
LEMMA FreeNumber ==
  ASSUME NEW c, NEW up \in Fds, Sound(c), c.kernel[up] = None
  PROVE  /\ up \notin c.active \cup c.readable /\ c.pair[up] = None
         /\ \A f \in Fds : c.pair[f] # up
<1>1. up \notin c.active \cup c.readable
  BY TableAssumption DEF Sound, Watched
<1>2. c.pair[up] = None
  BY DEF Sound, Mutual, Mates
<1>3. ASSUME NEW f \in Fds, c.pair[f] = up
      PROVE  FALSE
  <2>1. up # None /\ f # None
    BY TableAssumption DEF None
  <2>2. Mates(c, f, up)
    BY <1>3, <2>1 DEF Sound, Mutual
  <2> QED
    BY <1>2, <2>1, <2>2 DEF Mates
<1> QED
  BY <1>1, <1>2, <1>3

\* e is c with a slot made for the socket opened under the number up, which is
\* watched or, where the set-up failed, closed again.
Opens(c, e, up, watched) ==
  /\ DOMAIN e = Fields
  /\ e.kernel = [c.kernel EXCEPT ![up] = IF watched THEN c.sockets + 1 ELSE None]
  /\ \E gen \in Nat :
       e.slot = [c.slot EXCEPT ![up] = [Dead EXCEPT !.live = TRUE, !.gen = gen,
                                                   !.sock = c.sockets + 1]]
  /\ e.pair = c.pair
  /\ e.active = IF watched THEN c.active \cup {up} ELSE c.active
  /\ e.readable = c.readable /\ e.cursor = c.cursor
  /\ e.sockets = c.sockets + 1 /\ e.generation \in Nat
  /\ e.handles = c.handles

\* A number that was closed can be taken by a new socket.
LEMMA OpensSound ==
  ASSUME NEW c, NEW e, NEW up \in Fds, NEW watched \in BOOLEAN, Sound(c),
         c.kernel[up] = None, Opens(c, e, up, watched)
  PROVE  Sound(e)
<1>1. PICK d : /\ e.slot = [c.slot EXCEPT ![up] = d]
               /\ SlotTyped(d) /\ d.live /\ d.flags = {} /\ d.sock = c.sockets + 1
  <2>1. PICK gen \in Nat :
          e.slot = [c.slot EXCEPT ![up] = [Dead EXCEPT !.live = TRUE, !.gen = gen,
                                                       !.sock = c.sockets + 1]]
    BY DEF Opens
  <2> DEFINE d == [Dead EXCEPT !.live = TRUE, !.gen = gen, !.sock = c.sockets + 1]
  <2>2. SlotTyped(d) /\ d.live /\ d.flags = {} /\ d.sock = c.sockets + 1
    BY DEF SlotTyped, Dead, SlotFlags, Sound, Typed
  <2> QED
    BY <2>1, <2>2
<1>2. /\ up \notin c.active \cup c.readable /\ c.pair[up] = None
      /\ \A f \in Fds : c.pair[f] # up
  BY FreeNumber
<1>3. \A f \in Fds \ {up} : e.slot[f] = c.slot[f] /\ e.kernel[f] = c.kernel[f]
  BY <1>1 DEF Opens, Sound, Typed
<1>4. /\ e.slot[up] = d /\ c.sockets + 1 # None
      /\ e.kernel[up] = IF watched THEN c.sockets + 1 ELSE None
  BY <1>1 DEF Opens, Sound, Typed, None
<1>5. Typed(e)
  <2>1. e.kernel \in [Fds -> Nat] /\ e.pair \in [Fds -> Fds \cup {None}]
    BY DEF Opens, Sound, Typed, None
  <2>2. DOMAIN e.slot = Fds /\ \A f \in Fds : SlotTyped(e.slot[f])
    BY <1>1, <1>3, <1>4 DEF Sound, Typed
  <2>3. /\ e.active \subseteq Fds \cup {Srv} /\ e.readable \subseteq e.active
        /\ e.cursor \in Nat /\ e.sockets \in Nat /\ e.generation \in Nat
        /\ \A h \in e.handles : h.fd \in Fds
    BY DEF Opens, Sound, Typed
  <2> QED
    BY <2>1, <2>2, <2>3 DEF Typed, Opens
<1>6. Watched(e)
  <2>1. ASSUME NEW f \in (e.active \cup e.readable) \ {Srv}
        PROVE  e.kernel[f] # None /\ IsOwn(e, f)
    <3>1. CASE f = up
      BY <1>1, <1>2, <1>4, <3>1 DEF Opens, IsOwn
    <3>2. CASE f # up
      <4>1. f \in (c.active \cup c.readable) \ {Srv} /\ f \in Fds
        BY <3>2 DEF Opens, Sound, Typed
      <4> QED
        BY <1>3, <3>2, <4>1 DEF IsOwn, Sound, Watched
    <3> QED
      BY <3>1, <3>2
  <2> QED
    BY <2>1 DEF Watched
<1>7. Owned(e)
  BY <1>1, <1>3, <1>4 DEF Opens, Sound, Owned, IsOwn
<1>8. Mutual(e)
  <2>1. ASSUME NEW f \in Fds, c.pair[f] # None
        PROVE  Mates(e, f, c.pair[f])
    <3>1. PICK p \in Fds : p = c.pair[f]
      BY <2>1 DEF Sound, Typed
    <3>2. Mates(c, f, p)
      BY <2>1, <3>1 DEF Sound, Mutual
    <3>3. f # up /\ p # up
      BY <1>2, <2>1, <3>1
    <3>4. e.slot[f] = c.slot[f] /\ e.slot[p] = c.slot[p] /\ e.kernel[f] = c.kernel[f]
      BY <1>3, <3>3
    <3> QED
      BY <3>1, <3>2, <3>4 DEF Mates, Has, Opens
  <2>2. ASSUME NEW f \in Fds, c.pair[f] = None
        PROVE  e.slot[f].flags \cap Proxying = {}
    <3>1. CASE f = up
      BY <1>1, <1>4, <3>1
    <3>2. CASE f # up
      BY <1>3, <2>2, <3>2 DEF Sound, Mutual
    <3> QED
      BY <3>1, <3>2
  <2> QED
    BY <2>1, <2>2 DEF Mutual, Opens
<1> QED
  BY <1>5, <1>6, <1>7, <1>8 DEF Sound

\* descr_new() of a number that was closed.
LEMMA AcceptedOpens ==
  ASSUME NEW c, Sound(c), NEW fd \in Fds
  PROVE  Opens(c, Accepted(c, fd), fd, TRUE)
<1> DEFINE e == Accepted(c, fd)
<1>1. e.slot = [c.slot EXCEPT ![fd] =
        [Dead EXCEPT !.live = TRUE, !.gen = c.generation + 1,
                     !.sock = c.sockets + 1]]
  BY DEF Sound, Typed, Fields, Accepted, Fresh, Opened
<1>2. /\ DOMAIN e = Fields
      /\ e.kernel = [c.kernel EXCEPT ![fd] = c.sockets + 1]
      /\ e.pair = c.pair /\ e.active = c.active \cup {fd}
      /\ e.readable = c.readable /\ e.cursor = c.cursor
      /\ e.sockets = c.sockets + 1 /\ e.generation = c.generation + 1
      /\ e.handles = c.handles
  BY DEF Sound, Typed, Fields, Accepted, Fresh, Opened
<1>3. c.generation + 1 \in Nat
  BY DEF Sound, Typed
<1> QED
  BY <1>1, <1>2, <1>3 DEF Opens

\* The same when malloc() fails.
LEMMA AcceptedNoMemOpens ==
  ASSUME NEW c, Sound(c), NEW fd \in Fds, c.kernel[fd] = None
  PROVE  Opens(c, AcceptedNoMem(c, fd), fd, FALSE)
<1> DEFINE a == Accepted(c, fd)
           e == AcceptedNoMem(c, fd)
<1>1. Opens(c, a, fd, TRUE)
  BY AcceptedOpens
<1>2. e = [a EXCEPT !.kernel[fd] = None, !.active = @ \ {fd}, !.clients = c.clients]
  BY DEF AcceptedNoMem
<1>3. fd \notin c.active
  BY FreeNumber
<1> HIDE DEF a, e
<1>4. /\ DOMAIN e = Fields /\ e.slot = a.slot /\ e.pair = a.pair
      /\ e.kernel = [a.kernel EXCEPT ![fd] = None] /\ e.active = a.active \ {fd}
      /\ e.readable = a.readable /\ e.cursor = a.cursor
      /\ e.sockets = a.sockets /\ e.generation = a.generation
      /\ e.handles = a.handles
  BY <1>1, <1>2 DEF Opens, Fields
<1>5. a.kernel = [c.kernel EXCEPT ![fd] = c.sockets + 1]
  BY <1>1 DEF Opens
<1>6. e.kernel = [c.kernel EXCEPT ![fd] = None]
  BY <1>4, <1>5 DEF Sound, Typed
<1>7. e.active = c.active
  BY <1>1, <1>3, <1>4 DEF Opens
<1>8. Opens(c, e, fd, FALSE)
  BY <1>1, <1>4, <1>6, <1>7 DEF Opens
<1> QED
  BY <1>8 DEF e

\* descr_new(), whatever accept() and malloc() say.
LEMMA AcceptsSound ==
  ASSUME NEW c, Sound(c), NEW e \in Accepts(c)
  PROVE  Sound(e)
<1>1. CASE e = c
  BY <1>1
<1>2. CASE e = [c EXCEPT !.sockets = @ + 1]
  <2>1. /\ SameTables(c, e) /\ e.cursor = c.cursor /\ e.sockets = c.sockets + 1
        /\ e.generation = c.generation /\ e.handles = c.handles
    BY <1>2 DEF SameTables, Sound, Typed, Fields
  <2> QED
    BY <2>1, SameTablesSound DEF Sound, Typed
<1>3. ASSUME NEW fd \in NewFds(c), e \in {Accepted(c, fd), AcceptedNoMem(c, fd)}
      PROVE  Sound(e)
  <2>1. fd \in Fds /\ c.kernel[fd] = None
    BY DEF NewFds, FreeFds
  <2> QED
    BY <1>3, <2>1, AcceptedOpens, AcceptedNoMemOpens, OpensSound
<1> QED
  BY <1>1, <1>2, <1>3 DEF Accepts

\* A number that proxies nothing has no peer.
LEMMA NoPeer ==
  ASSUME NEW c, NEW fd \in Fds, Sound(c), c.slot[fd].flags \cap Proxying = {}
  PROVE  c.pair[fd] = None /\ \A f \in Fds : c.pair[f] # fd
<1>1. c.pair[fd] = None
  BY DEF Sound, Mutual, Mates, Has, Proxying
<1>2. ASSUME NEW f \in Fds, c.pair[f] = fd
      PROVE  FALSE
  <2>1. fd # None /\ f # None
    BY TableAssumption DEF None
  <2>2. Mates(c, f, fd)
    BY <1>2, <2>1 DEF Sound, Mutual
  <2> QED
    BY <1>1, <2>1, <2>2 DEF Mates
<1> QED
  BY <1>1, <1>2

\* e is c with the numbers a and b made each other's peers, all else kept.
Weds(c, e, a, b) ==
  /\ DOMAIN e = Fields /\ e.kernel = c.kernel
  /\ DOMAIN e.slot = Fds
  /\ \A f \in Fds : /\ SlotTyped(e.slot[f])
                    /\ e.slot[f].live = c.slot[f].live
                    /\ e.slot[f].sock = c.slot[f].sock
  /\ \A f \in Fds \ {a, b} : e.slot[f] = c.slot[f]
  /\ e.pair = [c.pair EXCEPT ![a] = b, ![b] = a]
  /\ e.active = c.active \cup {a, b}
  /\ e.readable = c.readable /\ e.cursor = c.cursor /\ e.sockets = c.sockets
  /\ e.generation = c.generation /\ e.handles = c.handles

\* DF_* bits set on a slot leave the rest of it alone.
LEMMA SlotFlagged ==
  ASSUME NEW x, NEW y, SlotTyped(x),
         \E F \in SUBSET SlotFlags : y = [x EXCEPT !.flags = x.flags \cup F]
  PROVE  SlotTyped(y) /\ y.live = x.live /\ y.sock = x.sock
BY DEF SlotTyped, Dead, SlotFlags

\* Two open numbers whose peers, if any, are each other can be paired.
LEMMA WedsSound ==
  ASSUME NEW c, NEW e, NEW a \in Fds, NEW b \in Fds, a # b, Sound(c),
         c.kernel[a] # None, c.kernel[b] # None, Weds(c, e, a, b),
         \A f \in Fds \ {a, b} : c.pair[f] \notin {a, b},
         \/ Has(e, a, "tunnel") /\ Has(e, b, "tunnel")
         \/ /\ Has(e, a, "pending") /\ Has(e, b, "pending")
            /\ Has(e, a, "waiting") # Has(e, b, "waiting")
  PROVE  Sound(e)
<1>1. Typed(e)
  <2>1. e.kernel \in [Fds -> Nat] /\ e.pair \in [Fds -> Fds \cup {None}]
    BY DEF Weds, Sound, Typed
  <2>2. /\ e.active \subseteq Fds \cup {Srv} /\ e.readable \subseteq e.active
        /\ e.cursor \in Nat /\ e.sockets \in Nat /\ e.generation \in Nat
        /\ \A h \in e.handles : h.fd \in Fds
    BY DEF Weds, Sound, Typed
  <2> QED
    BY <2>1, <2>2 DEF Typed, Weds
<1>2. Watched(e)
  <2>1. ASSUME NEW f \in (e.active \cup e.readable) \ {Srv}
        PROVE  e.kernel[f] # None /\ IsOwn(e, f)
    <3>1. f \in Fds /\ c.kernel[f] # None
      BY DEF Weds, Sound, Typed, Watched
    <3>2. IsOwn(c, f)
      BY <3>1 DEF Sound, Owned
    <3> QED
      BY <3>1, <3>2 DEF Weds, IsOwn
  <2> QED
    BY <2>1 DEF Watched
<1>3. Owned(e)
  BY DEF Weds, Sound, Owned, IsOwn
<1>4. Mutual(e)
  <2>0. \A f \in Fds : e.pair[f] = IF f = a THEN b ELSE IF f = b THEN a ELSE c.pair[f]
    BY DEF Weds, Sound, Typed
  <2>1. Mates(e, a, b) /\ Mates(e, b, a)
    <3>1. e.slot[a].live /\ e.slot[b].live
      BY DEF Weds, Sound, Owned, IsOwn
    <3> QED
      BY <2>0, <3>1 DEF Mates, Weds
  <2>2. ASSUME NEW f \in Fds \ {a, b}, c.pair[f] # None
        PROVE  Mates(e, f, e.pair[f])
    <3>1. PICK p \in Fds : p = c.pair[f]
      BY <2>2 DEF Sound, Typed
    <3>2. Mates(c, f, p)
      BY <2>2, <3>1 DEF Sound, Mutual
    <3>3. p \notin {a, b}
      BY <3>1
    <3>4. e.pair[f] = p /\ e.pair[p] = c.pair[p]
      BY <2>0, <3>1, <3>3
    <3>5. e.slot[f] = c.slot[f] /\ e.slot[p] = c.slot[p] /\ e.kernel = c.kernel
      BY <3>3 DEF Weds
    <3> QED
      BY <3>2, <3>4, <3>5 DEF Mates, Has
  <2>3. ASSUME NEW f \in Fds \ {a, b}, c.pair[f] = None
        PROVE  e.pair[f] = None /\ e.slot[f].flags \cap Proxying = {}
    BY <2>0, <2>3 DEF Weds, Sound, Mutual
  <2>4. a # None /\ b # None
    BY TableAssumption DEF None
  <2> QED
    <3>1. ASSUME NEW f \in Fds
          PROVE  IF e.pair[f] = None THEN e.slot[f].flags \cap Proxying = {}
                 ELSE Mates(e, f, e.pair[f])
      BY <2>0, <2>1, <2>2, <2>3, <2>4
    <3> QED
      BY <3>1 DEF Mutual
<1> QED
  BY <1>1, <1>2, <1>3, <1>4 DEF Sound
\* The pair that request_handle() makes of a client and its upstream.
LEMMA PairedSound ==
  ASSUME NEW c, NEW fd \in Fds, NEW up \in Fds, Sound(c),
         c.kernel[fd] # None, c.slot[fd].flags \cap Proxying = {},
         c.kernel[up] = None
  PROVE  Sound(Paired(c, fd, up))
<1> DEFINE o == Fresh(Opened(c, up), up, 0)
           d == [o EXCEPT !.active = @ \cup {up}]
           f == AddFlags(AddFlags(o, fd, {"pending"}), up, {"waiting", "pending"})
           e == Paired(c, fd, up)
<1>1. o.slot = [c.slot EXCEPT ![up] = [Dead EXCEPT !.live = TRUE, !.gen = 0,
                                                   !.sock = c.sockets + 1]]
  BY DEF Sound, Typed, Fields, Fresh, Opened
<1>2. /\ DOMAIN o = Fields
      /\ o.kernel = [c.kernel EXCEPT ![up] = c.sockets + 1]
      /\ o.pair = c.pair /\ o.active = c.active
      /\ o.readable = c.readable /\ o.cursor = c.cursor
      /\ o.sockets = c.sockets + 1 /\ o.generation = c.generation
      /\ o.handles = c.handles
  BY DEF Sound, Typed, Fields, Fresh, Opened
<1>3. e = [f EXCEPT !.pair[fd] = up, !.pair[up] = fd, !.active = @ \cup {up},
                    !.proxied = @ \cup {c.slot[fd].sock}]
  BY DEF Paired
<1>4. fd # up
  OBVIOUS
<1>5. /\ o.slot[fd] = c.slot[fd] /\ o.slot[up].flags = {}
      /\ SlotTyped(o.slot[fd]) /\ SlotTyped(o.slot[up])
  <2> DEFINE n == [Dead EXCEPT !.live = TRUE, !.gen = 0, !.sock = c.sockets + 1]
  <2>1. SlotTyped(n) /\ n.flags = {}
    BY DEF SlotTyped, Dead, SlotFlags, Sound, Typed
  <2>2. SlotTyped(c.slot[fd]) /\ DOMAIN c.slot = Fds
    BY DEF Sound, Typed
  <2>3. o.slot = [c.slot EXCEPT ![up] = n]
    BY <1>1
  <2> HIDE DEF o, n
  <2> QED
    BY <1>4, <2>1, <2>2, <2>3
<1>6. DOMAIN o.slot = Fds
  BY <1>1 DEF Sound, Typed
<1>7. /\ f = [o EXCEPT !.slot = f.slot]
      /\ f.slot = [o.slot EXCEPT ![fd].flags = @ \cup {"pending"},
                                 ![up].flags = @ \cup {"waiting", "pending"}]
  <2> HIDE DEF o
  <2> QED
    BY <1>2, <1>4, <1>6 DEF AddFlags, Fields
<1> HIDE DEF o, f, e
<1>8. Opens(c, d, up, TRUE)
  BY <1>1, <1>2 DEF Opens, Fields, Sound, Typed
<1>9. Sound(d)
  BY <1>8, OpensSound
<1>10. /\ DOMAIN d = Fields /\ d.slot = o.slot /\ d.kernel = o.kernel /\ d.pair = o.pair
       /\ d.active = o.active \cup {up} /\ d.readable = o.readable
       /\ d.cursor = o.cursor /\ d.sockets = o.sockets
       /\ d.generation = o.generation /\ d.handles = o.handles
  BY <1>2 DEF Fields
<1>11. /\ e.slot[fd].flags = c.slot[fd].flags \cup {"pending"}
       /\ e.slot[up].flags = {"waiting", "pending"}
       /\ e.slot = f.slot
  BY <1>2, <1>3, <1>4, <1>5, <1>6, <1>7 DEF Fields, SlotTyped, Dead
<1>12. fd \in c.active
  BY DEF Sound, Owned
<1>13. Weds(d, e, fd, up)
  <2>1. /\ DOMAIN e = Fields /\ e.kernel = o.kernel
        /\ e.pair = [o.pair EXCEPT ![fd] = up, ![up] = fd]
        /\ e.active = o.active \cup {up}
        /\ e.readable = o.readable /\ e.cursor = o.cursor /\ e.sockets = o.sockets
        /\ e.generation = o.generation /\ e.handles = o.handles
    BY <1>2, <1>3, <1>7 DEF Fields
  <2>2. e.active = d.active \cup {fd, up}
    BY <1>2, <1>10, <1>12, <2>1
  <2>3. /\ DOMAIN e.slot = Fds
        /\ \A g \in Fds \ {fd, up} : e.slot[g] = o.slot[g]
    BY <1>6, <1>7, <1>11
  <2>4. ASSUME NEW g \in Fds
        PROVE  /\ SlotTyped(e.slot[g])
               /\ e.slot[g].live = o.slot[g].live
               /\ e.slot[g].sock = o.slot[g].sock
    <3>1. SlotTyped(o.slot[g])
      BY <1>9, <1>10 DEF Sound, Typed
    <3> QED
      <4>1. CASE g \notin {fd, up}
        <5>1. e.slot[g] = o.slot[g]
          BY <2>3, <4>1
        <5> QED
          BY <3>1, <5>1
      <4>2. CASE g = fd
        <5>1. e.slot[g] = [o.slot[g] EXCEPT !.flags = o.slot[g].flags \cup {"pending"}]
          BY <1>4, <1>6, <1>7, <1>11, <4>2
        <5>2. {"pending"} \in SUBSET SlotFlags
          BY DEF SlotFlags
        <5>3. \E F \in SUBSET SlotFlags :
                e.slot[g] = [o.slot[g] EXCEPT !.flags = o.slot[g].flags \cup F]
          BY <5>1, <5>2
        <5> QED
          BY <3>1, <5>3, SlotFlagged
      <4>3. CASE g = up
        <5>1. e.slot[g] = [o.slot[g] EXCEPT !.flags = o.slot[g].flags \cup {"waiting", "pending"}]
          BY <1>4, <1>6, <1>7, <1>11, <4>3
        <5>2. {"waiting", "pending"} \in SUBSET SlotFlags
          BY DEF SlotFlags
        <5>3. \E F \in SUBSET SlotFlags :
                e.slot[g] = [o.slot[g] EXCEPT !.flags = o.slot[g].flags \cup F]
          BY <5>1, <5>2
        <5> QED
          BY <3>1, <5>3, SlotFlagged
      <4> QED
        BY <4>1, <4>2, <4>3
  <2> QED
    BY <1>10, <2>1, <2>2, <2>3, <2>4 DEF Weds
<1>14. \A g \in Fds \ {fd, up} : d.pair[g] \notin {fd, up}
  BY <1>2, <1>10, NoPeer, FreeNumber
<1>15. d.kernel[fd] # None /\ d.kernel[up] # None
  BY <1>2, <1>4, <1>10 DEF Sound, Typed, None
<1>16. /\ Has(e, fd, "pending") /\ Has(e, up, "pending")
       /\ Has(e, fd, "waiting") # Has(e, up, "waiting")
  BY <1>11 DEF Has, Proxying
<1>17. Sound(e)
  <2> HIDE DEF d
  <2> QED
    BY <1>4, <1>9, <1>13, <1>14, <1>15, <1>16, WedsSound
<1> QED
  BY <1>17 DEF e

\* The WebSocket branch of request_handle().
LEMMA ProxiesSound ==
  ASSUME NEW c, NEW fd \in Fds, Sound(c), c.kernel[fd] # None,
         c.slot[fd].flags \cap Proxying = {}, NEW e \in Proxies(c, fd)
  PROVE  Sound(e)
<1>1. CASE e = c
  BY <1>1
<1>2. ASSUME NEW up \in NewFds(c),
             e \in {Paired(c, fd, up), TunnelClose(Paired(c, fd, up), up)}
      PROVE  Sound(e)
  <2>1. up \in Fds /\ c.kernel[up] = None
    BY DEF NewFds, FreeFds
  <2>2. Sound(Paired(c, fd, up))
    BY <2>1, PairedSound
  <2> QED
    BY <1>2, <2>1, <2>2, TunnelCloseSound
<1> QED
  BY <1>1, <1>2 DEF Proxies

\* e is c but for the flags of the number fd, which become flags.
Flagged(c, e, fd, flags) ==
  /\ DOMAIN e = Fields /\ e.kernel = c.kernel /\ e.pair = c.pair
  /\ e.active = c.active /\ e.readable = c.readable
  /\ e.cursor = c.cursor /\ e.sockets = c.sockets
  /\ e.generation = c.generation /\ e.handles = c.handles
  /\ DOMAIN e.slot = Fds
  /\ \A f \in Fds : /\ SlotTyped(e.slot[f])
                    /\ e.slot[f].live = c.slot[f].live
                    /\ e.slot[f].sock = c.slot[f].sock
                    /\ f # fd => e.slot[f] = c.slot[f]
  /\ e.slot[fd].flags = flags

\* AddFlags and DropFlags do that.
LEMMA FlagsFlagged ==
  ASSUME NEW c, NEW fd \in Fds, NEW S \in SUBSET SlotFlags, DOMAIN c = Fields,
         DOMAIN c.slot = Fds, \A f \in Fds : SlotTyped(c.slot[f])
  PROVE  /\ Flagged(c, AddFlags(c, fd, S), fd, c.slot[fd].flags \cup S)
         /\ Flagged(c, DropFlags(c, fd, S), fd, c.slot[fd].flags \ S)
<1> DEFINE a == [c.slot[fd] EXCEPT !.flags = @ \cup S]
           d == [c.slot[fd] EXCEPT !.flags = @ \ S]
<1>1. /\ SlotTyped(a) /\ a.live = c.slot[fd].live /\ a.sock = c.slot[fd].sock
      /\ a.flags = c.slot[fd].flags \cup S
  BY DEF SlotTyped, Dead
<1>2. /\ SlotTyped(d) /\ d.live = c.slot[fd].live /\ d.sock = c.slot[fd].sock
      /\ d.flags = c.slot[fd].flags \ S
  BY DEF SlotTyped, Dead
<1>3. AddFlags(c, fd, S) = [c EXCEPT !.slot = [c.slot EXCEPT ![fd] = a]]
  BY DEF AddFlags
<1>4. DropFlags(c, fd, S) = [c EXCEPT !.slot = [c.slot EXCEPT ![fd] = d]]
  BY DEF DropFlags
<1> HIDE DEF a, d
<1>5. Flagged(c, AddFlags(c, fd, S), fd, c.slot[fd].flags \cup S)
  BY <1>1, <1>3 DEF Flagged, Fields
<1>6. Flagged(c, DropFlags(c, fd, S), fd, c.slot[fd].flags \ S)
  BY <1>2, <1>4 DEF Flagged, Fields
<1> QED
  BY <1>5, <1>6

\* axil_ws_tunnel() of two numbers that are each other's peer.
LEMMA WsTunnelSound ==
  ASSUME NEW c, NEW a \in Fds, NEW b \in Fds, Sound(c), a # b,
         c.pair[a] = b, c.pair[b] = a
  PROVE  Sound(WsTunnel(c, a, b))
<1> DEFINE d == DropFlags(c, a, Proxying)
           g1 == DropFlags(d, b, Proxying)
           h == AddFlags(g1, a, {"tunnel"})
           f == AddFlags(h, b, {"tunnel"})
           e == WsTunnel(c, a, b)
<1>1. /\ DOMAIN c = Fields /\ DOMAIN c.slot = Fds
      /\ \A g \in Fds : SlotTyped(c.slot[g])
  BY DEF Sound, Typed
<1>2. /\ Flagged(c, d, a, c.slot[a].flags \ Proxying)
      /\ Flagged(d, g1, b, d.slot[b].flags \ Proxying)
      /\ Flagged(g1, h, a, g1.slot[a].flags \cup {"tunnel"})
      /\ Flagged(h, f, b, h.slot[b].flags \cup {"tunnel"})
  <2>0. Proxying \in SUBSET SlotFlags /\ {"tunnel"} \in SUBSET SlotFlags
    BY DEF Proxying, SlotFlags
  <2>1. Flagged(c, d, a, c.slot[a].flags \ Proxying)
    BY <1>1, <2>0, FlagsFlagged
  <2> HIDE DEF d
  <2>2. Flagged(d, g1, b, d.slot[b].flags \ Proxying)
    BY <2>0, <2>1, FlagsFlagged DEF Flagged
  <2> HIDE DEF g1
  <2>3. Flagged(g1, h, a, g1.slot[a].flags \cup {"tunnel"})
    BY <2>0, <2>2, FlagsFlagged DEF Flagged
  <2> HIDE DEF h
  <2>4. Flagged(h, f, b, h.slot[b].flags \cup {"tunnel"})
    BY <2>0, <2>3, FlagsFlagged DEF Flagged
  <2> QED
    BY <2>1, <2>2, <2>3, <2>4
<1>3. e = [f EXCEPT !.active = @ \cup {a, b}, !.pair[a] = b, !.pair[b] = a]
  BY DEF WsTunnel
<1> HIDE DEF d, g1, h, f, e
<1>4. /\ DOMAIN e = Fields /\ e.kernel = c.kernel /\ e.slot = f.slot
      /\ e.pair = [c.pair EXCEPT ![a] = b, ![b] = a]
      /\ e.active = c.active \cup {a, b}
      /\ e.readable = c.readable /\ e.cursor = c.cursor /\ e.sockets = c.sockets
      /\ e.generation = c.generation /\ e.handles = c.handles
  BY <1>2, <1>3 DEF Fields, Flagged
<1>5. Weds(c, e, a, b)
  <2>1. DOMAIN e.slot = Fds /\ \A g \in Fds \ {a, b} : e.slot[g] = c.slot[g]
    BY <1>2, <1>4 DEF Flagged
  <2>2. \A g \in Fds : /\ SlotTyped(e.slot[g])
                       /\ e.slot[g].live = c.slot[g].live
                       /\ e.slot[g].sock = c.slot[g].sock
    BY <1>2, <1>4 DEF Flagged
  <2> QED
    BY <1>4, <2>1, <2>2 DEF Weds
<1>6. Has(e, a, "tunnel") /\ Has(e, b, "tunnel")
  <2>1. f.slot[a] = h.slot[a] /\ "tunnel" \in h.slot[a].flags
    BY <1>2 DEF Flagged
  <2>2. "tunnel" \in f.slot[b].flags
    BY <1>2 DEF Flagged
  <2> QED
    BY <1>4, <2>1, <2>2 DEF Has
<1>7. /\ a # None /\ b # None
      /\ c.kernel[a] # None /\ c.kernel[b] # None
  BY TableAssumption DEF None, Sound, Mutual, Mates
<1>8. ASSUME NEW g \in Fds \ {a, b}
      PROVE  c.pair[g] \notin {a, b}
  <2>1. ASSUME NEW p \in {a, b}, c.pair[g] = p
        PROVE  FALSE
    <3>1. Mates(c, g, p)
      BY <1>7, <2>1 DEF Sound, Mutual
    <3> QED
      BY <3>1 DEF Mates
  <2> QED
    BY <2>1
<1>9. Sound(e)
  BY <1>5, <1>6, <1>7, <1>8, WedsSound
<1> QED
  BY <1>9 DEF e
-----------------------------------------------------------------------------
(* The event loop.                                                          *)

\* What is assumed of the peers: a client whose upgrade was answered with 101
\* has not reset its connection before, so that forwarding the 101 does not
\* close the pair behind axil_ws_tunnel().
NoReset == "reset" \notin Does

\* Forwarding the upstream's 101.
LEMMA UpgradesSound ==
  ASSUME NoReset, NEW c, NEW peer \in Fds, NEW up \in Fds, Sound(c), peer # up,
         c.pair[peer] = up, c.pair[up] = peer, NEW e \in Upgrades(c, peer, up)
  PROVE  Sound(e)
<1>1. PICK w \in Writes(c, peer) : w.slot[peer].live /\ e = WsTunnel(w, peer, up)
  BY DEF Upgrades, NoReset
<1>2. Sound(w) /\ w.pair = c.pair
  BY <1>1, WritesSound
<1> QED
  BY <1>1, <1>2, WsTunnelSound

\* The turn goes on to the next number.
LEMMA PassedSound ==
  ASSUME NEW c, NEW i \in Nat, Sound(c)
  PROVE  Sound(Passed(c, i))
<1> DEFINE e == Passed(c, i)
<1>1. /\ SameTables(c, e) /\ e.cursor = i + 1 /\ e.sockets = c.sockets
      /\ e.generation = c.generation /\ e.handles = c.handles
  BY DEF Passed, SameTables, Sound, Typed, Fields
<1> HIDE DEF e
<1>2. Sound(e)
  BY <1>1, SameTablesSound DEF Sound, Typed
<1> QED
  BY <1>2 DEF e

\* A number whose turn it is, is open.
LEMMA TurnOpen ==
  ASSUME Sound(s), NEW i \in Fds, Turn(i)
  PROVE  s.kernel[i] # None
BY TableAssumption DEF Turn, Due, Sound, Watched

\* select(), whatever it says, and the end of a pass.
LEMMA SelectSound ==
  ASSUME Sound(s), Select \/ SelectTimeout \/ SelectFails \/ EndPass
  PROVE  Sound(s')
<1>1. PICK R \in SUBSET s.active, n \in Nat :
        s' = [s EXCEPT !.readable = R, !.cursor = n]
  <2>1. CASE Select
    BY <2>1 DEF Select
  <2>2. CASE SelectTimeout
    <3>1. s' = [s EXCEPT !.readable = {}, !.cursor = 0]
      BY <2>2 DEF SelectTimeout, Top, Sound, Typed, Fields
    <3> QED
      BY <3>1
  <2>3. CASE SelectFails
    <3>1. s' = [s EXCEPT !.readable = s.active, !.cursor = 0]
      BY <2>3 DEF SelectFails, Top, Sound, Typed, Fields
    <3> QED
      BY <3>1
  <2>4. CASE EndPass
    <3>1. s' = [s EXCEPT !.readable = s.readable, !.cursor = 0]
      BY <2>4 DEF EndPass, Sound, Typed, Fields
    <3> QED
      BY <3>1 DEF Sound, Typed
  <2> QED
    BY <2>1, <2>2, <2>3, <2>4
<1>2. /\ SameTables(s, s') /\ s'.cursor = n /\ s'.sockets = s.sockets
      /\ s'.generation = s.generation /\ s'.handles = s.handles
  BY <1>1 DEF SameTables, Sound, Typed, Fields
<1> QED
  BY <1>2, SameTablesSound DEF Sound, Typed

\* The upstream's answer.
LEMMA ReadWaitingSound ==
  ASSUME NoReset, Sound(s), NEW i \in Fds, ReadWaiting(i)
  PROVE  Sound(s')
<1> DEFINE peer == s.pair[i]
           ok == /\ peer \notin {None, i}
                 /\ s.slot[peer].live
                 /\ s.pair[peer] = i
                 /\ Has(s, peer, "pending")
<1>0. i \in Nat
  BY TableAssumption
<1>1. CASE s' = Passed(s, i)
  BY <1>0, <1>1, PassedSound
<1>2. CASE s' = Passed(TunnelClose(s, i), i)
  BY <1>0, <1>2, PassedSound, TunnelCloseSound
<1>3. ASSUME ok, NEW t \in Upgrades(s, peer, i), s' = Passed(t, i)
      PROVE  Sound(s')
  <2>1. peer \in Fds
    BY <1>3 DEF Sound, Typed
  <2> HIDE DEF peer
  <2>2. Sound(t)
    BY <1>3, <2>1, UpgradesSound DEF peer
  <2> QED
    BY <1>0, <1>3, <2>2, PassedSound
<1>4. ASSUME ok, NEW t \in Writes(s, peer), s' = Passed(TunnelClose(t, i), i)
      PROVE  Sound(s')
  <2>1. peer \in Fds
    BY <1>4 DEF Sound, Typed
  <2> HIDE DEF peer
  <2>2. Sound(TunnelClose(t, i))
    BY <1>4, <2>1, WritesSound, TunnelCloseSound
  <2> QED
    BY <1>0, <1>4, <2>2, PassedSound
<1> QED
  BY <1>1, <1>2, <1>3, <1>4 DEF ReadWaiting

\* One side of an open tunnel.
LEMMA ReadTunnelSound ==
  ASSUME Sound(s), NEW i \in Fds, ReadTunnel(i)
  PROVE  Sound(s')
<1> DEFINE peer == s.pair[i]
<1>0. i \in Nat
  BY TableAssumption
<1>1. CASE s' = Passed(s, i)
  BY <1>0, <1>1, PassedSound
<1>2. CASE s' = Passed(TunnelClose(s, i), i)
  BY <1>0, <1>2, PassedSound, TunnelCloseSound
<1>3. ASSUME peer \notin {None, i}, NEW t \in Writes(s, peer), s' = Passed(t, i)
      PROVE  Sound(s')
  <2>1. peer \in Fds
    BY <1>3 DEF Sound, Typed
  <2> HIDE DEF peer
  <2>2. Sound(t)
    BY <2>1, WritesSound
  <2> QED
    BY <1>0, <1>3, <2>2, PassedSound
<1> QED
  BY <1>1, <1>2, <1>3 DEF ReadTunnel

\* A request.
LEMMA ReadClientSound ==
  ASSUME Sound(s), NEW i \in Fds, ReadClient(i)
  PROVE  Sound(s')
<1>0. i \in Nat /\ s.kernel[i] # None /\ s.slot[i].flags \cap Proxying = {}
  BY TableAssumption, TurnOpen DEF ReadClient
<1>1. PICK t : /\ s' = Passed(t, i)
               /\ \/ t \in {s, Close(s, i)} \/ t \in Responds(s, i)
                  \/ t \in Defers(s, i) \/ t \in Proxies(s, i)
  BY DEF ReadClient
<1>2. Sound(t)
  BY <1>0, <1>1, CloseSound, RespondsSound, DefersSound, ProxiesSound
<1> QED
  BY <1>0, <1>1, <1>2, PassedSound

\* A module keeps state.
LEMMA AttachSound ==
  ASSUME Sound(s), NEW i \in Fds, Attach(i)
  PROVE  Sound(s')
<1> DEFINE e == [s EXCEPT !.module[i] = [sock |-> s.slot[i].sock,
                                         gen  |-> s.slot[i].gen]]
<1>1. /\ SameTables(s, e) /\ e.cursor = s.cursor /\ e.sockets = s.sockets
      /\ e.generation = s.generation /\ e.handles = s.handles
  BY DEF SameTables, Sound, Typed, Fields
<1>2. s' = Passed(e, i)
  BY DEF Attach
<1> HIDE DEF e
<1>3. Sound(e)
  BY <1>1, SameTablesSound DEF Sound, Typed
<1>4. i \in Nat
  BY TableAssumption
<1> QED
  BY <1>2, <1>3, <1>4, PassedSound

\* A worker's result.
LEMMA DeferredSound ==
  ASSUME Sound(s), NEW h \in s.handles, DeferFinish(h) \/ DeferAbort(h)
  PROVE  Sound(s')
<1> DEFINE c == WithoutHandle(h)
           d == DropFlags(c, h.fd, {"deferred"})
<1>1. h.fd \in Fds
  BY DEF Sound, Typed
<1>2. Sound(c)
  <2>1. /\ SameTables(s, c) /\ c.cursor = s.cursor /\ c.sockets = s.sockets
        /\ c.generation = s.generation /\ c.handles = s.handles \ {h}
    BY DEF WithoutHandle, SameTables, Sound, Typed, Fields
  <2> HIDE DEF c
  <2> QED
    BY <2>1, SameTablesSound DEF Sound, Typed
<1>3. Sound(d)
  <2> HIDE DEF c
  <2> QED
    BY <1>1, <1>2, MarkSound
<1>4. \/ s' \in {c, Close(d, h.fd)}
      \/ \E e \in {d} \cup Writes(d, h.fd) : s' \in Finishes(e, h.fd)
  BY DEF DeferFinish, DeferAbort
<1> HIDE DEF c, d
<1> QED
  BY <1>1, <1>2, <1>3, <1>4, CloseSound, WritesSound, FinishesSound

\* Sound tables stay sound.
THEOREM StaysSound ==
  ASSUME NoReset
  PROVE  Spec => []Sound(s)
<1>1. Init => Sound(s)
  <2> SUFFICES ASSUME Init PROVE Sound(s)
    OBVIOUS
  <2>1. /\ DOMAIN s = Fields /\ s.kernel = [fd \in Fds |-> None]
        /\ s.slot = [fd \in Fds |-> Dead] /\ s.pair = [fd \in Fds |-> None]
        /\ s.active = {Srv} /\ s.readable = {} /\ s.cursor = 0
        /\ s.sockets = 0 /\ s.generation = 0 /\ s.handles = {}
    BY DEF Init, Fields
  <2>2. Typed(s)
    BY <2>1, DeadTyped DEF Typed, None
  <2>3. Watched(s) /\ Owned(s)
    BY <2>1 DEF Watched, Owned
  <2>4. Mutual(s)
    BY <2>1 DEF Mutual, Dead
  <2> QED
    BY <2>2, <2>3, <2>4 DEF Sound
<1>2. Sound(s) /\ [Next]_vars => Sound(s)'
  <2> SUFFICES ASSUME Sound(s), [Next]_vars PROVE Sound(s')
    OBVIOUS
  <2>1. CASE Select \/ SelectTimeout \/ SelectFails \/ EndPass
    BY <2>1, SelectSound
  <2>2. CASE AcceptNew
    <3>1. PICK t \in Accepts(s) : s' = Passed(t, Srv)
      BY <2>2 DEF AcceptNew
    <3> QED
      BY <3>1, AcceptsSound, PassedSound, TableAssumption
  <2>3. ASSUME NEW fd \in Fds, FlushQueue(fd)
        PROVE  Sound(s')
    BY <2>3, FlushesSound DEF FlushQueue
  <2>4. ASSUME NEW fd \in Fds, SkipPending(fd)
        PROVE  Sound(s')
    BY <2>4, PassedSound, TableAssumption DEF SkipPending
  <2>5. ASSUME NEW fd \in Fds,
               ReadWaiting(fd) \/ ReadTunnel(fd) \/ ReadClient(fd) \/ Attach(fd)
        PROVE  Sound(s')
    BY <2>5, ReadWaitingSound, ReadTunnelSound, ReadClientSound, AttachSound
  <2>6. ASSUME NEW h \in s.handles, DeferFinish(h) \/ DeferAbort(h)
        PROVE  Sound(s')
    BY <2>6, DeferredSound
  <2>7. CASE UNCHANGED vars
    BY <2>7 DEF vars
  <2> QED
    BY <2>1, <2>2, <2>3, <2>4, <2>5, <2>6, <2>7 DEF Next
<1> QED
  BY <1>1, <1>2, PTL DEF Spec

\* The tables keep their types.
THEOREM TablesTyped ==
  ASSUME NoReset
  PROVE  Spec => []TypeOK
<1>1. Sound(s) => TypeOK
  BY DEF Sound, TypeOK
<1> QED
  BY <1>1, StaysSound, PTL

\* No turn of the loop touches a closed number or a connection that merely
\* took over the number: select() cannot fail with EBADF.
THEOREM WatchedAreOwn ==
  ASSUME NoReset
  PROVE  Spec => []WatchedIsOwn
<1>1. Sound(s) => WatchedIsOwn
  BY DEF Sound, WatchedIsOwn
<1> QED
  BY <1>1, StaysSound, PTL

\* No socket is open without a slot that watches it: none leaks.
THEOREM OpenAreOwned ==
  ASSUME NoReset
  PROVE  Spec => []OpenIsOwned
<1>1. Sound(s) => OpenIsOwned
  BY DEF Sound, OpenIsOwned
<1> QED
  BY <1>1, StaysSound, PTL

\* tunnel_pair[] is a symmetric relation between open slots.
THEOREM PairsMutual ==
  ASSUME NoReset
  PROVE  Spec => []PairsAreMutual
<1>1. Sound(s) => PairsAreMutual
  BY DEF Sound, PairsAreMutual
<1> QED
  BY <1>1, StaysSound, PTL

-----------------------------------------------------------------------------
(* History: which sockets were opened, closed and told to the modules.      *)

IsOpenIn(c, n) == \E fd \in Fds : c.kernel[fd] = n

\* Sockets are numbered as they are opened, and one number has each.
Numbered(c) ==
  /\ c.sockets <= MaxSockets
  /\ c.hooks \in [1..MaxSockets -> Nat]
  /\ c.module \in [Fds -> [sock : Nat, gen : Nat]]
  /\ c.clients \subseteq 1..c.sockets /\ c.proxied \subseteq 1..c.sockets
  /\ \A fd \in Fds : c.kernel[fd] <= c.sockets
  /\ \A f, g \in Fds : c.kernel[f] = c.kernel[g] /\ c.kernel[f] # None => f = g
  /\ \A n \in 1..MaxSockets : n > c.sockets => c.hooks[n] = 0

\* The hook ran once for each closed client that was not proxied.  A slot left
\* live by a failed descr_new() is no client's, and the client under a number
\* is proxied when the number is in a pair.
Counted(c) ==
  /\ \A n \in c.clients :
       c.hooks[n] = IF IsOpenIn(c, n) \/ n \in c.proxied THEN 0 ELSE 1
  /\ \A fd \in Fds :
       /\ c.slot[fd].live => c.slot[fd].sock \in 1..c.sockets
       /\ c.slot[fd].live /\ c.kernel[fd] = None => c.slot[fd].sock \notin c.clients
       /\ c.kernel[fd] \in c.clients =>
            (c.kernel[fd] \in c.proxied <=> c.pair[fd] # None)

\* Generations grow, and only an upstream has none.
Generations(c) ==
  \A fd \in Fds :
    /\ c.module[fd].sock # 0 => c.module[fd].gen \in 1..c.generation
    /\ c.slot[fd].live =>
         /\ c.slot[fd].gen <= c.generation
         /\ c.slot[fd].gen = 0 => c.pair[fd] # None
         /\ c.module[fd].sock # 0 /\ c.module[fd].gen = c.slot[fd].gen
              => c.module[fd].sock = c.slot[fd].sock

Well(c) == Sound(c) /\ Numbered(c) /\ Counted(c) /\ Generations(c)

\* From c to e the two ends of each pair stay or both go; a socket that goes
\* does not come back.
Moves(c, e) ==
  /\ e.sockets >= c.sockets
  /\ \A f \in Fds : e.kernel[f] \in {c.kernel[f], None} \/ e.kernel[f] > c.sockets
  /\ \A f, p \in Fds : c.pair[f] = p =>
       \/ e.kernel[f] = c.kernel[f] /\ e.kernel[p] = c.kernel[p] /\ e.pair[f] = p
       \/ e.kernel[f] # c.kernel[f] /\ e.kernel[p] # c.kernel[p]

\* What a function does to tables that are well.
Goes(c, e) == Well(e) /\ Moves(c, e)

LEMMA MovesOn ==
  ASSUME NEW c, NEW e, NEW g, Well(c), Well(e), Well(g), Moves(c, e), Moves(e, g)
  PROVE  Moves(c, g)
<1>1. /\ c.sockets \in Nat /\ e.sockets \in Nat /\ g.sockets \in Nat
      /\ \A f \in Fds : g.kernel[f] \in Nat
      /\ \A f \in Fds : c.kernel[f] \in Nat /\ c.kernel[f] <= c.sockets
      /\ \A f \in Fds : e.kernel[f] \in Nat /\ e.kernel[f] <= e.sockets
  BY DEF Well, Sound, Typed, Numbered
<1>2. ASSUME NEW f \in Fds, NEW p \in Fds, c.pair[f] = p
      PROVE  c.kernel[f] # None /\ c.kernel[p] # None
  <2>1. f # None /\ p # None
    BY TableAssumption DEF None
  <2>2. Mates(c, f, p)
    BY <1>2, <2>1 DEF Well, Sound, Mutual
  <2>3. Mates(c, p, f)
    BY <2>1, <2>2 DEF Well, Sound, Mutual, Mates
  <2> QED
    BY <2>2, <2>3 DEF Mates
<1>3. /\ e.sockets >= c.sockets /\ g.sockets >= e.sockets
      /\ \A f \in Fds : e.kernel[f] \in {c.kernel[f], None} \/ e.kernel[f] > c.sockets
      /\ \A f \in Fds : g.kernel[f] \in {e.kernel[f], None} \/ g.kernel[f] > e.sockets
  BY DEF Moves
<1>4. ASSUME NEW f \in Fds
      PROVE  /\ g.kernel[f] \in {c.kernel[f], None} \/ g.kernel[f] > c.sockets
             /\ e.kernel[f] # c.kernel[f] /\ c.kernel[f] # None
                  => g.kernel[f] # c.kernel[f]
  BY <1>1, <1>3 DEF None
<1>5. ASSUME NEW f \in Fds, NEW p \in Fds, c.pair[f] = p
      PROVE  \/ g.kernel[f] = c.kernel[f] /\ g.kernel[p] = c.kernel[p] /\ g.pair[f] = p
             \/ g.kernel[f] # c.kernel[f] /\ g.kernel[p] # c.kernel[p]
  <2>1. CASE e.kernel[f] = c.kernel[f] /\ e.kernel[p] = c.kernel[p] /\ e.pair[f] = p
    BY <2>1 DEF Moves
  <2>2. CASE e.kernel[f] # c.kernel[f] /\ e.kernel[p] # c.kernel[p]
    BY <1>2, <1>4, <1>5, <2>2
  <2> QED
    BY <1>5, <2>1, <2>2 DEF Moves
<1>6. g.sockets >= c.sockets
  BY <1>1, <1>3
<1> QED
  BY <1>4, <1>5, <1>6 DEF Moves

\* Two functions in a row.
LEMMA GoesOn ==
  ASSUME NEW c, NEW e, NEW g, Well(c), Goes(c, e), Goes(e, g)
  PROVE  Goes(c, g)
BY MovesOn DEF Goes

LEMMA GoesNowhere ==
  ASSUME NEW c, Well(c)
  PROVE  Goes(c, c)
BY DEF Goes, Moves, Well, Sound, Typed

\* e has the sockets and the history of c.
Kept(c, e) ==
  /\ e.kernel = c.kernel /\ e.pair = c.pair
  /\ \A f \in Fds : /\ e.slot[f].live = c.slot[f].live
                    /\ e.slot[f].gen = c.slot[f].gen
                    /\ e.slot[f].sock = c.slot[f].sock
  /\ e.sockets = c.sockets /\ e.generation = c.generation
  /\ e.module = c.module /\ e.clients = c.clients
  /\ e.proxied = c.proxied /\ e.hooks = c.hooks

LEMMA KeptGoes ==
  ASSUME NEW c, NEW e, Well(c), Sound(e), Kept(c, e)
  PROVE  Goes(c, e)
<1>1. Numbered(e)
  BY DEF Well, Numbered, Kept
<1>2. Counted(e)
  BY DEF Well, Counted, Kept, IsOpenIn
<1>3. Generations(e)
  BY DEF Well, Generations, Kept
<1>4. Moves(c, e)
  BY DEF Moves, Kept, Well, Sound, Typed
<1> QED
  BY <1>1, <1>2, <1>3, <1>4 DEF Goes, Well

\* e is c with the numbers of D reset, and the hook called for those of them
\* that are clients not proxied.
Forgets(c, e, D) ==
  /\ Resets(c, e, D)
  /\ e.clients = c.clients /\ e.proxied = c.proxied
  /\ e.hooks \in [1..MaxSockets -> Nat]
  /\ \A n \in 1..MaxSockets : n > c.sockets => e.hooks[n] = c.hooks[n]
  /\ \A n \in c.clients :
       e.hooks[n] = IF n \notin c.proxied /\ \E f \in D : c.kernel[f] = n
                    THEN c.hooks[n] + 1 ELSE c.hooks[n]
  /\ e.module \in [Fds -> [sock : Nat, gen : Nat]]
  /\ \A f \in Fds : e.module[f] = c.module[f] \/ e.module[f].sock = 0

LEMMA ForgetsGoes ==
  ASSUME NEW c, NEW e, NEW D, D \subseteq Fds, Well(c), Sound(e), Forgets(c, e, D),
         Apart(c, D), \A f \in D : c.pair[f] \in D \cup {None}
  PROVE  Goes(c, e)
<1>1. /\ \A f \in D : e.kernel[f] = None /\ ~e.slot[f].live /\ e.pair[f] = None
      /\ \A f \in Fds \ D : /\ e.kernel[f] = c.kernel[f] /\ e.slot[f] = c.slot[f]
                            /\ e.pair[f] = c.pair[f]
      /\ e.sockets = c.sockets /\ e.generation = c.generation
  BY DEF Forgets, Resets, Dead
<1>2. /\ c.sockets \in Nat /\ c.clients \subseteq 1..c.sockets
      /\ \A f \in Fds : c.kernel[f] \in Nat
  BY DEF Well, Sound, Typed, Numbered
<1>3. Numbered(e)
  <2>1. \A fd \in Fds : e.kernel[fd] <= e.sockets
    BY <1>1, <1>2 DEF Well, Numbered, None
  <2>2. \A f, g \in Fds : e.kernel[f] = e.kernel[g] /\ e.kernel[f] # None => f = g
    BY <1>1 DEF Well, Numbered
  <2>3. /\ e.sockets <= MaxSockets /\ e.clients \subseteq 1..e.sockets
        /\ e.proxied \subseteq 1..e.sockets
        /\ \A n \in 1..MaxSockets : n > e.sockets => e.hooks[n] = 0
    BY <1>1 DEF Well, Numbered, Forgets
  <2> QED
    BY <2>1, <2>2, <2>3 DEF Numbered, Forgets
<1>4. Counted(e)
  <2>1. ASSUME NEW n \in c.clients
        PROVE  e.hooks[n] = IF IsOpenIn(e, n) \/ n \in e.proxied THEN 0 ELSE 1
    <3>1. c.hooks[n] = IF IsOpenIn(c, n) \/ n \in c.proxied THEN 0 ELSE 1
      BY DEF Well, Counted
    <3>2. n # None
      BY <1>2 DEF None
    <3>3. CASE \E f \in D : c.kernel[f] = n
      <4>1. IsOpenIn(c, n)
        BY <3>3 DEF IsOpenIn
      <4>2. ~IsOpenIn(e, n)
        BY <1>1, <3>2, <3>3 DEF IsOpenIn, Well, Numbered
      <4> QED
        BY <3>1, <3>3, <4>1, <4>2 DEF Forgets
    <3>4. CASE ~\E f \in D : c.kernel[f] = n
      <4>1. IsOpenIn(e, n) <=> IsOpenIn(c, n)
        BY <1>1, <3>2, <3>4 DEF IsOpenIn
      <4> QED
        BY <3>1, <3>4, <4>1 DEF Forgets
    <3> QED
      BY <3>3, <3>4
  <2>2. ASSUME NEW fd \in Fds
        PROVE  /\ e.slot[fd].live => e.slot[fd].sock \in 1..e.sockets
               /\ e.slot[fd].live /\ e.kernel[fd] = None
                    => e.slot[fd].sock \notin e.clients
               /\ e.kernel[fd] \in e.clients =>
                    (e.kernel[fd] \in e.proxied <=> e.pair[fd] # None)
    <3>1. CASE fd \in D
      BY <1>1, <1>2, <3>1 DEF None, Forgets
    <3>2. CASE fd \notin D
      BY <1>1, <3>2 DEF Well, Counted, Forgets
    <3> QED
      BY <3>1, <3>2
  <2> QED
    BY <2>1, <2>2 DEF Counted, Forgets
<1>5. Generations(e)
  <2> SUFFICES ASSUME NEW fd \in Fds
               PROVE  /\ e.module[fd].sock # 0 => e.module[fd].gen \in 1..e.generation
                      /\ e.slot[fd].live =>
                           /\ e.slot[fd].gen <= e.generation
                           /\ e.slot[fd].gen = 0 => e.pair[fd] # None
                           /\ e.module[fd].sock # 0
                              /\ e.module[fd].gen = e.slot[fd].gen
                                => e.module[fd].sock = e.slot[fd].sock
    BY DEF Generations
  <2>1. e.module[fd] = c.module[fd] \/ e.module[fd].sock = 0
    BY DEF Forgets
  <2>2. CASE fd \in D
    BY <1>1, <2>1, <2>2 DEF Well, Generations
  <2>3. CASE fd \notin D
    BY <1>1, <2>1, <2>3 DEF Well, Generations
  <2> QED
    BY <2>2, <2>3
<1>6. Moves(c, e)
  <2>1. ASSUME NEW f \in Fds, NEW p \in Fds, c.pair[f] = p
        PROVE  \/ e.kernel[f] = c.kernel[f] /\ e.kernel[p] = c.kernel[p] /\ e.pair[f] = p
               \/ e.kernel[f] # c.kernel[f] /\ e.kernel[p] # c.kernel[p]
    <3>1. f # None /\ p # None
      BY TableAssumption DEF None
    <3>2. Mates(c, f, p)
      BY <2>1, <3>1 DEF Well, Sound, Mutual
    <3>3. Mates(c, p, f)
      BY <3>1, <3>2 DEF Well, Sound, Mutual, Mates
    <3>4. f \in D <=> p \in D
      BY <2>1, <3>1 DEF Apart
    <3> QED
      BY <1>1, <2>1, <3>2, <3>3, <3>4 DEF Mates
  <2> QED
    BY <1>1, <1>2, <2>1 DEF Moves
<1> QED
  BY <1>3, <1>4, <1>5, <1>6 DEF Goes, Well

\* The history fields that axil_raw_descr_reset() leaves alone.
LEMMA RawResetKeeps ==
  ASSUME NEW c, Typed(c), NEW fd
  PROVE  LET e == RawReset(c, fd)
         IN  /\ e.module = c.module /\ e.clients = c.clients
             /\ e.proxied = c.proxied /\ e.hooks = c.hooks
BY DEF RawReset, Typed, Fields

\* axil_tunnel_close_raw() of one of a pair, or of a closed number.
LEMMA TunnelCloseGoes ==
  ASSUME NEW c, NEW fd \in Fds, Well(c), c.pair[fd] # None \/ c.kernel[fd] = None
  PROVE  Goes(c, TunnelClose(c, fd)) /\ ~TunnelClose(c, fd).slot[fd].live
<1> DEFINE peer == c.pair[fd]
           e == TunnelClose(c, fd)
<1>1. Sound(e) /\ ~e.slot[fd].live
  BY TunnelCloseSound DEF Well
<1>2. Typed(c) /\ c.kernel[fd] \in Nat /\ c.clients \subseteq 1..c.sockets
  BY DEF Well, Sound, Typed, Numbered
<1>3. /\ c.module \in [Fds -> [sock : Nat, gen : Nat]]
      /\ c.hooks \in [1..MaxSockets -> Nat]
  BY DEF Well, Numbered
<1>4. CASE peer = None
  <2>1. e = RawReset(c, fd)
    BY <1>4 DEF TunnelClose
  <2> HIDE DEF e
  <2>2. Resets(c, e, {fd})
    BY <1>2, <2>1, RawResetResets
  <2>3. /\ e.module = c.module /\ e.clients = c.clients
        /\ e.proxied = c.proxied /\ e.hooks = c.hooks
    BY <1>2, <2>1, RawResetKeeps
  <2>4. c.kernel[fd] \notin c.clients
    BY <1>2, <1>4 DEF None
  <2>5. Forgets(c, e, {fd})
    BY <1>3, <2>2, <2>3, <2>4 DEF Forgets
  <2>6. Apart(c, {fd})
    <3>1. ASSUME NEW f \in Fds, c.pair[f] = fd
          PROVE  f = fd
      <4>1. f # None /\ fd # None
        BY TableAssumption DEF None
      <4>2. Mates(c, f, fd)
        BY <3>1, <4>1 DEF Well, Sound, Mutual
      <4> QED
        BY <1>4, <4>1, <4>2 DEF Mates
    <3> QED
      BY <3>1 DEF Apart
  <2>7. Goes(c, e)
    BY <1>1, <1>4, <2>5, <2>6, ForgetsGoes
  <2> QED
    BY <1>1, <2>7 DEF e
<1>5. CASE peer # None
  <2> DEFINE b == RawReset(c, fd)
             g == RawReset(b, peer)
             D == {fd, peer}
  <2>1. peer \in Fds /\ peer # fd /\ c.pair[peer] = fd
    <3>1. c.pair[fd] \in Fds
      BY <1>2, <1>5 DEF Typed
    <3>2. Mates(c, fd, c.pair[fd])
      BY <1>5 DEF Well, Sound, Mutual
    <3> QED
      BY <3>1, <3>2 DEF Mates
  <2>2. e = g
    BY <1>5, <2>1 DEF TunnelClose
  <2>3. Resets(c, b, {fd})
    BY <1>2, RawResetResets
  <2>4. Resets(c, g, D)
    <3> HIDE DEF b, peer
    <3> QED
      BY <2>1, <2>3 DEF Resets, RawReset, Fields, g
  <2>5. /\ g.module = c.module /\ g.clients = c.clients
        /\ g.proxied = c.proxied /\ g.hooks = c.hooks
    <3>1. /\ b.module = c.module /\ b.clients = c.clients
          /\ b.proxied = c.proxied /\ b.hooks = c.hooks
      BY <1>2, RawResetKeeps
    <3> HIDE DEF b, peer
    <3>2. /\ g.module = b.module /\ g.clients = b.clients
          /\ g.proxied = b.proxied /\ g.hooks = b.hooks
      BY <2>3 DEF RawReset, Resets, Fields
    <3> QED
      BY <3>1, <3>2
  <2>6. ASSUME NEW f \in D, c.kernel[f] \in c.clients
        PROVE  c.kernel[f] \in c.proxied
    <3>1. f \in Fds /\ c.pair[f] # None
      BY <1>5, <2>1, TableAssumption DEF None
    <3> QED
      BY <2>6, <3>1 DEF Well, Counted
  <2> HIDE DEF e, g
  <2>7. Forgets(c, e, D)
    BY <1>3, <2>2, <2>4, <2>5, <2>6 DEF Forgets
  <2>8. Apart(c, D)
    <3>1. ASSUME NEW f \in Fds, NEW p \in D, c.pair[f] = p
          PROVE  f \in D
      <4>1. p \in Fds /\ p # None /\ c.pair[p] \in D
        BY <2>1, TableAssumption DEF None
      <4>2. Mates(c, f, p)
        BY <3>1, <4>1 DEF Well, Sound, Mutual
      <4> QED
        BY <4>1, <4>2 DEF Mates
    <3> QED
      BY <3>1 DEF Apart
  <2>9. D \subseteq Fds /\ \A f \in D : c.pair[f] \in D \cup {None}
    BY <2>1
  <2> HIDE DEF D
  <2>10. Goes(c, e)
    BY <1>1, <2>7, <2>8, <2>9, ForgetsGoes
  <2> QED
    BY <1>1, <2>10 DEF e
<1> QED
  BY <1>4, <1>5

\* Counting a call of the hook leaves the tables alone.
LEMMA HooksAlone ==
  ASSUME NEW c, NEW d, DOMAIN c = Fields,
         d = [c EXCEPT !.hooks = d.hooks, !.module = d.module]
  PROVE  /\ DOMAIN d = Fields /\ d.kernel = c.kernel /\ d.slot = c.slot
         /\ d.pair = c.pair /\ d.active = c.active /\ d.readable = c.readable
         /\ d.cursor = c.cursor /\ d.sockets = c.sockets
         /\ d.generation = c.generation /\ d.handles = c.handles
         /\ d.clients = c.clients /\ d.proxied = c.proxied
<1> DEFINE h == d.hooks
           m == d.module
<1>1. d = [c EXCEPT !.hooks = h, !.module = m]
  OBVIOUS
<1> HIDE DEF h, m
<1> QED
  BY <1>1, SMTT(40) DEF Fields

\* axil_close() of any number: only here is the hook called.
LEMMA CloseGoes ==
  ASSUME NEW c, NEW fd \in Fds, Well(c)
  PROVE  Goes(c, Close(c, fd)) /\ ~Close(c, fd).slot[fd].live
<1>1. CASE ~c.slot[fd].live
  BY <1>1, GoesNowhere DEF Close
<1>2. CASE c.slot[fd].live /\ c.slot[fd].flags \cap Proxying # {}
  <2>1. Close(c, fd) = TunnelClose(c, fd)
    BY <1>2 DEF Close
  <2>2. c.pair[fd] # None
    BY <1>2 DEF Well, Sound, Mutual
  <2> QED
    BY <2>1, <2>2, TunnelCloseGoes
<1>3. CASE c.slot[fd].live /\ c.slot[fd].flags \cap Proxying = {}
  <2> DEFINE d == Disconnect(c, fd)
             e == RawReset(d, fd)
             n == c.slot[fd].sock
  <2>1. Close(c, fd) = e
    BY <1>3 DEF Close
  <2>2. Sound(e) /\ ~e.slot[fd].live
    BY <2>1, CloseSound DEF Well
  <2>3. Typed(c) /\ DOMAIN c = Fields
    BY DEF Well, Sound, Typed
  <2>4. /\ d = [c EXCEPT !.hooks = d.hooks, !.module = d.module]
        /\ d.hooks = [c.hooks EXCEPT ![n] = @ + 1]
        /\ d.module = [c.module EXCEPT ![fd] = [sock |-> 0, gen |-> 0]]
    BY <2>3 DEF Disconnect, Fields
  <2> HIDE DEF d
  <2>5. /\ DOMAIN d = Fields /\ d.kernel = c.kernel /\ d.slot = c.slot
        /\ d.pair = c.pair /\ d.active = c.active /\ d.readable = c.readable
        /\ d.cursor = c.cursor /\ d.sockets = c.sockets
        /\ d.generation = c.generation /\ d.handles = c.handles
        /\ d.clients = c.clients /\ d.proxied = c.proxied
    <3>1. d = [c EXCEPT !.hooks = d.hooks, !.module = d.module]
      BY <2>4
    <3> QED
      BY <2>3, <3>1, HooksAlone
  <2>6. Typed(d)
    BY <2>3, <2>5 DEF Typed
  <2>7. Resets(d, e, {fd})
    BY <2>6, RawResetResets
  <2>8. /\ e.module = d.module /\ e.clients = d.clients
        /\ e.proxied = d.proxied /\ e.hooks = d.hooks
    BY <2>6, RawResetKeeps
  <2> HIDE DEF e
  <2>9. Resets(c, e, {fd})
    BY <2>5, <2>7 DEF Resets
  <2>10. n \in 1..c.sockets /\ c.sockets \in Nat /\ c.sockets <= MaxSockets
    BY <1>3 DEF Well, Counted, Numbered, Sound, Typed
  <2>11. c.pair[fd] = None /\ \A f \in Fds : c.pair[f] # fd
    BY <1>3, NoPeer DEF Well
  <2>12. ASSUME NEW m \in c.clients
         PROVE  e.hooks[m] = IF m \notin c.proxied /\ c.kernel[fd] = m
                             THEN c.hooks[m] + 1 ELSE c.hooks[m]
    <3>1. m \in 1..MaxSockets /\ m # None
      BY <2>10, TableAssumption DEF Well, Numbered, None
    <3>2. e.hooks[m] = IF m = n THEN c.hooks[m] + 1 ELSE c.hooks[m]
      <4>1. c.hooks \in [1..MaxSockets -> Nat]
        BY DEF Well, Numbered
      <4>2. e.hooks = [c.hooks EXCEPT ![n] = @ + 1]
        BY <2>4, <2>8
      <4> HIDE DEF n
      <4> QED
        BY <3>1, <4>1, <4>2
    <3>3. CASE c.kernel[fd] = None
      <4>1. n # m
        BY <1>3, <3>3 DEF Well, Counted
      <4> QED
        BY <3>1, <3>2, <3>3, <4>1
    <3>4. CASE c.kernel[fd] # None
      <4>1. n = c.kernel[fd]
        BY <3>4 DEF Well, Sound, Owned, IsOwn
      <4>2. c.kernel[fd] = m => m \notin c.proxied
        BY <2>11 DEF Well, Counted
      <4> QED
        BY <3>2, <4>1, <4>2
    <3> QED
      BY <3>3, <3>4
  <2>13. Forgets(c, e, {fd})
    <3>1. /\ e.hooks \in [1..MaxSockets -> Nat]
          /\ \A m \in 1..MaxSockets : m > c.sockets => e.hooks[m] = c.hooks[m]
      <4>1. e.hooks = [c.hooks EXCEPT ![n] = @ + 1]
        BY <2>4, <2>8
      <4>2. c.hooks \in [1..MaxSockets -> Nat] /\ MaxSockets \in Nat
        BY TableAssumption DEF Well, Numbered
      <4> HIDE DEF n
      <4>3. ASSUME NEW m \in 1..MaxSockets, m > c.sockets
            PROVE  e.hooks[m] = c.hooks[m]
        <5>1. m # n
          BY <2>10, <4>3
        <5> QED
          BY <4>1, <4>2, <5>1
      <4>4. n \in 1..MaxSockets /\ c.hooks[n] + 1 \in Nat
        BY <2>10, <4>2
      <4>5. e.hooks \in [1..MaxSockets -> Nat]
        BY <4>1, <4>2, <4>4
      <4> QED
        BY <4>3, <4>5
    <3>2. /\ e.module \in [Fds -> [sock : Nat, gen : Nat]]
          /\ \A f \in Fds : e.module[f] = c.module[f] \/ e.module[f].sock = 0
      BY <2>4, <2>8 DEF Well, Numbered
    <3> QED
      BY <2>5, <2>8, <2>9, <2>12, <3>1, <3>2 DEF Forgets
  <2>14. Apart(c, {fd})
    BY <2>11 DEF Apart
  <2>15. Goes(c, e)
    BY <2>2, <2>11, <2>13, <2>14, ForgetsGoes
  <2> QED
    BY <2>1, <2>2, <2>15
<1> QED
  BY <1>1, <1>2, <1>3

\* Flags, the queue, the handles and the pass are no history.
LEMMA MarkGoes ==
  ASSUME NEW c, NEW fd \in Fds, Well(c),
         NEW S \in SUBSET {"toClose", "deferred"}
  PROVE  Goes(c, AddFlags(c, fd, S)) /\ Goes(c, DropFlags(c, fd, S))
<1> DEFINE a == AddFlags(c, fd, S)
           d == DropFlags(c, fd, S)
<1>1. Sound(a) /\ Sound(d)
  BY MarkSound DEF Well
<1>2. /\ Typed(c) /\ DOMAIN c = Fields /\ DOMAIN c.slot = Fds
      /\ \A f \in Fds : DOMAIN c.slot[f] = DOMAIN Dead
  BY DEF Well, Sound, Typed, SlotTyped
<1>3. Kept(c, a)
  BY <1>2 DEF AddFlags, Kept, Fields, Dead
<1>4. Kept(c, d)
  BY <1>2 DEF DropFlags, Kept, Fields, Dead
<1> HIDE DEF a, d
<1> QED
  BY <1>1, <1>3, <1>4, KeptGoes DEF a, d

LEMMA QueueGoes ==
  ASSUME NEW c, NEW fd \in Fds, Well(c), NEW b \in BOOLEAN
  PROVE  Goes(c, [c EXCEPT !.slot[fd].queued = b])
<1> DEFINE e == [c EXCEPT !.slot[fd].queued = b]
<1>1. Sound(e)
  BY QueueSound DEF Well
<1>2. /\ DOMAIN c = Fields /\ DOMAIN c.slot = Fds
      /\ \A f \in Fds : DOMAIN c.slot[f] = DOMAIN Dead
  BY DEF Well, Sound, Typed, SlotTyped
<1>3. Kept(c, e)
  BY <1>2 DEF Kept, Fields, Dead
<1> HIDE DEF e
<1> QED
  BY <1>1, <1>3, KeptGoes DEF e

LEMMA FlushesGoes ==
  ASSUME NEW c, NEW fd \in Fds, Well(c), NEW e \in Flushes(c, fd)
  PROVE  Goes(c, e)
<1> DEFINE q == [c EXCEPT !.slot[fd].queued = FALSE]
<1>1. Goes(c, q)
  BY QueueGoes
<1>2. e \in {c, Close(c, fd), Close(q, fd), q}
  BY DEF Flushes
<1> HIDE DEF q
<1>3. Goes(c, Close(q, fd))
  BY <1>1, CloseGoes, GoesOn DEF Goes
<1> QED
  BY <1>1, <1>2, <1>3, CloseGoes, GoesNowhere

LEMMA WritesGoes ==
  ASSUME NEW c, NEW fd \in Fds, Well(c), NEW e \in Writes(c, fd)
  PROVE  Goes(c, e)
<1> DEFINE q == [c EXCEPT !.slot[fd].queued = TRUE]
<1>1. Goes(c, q)
  BY QueueGoes
<1>2. e \in {c, Close(c, fd), q} \/ e \in Flushes(c, fd)
  BY DEF Writes
<1> HIDE DEF q
<1> QED
  BY <1>1, <1>2, CloseGoes, FlushesGoes, GoesNowhere

LEMMA FinishesGoes ==
  ASSUME NEW c, NEW fd \in Fds, Well(c), NEW e \in Finishes(c, fd)
  PROVE  Goes(c, e)
<1> DEFINE m == AddFlags(c, fd, {"toClose"})
<1>1. Goes(c, m)
  BY MarkGoes
<1>2. e \in Flushes(m, fd) \/ e = Close(m, fd)
  BY DEF Finishes
<1> HIDE DEF m
<1>3. Goes(m, e)
  BY <1>1, <1>2, FlushesGoes, CloseGoes DEF Goes
<1> QED
  BY <1>1, <1>3, GoesOn

\* A handler that answers.
LEMMA RespondsGoes ==
  ASSUME NEW c, NEW fd \in Fds, Well(c), NEW e \in Responds(c, fd)
  PROVE  Goes(c, e)
<1> DEFINE m == AddFlags(c, fd, {"toClose"})
<1>1. Goes(c, m)
  BY MarkGoes
<1>2. PICK w \in Writes(m, fd) : e \in Finishes(w, fd)
  BY DEF Responds
<1> HIDE DEF m
<1>3. Goes(m, w)
  BY <1>1, WritesGoes DEF Goes
<1>4. Goes(w, e)
  BY <1>2, <1>3, FinishesGoes DEF Goes
<1>5. Goes(c, w)
  BY <1>1, <1>3, GoesOn
<1> QED
  BY <1>4, <1>5, GoesOn

\* A handler that will answer later.
LEMMA DefersGoes ==
  ASSUME NEW c, NEW fd \in Fds, Well(c), NEW e \in Defers(c, fd)
  PROVE  Goes(c, e)
<1> DEFINE m == AddFlags(c, fd, {"toClose"})
           h == [fd |-> fd, sock |-> c.slot[fd].sock]
<1>1. Goes(c, m)
  BY MarkGoes
<1>2. CASE e = m
  BY <1>1, <1>2
<1>3. ASSUME NEW w \in Writes(m, fd),
             e = [AddFlags(w, fd, {"deferred"}) EXCEPT !.handles = @ \cup {h}]
      PROVE  Goes(c, e)
  <2> DEFINE d == AddFlags(w, fd, {"deferred"})
  <2> HIDE DEF m
  <2>1. Goes(m, w)
    BY <1>1, WritesGoes DEF Goes
  <2>2. Goes(w, d)
    BY <2>1, MarkGoes DEF Goes
  <2>3. Sound(e)
    BY DefersSound DEF Well
  <2> HIDE DEF d, h
  <2>4. e = [d EXCEPT !.handles = @ \cup {h}]
    BY <1>3 DEF d
  <2>5. Kept(d, e)
    BY <2>2, <2>4 DEF Goes, Well, Sound, Typed, Fields, Kept
  <2>6. Goes(d, e)
    BY <2>2, <2>3, <2>5, KeptGoes DEF Goes
  <2>7. Goes(c, w)
    BY <1>1, <2>1, GoesOn
  <2>8. Goes(c, d)
    BY <2>2, <2>7, GoesOn
  <2> QED
    BY <2>6, <2>8, GoesOn
<1> QED
  BY <1>2, <1>3 DEF Defers

\* A new connection, or one that descr_new() could not finish.
Enrols(c, e, fd, watched) ==
  /\ e.kernel = [c.kernel EXCEPT ![fd] = IF watched THEN c.sockets + 1 ELSE None]
  /\ e.pair = c.pair
  /\ \A f \in Fds \ {fd} : e.slot[f] = c.slot[f]
  /\ e.slot[fd].live
  /\ e.slot[fd].gen = c.generation + 1 /\ e.slot[fd].sock = c.sockets + 1
  /\ e.sockets = c.sockets + 1 /\ e.generation = c.generation + 1
  /\ e.module = c.module /\ e.proxied = c.proxied /\ e.hooks = c.hooks
  /\ e.clients = IF watched THEN c.clients \cup {c.sockets + 1} ELSE c.clients

LEMMA EnrolsGoes ==
  ASSUME NEW c, NEW e, NEW fd \in Fds, NEW watched \in BOOLEAN, Well(c), Sound(e),
         c.kernel[fd] = None, CanOpen(c), Enrols(c, e, fd, watched)
  PROVE  Goes(c, e)
<1> DEFINE n == c.sockets + 1
<1>1. /\ c.sockets \in Nat /\ MaxSockets \in Nat /\ n <= MaxSockets /\ n # None
      /\ c.generation \in Nat
      /\ c.clients \subseteq 1..c.sockets /\ c.proxied \subseteq 1..c.sockets
      /\ \A f \in Fds : c.kernel[f] \in Nat /\ c.kernel[f] <= c.sockets
  <2>1. c.sockets \in Nat /\ c.generation \in Nat /\ c.kernel \in [Fds -> Nat]
    BY DEF Well, Sound, Typed
  <2>2. MaxSockets \in Nat
    BY TableAssumption
  <2>3. n <= MaxSockets /\ n # None
    BY <2>1, <2>2 DEF CanOpen, None
  <2>4. /\ c.clients \subseteq 1..c.sockets /\ c.proxied \subseteq 1..c.sockets
        /\ \A f \in Fds : c.kernel[f] <= c.sockets
    BY DEF Well, Numbered
  <2>5. \A f \in Fds : c.kernel[f] \in Nat
    BY <2>1
  <2> QED
    BY <2>1, <2>2, <2>3, <2>4, <2>5
<1>2. /\ \A f \in Fds \ {fd} : e.kernel[f] = c.kernel[f]
      /\ e.kernel[fd] = IF watched THEN n ELSE None
  BY DEF Enrols, Well, Sound, Typed
<1>3. c.pair[fd] = None /\ \A f \in Fds : c.pair[f] # fd
  BY FreeNumber DEF Well
<1>4. Numbered(e)
  <2>1. /\ e.clients \subseteq 1..e.sockets /\ e.proxied \subseteq 1..e.sockets
        /\ e.sockets <= MaxSockets
    BY <1>1 DEF Enrols
  <2>2. \A f \in Fds : e.kernel[f] <= e.sockets
    BY <1>1, <1>2 DEF Enrols, None
  <2>3. \A f, g \in Fds : e.kernel[f] = e.kernel[g] /\ e.kernel[f] # None => f = g
    <3>1. ASSUME NEW f \in Fds, NEW g \in Fds, e.kernel[f] = e.kernel[g],
                 e.kernel[f] # None
          PROVE  f = g
      <4>1. CASE f # fd /\ g # fd
        BY <1>2, <3>1, <4>1 DEF Well, Numbered
      <4>2. ~(f = fd /\ g # fd) /\ ~(g = fd /\ f # fd)
        BY <1>1, <1>2, <3>1
      <4> QED
        BY <4>1, <4>2
    <3> QED
      BY <3>1
  <2>4. \A m \in 1..MaxSockets : m > e.sockets => e.hooks[m] = 0
    BY <1>1 DEF Enrols, Well, Numbered
  <2> QED
    BY <2>1, <2>2, <2>3, <2>4 DEF Numbered, Well, Enrols
<1>5. Counted(e)
  <2>1. ASSUME NEW m \in e.clients
        PROVE  e.hooks[m] = IF IsOpenIn(e, m) \/ m \in e.proxied THEN 0 ELSE 1
    <3>1. CASE m \in c.clients
      <4>1. m # n /\ m # None
        BY <1>1, <3>1 DEF None
      <4>2. IsOpenIn(e, m) <=> IsOpenIn(c, m)
        BY <1>2, <4>1 DEF IsOpenIn
      <4> QED
        BY <3>1, <4>2 DEF Well, Counted, Enrols
    <3>2. CASE m \notin c.clients
      <4>1. watched /\ m = n
        BY <3>2 DEF Enrols
      <4>2. IsOpenIn(e, m)
        BY <1>2, <4>1 DEF IsOpenIn
      <4>3. n \in 1..MaxSockets /\ n > c.sockets
        BY <1>1
      <4> HIDE DEF n
      <4>4. e.hooks[m] = 0
        BY <4>1, <4>3 DEF Well, Numbered, Enrols
      <4> QED
        BY <4>2, <4>4
    <3> QED
      BY <3>1, <3>2
  <2>2. ASSUME NEW f \in Fds
        PROVE  /\ e.slot[f].live => e.slot[f].sock \in 1..e.sockets
               /\ e.slot[f].live /\ e.kernel[f] = None
                    => e.slot[f].sock \notin e.clients
               /\ e.kernel[f] \in e.clients =>
                    (e.kernel[f] \in e.proxied <=> e.pair[f] # None)
    <3>1. CASE f = fd
      <4>1. e.slot[fd].sock = n /\ n \in 1..e.sockets
        BY <1>1 DEF Enrols
      <4>2. n \notin c.clients /\ n \notin c.proxied
        BY <1>1
      <4>3. e.kernel[fd] = None => e.clients = c.clients
        BY <1>1, <1>2 DEF Enrols
      <4>4. None \notin e.clients /\ e.pair[fd] = None
        BY <1>1, <1>3 DEF Enrols, None
      <4> QED
        BY <1>2, <3>1, <4>1, <4>2, <4>3, <4>4 DEF Enrols
    <3>2. CASE f # fd
      <4>1. e.slot[f] = c.slot[f] /\ e.kernel[f] = c.kernel[f] /\ e.pair[f] = c.pair[f]
        BY <1>2, <3>2 DEF Enrols
      <4>2. c.slot[f].live => c.slot[f].sock \in 1..c.sockets
        BY DEF Well, Counted
      <4>3. c.kernel[f] # n /\ (c.slot[f].live => c.slot[f].sock # n)
        BY <1>1, <4>2
      <4> QED
        BY <1>1, <4>1, <4>2, <4>3 DEF Well, Counted, Enrols
    <3> QED
      BY <3>1, <3>2
  <2> QED
    BY <2>1, <2>2 DEF Counted
<1>6. Generations(e)
  <2> SUFFICES ASSUME NEW f \in Fds
               PROVE  /\ e.module[f].sock # 0 => e.module[f].gen \in 1..e.generation
                      /\ e.slot[f].live =>
                           /\ e.slot[f].gen <= e.generation
                           /\ e.slot[f].gen = 0 => e.pair[f] # None
                           /\ e.module[f].sock # 0
                              /\ e.module[f].gen = e.slot[f].gen
                                => e.module[f].sock = e.slot[f].sock
    BY DEF Generations
  <2>1. e.module[f].sock # 0 => e.module[f].gen \in 1..c.generation
    BY DEF Well, Generations, Enrols
  <2>2. CASE f = fd
    BY <1>1, <2>1, <2>2 DEF Enrols
  <2>3. CASE f # fd
    <3>1. e.slot[f] = c.slot[f] /\ e.pair[f] = c.pair[f] /\ e.module[f] = c.module[f]
      BY <2>3 DEF Enrols
    <3>2. c.slot[f].live => c.slot[f].gen \in Nat
      BY DEF Well, Sound, Typed, SlotTyped
    <3> QED
      BY <1>1, <2>1, <3>1, <3>2 DEF Well, Generations, Enrols
  <2> QED
    BY <2>2, <2>3
<1>7. Moves(c, e)
  <2>1. \A f \in Fds : e.kernel[f] \in {c.kernel[f], None} \/ e.kernel[f] > c.sockets
    BY <1>1, <1>2
  <2>2. ASSUME NEW f \in Fds, NEW p \in Fds, c.pair[f] = p
        PROVE  e.kernel[f] = c.kernel[f] /\ e.kernel[p] = c.kernel[p] /\ e.pair[f] = p
    <3>1. f # fd /\ p # fd
      BY <1>3, <2>2, TableAssumption DEF None
    <3> QED
      BY <1>2, <2>2, <3>1 DEF Enrols
  <2> QED
    BY <1>1, <2>1, <2>2 DEF Moves, Enrols
<1> QED
  BY <1>4, <1>5, <1>6, <1>7 DEF Goes, Well

\* descr_new(), whatever accept() and malloc() say.
LEMMA AcceptsGoes ==
  ASSUME NEW c, Well(c), NEW e \in Accepts(c)
  PROVE  Goes(c, e)
<1>1. Sound(e)
  BY AcceptsSound DEF Well
<1>2. /\ DOMAIN c = Fields /\ DOMAIN c.slot = Fds /\ c.kernel \in [Fds -> Nat]
      /\ c.sockets \in Nat /\ MaxSockets \in Nat
  BY TableAssumption DEF Well, Sound, Typed
<1>3. CASE e = c
  BY <1>3, GoesNowhere
<1>4. CASE e = [c EXCEPT !.sockets = @ + 1] /\ CanOpen(c)
  <2>1. /\ e.kernel = c.kernel /\ e.pair = c.pair /\ e.slot = c.slot
        /\ e.sockets = c.sockets + 1 /\ e.generation = c.generation
        /\ e.module = c.module /\ e.clients = c.clients
        /\ e.proxied = c.proxied /\ e.hooks = c.hooks
    BY <1>2, <1>4 DEF Fields
  <2>2. c.sockets + 1 <= MaxSockets
    BY <1>2, <1>4 DEF CanOpen
  <2>3. Numbered(e)
    BY <1>2, <2>1, <2>2 DEF Well, Numbered
  <2>4. Counted(e)
    BY <1>2, <2>1 DEF Well, Counted, IsOpenIn
  <2>5. Generations(e)
    BY <2>1 DEF Well, Generations
  <2>6. Moves(c, e)
    BY <1>2, <2>1 DEF Moves
  <2> QED
    BY <1>1, <2>3, <2>4, <2>5, <2>6 DEF Goes, Well
<1>5. ASSUME NEW fd \in NewFds(c), CanOpen(c),
             e \in {Accepted(c, fd), AcceptedNoMem(c, fd)}
      PROVE  Goes(c, e)
  <2> DEFINE a == Accepted(c, fd)
             g == AcceptedNoMem(c, fd)
  <2>1. fd \in Fds /\ c.kernel[fd] = None
    BY DEF NewFds, FreeFds
  <2>2. /\ DOMAIN a = Fields
        /\ a.slot = [c.slot EXCEPT ![fd] = [Dead EXCEPT !.live = TRUE,
                       !.gen = c.generation + 1, !.sock = c.sockets + 1]]
    BY <1>2, <2>1 DEF Accepted, Fresh, Opened, Fields
  <2>3. /\ a.kernel = [c.kernel EXCEPT ![fd] = c.sockets + 1]
        /\ a.pair = c.pair
        /\ a.sockets = c.sockets + 1 /\ a.generation = c.generation + 1
        /\ a.module = c.module /\ a.proxied = c.proxied /\ a.hooks = c.hooks
        /\ a.clients = c.clients \cup {c.sockets + 1}
    BY <1>2, <2>1 DEF Accepted, Fresh, Opened, Fields
  <2>4. g = [a EXCEPT !.kernel[fd] = None, !.active = @ \ {fd}, !.clients = c.clients]
    BY DEF AcceptedNoMem
  <2> HIDE DEF a, g
  <2>5. Enrols(c, a, fd, TRUE)
    BY <1>2, <2>1, <2>2, <2>3 DEF Enrols, Dead
  <2>6. /\ g.slot = a.slot /\ g.pair = a.pair /\ g.sockets = a.sockets
        /\ g.generation = a.generation /\ g.module = a.module
        /\ g.proxied = a.proxied /\ g.hooks = a.hooks /\ g.clients = c.clients
        /\ g.kernel = [a.kernel EXCEPT ![fd] = None]
    BY <2>2, <2>4 DEF Fields
  <2>7. g.kernel = [c.kernel EXCEPT ![fd] = None]
    BY <1>2, <2>1, <2>3, <2>6
  <2>8. Enrols(c, g, fd, FALSE)
    BY <2>5, <2>6, <2>7 DEF Enrols
  <2>9. e = a \/ e = g
    BY <1>5 DEF a, g
  <2> QED
    BY <1>1, <1>5, <2>1, <2>5, <2>8, <2>9, EnrolsGoes
<1> QED
  BY <1>3, <1>4, <1>5 DEF Accepts

\* The pair that request_handle() makes: the client is proxied from now on.
LEMMA PairedGoes ==
  ASSUME NEW c, NEW fd \in Fds, NEW up \in Fds, Well(c), CanOpen(c),
         c.kernel[fd] # None, c.slot[fd].flags \cap Proxying = {},
         c.kernel[up] = None
  PROVE  Goes(c, Paired(c, fd, up))
<1> DEFINE o == Fresh(Opened(c, up), up, 0)
           f == AddFlags(AddFlags(o, fd, {"pending"}), up, {"waiting", "pending"})
           e == Paired(c, fd, up)
           n == c.sockets + 1
<1>1. Sound(e)
  BY PairedSound DEF Well
<1>2. /\ DOMAIN c = Fields /\ DOMAIN c.slot = Fds /\ c.kernel \in [Fds -> Nat]
      /\ c.pair \in [Fds -> Fds \cup {None}] /\ c.generation \in Nat
      /\ c.sockets \in Nat /\ MaxSockets \in Nat /\ n <= MaxSockets /\ n # None
      /\ c.clients \subseteq 1..c.sockets /\ c.proxied \subseteq 1..c.sockets
      /\ \A g \in Fds : /\ c.kernel[g] \in Nat /\ c.kernel[g] <= c.sockets
                       /\ DOMAIN c.slot[g] = DOMAIN Dead
  <2>1. /\ DOMAIN c = Fields /\ DOMAIN c.slot = Fds /\ c.kernel \in [Fds -> Nat]
        /\ c.pair \in [Fds -> Fds \cup {None}] /\ c.generation \in Nat
        /\ c.sockets \in Nat
        /\ \A g \in Fds : DOMAIN c.slot[g] = DOMAIN Dead
    BY DEF Well, Sound, Typed, SlotTyped
  <2>2. MaxSockets \in Nat
    BY TableAssumption
  <2>3. n <= MaxSockets /\ n # None
    BY <2>1, <2>2 DEF CanOpen, None
  <2>4. /\ c.clients \subseteq 1..c.sockets /\ c.proxied \subseteq 1..c.sockets
        /\ \A g \in Fds : c.kernel[g] <= c.sockets
    BY DEF Well, Numbered
  <2>5. \A g \in Fds : c.kernel[g] \in Nat
    BY <2>1
  <2> QED
    BY <2>1, <2>2, <2>3, <2>4, <2>5
<1>3. fd # up /\ fd # None /\ up # None
  BY TableAssumption DEF None
<1>4. /\ DOMAIN o = Fields
      /\ o.kernel = [c.kernel EXCEPT ![up] = n] /\ o.pair = c.pair
      /\ o.sockets = n /\ o.generation = c.generation /\ o.module = c.module
      /\ o.clients = c.clients /\ o.proxied = c.proxied /\ o.hooks = c.hooks
      /\ o.slot = [c.slot EXCEPT ![up] = [Dead EXCEPT !.live = TRUE, !.gen = 0,
                                                      !.sock = n]]
  BY <1>2 DEF Fresh, Opened, Fields
<1>5. /\ DOMAIN o.slot = Fds /\ \A g \in Fds \ {up} : o.slot[g] = c.slot[g]
      /\ o.slot[up].live /\ o.slot[up].gen = 0 /\ o.slot[up].sock = n
      /\ \A g \in Fds : DOMAIN o.slot[g] = DOMAIN Dead
  <2> HIDE DEF o
  <2>1. DOMAIN o.slot = Fds /\ \A g \in Fds \ {up} : o.slot[g] = c.slot[g]
    BY <1>2, <1>4
  <2>2. o.slot[up] = [Dead EXCEPT !.live = TRUE, !.gen = 0, !.sock = n]
    BY <1>2, <1>4
  <2>3. /\ o.slot[up].live /\ o.slot[up].gen = 0 /\ o.slot[up].sock = n
        /\ DOMAIN o.slot[up] = DOMAIN Dead
    BY <2>2 DEF Dead
  <2> QED
    BY <1>2, <2>1, <2>3
<1>6. e = [f EXCEPT !.pair[fd] = up, !.pair[up] = fd, !.active = @ \cup {up},
                    !.proxied = @ \cup {c.slot[fd].sock}]
  BY DEF Paired
<1>7. /\ f = [o EXCEPT !.slot = f.slot]
      /\ f.slot = [o.slot EXCEPT ![fd].flags = @ \cup {"pending"},
                                 ![up].flags = @ \cup {"waiting", "pending"}]
  <2> HIDE DEF o
  <2> QED
    BY <1>3, <1>4, <1>5 DEF AddFlags, Fields
<1> HIDE DEF o, f
<1>8. \A g \in Fds : /\ f.slot[g].live = o.slot[g].live
                    /\ f.slot[g].gen = o.slot[g].gen
                    /\ f.slot[g].sock = o.slot[g].sock
  BY <1>3, <1>5, <1>7 DEF Dead
<1> HIDE DEF e
<1>9. /\ e.slot = f.slot /\ e.kernel = o.kernel
      /\ e.pair = [o.pair EXCEPT ![fd] = up, ![up] = fd]
      /\ e.sockets = n /\ e.generation = o.generation /\ e.module = o.module
      /\ e.clients = o.clients /\ e.hooks = o.hooks
      /\ e.proxied = o.proxied \cup {c.slot[fd].sock}
  BY <1>4, <1>6, <1>7 DEF Fields
<1>10. c.slot[fd].sock = c.kernel[fd] /\ c.slot[fd].live
  BY DEF Well, Sound, Owned, IsOwn
<1>11. /\ e.kernel[up] = n /\ \A g \in Fds \ {up} : e.kernel[g] = c.kernel[g]
       /\ e.pair[fd] = up /\ e.pair[up] = fd
       /\ \A g \in Fds \ {fd, up} : e.pair[g] = c.pair[g]
       /\ \A g \in Fds \ {up} : /\ e.slot[g].live = c.slot[g].live
                               /\ e.slot[g].gen = c.slot[g].gen
                               /\ e.slot[g].sock = c.slot[g].sock
       /\ e.slot[up].live /\ e.slot[up].gen = 0 /\ e.slot[up].sock = n
       /\ e.sockets = n /\ e.generation = c.generation /\ e.module = c.module
       /\ e.clients = c.clients /\ e.hooks = c.hooks
       /\ e.proxied = c.proxied \cup {c.kernel[fd]}
  <2> HIDE DEF n
  <2>1. /\ e.kernel[up] = n /\ \A g \in Fds \ {up} : e.kernel[g] = c.kernel[g]
    <3>1. e.kernel = [c.kernel EXCEPT ![up] = n]
      BY <1>4, <1>9
    <3> QED
      BY <1>2, <3>1
  <2>2. /\ e.pair[fd] = up /\ e.pair[up] = fd
        /\ \A g \in Fds \ {fd, up} : e.pair[g] = c.pair[g]
    <3>1. e.pair = [c.pair EXCEPT ![fd] = up, ![up] = fd]
      BY <1>4, <1>9
    <3> QED
      BY <1>2, <1>3, <3>1
  <2>3. /\ \A g \in Fds \ {up} : /\ e.slot[g].live = c.slot[g].live
                               /\ e.slot[g].gen = c.slot[g].gen
                               /\ e.slot[g].sock = c.slot[g].sock
        /\ e.slot[up].live /\ e.slot[up].gen = 0 /\ e.slot[up].sock = n
    BY <1>5, <1>8, <1>9
  <2>4. /\ e.sockets = n /\ e.generation = c.generation /\ e.module = c.module
        /\ e.clients = c.clients /\ e.hooks = c.hooks
        /\ e.proxied = c.proxied \cup {c.kernel[fd]}
    BY <1>4, <1>9, <1>10
  <2> QED
    BY <2>1, <2>2, <2>3, <2>4
<1>12. /\ c.pair[fd] = None /\ c.pair[up] = None
       /\ \A g \in Fds : c.pair[g] # fd /\ c.pair[g] # up
  BY NoPeer, FreeNumber DEF Well
<1>13. Numbered(e)
  <2>1. /\ e.clients \subseteq 1..e.sockets /\ e.proxied \subseteq 1..e.sockets
        /\ e.sockets <= MaxSockets
    BY <1>2, <1>11 DEF None
  <2>2. \A g \in Fds : e.kernel[g] <= e.sockets
    BY <1>2, <1>11
  <2>3. ASSUME NEW g \in Fds, NEW h \in Fds, e.kernel[g] = e.kernel[h],
               e.kernel[g] # None
        PROVE  g = h
    <3>1. CASE g # up /\ h # up
      BY <1>11, <2>3, <3>1 DEF Well, Numbered
    <3>2. ~(g = up /\ h # up) /\ ~(h = up /\ g # up)
      BY <1>2, <1>11, <2>3
    <3> QED
      BY <3>1, <3>2
  <2>4. \A m \in 1..MaxSockets : m > e.sockets => e.hooks[m] = 0
    BY <1>2, <1>11 DEF Well, Numbered
  <2> QED
    BY <1>11, <2>1, <2>2, <2>3, <2>4 DEF Numbered, Well
<1>14. Counted(e)
  <2>1. ASSUME NEW m \in c.clients
        PROVE  e.hooks[m] = IF IsOpenIn(e, m) \/ m \in e.proxied THEN 0 ELSE 1
    <3>1. m # n /\ m # None
      BY <1>2 DEF None
    <3>2. IsOpenIn(e, m) <=> IsOpenIn(c, m)
      BY <1>11, <3>1 DEF IsOpenIn
    <3>3. m = c.kernel[fd] => IsOpenIn(c, m)
      BY DEF IsOpenIn
    <3> QED
      BY <1>11, <3>2, <3>3 DEF Well, Counted
  <2>2. ASSUME NEW g \in Fds
        PROVE  /\ e.slot[g].live => e.slot[g].sock \in 1..e.sockets
               /\ e.slot[g].live /\ e.kernel[g] = None
                    => e.slot[g].sock \notin e.clients
               /\ e.kernel[g] \in e.clients =>
                    (e.kernel[g] \in e.proxied <=> e.pair[g] # None)
    <3>1. CASE g = up
      <4>1. n \notin c.clients /\ n \in 1..n
        BY <1>2
      <4> QED
        BY <1>2, <1>11, <3>1, <4>1
    <3>2. CASE g = fd
      <4>1. c.slot[fd].sock \in 1..n
        BY <1>2, <1>10 DEF None
      <4> QED
        BY <1>3, <1>10, <1>11, <3>2, <4>1
    <3>3. CASE g # up /\ g # fd
      <4>1. c.kernel[g] = c.kernel[fd] => c.kernel[g] \notin c.clients
        BY <3>3 DEF Well, Numbered
      <4>2. c.slot[g].live => c.slot[g].sock \in 1..n
        BY <1>2 DEF Well, Counted
      <4> QED
        BY <1>11, <3>3, <4>1, <4>2 DEF Well, Counted
    <3> QED
      BY <3>1, <3>2, <3>3
  <2> QED
    BY <1>11, <2>1, <2>2 DEF Counted
<1>15. Generations(e)
  <2> SUFFICES ASSUME NEW g \in Fds
               PROVE  /\ e.module[g].sock # 0 => e.module[g].gen \in 1..e.generation
                      /\ e.slot[g].live =>
                           /\ e.slot[g].gen <= e.generation
                           /\ e.slot[g].gen = 0 => e.pair[g] # None
                           /\ e.module[g].sock # 0
                              /\ e.module[g].gen = e.slot[g].gen
                                => e.module[g].sock = e.slot[g].sock
    BY DEF Generations
  <2>1. e.module[g].sock # 0 => e.module[g].gen \in 1..c.generation
    BY <1>11 DEF Well, Generations
  <2>2. CASE g = up
    BY <1>2, <1>3, <1>11, <2>1, <2>2
  <2>3. CASE g # up
    BY <1>3, <1>11, <2>1, <2>3 DEF Well, Generations
  <2> QED
    BY <2>2, <2>3
<1>16. Moves(c, e)
  <2>1. \A g \in Fds : e.kernel[g] \in {c.kernel[g], None} \/ e.kernel[g] > c.sockets
    BY <1>2, <1>11
  <2>2. ASSUME NEW g \in Fds, NEW p \in Fds, c.pair[g] = p
        PROVE  e.kernel[g] = c.kernel[g] /\ e.kernel[p] = c.kernel[p] /\ e.pair[g] = p
    <3>1. g \notin {fd, up} /\ p \notin {fd, up}
      BY <1>12, <2>2, TableAssumption DEF None
    <3> QED
      BY <1>11, <2>2, <3>1
  <2> QED
    BY <1>2, <1>11, <2>1, <2>2 DEF Moves
<1> QED
  BY <1>1, <1>13, <1>14, <1>15, <1>16 DEF Goes, Well, e

\* The WebSocket branch of request_handle().
LEMMA ProxiesGoes ==
  ASSUME NEW c, NEW fd \in Fds, Well(c), c.kernel[fd] # None,
         c.slot[fd].flags \cap Proxying = {}, NEW e \in Proxies(c, fd)
  PROVE  Goes(c, e)
<1>1. CASE e = c
  BY <1>1, GoesNowhere
<1>2. ASSUME NEW up \in NewFds(c), CanOpen(c),
             e \in {Paired(c, fd, up), TunnelClose(Paired(c, fd, up), up)}
      PROVE  Goes(c, e)
  <2> DEFINE g == Paired(c, fd, up)
  <2>1. up \in Fds /\ c.kernel[up] = None
    BY DEF NewFds, FreeFds
  <2>2. Goes(c, g)
    BY <1>2, <2>1, PairedGoes
  <2>3. g.pair[up] # None
    <3>1. g.pair = [c.pair EXCEPT ![fd] = up, ![up] = fd]
      BY <2>1 DEF Paired, AddFlags, Fresh, Opened, Well, Sound, Typed, Fields
    <3> QED
      BY <2>1, <3>1, TableAssumption DEF Well, Sound, Typed, None
  <2> HIDE DEF g
  <2>4. Goes(g, TunnelClose(g, up))
    BY <2>1, <2>2, <2>3, TunnelCloseGoes DEF Goes
  <2>5. Goes(c, TunnelClose(g, up))
    BY <2>2, <2>4, GoesOn
  <2> QED
    BY <1>2, <2>2, <2>5 DEF g
<1> QED
  BY <1>1, <1>2 DEF Proxies

-----------------------------------------------------------------------------
(* The event loop, with the history.                                        *)

\* The tables have the fields of tables.
Shaped(c) ==
  /\ DOMAIN c = Fields /\ DOMAIN c.slot = Fds
  /\ \A f \in Fds : DOMAIN c.slot[f] = DOMAIN Dead

\* Flags are no history, whichever they are.
LEMMA FlagsKeep ==
  ASSUME NEW c, NEW fd \in Fds, NEW S, Shaped(c)
  PROVE  /\ Kept(c, AddFlags(c, fd, S)) /\ Shaped(AddFlags(c, fd, S))
         /\ Kept(c, DropFlags(c, fd, S)) /\ Shaped(DropFlags(c, fd, S))
<1>1. Kept(c, AddFlags(c, fd, S))
  BY DEF Shaped, AddFlags, Kept, Fields, Dead
<1>2. Shaped(AddFlags(c, fd, S))
  BY DEF Shaped, AddFlags, Fields, Dead
<1>3. Kept(c, DropFlags(c, fd, S))
  BY DEF Shaped, DropFlags, Kept, Fields, Dead
<1>4. Shaped(DropFlags(c, fd, S))
  BY DEF Shaped, DropFlags, Fields, Dead
<1> QED
  BY <1>1, <1>2, <1>3, <1>4

LEMMA KeptOn ==
  ASSUME NEW c, NEW e, NEW g, Kept(c, e), Kept(e, g)
  PROVE  Kept(c, g)
BY DEF Kept

\* axil_ws_tunnel() of two numbers that are each other's peer.
LEMMA WsTunnelGoes ==
  ASSUME NEW c, NEW a \in Fds, NEW b \in Fds, Well(c), a # b,
         c.pair[a] = b, c.pair[b] = a
  PROVE  Goes(c, WsTunnel(c, a, b))
<1> DEFINE d == DropFlags(c, a, Proxying)
           g == DropFlags(d, b, Proxying)
           h == AddFlags(g, a, {"tunnel"})
           f == AddFlags(h, b, {"tunnel"})
           e == WsTunnel(c, a, b)
<1>1. Sound(e)
  BY WsTunnelSound DEF Well
<1>2. Shaped(c) /\ c.pair \in [Fds -> Fds \cup {None}]
  BY DEF Well, Sound, Typed, SlotTyped, Shaped
<1>3. e = [f EXCEPT !.active = @ \cup {a, b}, !.pair[a] = b, !.pair[b] = a]
  BY DEF WsTunnel
<1>4. Kept(c, d) /\ Shaped(d)
  BY <1>2, FlagsKeep
<1> HIDE DEF d
<1>5. Kept(d, g) /\ Shaped(g)
  BY <1>4, FlagsKeep
<1> HIDE DEF g
<1>6. Kept(g, h) /\ Shaped(h)
  BY <1>5, FlagsKeep
<1> HIDE DEF h
<1>7. Kept(h, f) /\ Shaped(f)
  BY <1>6, FlagsKeep
<1> HIDE DEF f, e
<1>8. Kept(c, g)
  BY <1>4, <1>5, KeptOn
<1>9. Kept(c, h)
  BY <1>6, <1>8, KeptOn
<1>10. Kept(c, f)
  BY <1>7, <1>9, KeptOn
<1>11. Kept(f, e)
  <2>1. f.pair = c.pair
    BY <1>10 DEF Kept
  <2>2. [f.pair EXCEPT ![a] = b, ![b] = a] = f.pair
    BY <1>2, <2>1
  <2> QED
    BY <1>3, <1>7, <2>2 DEF Shaped, Fields, Kept
<1>12. Kept(c, e)
  BY <1>10, <1>11, KeptOn
<1>13. Goes(c, e)
  BY <1>1, <1>12, KeptGoes
<1> QED
  BY <1>13 DEF e

\* Forwarding the upstream's 101.
LEMMA UpgradesGoes ==
  ASSUME NoReset, NEW c, NEW peer \in Fds, NEW up \in Fds, Well(c), peer # up,
         c.pair[peer] = up, c.pair[up] = peer, NEW e \in Upgrades(c, peer, up)
  PROVE  Goes(c, e)
<1>1. PICK w \in Writes(c, peer) : w.slot[peer].live /\ e = WsTunnel(w, peer, up)
  BY DEF Upgrades, NoReset
<1>2. Goes(c, w)
  BY <1>1, WritesGoes
<1>3. w.pair = c.pair
  BY <1>1, WritesSound DEF Well
<1>4. Goes(w, e)
  BY <1>1, <1>2, <1>3, WsTunnelGoes DEF Goes
<1> QED
  BY <1>2, <1>4, GoesOn

\* The turn goes on to the next number.
LEMMA PassedGoes ==
  ASSUME NEW c, NEW e, NEW i \in Nat, Well(c), Goes(c, e)
  PROVE  Goes(c, Passed(e, i))
<1> DEFINE g == Passed(e, i)
<1>1. Sound(g)
  BY PassedSound DEF Goes, Well
<1>2. Kept(e, g)
  BY DEF Kept, Passed, Goes, Well, Sound, Typed, Fields
<1> HIDE DEF g
<1>3. Goes(e, g)
  BY <1>1, <1>2, KeptGoes DEF Goes
<1>4. Goes(c, g)
  BY <1>3, GoesOn
<1> QED
  BY <1>4 DEF g

\* Closing and writing open nothing.
LEMMA CloseOpensNone ==
  ASSUME NEW c, NEW fd, DOMAIN c = Fields
  PROVE  /\ Close(c, fd).sockets = c.sockets /\ DOMAIN Close(c, fd) = Fields
<1>1. ASSUME NEW g, DOMAIN g = Fields, NEW k
      PROVE  /\ RawReset(g, k).sockets = g.sockets
             /\ DOMAIN RawReset(g, k) = Fields
  BY <1>1 DEF RawReset, Fields
<1>2. TunnelClose(c, fd).sockets = c.sockets /\ DOMAIN TunnelClose(c, fd) = Fields
  BY <1>1 DEF TunnelClose
<1>3. Disconnect(c, fd).sockets = c.sockets /\ DOMAIN Disconnect(c, fd) = Fields
  BY DEF Disconnect, Fields
<1>4. /\ RawReset(Disconnect(c, fd), fd).sockets = c.sockets
      /\ DOMAIN RawReset(Disconnect(c, fd), fd) = Fields
  BY <1>1, <1>3
<1> QED
  BY <1>2, <1>4 DEF Close

LEMMA WritesOpenNone ==
  ASSUME NEW c, NEW fd, DOMAIN c = Fields, NEW e \in Writes(c, fd)
  PROVE  e.sockets = c.sockets
<1> DEFINE q(b) == [c EXCEPT !.slot[fd].queued = b]
<1>1. \A b \in BOOLEAN : q(b).sockets = c.sockets /\ DOMAIN q(b) = Fields
  BY DEF Fields
<1>2. \/ e \in {c, Close(c, fd), q(TRUE)}
      \/ e \in {c, Close(c, fd), Close(q(FALSE), fd), q(FALSE)}
  BY DEF Writes, Flushes
<1> HIDE DEF q
<1>3. /\ q(TRUE).sockets = c.sockets /\ q(FALSE).sockets = c.sockets
      /\ DOMAIN q(FALSE) = Fields
  BY <1>1
<1>4. Close(q(FALSE), fd).sockets = c.sockets
  BY <1>3, CloseOpensNone
<1>5. Close(c, fd).sockets = c.sockets
  BY CloseOpensNone
<1> QED
  BY <1>2, <1>3, <1>4, <1>5

\* select(), whatever it says, and the end of a pass.
LEMMA SelectGoes ==
  ASSUME Well(s), Select \/ SelectTimeout \/ SelectFails \/ EndPass
  PROVE  Goes(s, s')
<1>1. Sound(s')
  BY SelectSound DEF Well
<1>2. PICK R, n : \/ s' = [s EXCEPT !.readable = R]
                  \/ s' = [s EXCEPT !.cursor = n]
                  \/ s' = [s EXCEPT !.readable = R, !.cursor = n]
  BY DEF Select, SelectTimeout, SelectFails, EndPass
<1>3. DOMAIN s = Fields
  BY DEF Well, Sound, Typed
<1>4. Kept(s, s')
  BY <1>2, <1>3 DEF Kept, Fields
<1> QED
  BY <1>1, <1>4, KeptGoes

\* The upstream's answer.
LEMMA ReadWaitingGoes ==
  ASSUME NoReset, Well(s), NEW i \in Fds, ReadWaiting(i)
  PROVE  Goes(s, s')
<1> DEFINE peer == s.pair[i]
<1>1. i \in Nat
  BY TableAssumption
<1>2. peer \in Fds /\ peer # None /\ peer # i /\ s.pair[peer] = i
  <2>1. s.slot[i].flags \cap Proxying # {}
    BY DEF ReadWaiting, Has, Proxying
  <2>2. peer # None
    BY <2>1 DEF Well, Sound, Mutual
  <2>3. Mates(s, i, peer)
    BY <2>2 DEF Well, Sound, Mutual
  <2> QED
    BY <2>2, <2>3 DEF Mates, Well, Sound, Typed
<1>3. Goes(s, TunnelClose(s, i))
  BY <1>2, TunnelCloseGoes
<1>4. ASSUME NEW t \in Upgrades(s, peer, i)
      PROVE  Goes(s, t)
  <2> HIDE DEF peer
  <2> QED
    BY <1>2, <1>4, UpgradesGoes DEF peer
<1>5. ASSUME NEW t \in Writes(s, peer)
      PROVE  Goes(s, TunnelClose(t, i))
  <2>1. Goes(s, t)
    BY <1>2, WritesGoes
  <2>2. t.sockets = s.sockets
    BY WritesOpenNone DEF Well, Sound, Typed
  <2>3. t.pair[i] # None \/ t.kernel[i] = None
    <3>1. t.kernel[i] <= t.sockets /\ t.sockets \in Nat /\ t.kernel[i] \in Nat
      BY <2>1 DEF Goes, Well, Numbered, Sound, Typed
    <3>2. t.kernel[i] \in {s.kernel[i], None}
      BY <2>1, <2>2, <3>1 DEF Goes, Moves
    <3>3. t.kernel[i] # s.kernel[i] \/ t.pair[i] = peer
      BY <1>2, <2>1 DEF Goes, Moves
    <3> QED
      BY <1>2, <3>2, <3>3
  <2>4. Goes(t, TunnelClose(t, i))
    BY <2>1, <2>3, TunnelCloseGoes DEF Goes
  <2> QED
    BY <2>1, <2>4, GoesOn
<1>6. \/ s' = Passed(s, i)
      \/ s' = Passed(TunnelClose(s, i), i)
      \/ \E t \in Upgrades(s, peer, i) : s' = Passed(t, i)
      \/ \E t \in Writes(s, peer) : s' = Passed(TunnelClose(t, i), i)
  BY DEF ReadWaiting
<1> HIDE DEF peer
<1>7. PICK e : s' = Passed(e, i) /\ Goes(s, e)
  BY <1>3, <1>4, <1>5, <1>6, GoesNowhere
<1> QED
  BY <1>1, <1>7, PassedGoes

\* One side of an open tunnel.
LEMMA ReadTunnelGoes ==
  ASSUME Well(s), NEW i \in Fds, ReadTunnel(i)
  PROVE  Goes(s, s')
<1> DEFINE peer == s.pair[i]
<1>1. i \in Nat
  BY TableAssumption
<1>2. peer \in Fds /\ peer # None
  <2>1. s.slot[i].flags \cap Proxying # {}
    BY DEF ReadTunnel, Has, Proxying
  <2>2. peer # None
    BY <2>1 DEF Well, Sound, Mutual
  <2> QED
    BY <2>2 DEF Well, Sound, Typed
<1>3. \/ s' = Passed(s, i)
      \/ s' = Passed(TunnelClose(s, i), i)
      \/ \E t \in Writes(s, peer) : s' = Passed(t, i)
  BY DEF ReadTunnel
<1>4. Goes(s, TunnelClose(s, i))
  BY <1>2, TunnelCloseGoes
<1> HIDE DEF peer
<1>5. \A t \in Writes(s, peer) : Goes(s, t)
  BY <1>2, WritesGoes
<1>6. PICK e : s' = Passed(e, i) /\ Goes(s, e)
  BY <1>3, <1>4, <1>5, GoesNowhere
<1> QED
  BY <1>1, <1>6, PassedGoes

\* A request.
LEMMA ReadClientGoes ==
  ASSUME Well(s), NEW i \in Fds, ReadClient(i)
  PROVE  Goes(s, s')
<1>1. i \in Nat /\ s.kernel[i] # None /\ s.slot[i].flags \cap Proxying = {}
  BY TableAssumption, TurnOpen DEF ReadClient, Well
<1>2. PICK t : /\ s' = Passed(t, i)
               /\ \/ t \in {s, Close(s, i)} \/ t \in Responds(s, i)
                  \/ t \in Defers(s, i) \/ t \in Proxies(s, i)
  BY DEF ReadClient
<1>3. Goes(s, t)
  BY <1>1, <1>2, GoesNowhere, CloseGoes, RespondsGoes, DefersGoes, ProxiesGoes
<1> QED
  BY <1>1, <1>2, <1>3, PassedGoes

\* A module keeps state: with the generation of a client, never zero.
LEMMA AttachGoes ==
  ASSUME Well(s), NEW i \in Fds, Attach(i)
  PROVE  Goes(s, s')
<1> DEFINE m == [sock |-> s.slot[i].sock, gen |-> s.slot[i].gen]
           e == [s EXCEPT !.module[i] = m]
<1>1. /\ SameTables(s, e) /\ e.cursor = s.cursor /\ e.sockets = s.sockets
      /\ e.generation = s.generation /\ e.handles = s.handles
  BY DEF SameTables, Well, Sound, Typed, Fields
<1>2. s' = Passed(e, i) /\ s.slot[i].live /\ s.slot[i].flags \cap Proxying = {}
  BY DEF Attach
<1>3. DOMAIN s = Fields /\ DOMAIN s.module = Fds
  BY DEF Well, Sound, Typed, Numbered
<1>4. /\ e.module = [s.module EXCEPT ![i] = m]
      /\ e.slot = s.slot /\ e.kernel = s.kernel /\ e.pair = s.pair
      /\ e.clients = s.clients /\ e.proxied = s.proxied /\ e.hooks = s.hooks
  BY <1>3 DEF Fields
<1>5. m \in [sock : Nat, gen : Nat] /\ m.sock = s.slot[i].sock /\ m.gen = s.slot[i].gen
  BY DEF Well, Sound, Typed, SlotTyped
<1>6. s.pair[i] = None
  BY <1>2, TurnOpen, NoPeer DEF Attach, Well
<1>7. m.gen \in 1..s.generation
  <2>1. /\ s.slot[i].gen \in Nat /\ s.generation \in Nat
        /\ s.slot[i].gen <= s.generation /\ s.slot[i].gen # 0
    BY <1>2, <1>6 DEF Well, Sound, Typed, SlotTyped, Generations
  <2> QED
    BY <1>5, <2>1
<1> HIDE DEF e, m
<1>8. Sound(e)
  BY <1>1, SameTablesSound DEF Well, Sound, Typed
<1>9. e.module \in [Fds -> [sock : Nat, gen : Nat]]
  BY <1>4, <1>5 DEF Well, Numbered
<1>10. Numbered(e)
  BY <1>1, <1>4, <1>9 DEF Well, Numbered
<1>11. Counted(e)
  BY <1>1, <1>4 DEF Well, Counted, IsOpenIn
<1>12. Generations(e)
  <2>1. e.module[i] = m /\ \A f \in Fds \ {i} : e.module[f] = s.module[f]
    BY <1>3, <1>4
  <2> QED
    BY <1>1, <1>4, <1>5, <1>7, <2>1 DEF Well, Generations
<1>13. Moves(s, e)
  BY <1>1, <1>4 DEF Moves, Well, Sound, Typed
<1>14. Goes(s, e)
  BY <1>8, <1>10, <1>11, <1>12, <1>13 DEF Goes, Well
<1>15. i \in Nat
  BY TableAssumption
<1> QED
  BY <1>2, <1>14, <1>15, PassedGoes

\* A worker's result.
LEMMA DeferredGoes ==
  ASSUME Well(s), NEW h \in s.handles, DeferFinish(h) \/ DeferAbort(h)
  PROVE  Goes(s, s')
<1> DEFINE c == WithoutHandle(h)
           d == DropFlags(c, h.fd, {"deferred"})
<1>1. h.fd \in Fds
  BY DEF Well, Sound, Typed
<1>2. Goes(s, c)
  <2>1. /\ SameTables(s, c) /\ c.cursor = s.cursor /\ c.sockets = s.sockets
        /\ c.generation = s.generation /\ c.handles = s.handles \ {h}
    BY DEF WithoutHandle, SameTables, Well, Sound, Typed, Fields
  <2>2. Kept(s, c)
    BY DEF WithoutHandle, Kept, Well, Sound, Typed, Fields
  <2> HIDE DEF c
  <2>3. Sound(c)
    BY <2>1, SameTablesSound DEF Well, Sound, Typed
  <2> QED
    BY <2>2, <2>3, KeptGoes
<1>3. Goes(s, d)
  <2> HIDE DEF c
  <2>1. Goes(c, DropFlags(c, h.fd, {"deferred"}))
    BY <1>1, <1>2, MarkGoes DEF Goes
  <2> QED
    BY <1>2, <2>1, GoesOn
<1>4. \/ s' \in {c, Close(d, h.fd)}
      \/ \E e \in {d} \cup Writes(d, h.fd) : s' \in Finishes(e, h.fd)
  BY DEF DeferFinish, DeferAbort
<1> HIDE DEF c, d
<1>5. CASE s' = c
  BY <1>2, <1>5
<1>6. CASE s' = Close(d, h.fd)
  <2>1. Goes(d, s')
    BY <1>1, <1>3, <1>6, CloseGoes DEF Goes
  <2> QED
    BY <1>3, <2>1, GoesOn
<1>7. ASSUME NEW e \in {d} \cup Writes(d, h.fd), s' \in Finishes(e, h.fd)
      PROVE  Goes(s, s')
  <2>1. Goes(d, e)
    BY <1>1, <1>3, WritesGoes, GoesNowhere DEF Goes
  <2>2. Goes(s, e)
    BY <1>3, <2>1, GoesOn
  <2>3. Goes(e, s')
    BY <1>1, <1>7, <2>2, FinishesGoes DEF Goes
  <2> QED
    BY <2>2, <2>3, GoesOn
<1> QED
  BY <1>4, <1>5, <1>6, <1>7

-----------------------------------------------------------------------------
(* What follows of every behaviour.                                         *)

LEMMA InitWell == Init => Well(s)
<1> SUFFICES ASSUME Init PROVE Well(s)
  OBVIOUS
<1>1. /\ DOMAIN s = Fields /\ s.kernel = [fd \in Fds |-> None]
      /\ s.slot = [fd \in Fds |-> Dead] /\ s.pair = [fd \in Fds |-> None]
      /\ s.active = {Srv} /\ s.readable = {} /\ s.cursor = 0
      /\ s.sockets = 0 /\ s.generation = 0 /\ s.handles = {}
      /\ s.module = [fd \in Fds |-> [sock |-> 0, gen |-> 0]]
      /\ s.clients = {} /\ s.proxied = {}
      /\ s.hooks = [n \in 1..MaxSockets |-> 0]
  BY DEF Init, Fields
<1>2. Sound(s)
  <2>1. Typed(s)
    BY <1>1, DeadTyped DEF Typed, None
  <2>2. Watched(s) /\ Owned(s)
    BY <1>1 DEF Watched, Owned
  <2>3. Mutual(s)
    BY <1>1 DEF Mutual, Dead
  <2> QED
    BY <2>1, <2>2, <2>3 DEF Sound
<1>3. Numbered(s)
  BY <1>1, TableAssumption DEF Numbered, None
<1>4. Counted(s)
  BY <1>1 DEF Counted, Dead
<1>5. Generations(s)
  BY <1>1 DEF Generations, Dead
<1> QED
  BY <1>2, <1>3, <1>4, <1>5 DEF Well

\* What every step of the loop does, whichever calls it is made of.
LEMMA NextGoes ==
  ASSUME NoReset, Well(s), [Next]_vars
  PROVE  Goes(s, s')
<1>1. CASE Select \/ SelectTimeout \/ SelectFails \/ EndPass
  BY <1>1, SelectGoes
<1>2. CASE AcceptNew
  <2>1. PICK t \in Accepts(s) : s' = Passed(t, Srv)
    BY <1>2 DEF AcceptNew
  <2> QED
    BY <2>1, AcceptsGoes, PassedGoes, TableAssumption
<1>3. ASSUME NEW fd \in Fds, FlushQueue(fd)
      PROVE  Goes(s, s')
  BY <1>3, FlushesGoes DEF FlushQueue
<1>4. ASSUME NEW fd \in Fds, SkipPending(fd)
      PROVE  Goes(s, s')
  BY <1>4, PassedGoes, GoesNowhere, TableAssumption DEF SkipPending
<1>5. ASSUME NEW fd \in Fds,
             ReadWaiting(fd) \/ ReadTunnel(fd) \/ ReadClient(fd) \/ Attach(fd)
      PROVE  Goes(s, s')
  BY <1>5, ReadWaitingGoes, ReadTunnelGoes, ReadClientGoes, AttachGoes
<1>6. ASSUME NEW h \in s.handles, DeferFinish(h) \/ DeferAbort(h)
      PROVE  Goes(s, s')
  BY <1>6, DeferredGoes
<1>7. CASE UNCHANGED vars
  BY <1>7, GoesNowhere DEF vars
<1> QED
  BY <1>1, <1>2, <1>3, <1>4, <1>5, <1>6, <1>7 DEF Next

\* The tables and their history stay well.
THEOREM StaysWell ==
  ASSUME NoReset
  PROVE  Spec => []Well(s)
<1>1. Well(s) /\ [Next]_vars => Well(s)'
  BY NextGoes DEF Goes
<1> QED
  BY <1>1, InitWell, PTL DEF Spec

\* axil_close() calls axil_disconnect() once for each client that was never
\* proxied, not before it is closed and never again.
THEOREM DisconnectsOnce ==
  ASSUME NoReset
  PROVE  Spec => []DisconnectOnce
<1>1. Well(s) => DisconnectOnce
  BY DEF Well, Counted, DisconnectOnce, IsOpenIn, IsOpen
<1> QED
  BY <1>1, StaysWell, PTL

\* The generation of axil_new() is enough for a module to tell a connection
\* from the one that had its number before.
THEOREM GenerationsDiffer ==
  ASSUME NoReset
  PROVE  Spec => []GenerationsTellApart
<1>1. Well(s) => GenerationsTellApart
  BY DEF Well, Generations, GenerationsTellApart
<1> QED
  BY <1>1, StaysWell, PTL

\* axil_tunnel_close_raw() and axil_close(), from whichever end they start,
\* take both ends of a proxied WebSocket in one step.
THEOREM PairsCloseAsOne ==
  ASSUME NoReset
  PROVE  Spec => PairsCloseTogether
<1>1. ASSUME Well(s), Goes(s, s'), NEW fd \in Fds, s.pair[fd] # None,
             s'.kernel[fd] # s.kernel[fd]
      PROVE  s'.kernel[s.pair[fd]] # s.kernel[s.pair[fd]]
  <2>1. s.pair[fd] \in Fds
    BY <1>1 DEF Well, Sound, Typed
  <2> QED
    BY <1>1, <2>1 DEF Goes, Moves
<1>2. Well(s) /\ [Next]_vars =>
        [\A fd \in Fds :
           s.pair[fd] # None /\ s'.kernel[fd] # s.kernel[fd]
             => s'.kernel[s.pair[fd]] # s.kernel[s.pair[fd]]]_vars
  BY <1>1, NextGoes
<1> QED
  BY <1>2, StaysWell, PTL DEF Spec, PairsCloseTogether
=============================================================================
