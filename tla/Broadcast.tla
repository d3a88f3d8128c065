----------------------------- MODULE Broadcast -----------------------------
(***************************************************************************)
(* axil_wall(), cleanup() and axil_close() as the calls they are: a        *)
(* broadcast writes, a write that fails closes, a close runs the           *)
(* axil_disconnect() hook, and the hook may broadcast.  The calls that have *)
(* not returned are a stack, and each step does what the top one does next. *)
(***************************************************************************)
EXTENDS Naturals, Sequences

CONSTANTS
  MaxFd,           \* FD_SETSIZE - 1
  Announces,       \* does the hook broadcast?
  MaxConnections,  \* bound: accepts
  MaxDepth         \* bound: calls in progress; no write fails beyond it

BroadcastAssumption ==
  /\ MaxFd \in Nat
  /\ Announces \in BOOLEAN /\ MaxConnections \in Nat /\ MaxDepth \in Nat

Fds == 1..MaxFd

VARIABLES
  loop,      \* "run", "handle" (an event's handlers may run), "exit", "gone"
  kernel,    \* the connection that has a number, 0 for none
  slot,      \* descr_map[]: is d->fd the number, and DF_CONNECTED
  ready,     \* fds_read
  stack,     \* the calls in progress
  accepted,  \* connections so far
  dead,      \* history: a teardown of a number that was closed already
  wall       \* history: the last broadcast: who was connected, who was read for

vars == <<loop, kernel, slot, ready, stack, accepted, dead, wall>>

NoSlot == [open |-> FALSE, connected |-> FALSE]
NoWall == [of |-> {}, ready |-> {}, to |-> {}]

Init ==
  /\ loop = "run" /\ kernel = [f \in Fds |-> 0] /\ slot = [f \in Fds |-> NoSlot]
  /\ ready = {} /\ stack = <<>> /\ accepted = 0
  /\ dead = FALSE /\ wall = NoWall

Active == {f \in Fds : slot[f].open}

\* DESCR_ITER.
Iterated == {f \in ready : slot[f].connected}

Call(op, f) == [op |-> op, fd |-> f]

-----------------------------------------------------------------------------
(* The loop, between calls.                                                 *)

Idle == stack = <<>>

Accept(f) ==
  /\ Idle /\ loop = "handle" /\ ~slot[f].open /\ accepted < MaxConnections
  /\ accepted' = accepted + 1
  /\ kernel' = [kernel EXCEPT ![f] = accepted + 1]
  /\ slot' = [slot EXCEPT ![f].open = TRUE]
  /\ UNCHANGED <<loop, ready, stack, dead, wall>>

\* axil_auth() or an upgrade, for a descriptor that is read.
Connect(f) ==
  /\ Idle /\ loop = "handle" /\ f \in ready /\ slot[f].open
  /\ slot' = [slot EXCEPT ![f].connected = TRUE]
  /\ UNCHANGED <<loop, kernel, ready, stack, accepted, dead, wall>>

\* select(): what it reports, nothing when it times out, and what it was asked
\* for when it fails.
Select ==
  /\ Idle /\ loop \in {"run", "handle"}
  /\ \/ ready' \in SUBSET Active /\ loop' = "handle"
     \/ ready' \in {{}, Active} /\ loop' = "run"
  /\ UNCHANGED <<kernel, slot, stack, accepted, dead, wall>>

\* A signal clears AXIL_WAKE; atexit() runs cleanup().
Shutdown ==
  /\ Idle /\ loop = "run"
  /\ loop' = "exit" /\ stack' = <<Call("cleanup", 1)>>
  /\ UNCHANGED <<kernel, slot, ready, accepted, dead, wall>>

\* axil_update() or a handler broadcasts.
StartWall ==
  /\ Idle /\ loop \in {"run", "handle"}
  /\ stack' = <<Call("wall", 1)>>
  /\ wall' = [of |-> {f \in Fds : slot[f].connected}, ready |-> Iterated, to |-> {}]
  /\ UNCHANGED <<loop, kernel, slot, ready, accepted, dead>>

\* A handler responds: it writes, and closes whether or not the write did.
StartRespond(f) ==
  /\ Idle /\ loop = "handle" /\ f \in ready /\ slot[f].open
  /\ stack' = <<Call("write", f), Call("close", f)>>
  /\ UNCHANGED <<loop, kernel, slot, ready, accepted, dead, wall>>

-----------------------------------------------------------------------------
(* The calls.                                                               *)

Top(op) == stack # <<>> /\ Head(stack).op = op
F == Head(stack).fd
Then(calls) == stack' = calls \o Tail(stack)

\* Mutant of AfterWrite: a broadcast ends with the first write that fails.
AfterWriteStops(failed) ==
  IF ~failed THEN Then(<<>>)
  ELSE stack' = <<Call("close", F)>> \o SelectSeq(Tail(stack), LAMBDA c : c.op # "wall")

\* axil_low_write(): an error closes.
AfterWrite(failed) == IF failed THEN Then(<<Call("close", F)>>) ELSE Then(<<>>)

Write ==
  /\ Top("write")
  /\ \E failed \in BOOLEAN :
       /\ failed => Len(stack) < MaxDepth
       /\ AfterWrite(failed)
  /\ wall' = [wall EXCEPT !.to = @ \cup {F}]
  /\ UNCHANGED <<loop, kernel, slot, ready, accepted, dead>>

\* axil_wall(), at number F.
Wall ==
  /\ Top("wall")
  /\ IF F \notin Fds THEN Then(<<>>)
     ELSE IF F \in Iterated THEN Then(<<Call("write", F), Call("wall", F + 1)>>)
     ELSE Then(<<Call("wall", F + 1)>>)
  /\ UNCHANGED <<loop, kernel, slot, ready, accepted, dead, wall>>

\* cleanup(), at number F; then the process is gone.
Cleanup ==
  /\ Top("cleanup")
  /\ IF F \notin Fds THEN Then(<<>>) /\ loop' = "gone"
     ELSE /\ IF F \in Iterated THEN Then(<<Call("close", F), Call("cleanup", F + 1)>>)
             ELSE Then(<<Call("cleanup", F + 1)>>)
          /\ UNCHANGED loop
  /\ UNCHANGED <<kernel, slot, ready, accepted, dead, wall>>

\* Mutant of Closable: whatever the number is.
ClosableAny(f) == TRUE

\* d->fd = fd.
Closable(f) == slot[f].open

\* axil_close(): a number that is not its own slot's returns at once; else the
\* hook runs before anything but the queue is gone.
Close ==
  /\ Top("close")
  /\ IF Closable(F)
       THEN /\ dead' = (dead \/ kernel[F] = 0)
            /\ Then(IF Announces THEN <<Call("wall", 1), Call("rest", F)>>
                                 ELSE <<Call("rest", F)>>)
       ELSE Then(<<>>) /\ UNCHANGED dead
  /\ UNCHANGED <<loop, kernel, slot, ready, accepted, wall>>

\* memset() and d->fd = -1.
Reset(s) == NoSlot

\* The rest of axil_close(): the sets, the number, the slot.
Rest ==
  /\ Top("rest") /\ Then(<<>>)
  /\ ready' = ready \ {F}
  /\ dead' = (dead \/ kernel[F] = 0)
  /\ kernel' = [kernel EXCEPT ![F] = 0]
  /\ slot' = [slot EXCEPT ![F] = Reset(@)]
  /\ UNCHANGED <<loop, accepted, wall>>

Next ==
  \/ \E f \in Fds : Accept(f) \/ Connect(f) \/ StartRespond(f)
  \/ Select \/ Shutdown \/ StartWall
  \/ Write \/ Wall \/ Cleanup \/ Close \/ Rest

Spec == Init /\ [][Next]_vars

-----------------------------------------------------------------------------
(* Properties.                                                              *)

\* Every variable has its type, and only what is open is connected.
TypeOK ==
  /\ loop \in {"run", "handle", "exit", "gone"} /\ ready \subseteq Fds
  /\ kernel \in [Fds -> 0..MaxConnections]
  /\ slot \in [Fds -> [open : BOOLEAN, connected : BOOLEAN]]
  /\ \A f \in Fds : slot[f].connected => slot[f].open

\* A broadcast tries everyone that select() reported and that is connected,
\* even when the writes to some of them fail and close them (DESCR_ITER).
ReportedHear == Idle => wall.ready \subseteq wall.to

\* However often a connection is closed, by the write that failed, by the
\* response it was part of, by the exit: axil_close()'s comment says a second
\* pass "would re-run axil_disconnect(), cleanup_descr(), shutdown() and close()
\* against a dead number", and the test of d->fd "is exactly the window this
\* closes".
NeverClosesTheDead == ~dead
=============================================================================
