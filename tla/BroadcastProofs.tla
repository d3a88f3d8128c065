-------------------------- MODULE BroadcastProofs --------------------------
(***************************************************************************)
(* Proofs for Broadcast, where the axil_disconnect() hook does not         *)
(* broadcast: no number is torn down twice, and a broadcast writes to      *)
(* everyone it was read for, whatever the writes before it closed.         *)
(***************************************************************************)
EXTENDS Broadcast, SequenceTheorems, TLAPS

\* The calls that return to the loop or to one of the others, and those that
\* a call of the first kind makes.
Outer == [op : {"wall", "cleanup"}, fd : 1..(MaxFd + 1)] \cup [op : {"close"}, fd : Fds]
Inner == [op : {"write", "close", "rest"}, fd : Fds]

\* A broadcast has passed the number that it writes to, and that closes.
Under(a, b) == b.op = "wall" => a.fd < b.fd

\* No call is more than one deep in another.
Nested ==
  \/ stack = <<>>
  \/ \E a \in Inner \cup Outer : stack = <<a>>
  \/ \E a \in Inner, b \in Outer : stack = <<a, b>> /\ Under(a, b)

Typed ==
  /\ TypeOK /\ accepted \in Nat
  /\ wall \in [of : SUBSET Fds, ready : SUBSET Fds, to : SUBSET Fds]

\* A slot is open exactly while the number is, and one being closed is.
Agree ==
  /\ \A f \in Fds : slot[f].open <=> kernel[f] # 0
  /\ \A f \in Fds : Top("rest") /\ F = f => slot[f].open

\* Everyone a broadcast at number k has still to write to is ahead of it.
Ahead(k) ==
  \A f \in wall.ready :
    f \in wall.to \/ (k <= f /\ f \in Iterated) \/ (Top("write") /\ F = f)

\* The broadcast in progress, if b, the call under which others are made, is
\* one, or else the last one.
HeardBy(b) == IF b.op = "wall" THEN Ahead(b.fd) ELSE wall.ready \subseteq wall.to

Heard ==
  /\ Idle => wall.ready \subseteq wall.to
  /\ \A a \in Inner \cup Outer : stack = <<a>> => HeardBy(a)
  /\ \A a \in Inner, b \in Outer : stack = <<a, b>> => HeardBy(b)

IInv == Typed /\ Nested /\ Agree /\ Heard /\ ~dead


-----------------------------------------------------------------------------

\* Stacks of two calls at most, and what a return or a call makes of them.
LEMMA Stacks ==
  ASSUME NEW a, NEW b, NEW x, NEW y
  PROVE  /\ Head(<<a>>) = a /\ Tail(<<a>>) = <<>>
         /\ Head(<<a, b>>) = a /\ Tail(<<a, b>>) = <<b>>
         /\ <<x>> \o <<>> = <<x>> /\ <<x, y>> \o <<>> = <<x, y>>
         /\ <<x>> \o <<b>> = <<x, b>>
         /\ <<>> \o <<>> = <<>> /\ <<>> \o <<b>> = <<b>>
         /\ <<a>> # <<>> /\ <<a, b>> # <<>> /\ <<a, b>> # <<x>>
         /\ <<a>> = <<x>> => a = x
         /\ <<a, b>> = <<x, y>> => a = x /\ b = y
<1>1. Head(<<a>>) = a /\ Tail(<<a>>) = <<>>
  OBVIOUS
<1>2. Head(<<a, b>>) = a /\ Tail(<<a, b>>) = <<b>>
  OBVIOUS
<1>3. <<x>> \o <<>> = <<x>> /\ <<x, y>> \o <<>> = <<x, y>>
  OBVIOUS
<1>4. <<x>> \o <<b>> = <<x, b>>
  <2> DEFINE S == {x, b}
  <2>1. <<x>> \in Seq(S) /\ <<b>> \in Seq(S) /\ <<x, b>> \in Seq(S)
    OBVIOUS
  <2>2. /\ <<x>> \o <<b>> \in Seq(S) /\ Len(<<x>> \o <<b>>) = 2
        /\ (<<x>> \o <<b>>)[1] = x /\ (<<x>> \o <<b>>)[2] = b
    <3> HIDE DEF S
    <3> QED
      BY <2>1, ConcatProperties
  <2>3. Len(<<x, b>>) = 2 /\ <<x, b>>[1] = x /\ <<x, b>>[2] = b
    OBVIOUS
  <2> HIDE DEF S
  <2>4. \A i \in 1..Len(<<x>> \o <<b>>) : (<<x>> \o <<b>>)[i] = <<x, b>>[i]
    BY <2>2, <2>3
  <2> QED
    BY <2>1, <2>2, <2>3, <2>4, SeqEqual
<1>5. <<>> \o <<>> = <<>> /\ <<>> \o <<b>> = <<b>>
  OBVIOUS
<1>6. <<a>> # <<>> /\ <<a, b>> # <<>>
  OBVIOUS
<1>7. <<a, b>> # <<x>>
  OBVIOUS
<1>8. <<a>> = <<x>> => a = x
  OBVIOUS
<1>9. <<a, b>> = <<x, y>> => a = x /\ b = y
  OBVIOUS
<1> QED
  BY <1>1, <1>2, <1>3, <1>4, <1>5, <1>6, <1>7, <1>8, <1>9

\* The top call is of one of the two kinds, and what is under it.
LEMMA TopOf ==
  ASSUME Nested, NEW op, Top(op)
  PROVE  \/ \E a \in Inner \cup Outer : stack = <<a>> /\ a.op = op /\ F = a.fd
         \/ \E a \in Inner, b \in Outer :
              stack = <<a, b>> /\ Under(a, b) /\ a.op = op /\ F = a.fd
BY Stacks DEF Nested, Top, F


\* What has to be shown of a step that leaves no call, one or two.
LEMMA NoCall ==
  ASSUME stack' = <<>>, (wall.ready \subseteq wall.to)'
  PROVE  Nested' /\ Heard'
BY Stacks DEF Nested, Heard, Idle

LEMMA OneCall ==
  ASSUME NEW a \in Inner \cup Outer, stack' = <<a>>, HeardBy(a)'
  PROVE  Nested' /\ Heard'
<1>1. Nested'
  BY DEF Nested, Inner, Outer, Fds
<1>2. stack' # <<>> /\ \A x, y : stack' # <<x, y>> /\ (stack' = <<x>> => x = a)
  BY Stacks
<1>3. Heard'
  BY <1>2 DEF Heard, Idle, Inner, Outer, Fds
<1> QED
  BY <1>1, <1>3

LEMMA TwoCalls ==
  ASSUME NEW a \in Inner, NEW b \in Outer, stack' = <<a, b>>, Under(a, b), HeardBy(b)'
  PROVE  Nested' /\ Heard'
<1>1. Nested'
  BY DEF Nested, Inner, Outer, Fds
<1>2. stack' # <<>> /\ \A x, y : stack' # <<x>> /\ (stack' = <<x, y>> => x = a /\ y = b)
  BY Stacks
<1>3. Heard'
  BY <1>2 DEF Heard, Idle, Inner, Outer, Fds
<1> QED
  BY <1>1, <1>3

\* The top call and the one under it in the next state.
LEMMA TopThen ==
  ASSUME NEW a, NEW b, stack' = <<a>> \/ stack' = <<a, b>>
  PROVE  F' = a.fd /\ \A op : Top(op)' <=> a.op = op
BY Stacks DEF F, Top


-----------------------------------------------------------------------------
(* The loop, between calls.                                                 *)

LEMMA AcceptKeeps ==
  ASSUME IInv, NEW f \in Fds, Accept(f), BroadcastAssumption
  PROVE  IInv'
<1>1. Typed'
  <2>1. kernel' \in [Fds -> 0..MaxConnections] /\ accepted' \in Nat
    <3>1. accepted \in Nat /\ accepted + 1 \in 0..MaxConnections
      BY DEF IInv, Typed, Accept, BroadcastAssumption
    <3> QED
      BY <3>1 DEF IInv, Typed, TypeOK, Accept
  <2>2. /\ slot' \in [Fds -> [open : BOOLEAN, connected : BOOLEAN]]
        /\ \A g \in Fds : slot'[g].connected => slot'[g].open
    BY DEF IInv, Typed, TypeOK, Accept
  <2> QED
    BY <2>1, <2>2 DEF IInv, Typed, TypeOK, Accept
<1>2. Nested' /\ Heard'
  BY NoCall DEF IInv, Heard, Accept, Idle
<1>3. Agree'
  <2>1. ~Top("rest")'
    BY DEF Accept, Idle, Top
  <2>2. accepted \in Nat /\ accepted + 1 # 0
    BY DEF IInv, Typed
  <2> QED
    BY <2>1, <2>2 DEF IInv, Agree, Typed, TypeOK, Accept
<1> QED
  BY <1>1, <1>2, <1>3 DEF IInv, Accept

LEMMA ConnectKeeps ==
  ASSUME IInv, NEW f \in Fds, Connect(f)
  PROVE  IInv'
<1>1. Typed'
  BY DEF IInv, Typed, TypeOK, Connect
<1>2. Nested' /\ Heard'
  BY NoCall DEF IInv, Heard, Connect, Idle
<1>3. Agree'
  <2>1. ~Top("rest")'
    BY DEF Connect, Idle, Top
  <2> QED
    BY <2>1 DEF IInv, Agree, Typed, TypeOK, Connect
<1> QED
  BY <1>1, <1>2, <1>3 DEF IInv, Connect

LEMMA SelectKeeps ==
  ASSUME IInv, Select
  PROVE  IInv'
<1>1. Typed'
  BY DEF IInv, Typed, TypeOK, Select, Active
<1>2. Nested' /\ Heard'
  BY NoCall DEF IInv, Heard, Select, Idle
<1>3. Agree'
  <2>1. ~Top("rest")'
    BY DEF Select, Idle, Top
  <2> QED
    BY <2>1 DEF IInv, Agree, Select
<1> QED
  BY <1>1, <1>2, <1>3 DEF IInv, Select

LEMMA ShutdownKeeps ==
  ASSUME IInv, Shutdown, BroadcastAssumption
  PROVE  IInv'
<1> DEFINE a == Call("cleanup", 1)
<1>1. Typed'
  BY DEF IInv, Typed, TypeOK, Shutdown
<1>2. a \in Outer /\ stack' = <<a>> /\ a.op = "cleanup"
  BY DEF Shutdown, Outer, Call, BroadcastAssumption
<1>3. Nested' /\ Heard'
  <2>1. HeardBy(a)'
    BY <1>2 DEF HeardBy, IInv, Heard, Shutdown
  <2> HIDE DEF a
  <2> QED
    BY <1>2, <2>1, OneCall
<1>4. Agree'
  <2>1. ~Top("rest")'
    BY <1>2, TopThen
  <2> QED
    BY <2>1 DEF IInv, Agree, Shutdown
<1> QED
  BY <1>1, <1>3, <1>4 DEF IInv, Shutdown

LEMMA StartWallKeeps ==
  ASSUME IInv, StartWall, BroadcastAssumption
  PROVE  IInv'
<1> DEFINE a == Call("wall", 1)
<1>1. Typed'
  BY DEF IInv, Typed, TypeOK, StartWall, Iterated
<1>2. a \in Outer /\ stack' = <<a>> /\ a.op = "wall" /\ a.fd = 1
  BY DEF StartWall, Outer, Call, BroadcastAssumption
<1>3. Nested' /\ Heard'
  <2>1. \A f \in Fds : 1 <= f
    BY DEF Fds
  <2>2. HeardBy(a)'
    BY <1>2, <2>1 DEF HeardBy, Ahead, IInv, Typed, TypeOK, StartWall, Iterated
  <2> HIDE DEF a
  <2> QED
    BY <1>2, <2>2, OneCall
<1>4. Agree'
  <2>1. ~Top("rest")'
    BY <1>2, TopThen
  <2> QED
    BY <2>1 DEF IInv, Agree, StartWall
<1> QED
  BY <1>1, <1>3, <1>4 DEF IInv, StartWall

LEMMA StartRespondKeeps ==
  ASSUME IInv, NEW f \in Fds, StartRespond(f)
  PROVE  IInv'
<1> DEFINE a == Call("write", f)
           b == Call("close", f)
<1>1. Typed'
  BY DEF IInv, Typed, TypeOK, StartRespond
<1>2. /\ a \in Inner /\ b \in Outer /\ stack' = <<a, b>>
      /\ a.op = "write" /\ b.op = "close"
  BY DEF StartRespond, Inner, Outer, Call
<1>3. Nested' /\ Heard'
  <2>1. HeardBy(b)' /\ Under(a, b)
    BY <1>2 DEF HeardBy, Under, IInv, Heard, StartRespond
  <2> HIDE DEF a, b
  <2> QED
    BY <1>2, <2>1, TwoCalls
<1>4. Agree'
  <2>1. ~Top("rest")'
    BY <1>2, TopThen
  <2> QED
    BY <2>1 DEF IInv, Agree, StartRespond
<1> QED
  BY <1>1, <1>3, <1>4 DEF IInv, StartRespond


-----------------------------------------------------------------------------
(* The calls.                                                               *)

LEMMA WriteKeeps ==
  ASSUME IInv, Write
  PROVE  IInv'
<1>1. PICK failed \in BOOLEAN : AfterWrite(failed)
  BY DEF Write
<1>0. PICK f \in Fds : F = f
  BY TopOf DEF IInv, Write, Inner, Outer
<1> DEFINE c == Call("close", f)
<1>2. /\ wall' = [wall EXCEPT !.to = @ \cup {F}]
      /\ UNCHANGED <<loop, kernel, slot, ready, accepted, dead>>
  BY DEF Write
<1>3. c \in Inner \cap Outer /\ c.op = "close" /\ c.fd = f
  BY DEF Call, Inner, Outer
<1>4. /\ wall'.ready = wall.ready /\ wall'.to = wall.to \cup {f} /\ wall'.of = wall.of
      /\ Iterated' = Iterated
  BY <1>2, <1>0 DEF IInv, Typed, Iterated
<1>5. Typed'
  BY <1>2, <1>0 DEF IInv, Typed, TypeOK
<1> HIDE DEF c
<1>6. CASE \E a \in Inner \cup Outer : stack = <<a>> /\ a.op = "write" /\ F = a.fd
  <2>1. PICK a \in Inner \cup Outer : stack = <<a>> /\ a.op = "write" /\ F = a.fd
    BY <1>6
  <2>2. stack' = <<c>> \/ stack' = <<>>
    BY <1>1, <1>0, <2>1, Stacks DEF AfterWrite, Then, c
  <2>3. (wall.ready \subseteq wall.to)'
    BY <1>4, <2>1 DEF IInv, Heard, HeardBy
  <2>4. HeardBy(c)'
    BY <1>3, <2>3 DEF HeardBy
  <2>5. Nested' /\ Heard'
    BY <1>3, <2>2, <2>3, <2>4, NoCall, OneCall
  <2>6. ~Top("rest")'
    BY <1>3, <2>2, TopThen DEF Top
  <2> QED
    BY <1>2, <1>5, <2>5, <2>6 DEF IInv, Agree
<1>7. CASE \E a \in Inner, b \in Outer :
              stack = <<a, b>> /\ Under(a, b) /\ a.op = "write" /\ F = a.fd
  <2>1. PICK a \in Inner, b \in Outer :
               stack = <<a, b>> /\ Under(a, b) /\ a.op = "write" /\ F = a.fd
    BY <1>7
  <2>2. stack' = <<c, b>> \/ stack' = <<b>>
    BY <1>1, <1>0, <2>1, Stacks DEF AfterWrite, Then, c
  <2>3. HeardBy(b)'
    <3>1. HeardBy(b)
      BY <2>1 DEF IInv, Heard
    <3> QED
      BY <3>1, <1>4, <1>0 DEF HeardBy, Ahead
  <2>4. Under(c, b)
    BY <1>3, <1>0, <2>1 DEF Under
  <2>5. Nested' /\ Heard'
    BY <1>3, <2>2, <2>3, <2>4, OneCall, TwoCalls
  <2>6. ~Top("rest")'
    BY <1>3, <2>2, TopThen DEF Outer
  <2> QED
    BY <1>2, <1>5, <2>5, <2>6 DEF IInv, Agree
<1> QED
  BY <1>6, <1>7, TopOf DEF IInv, Write

LEMMA WallKeeps ==
  ASSUME IInv, Wall, BroadcastAssumption
  PROVE  IInv'
<1>1. UNCHANGED <<loop, kernel, slot, ready, accepted, dead, wall>>
  BY DEF Wall
<1>2. PICK a \in Outer : stack = <<a>> /\ a.op = "wall" /\ F = a.fd
  BY TopOf DEF IInv, Wall, Inner
<1>3. Ahead(F) /\ ~Top("write")
  BY <1>2, Stacks DEF IInv, Heard, HeardBy, Top
<1> DEFINE k == a.fd
           n == Call("wall", k + 1)
           w == Call("write", k)
<1>4. Typed' /\ Iterated' = Iterated
  BY <1>1 DEF IInv, Typed, TypeOK, Iterated
<1>5. k \in 1..(MaxFd + 1) /\ (k \notin Fds => k = MaxFd + 1) /\ MaxFd \in Nat
  BY <1>2 DEF Outer, Fds, BroadcastAssumption
<1>6. CASE k \notin Fds
  <2>1. stack' = <<>>
    BY <1>2, <1>6, Stacks DEF Wall, Then
  <2>2. \A f \in Fds : ~(k <= f)
    BY <1>5, <1>6 DEF Fds
  <2>3. (wall.ready \subseteq wall.to)'
    BY <1>1, <1>2, <1>3, <2>2 DEF Ahead, Iterated, IInv, Typed
  <2>4. Nested' /\ Heard'
    BY <2>1, <2>3, NoCall
  <2>5. ~Top("rest")'
    BY <2>1 DEF Top
  <2> QED
    BY <1>1, <1>4, <2>4, <2>5 DEF IInv, Agree
<1>7. CASE k \in Fds
  <2>1. /\ n \in Outer /\ n.op = "wall" /\ n.fd = k + 1
        /\ w \in Inner /\ w.op = "write" /\ w.fd = k /\ Under(w, n)
    BY <1>5, <1>7 DEF Call, Inner, Outer, Fds, Under
  <2>2. \A f \in Fds : k <= f => f = k \/ k + 1 <= f
    BY <1>5 DEF Fds
  <2>3. CASE k \in Iterated
    <3>1. stack' = <<w, n>>
      BY <1>2, <1>7, <2>3, Stacks DEF Wall, Then
    <3> HIDE DEF w, n
    <3>2. F' = k /\ Top("write")' /\ ~Top("rest")'
      BY <2>1, <3>1, TopThen
    <3>3. HeardBy(n)'
      BY <1>1, <1>2, <1>3, <1>4, <2>1, <2>2, <3>2 DEF HeardBy, Ahead, IInv, Typed
    <3>4. Nested' /\ Heard'
      BY <2>1, <3>1, <3>3, TwoCalls
    <3> QED
      BY <1>1, <1>4, <3>2, <3>4 DEF IInv, Agree
  <2>4. CASE k \notin Iterated
    <3>1. stack' = <<n>>
      BY <1>2, <1>7, <2>4, Stacks DEF Wall, Then
    <3> HIDE DEF w, n
    <3>2. ~Top("rest")'
      BY <2>1, <3>1, TopThen
    <3>3. HeardBy(n)'
      BY <1>1, <1>2, <1>3, <1>4, <2>1, <2>2, <2>4 DEF HeardBy, Ahead, IInv, Typed
    <3>4. Nested' /\ Heard'
      BY <2>1, <3>1, <3>3, OneCall
    <3> QED
      BY <1>1, <1>4, <3>2, <3>4 DEF IInv, Agree
  <2> QED
    BY <2>3, <2>4
<1> QED
  BY <1>6, <1>7


LEMMA CleanupKeeps ==
  ASSUME IInv, Cleanup, BroadcastAssumption
  PROVE  IInv'
<1>1. UNCHANGED <<kernel, slot, ready, accepted, dead, wall>> /\ loop' \in {loop, "gone"}
  BY DEF Cleanup
<1>2. PICK a \in Outer : stack = <<a>> /\ a.op = "cleanup" /\ F = a.fd
  BY TopOf DEF IInv, Cleanup, Inner
<1>3. (wall.ready \subseteq wall.to)'
  BY <1>1, <1>2 DEF IInv, Heard, HeardBy
<1> DEFINE k == a.fd
           n == Call("cleanup", k + 1)
           c == Call("close", k)
<1>4. Typed'
  BY <1>1 DEF IInv, Typed, TypeOK
<1>5. k \in 1..(MaxFd + 1) /\ MaxFd \in Nat
  BY <1>2 DEF Outer, Fds, BroadcastAssumption
<1>6. CASE k \notin Fds
  <2>1. stack' = <<>>
    BY <1>2, <1>6, Stacks DEF Cleanup, Then
  <2>2. Nested' /\ Heard'
    BY <1>3, <2>1, NoCall
  <2>3. ~Top("rest")'
    BY <2>1 DEF Top
  <2> QED
    BY <1>1, <1>4, <2>2, <2>3 DEF IInv, Agree
<1>7. CASE k \in Fds
  <2>1. /\ n \in Outer /\ n.op = "cleanup"
        /\ c \in Inner /\ c.op = "close" /\ Under(c, n)
    BY <1>5, <1>7 DEF Call, Inner, Outer, Fds, Under
  <2>2. stack' = <<c, n>> \/ stack' = <<n>>
    BY <1>2, <1>7, Stacks DEF Cleanup, Then
  <2> HIDE DEF c, n
  <2>3. HeardBy(n)'
    BY <1>3, <2>1 DEF HeardBy
  <2>4. Nested' /\ Heard'
    BY <2>1, <2>2, <2>3, OneCall, TwoCalls
  <2>5. ~Top("rest")'
    BY <2>1, <2>2, TopThen
  <2> QED
    BY <1>1, <1>4, <2>4, <2>5 DEF IInv, Agree
<1> QED
  BY <1>6, <1>7

\* A close that goes on is of a number that is open, and one that was closed
\* in the meantime returns at once.
LEMMA CloseKeeps ==
  ASSUME IInv, Close, ~Announces
  PROVE  IInv'
<1>0. PICK f \in Fds : F = f
  BY TopOf DEF IInv, Close, Inner, Outer
<1> DEFINE r == Call("rest", f)
<1>1. UNCHANGED <<loop, kernel, slot, ready, accepted, wall>>
  BY DEF Close
<1>2. r \in Inner /\ r.op = "rest" /\ r.fd = f
  BY DEF Call, Inner
<1>3. ~dead'
  BY <1>0 DEF Close, Closable, IInv, Agree
<1>4. Typed' /\ Iterated' = Iterated
  BY <1>1 DEF IInv, Typed, TypeOK, Iterated
<1>5. \/ slot[f].open /\ stack' = <<r>> \o Tail(stack)
      \/ stack' = <<>> \o Tail(stack)
  BY <1>0 DEF Close, Closable, Then
<1> HIDE DEF r
<1>6. CASE \E a \in Inner \cup Outer : stack = <<a>> /\ a.op = "close"
  <2>1. PICK a \in Inner \cup Outer : stack = <<a>> /\ a.op = "close"
    BY <1>6
  <2>2. (slot[f].open /\ stack' = <<r>>) \/ stack' = <<>>
    BY <1>5, <2>1, Stacks
  <2>3. (wall.ready \subseteq wall.to)'
    BY <1>1, <2>1 DEF IInv, Heard, HeardBy
  <2>4. HeardBy(r)'
    BY <1>2, <2>3 DEF HeardBy
  <2>5. Nested' /\ Heard'
    BY <1>2, <2>2, <2>3, <2>4, NoCall, OneCall
  <2>6. Top("rest")' => F' = f /\ slot[f].open
    BY <1>2, <2>2, TopThen DEF Top
  <2> QED
    BY <1>1, <1>3, <1>4, <2>5, <2>6 DEF IInv, Agree
<1>7. CASE \E a \in Inner, b \in Outer :
              stack = <<a, b>> /\ Under(a, b) /\ a.op = "close" /\ F = a.fd
  <2>1. PICK a \in Inner, b \in Outer :
               stack = <<a, b>> /\ Under(a, b) /\ a.op = "close" /\ F = a.fd
    BY <1>7
  <2>2. (slot[f].open /\ stack' = <<r, b>>) \/ stack' = <<b>>
    BY <1>5, <2>1, Stacks
  <2>3. HeardBy(b)'
    <3>1. HeardBy(b) /\ ~Top("write")
      BY <2>1, Stacks DEF IInv, Heard, Top
    <3> QED
      BY <3>1, <1>1, <1>4 DEF HeardBy, Ahead
  <2>4. Under(r, b)
    BY <1>0, <1>2, <2>1 DEF Under
  <2>5. Nested' /\ Heard'
    BY <1>2, <2>2, <2>3, <2>4, OneCall, TwoCalls
  <2>6. Top("rest")' => F' = f /\ slot[f].open
    BY <1>2, <2>2, TopThen DEF Outer
  <2> QED
    BY <1>1, <1>3, <1>4, <2>5, <2>6 DEF IInv, Agree
<1> QED
  BY <1>6, <1>7, TopOf DEF IInv, Close

\* The rest of a close: the number is open, and behind the broadcast that wrote
\* to it.
LEMMA RestKeeps ==
  ASSUME IInv, Rest, BroadcastAssumption
  PROVE  IInv'
<1>0. PICK f \in Fds : F = f
  BY TopOf DEF IInv, Rest, Inner, Outer
<1>1. /\ stack' = <<>> \o Tail(stack) /\ UNCHANGED <<loop, accepted, wall>>
      /\ ready' = ready \ {f} /\ kernel' = [kernel EXCEPT ![f] = 0]
      /\ slot' = [slot EXCEPT ![f] = NoSlot] /\ dead' = (dead \/ kernel[f] = 0)
  BY <1>0 DEF Rest, Then, Reset
<1>2. ~dead'
  BY <1>0, <1>1 DEF Rest, IInv, Agree
<1>3. Typed'
  <2>1. 0 \in 0..MaxConnections
    BY DEF BroadcastAssumption
  <2> QED
    BY <1>1, <2>1 DEF IInv, Typed, TypeOK, NoSlot
<1>4. \A g \in Fds : slot'[g].open <=> kernel'[g] # 0
  BY <1>1 DEF IInv, Agree, Typed, TypeOK, NoSlot
<1>5. \A g \in Fds \ {f} : g \in Iterated => g \in Iterated'
  BY <1>1 DEF IInv, Typed, TypeOK, Iterated
<1>6. CASE \E a \in Inner \cup Outer : stack = <<a>> /\ a.op = "rest"
  <2>1. PICK a \in Inner \cup Outer : stack = <<a>> /\ a.op = "rest"
    BY <1>6
  <2>2. stack' = <<>>
    BY <1>1, <2>1, Stacks
  <2>3. (wall.ready \subseteq wall.to)'
    BY <1>1, <2>1 DEF IInv, Heard, HeardBy
  <2>4. Nested' /\ Heard'
    BY <2>2, <2>3, NoCall
  <2>5. ~Top("rest")'
    BY <2>2 DEF Top
  <2> QED
    BY <1>2, <1>3, <1>4, <2>4, <2>5 DEF IInv, Agree
<1>7. CASE \E a \in Inner, b \in Outer :
              stack = <<a, b>> /\ Under(a, b) /\ a.op = "rest" /\ F = a.fd
  <2>1. PICK a \in Inner, b \in Outer :
               stack = <<a, b>> /\ Under(a, b) /\ a.op = "rest" /\ F = a.fd
    BY <1>7
  <2>2. stack' = <<b>>
    BY <1>1, <2>1, Stacks
  <2>3. HeardBy(b)'
    <3>1. HeardBy(b) /\ ~Top("write")
      BY <2>1, Stacks DEF IInv, Heard, Top
    <3>2. CASE b.op # "wall"
      BY <1>1, <3>1, <3>2 DEF HeardBy
    <3>3. CASE b.op = "wall"
      <4>1. f < b.fd /\ b.fd \in Nat /\ f \in Nat
        BY <1>0, <2>1, <3>3 DEF Under, Outer, Fds
      <4>2. ~(b.fd <= f)
        BY <4>1
      <4>3. wall.ready \subseteq Fds
        BY DEF IInv, Typed
      <4> QED
        BY <1>1, <1>5, <3>1, <3>3, <4>2, <4>3 DEF HeardBy, Ahead
    <3> QED
      BY <3>2, <3>3
  <2>4. Nested' /\ Heard'
    BY <2>2, <2>3, OneCall
  <2>5. ~Top("rest")'
    BY <2>2, TopThen DEF Outer
  <2> QED
    BY <1>2, <1>3, <1>4, <2>4, <2>5 DEF IInv, Agree
<1> QED
  BY <1>6, <1>7, TopOf DEF IInv, Rest

-----------------------------------------------------------------------------
(* Theorems.                                                                *)

\* The calls in progress are at most a broadcast, an exit or a response, what
\* it writes or closes, and what that closes; and what a close works on is
\* open, whoever asked for it.
THEOREM CallsAreNested ==
  ASSUME BroadcastAssumption, ~Announces PROVE Spec => []IInv
<1>1. Init => IInv
  <2> SUFFICES ASSUME Init PROVE IInv
    OBVIOUS
  <2>1. Typed
    <3>1. 0 \in 0..MaxConnections
      BY DEF BroadcastAssumption
    <3> QED
      BY <3>1 DEF Init, Typed, TypeOK, NoSlot, NoWall
  <2>2. Nested /\ Heard
    BY Stacks DEF Init, Nested, Heard, NoWall
  <2>3. Agree
    BY DEF Init, Agree, NoSlot, Top
  <2> QED
    BY <2>1, <2>2, <2>3 DEF Init, IInv
<1>2. IInv /\ [Next]_vars => IInv'
  <2> SUFFICES ASSUME IInv, [Next]_vars PROVE IInv'
    OBVIOUS
  <2>1. CASE \E f \in Fds : Accept(f) \/ Connect(f) \/ StartRespond(f)
    BY <2>1, AcceptKeeps, ConnectKeeps, StartRespondKeeps
  <2>2. CASE Select \/ Shutdown \/ StartWall
    BY <2>2, SelectKeeps, ShutdownKeeps, StartWallKeeps
  <2>3. CASE Write \/ Wall \/ Cleanup \/ Close \/ Rest
    BY <2>3, WriteKeeps, WallKeeps, CleanupKeeps, CloseKeeps, RestKeeps
  <2>4. CASE UNCHANGED vars
    BY <2>4 DEF vars, IInv, Typed, TypeOK, Nested, Agree, Heard, HeardBy, Ahead,
                Iterated, Idle, Top, F
  <2> QED
    BY <2>1, <2>2, <2>3, <2>4 DEF Next
<1> QED
  BY <1>1, <1>2, PTL DEF Spec

\* Every variable has its type, and no slot that is not open is connected:
\* axil_close() leaves nothing of the flags behind.
THEOREM TypeCorrect ==
  ASSUME BroadcastAssumption, ~Announces PROVE Spec => []TypeOK
<1>1. IInv => TypeOK
  BY DEF IInv, Typed
<1> QED
  BY <1>1, CallsAreNested, PTL

\* A broadcast tries everyone that select() reported and that is connected, for
\* any number of descriptors and any writes that fail (axil_wall(), DESCR_ITER).
THEOREM EveryoneIsTried ==
  ASSUME BroadcastAssumption, ~Announces PROVE Spec => []ReportedHear
<1>1. IInv => ReportedHear
  BY DEF IInv, Heard, ReportedHear
<1> QED
  BY <1>1, CallsAreNested, PTL

\* Whoever closes a connection that is closed already, the response whose write
\* failed or the exit, d->fd stops it (axil_close()).
THEOREM TornDownOnce ==
  ASSUME BroadcastAssumption, ~Announces PROVE Spec => []NeverClosesTheDead
<1>1. IInv => NeverClosesTheDead
  BY DEF IInv, NeverClosesTheDead
<1> QED
  BY <1>1, CallsAreNested, PTL
=============================================================================
