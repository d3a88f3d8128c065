--------------------------- MODULE ProgressProofs ---------------------------
(***************************************************************************)
(* Proofs for the parts of MCProgress that keep something exact while they *)
(* move on: of Identity, that nobody speaks for an earlier connection of   *)
(* the same number, a published identity is marked, and a program never    *)
(* runs as one that an earlier login named or that -A published to a root  *)
(* server; of Tls, that nothing is lost or read twice; of Exec, that a     *)
(* program is watched until its output has been passed on.                 *)
(***************************************************************************)
EXTENDS MCProgress, Induction, SequenceTheorems

Names == Known \cup Unknown \cup {"none", "server"}

Slots ==
  [open : BOOLEAN, accepted : BOOLEAN, ws : BOOLEAN, connected : BOOLEAN,
   authenticated : BOOLEAN, auto : BOOLEAN, user : Names, pw : Names,
   copies : Nat, source : {"nobody", "proven", "published"}]

Types ==
  /\ server \in [root : BOOLEAN, chroot : BOOLEAN, auto : BOOLEAN, hooked : BOOLEAN]
  /\ d \in Slots
  /\ child \in [as : Names \cup {"nobody", "refused"}, of : Slots]

\* A slot that is not open is the cleared one.
ClosedIsClear == ~d.open => d = Closed

\* The passwd entry goes with REMOTE_USER.
EntryIsUsers == d.authenticated => d.pw \in {d.user, "server"}

IInv ==
  /\ Types /\ ClosedIsClear /\ EntryIsUsers
  /\ PublishedIsMarked /\ NothingInherited /\ NoPublishedChild /\ ChildIsItsUser

\* What axil_auth() makes of a slot is a slot of the user it names.
LEMMA AuthLemma ==
  ASSUME NEW s \in Slots, NEW name \in Known \cup Unknown \cup {"server"},
         NEW source \in {"proven", "published"}
  PROVE  LET e == Auth(s, name, source) IN
           /\ e \in Slots
           /\ e.open = s.open /\ e.accepted = s.accepted /\ e.auto = s.auto
           /\ e.authenticated /\ e.user = name /\ e.source = source
           /\ e.pw = PwOf(s, name) /\ PwOf(s, name) \in {name, "server"}
<1> DEFINE e == Auth(s, name, source)
           p == PwOf(s, name)
           n == s.copies + 1
<1>1. p \in {name, "server"} /\ p \in Names /\ name \in Names
  BY DEF PwOf, Names
<1>2. n \in Nat /\ source \in {"nobody", "proven", "published"}
  BY DEF Slots
<1>3. e = [s EXCEPT !.authenticated = TRUE, !.connected = TRUE, !.user = name,
                    !.pw = p, !.copies = n, !.source = source]
  BY DEF Auth, Slots
<1> HIDE DEF e, p, n
<1>4. e = [open |-> s.open, accepted |-> s.accepted, ws |-> s.ws,
           connected |-> TRUE, authenticated |-> TRUE, auto |-> s.auto,
           user |-> name, pw |-> p, copies |-> n, source |-> source]
  BY <1>3 DEF Slots
<1>5. e \in Slots /\ e.open = s.open /\ e.accepted = s.accepted /\ e.auto = s.auto
      /\ e.authenticated /\ e.user = name /\ e.source = source /\ e.pw = p
  BY <1>1, <1>2, <1>4 DEF Slots
<1>6. QED
  BY <1>1, <1>5 DEF e, p

\* -A either leaves a slot alone or gives it the server's name and the mark.
LEMMA AutoAuthLemma ==
  ASSUME NEW s \in Slots
  PROVE  /\ AutoAuth(s) \in Slots
         /\ \/ AutoAuth(s) = s /\ ~server.auto
            \/ /\ AutoAuth(s).auto /\ AutoAuth(s).source = "published"
               /\ AutoAuth(s).authenticated /\ AutoAuth(s).pw = "server"
         /\ AutoAuth(s).open = s.open /\ AutoAuth(s).accepted = s.accepted
<1> DEFINE a == Auth(s, "server", "published")
<1>1. a \in Slots /\ a.open = s.open /\ a.accepted = s.accepted /\ a.authenticated
      /\ a.source = "published" /\ a.pw = "server"
  BY AuthLemma
<1> HIDE DEF a
<1>2. AutoAuth(s) = IF server.auto THEN [a EXCEPT !.auto = TRUE] ELSE s
  BY DEF AutoAuth, a
<1>3. QED
  BY <1>1, <1>2 DEF Slots

LEMMA InitIInv == Init => IInv
  BY SMTT(30) DEF Init, IInv, Types, Slots, Names, Closed, ClosedIsClear, EntryIsUsers,
     PublishedIsMarked, NothingInherited, NoPublishedChild, ChildIsItsUser

\* Every handler keeps the invariant.
LEMMA NextIInv == IInv /\ [Next]_vars => IInv'
<1> SUFFICES ASSUME IInv, [Next]_vars PROVE IInv'
  OBVIOUS
<1> USE DEF IInv
<1>t. Types /\ d \in Slots /\ Closed \in Slots
  BY DEF Types, Closed, Slots, Names
\* The properties of a program stand while no program is run.
<1>c. ASSUME UNCHANGED <<server, child>>
      PROVE  NoPublishedChild' /\ ChildIsItsUser'
  BY <1>c DEF NoPublishedChild, ChildIsItsUser
<1>r. ASSUME d' = Closed, UNCHANGED <<server, child>> PROVE IInv'
  BY <1>r, <1>c, <1>t DEF Closed, Types, ClosedIsClear, EntryIsUsers, PublishedIsMarked,
     NothingInherited
\* A login by the hook or by the program.
<1>l. ASSUME d.open, NEW name \in Known \cup Unknown, d' = Auth(d, name, "proven"),
             UNCHANGED <<server, child>>
      PROVE  IInv'
  <2>1. /\ d' \in Slots /\ d'.open /\ d'.source = "proven" /\ d'.user = name
        /\ d'.pw \in {name, "server"}
    BY <1>l, <1>t, AuthLemma DEF Slots
  <2>2. QED
    BY <2>1, <1>l, <1>c, <1>t DEF Types, ClosedIsClear, EntryIsUsers, PublishedIsMarked,
       NothingInherited
<1>1. CASE Accept
  <2>1. d = Closed
    BY <1>1 DEF Accept, ClosedIsClear
  <2>2. d' = [d EXCEPT !.open = TRUE, !.accepted = TRUE] /\ UNCHANGED <<server, child>>
    BY <1>1 DEF Accept
  <2>3. /\ d' \in Slots /\ d'.open /\ ~d'.authenticated /\ ~d'.auto
        /\ d'.source = "nobody" /\ d'.user = "none"
    BY <2>1, <2>2, <1>t DEF Closed, Slots
  <2>4. QED
    BY <2>2, <2>3, <1>t, <1>c DEF Types, ClosedIsClear, EntryIsUsers, PublishedIsMarked,
       NothingInherited
<1>2. CASE Close
  BY <1>2, <1>r DEF Close, Cleared
<1>3. CASE Request
  BY <1>3, <1>l DEF Request
<1>4. CASE Login
  BY <1>4, <1>l DEF Login
<1>5. CASE TooLarge
  <2>1. CASE d' = Cleared(d)
    BY <1>5, <2>1, <1>r DEF TooLarge, Cleared
  <2>2. CASE d' = [d EXCEPT !.accepted = FALSE, !.ws = FALSE, !.connected = FALSE,
                            !.authenticated = FALSE, !.auto = FALSE]
    <3>1. d.open /\ UNCHANGED <<server, child>>
      BY <1>5 DEF TooLarge
    <3>2. /\ d' \in Slots /\ d'.open /\ ~d'.accepted /\ ~d'.authenticated /\ ~d'.auto
          /\ d'.user = d.user /\ d'.source = d.source
      BY <2>2, <3>1, <1>t DEF Slots
    <3>3. QED
      BY <3>1, <3>2, <1>t, <1>c DEF Types, ClosedIsClear, EntryIsUsers, PublishedIsMarked,
         NothingInherited
  <2>3. QED
    BY <1>5, <2>1, <2>2 DEF TooLarge
<1>6. CASE Upgrade
  <2> DEFINE w == [d EXCEPT !.ws = TRUE]
             s == AutoAuth(w)
  <2>1. /\ w \in Slots /\ w.open /\ w.accepted /\ w.source = d.source /\ w.auto = d.auto
        /\ w.authenticated = d.authenticated /\ w.user = d.user /\ w.pw = d.pw
        /\ UNCHANGED <<server, child>>
    BY <1>6, <1>t DEF Upgrade, Slots
  <2>2. d' = IF server.hooked THEN [AutoAuth(s) EXCEPT !.connected = @ \/ server.auto]
                              ELSE [s EXCEPT !.connected = TRUE]
    BY <1>6 DEF Upgrade
  <2> HIDE DEF w
  <2>3. /\ s \in Slots /\ s.open /\ s.accepted
        /\ (s = w \/ (s.auto /\ s.source = "published" /\ s.authenticated /\ s.pw = "server"))
    BY <2>1, AutoAuthLemma
  <2> HIDE DEF s
  <2> DEFINE e == AutoAuth(s)
  <2>4. /\ e \in Slots /\ e.open /\ e.accepted
        /\ (e = s \/ (e.auto /\ e.source = "published" /\ e.authenticated /\ e.pw = "server"))
    BY <2>3, AutoAuthLemma
  <2>5. d' = IF server.hooked THEN [e EXCEPT !.connected = @ \/ server.auto]
                              ELSE [s EXCEPT !.connected = TRUE]
    BY <2>2
  <2> HIDE DEF e
  <2>6. PICK x \in {s, e} :
          /\ d' \in Slots /\ d'.open = x.open /\ d'.auto = x.auto /\ d'.source = x.source
          /\ d'.authenticated = x.authenticated /\ d'.user = x.user /\ d'.pw = x.pw
    BY <2>3, <2>4, <2>5, <1>t DEF Slots, Types
  <2>7. /\ d'.open
        /\ \/ /\ d'.auto = d.auto /\ d'.source = d.source /\ d'.user = d.user
              /\ d'.authenticated = d.authenticated /\ d'.pw = d.pw
           \/ d'.auto /\ d'.source = "published" /\ d'.authenticated /\ d'.pw = "server"
    BY <2>1, <2>3, <2>4, <2>6
  <2>8. d.open /\ d.accepted
    BY <1>6 DEF Upgrade
  <2>9. QED
    BY <2>1, <2>6, <2>7, <2>8, <1>t, <1>c DEF Types, ClosedIsClear, EntryIsUsers,
       PublishedIsMarked, NothingInherited
<1>7. CASE Exec
  <2>1. UNCHANGED <<server, d>> /\ child' = [as |-> Dropped, of |-> d]
    BY <1>7 DEF Exec
  <2>2. /\ Dropped \in Names \cup {"refused"}
        /\ server.root /\ d.accepted /\ d.source = "published" => Dropped = "refused"
        /\ Dropped \in {"refused", "server", d.user}
    <3>1. d.open
      BY <1>7 DEF Exec
    <3> QED
      BY <3>1, <1>t DEF Dropped, Slots, Names, EntryIsUsers, PublishedIsMarked
  <2>3. QED
    BY <2>1, <2>2, <1>t DEF Types, ClosedIsClear, EntryIsUsers, PublishedIsMarked,
       NothingInherited, NoPublishedChild, ChildIsItsUser
<1>8. CASE UNCHANGED vars
  BY <1>8, <1>c DEF vars, Types, ClosedIsClear, EntryIsUsers, PublishedIsMarked,
     NothingInherited
<1>9. QED
  BY <1>1, <1>2, <1>3, <1>4, <1>5, <1>6, <1>7, <1>8 DEF Next

LEMMA SpecIInv == Spec => []IInv
  BY InitIInv, NextIInv, PTL DEF Spec

\* Nobody who logged in is inherited from an earlier connection of a number.
THEOREM NothingInheritedTheorem == Spec => []NothingInherited
<1>1. IInv => NothingInherited
  BY DEF IInv
<1>2. QED
  BY <1>1, SpecIInv, PTL

\* An identity -A published is marked for as long as requests are read.
THEOREM PublishedIsMarkedTheorem == Spec => []PublishedIsMarked
<1>1. IInv => PublishedIsMarked
  BY DEF IInv
<1>2. QED
  BY <1>1, SpecIInv, PTL

\* A root server's program is refused for a name that -A published, for as long
\* as requests are read.
THEOREM NoPublishedChildTheorem == Spec => []NoPublishedChild
<1>1. IInv => NoPublishedChild
  BY DEF IInv
<1>2. QED
  BY <1>1, SpecIInv, PTL

\* A program runs as the server or as the user its descriptor names.
THEOREM ChildIsItsUserTheorem == Spec => []ChildIsItsUser
<1>1. IInv => ChildIsItsUser
  BY DEF IInv
<1>2. QED
  BY <1>1, SpecIInv, PTL

-----------------------------------------------------------------------------
(* The whole type invariant: an entry kept is of a name getpwnam() finds.   *)

Entries ==
  /\ d.copies \in 0..MaxCopies
  /\ d.authenticated => d.pw \in Known \cup {"server"}
  /\ child.as \in Known \cup {"nobody", "server", "refused"}

\* axil_auth() makes one copy.
LEMMA AuthEntries ==
  ASSUME NEW s \in Slots, NEW name \in Known \cup Unknown \cup {"server"},
         NEW source
  PROVE  /\ Auth(s, name, source).copies = s.copies + 1
         /\ Auth(s, name, source).pw \in Known \cup {"server"}
<1>1. PwOf(s, name) \in Known \cup {"server"}
  BY DEF PwOf
<1> QED
  BY <1>1 DEF Auth, Slots

LEMMA AutoAuthEntries ==
  ASSUME NEW s \in Slots, s.authenticated => s.pw \in Known \cup {"server"}
  PROVE  /\ AutoAuth(s).authenticated => AutoAuth(s).pw \in Known \cup {"server"}
         /\ AutoAuth(s).copies \in s.copies..(s.copies + 1)
<1> DEFINE a == Auth(s, "server", "published")
<1>1. a \in Slots /\ a.copies = s.copies + 1 /\ a.pw \in Known \cup {"server"}
  BY AuthLemma, AuthEntries
<1> HIDE DEF a
<1>2. AutoAuth(s) = IF server.auto THEN [a EXCEPT !.auto = TRUE] ELSE s
  BY DEF AutoAuth, a
<1>3. s.copies \in Nat
  BY DEF Slots
<1> QED
  BY <1>1, <1>2, <1>3 DEF Slots

LEMMA InitEntries == Init => Entries
BY IdentityAssumption DEF Init, Closed, Entries

LEMMA NextEntries == IInv /\ Entries /\ [Next]_vars => Entries'
<1> SUFFICES ASSUME IInv, Entries, [Next]_vars PROVE Entries'
  OBVIOUS
<1>t. Types /\ d \in Slots /\ d.copies \in Nat /\ MaxCopies \in Nat
  BY IdentityAssumption DEF IInv, Types, Slots
<1>r. ASSUME d' = Closed, UNCHANGED child PROVE Entries'
  BY <1>r, <1>t DEF Closed, Entries
<1>l. ASSUME NEW name \in Known \cup Unknown, d.copies < MaxCopies,
             d' = Auth(d, name, "proven"), UNCHANGED child
      PROVE  Entries'
  <2>1. d'.copies = d.copies + 1 /\ d'.pw \in Known \cup {"server"}
    BY <1>l, <1>t, AuthEntries
  <2> QED
    BY <2>1, <1>l, <1>t DEF Entries
<1>1. CASE Accept
  BY <1>1, <1>t DEF Accept, Entries, Slots
<1>2. CASE Close
  BY <1>2, <1>r DEF Close, Cleared
<1>3. CASE Request
  BY <1>3, <1>l DEF Request
<1>4. CASE Login
  BY <1>4, <1>l DEF Login
<1>5. CASE TooLarge
  <2>1. CASE d' = Cleared(d)
    BY <1>5, <2>1, <1>r DEF TooLarge, Cleared
  <2>2. CASE d' = [d EXCEPT !.accepted = FALSE, !.ws = FALSE, !.connected = FALSE,
                            !.authenticated = FALSE, !.auto = FALSE]
    <3>1. ~d'.authenticated /\ d'.copies = d.copies
      BY <2>2, <1>t DEF Slots
    <3> QED
      BY <1>5, <3>1 DEF TooLarge, Entries
  <2> QED
    BY <1>5, <2>1, <2>2 DEF TooLarge
<1>6. CASE Upgrade
  <2> DEFINE w == [d EXCEPT !.ws = TRUE]
             s == AutoAuth(w)
             e == AutoAuth(s)
  <2>1. /\ w \in Slots /\ w.copies = d.copies
        /\ w.authenticated => w.pw \in Known \cup {"server"}
    BY <1>t DEF Entries, Slots
  <2>2. /\ d.copies + 2 <= MaxCopies /\ UNCHANGED child
        /\ d' = IF server.hooked THEN [e EXCEPT !.connected = @ \/ server.auto]
                                 ELSE [s EXCEPT !.connected = TRUE]
    BY <1>6 DEF Upgrade
  <2> HIDE DEF w
  <2>3. /\ s \in Slots /\ s.copies \in d.copies..(d.copies + 1)
        /\ s.authenticated => s.pw \in Known \cup {"server"}
    BY <2>1, AutoAuthLemma, AutoAuthEntries
  <2> HIDE DEF s
  <2>4. /\ e \in Slots /\ e.copies \in s.copies..(s.copies + 1)
        /\ e.authenticated => e.pw \in Known \cup {"server"}
    BY <2>3, AutoAuthLemma, AutoAuthEntries
  <2> HIDE DEF e
  <2>5. PICK x \in {s, e} :
          d'.copies = x.copies /\ d'.authenticated = x.authenticated /\ d'.pw = x.pw
    BY <2>2, <2>3, <2>4 DEF Slots
  <2>6. x.copies \in 0..MaxCopies
    <3>1. s.copies \in Nat /\ e.copies \in Nat
      BY <2>3, <2>4 DEF Slots
    <3> QED
      BY <2>2, <2>3, <2>4, <3>1, <1>t
  <2> QED
    BY <2>2, <2>3, <2>4, <2>5, <2>6 DEF Entries
<1>7. CASE Exec
  <2>1. d' = d /\ child'.as = Dropped
    BY <1>7 DEF Exec
  <2>2. Dropped \in Known \cup {"server", "refused"}
    BY DEF Dropped, Entries
  <2> QED
    BY <2>1, <2>2 DEF Entries
<1>8. CASE UNCHANGED vars
  BY <1>8 DEF vars, Entries
<1> QED
  BY <1>1, <1>2, <1>3, <1>4, <1>5, <1>6, <1>7, <1>8 DEF Next

\* Who a connection speaks for is what this connection's own logins and
\* upgrades left: nothing is inherited, and what -A published is marked.
THEOREM SpeaksForItselfTheorem == Spec => []SpeaksForItself
<1>1. IInv /\ Entries => SpeaksForItself
  <2> SUFFICES ASSUME IInv, Entries PROVE SpeaksForItself
    OBVIOUS
  <2>1. d \in Slots
    BY DEF IInv, Types
  <2>2. /\ {d.open, d.accepted, d.ws, d.connected, d.authenticated, d.auto}
             \subseteq BOOLEAN
        /\ {d.user, d.pw} \subseteq Known \cup Unknown \cup {"none", "server"}
        /\ d.source \in {"nobody", "proven", "published"}
    BY <2>1 DEF Slots, Names
  <2> QED
    BY <2>2 DEF IInv, Entries, TypeOK, SpeaksForItself
<1>2. Entries /\ IInv /\ [Next]_vars => Entries'
  BY NextEntries
<1> QED
  BY <1>1, <1>2, InitEntries, SpecIInv, PTL DEF Spec

-----------------------------------------------------------------------------
(* Programs.                                                                *)

\* While a program is watched its descriptor is open, and not to be closed by
\* a flush: axil_exec_loop() clears DF_TO_CLOSE before anything is queued.
Watchers ==
  [open : BOOLEAN, toClose : BOOLEAN, queued : BOOLEAN, epid : BOOLEAN,
   mask : SUBSET Programs!Pipes, total : 0..1, elapsed : 0..TimeLimit]

Runnables ==
  [state : {"none", "running", "exited", "reaped"},
   next : Programs!Pipes \cup {"none"}, seen : BOOLEAN,
   closed : SUBSET Programs!Pipes, made : [Programs!Pipes -> 0..MaxOutput],
   got : [Programs!Pipes -> 0..MaxOutput], timedOut : BOOLEAN]

\* No more comes out of a pipe than went in; a write that waits is the last.
Drawn(g) ==
  \A p \in Programs!Pipes :
    g.got[p] <= g.made[p] /\ (g.next = p => g.made[p] < MaxOutput)

WatchInv ==
  /\ watch \in Watchers /\ prog \in Runnables /\ Drawn(prog)
  /\ killed \subseteq {"program", "server"}
  /\ watch.epid => watch.open
  /\ watch.epid /\ watch.queued => ~watch.toClose
  /\ Programs!Watched /\ Programs!OutputComplete

\* What a write of the callback leaves of a descriptor, with a peer that stays.
LEMMA WritesStay ==
  ASSUME NEW w \in Watchers, NEW e \in Programs!Writes(w)
  PROVE  /\ e \in Watchers /\ e.open = w.open /\ e.epid = w.epid
         /\ e.toClose = w.toClose /\ e.mask = w.mask
         /\ e.total = w.total /\ e.elapsed = w.elapsed
BY DEF Programs!Writes, Watchers

\* One read of a pipe takes all it holds.
LEMMA ReadsAll ==
  ASSUME NEW g \in Runnables, Drawn(g), NEW p \in Programs!Pipes
  PROVE  LET e == Programs!Read(g, p)
         IN  /\ e \in Runnables /\ Drawn(e) /\ e.state = g.state
             /\ e.timedOut = g.timedOut /\ e.made = g.made
             /\ \A q \in Programs!Pipes \ {p} : e.got[q] = g.got[q]
             /\ Programs!Pending(e, p) = 0
<1> DEFINE f == [g.got EXCEPT ![p] = g.made[p]]
           e == [g EXCEPT !.got = f]
<1>1. Programs!Read(g, p) = e
  BY DEF Programs!Read, Runnables
<1>2. /\ g.got \in [Programs!Pipes -> 0..MaxOutput]
      /\ g.made \in [Programs!Pipes -> 0..MaxOutput]
  BY DEF Runnables
<1>3. /\ f \in [Programs!Pipes -> 0..MaxOutput] /\ f[p] = g.made[p]
      /\ \A q \in Programs!Pipes \ {p} : f[q] = g.got[q]
  BY <1>2
<1> HIDE DEF f
<1>4. e \in Runnables /\ e.state = g.state /\ e.timedOut = g.timedOut
      /\ e.made = g.made /\ e.got = f /\ e.next = g.next
  BY <1>3 DEF Runnables
<1> HIDE DEF e
<1>5. Drawn(e)
  BY <1>2, <1>3, <1>4 DEF Drawn
<1>6. Programs!Pending(e, p) = 0
  BY <1>2, <1>3, <1>4 DEF Programs!Pending
<1> QED
  BY <1>1, <1>3, <1>4, <1>5, <1>6

\* The end of axil_exec_loop(): the program it watched is killed and reaped.
LEMMA Finishes ==
  ASSUME WatchInv, NEW w \in Watchers, w.epid, w.open,
         NEW g \in Runnables, Drawn(g),
         g.timedOut \/ Programs!Pending(g, "out") = 0,
         Programs!Finish(w, g)
  PROVE  WatchInv'
<1>1. "out" \in Programs!Pipes /\ "err" \in Programs!Pipes
  BY DEF Programs!Pipes
<1> DEFINE last == IF w.total > 0 THEN Programs!Read(g, "err") ELSE g
<1>2. /\ last \in Runnables /\ Drawn(last)
      /\ last.timedOut \/ Programs!Pending(last, "out") = 0
  <2>1. CASE w.total > 0
    BY <1>1, <2>1, ReadsAll DEF Programs!Pending
  <2>2. CASE ~(w.total > 0)
    BY <2>2
  <2> QED
    BY <2>1, <2>2
<1>3. PICK e \in Programs!Writes(w) \cup {w} :
        /\ killed' = killed \cup {IF e.epid THEN "program" ELSE "server"}
        /\ prog' = IF e.epid THEN Programs!KillEnd(last) ELSE last
        /\ watch' = IF ~e.open \/ ~e.queued THEN Programs!NoDescr
                    ELSE [e EXCEPT !.epid = FALSE, !.mask = {}, !.toClose = TRUE,
                                   !.elapsed = 0]
  BY DEF Programs!Finish
<1>4. e \in Watchers /\ e.epid
  BY WritesStay, <1>3
<1> HIDE DEF last
<1>5. /\ watch' \in Watchers /\ ~watch'.epid
  <2> DEFINE f == [e EXCEPT !.epid = FALSE, !.mask = {}, !.toClose = TRUE, !.elapsed = 0]
  <2>1. 0 \in 0..TimeLimit /\ 0 \in 0..1
    BY ProgressAssumption DEF Programs!ExecAssumption
  <2>2. Programs!NoDescr \in Watchers /\ ~Programs!NoDescr.epid
    BY <2>1 DEF Watchers, Programs!NoDescr
  <2>3. f \in Watchers /\ ~f.epid
    BY <1>4, <2>1 DEF Watchers
  <2>4. watch' = Programs!NoDescr \/ watch' = f
    BY <1>3
  <2> HIDE DEF f
  <2> QED
    BY <2>2, <2>3, <2>4
<1>6. /\ prog' \in Runnables /\ prog'.state = "reaped" /\ Drawn(prog')
      /\ prog'.timedOut \/ Programs!Pending(prog', "out") = 0
  <2>1. prog' = [last EXCEPT !.state = "reaped", !.next = "none"]
    BY <1>3, <1>4 DEF Programs!KillEnd
  <2>2. /\ prog' \in Runnables /\ prog'.state = "reaped" /\ prog'.made = last.made
        /\ prog'.got = last.got /\ prog'.timedOut = last.timedOut
        /\ prog'.next = "none"
    BY <1>2, <2>1 DEF Runnables
  <2> QED
    BY <1>2, <2>2 DEF Drawn, Programs!Pending, Programs!Pipes
<1>7. killed' \subseteq {"program", "server"}
  BY <1>3 DEF WatchInv
<1> QED
  BY <1>5, <1>6, <1>7 DEF WatchInv, Programs!Watched, Programs!OutputComplete, Drawn,
                          Programs!Pending

\* Every step of a program, its descriptor and axil_exec_loop().
LEMMA WatchStep ==
  ASSUME WatchInv, Programs!Next PROVE WatchInv'
<1> USE DEF WatchInv
<1>a. 0 \in 0..TimeLimit /\ 0 \in 0..1 /\ 1 \in 0..1 /\ 0 \in 0..MaxOutput
      /\ TimeLimit \in Nat /\ MaxOutput \in Nat
  BY ProgressAssumption DEF Programs!ExecAssumption
<1>p. "out" \in Programs!Pipes /\ "err" \in Programs!Pipes
  BY DEF Programs!Pipes
\* What axil_exec_loop() writes to, while it goes on.
<1> DEFINE looping == Programs!Looping
<1>l. ASSUME watch.epid
      PROVE  /\ looping \in Watchers /\ looping.epid /\ looping.open
             /\ ~looping.toClose /\ looping.mask = watch.mask
  BY <1>l DEF Programs!Looping, Watchers
<1> HIDE DEF looping
<1>1. CASE Programs!ProgTurn
  <2>1. /\ prog.state = "running" /\ prog.next = "none" /\ UNCHANGED <<watch, killed>>
        /\ \/ \E p \in Programs!Pipes :
                prog.made[p] < MaxOutput /\ prog' = [prog EXCEPT !.next = p]
           \/ \E p \in Programs!Pipes : prog' = [prog EXCEPT !.closed = @ \cup {p}]
           \/ prog' = [prog EXCEPT !.state = "exited", !.closed = Programs!Pipes]
    BY <1>1 DEF Programs!ProgTurn
  <2>2. /\ prog' \in Runnables /\ prog'.state \in {"running", "exited"}
        /\ prog'.made = prog.made /\ prog'.got = prog.got
        /\ \/ prog'.next = "none"
           \/ prog'.next \in Programs!Pipes /\ prog.made[prog'.next] < MaxOutput
    <3>1. ASSUME NEW p \in Programs!Pipes, prog' = [prog EXCEPT !.next = p],
                 prog.made[p] < MaxOutput
          PROVE  /\ prog' \in Runnables /\ prog'.state = prog.state
                 /\ prog'.made = prog.made /\ prog'.got = prog.got /\ prog'.next = p
      BY <3>1 DEF Runnables
    <3>2. ASSUME NEW p \in Programs!Pipes, prog' = [prog EXCEPT !.closed = @ \cup {p}]
          PROVE  /\ prog' \in Runnables /\ prog'.state = prog.state
                 /\ prog'.made = prog.made /\ prog'.got = prog.got
                 /\ prog'.next = prog.next
      BY <3>2 DEF Runnables
    <3>3. ASSUME prog' = [prog EXCEPT !.state = "exited", !.closed = Programs!Pipes]
          PROVE  /\ prog' \in Runnables /\ prog'.state = "exited"
                 /\ prog'.made = prog.made /\ prog'.got = prog.got
                 /\ prog'.next = prog.next
      BY <3>3 DEF Runnables
    <3> QED
      BY <2>1, <3>1, <3>2, <3>3
  <2>3. Drawn(prog')
    BY <2>2 DEF Drawn, Programs!Pipes
  <2> QED
    BY <2>1, <2>2, <2>3 DEF Programs!Watched, Programs!OutputComplete
<1>2. ASSUME NEW p \in Programs!Pipes, Programs!ProgWrite(p)
      PROVE  WatchInv'
  <2> DEFINE f == [prog.made EXCEPT ![p] = @ + 1]
  <2>1. /\ prog.state = "running" /\ prog.next = p /\ UNCHANGED <<watch, killed>>
        /\ prog' = [prog EXCEPT !.next = "none", !.made[p] = @ + 1]
    BY <1>2 DEF Programs!ProgWrite
  <2>2. prog' = [prog EXCEPT !.next = "none", !.made = f]
    BY <2>1 DEF Runnables
  <2>3. /\ prog.made \in [Programs!Pipes -> 0..MaxOutput] /\ prog.made[p] < MaxOutput
        /\ prog.got \in [Programs!Pipes -> 0..MaxOutput]
    BY <2>1 DEF Runnables, Drawn
  <2>4. /\ f \in [Programs!Pipes -> 0..MaxOutput]
        /\ \A q \in Programs!Pipes : f[q] \in {prog.made[q], prog.made[q] + 1}
    BY <1>a, <2>3
  <2> HIDE DEF f
  <2>5. /\ prog' \in Runnables /\ prog'.state = "running" /\ prog'.next = "none"
        /\ prog'.made = f /\ prog'.got = prog.got
    BY <2>1, <2>2, <2>4 DEF Runnables
  <2>6. Drawn(prog')
    <3>1. ASSUME NEW q \in Programs!Pipes PROVE prog.got[q] <= f[q] /\ "none" # q
      BY <2>3, <2>4, <1>a DEF Drawn, Programs!Pipes
    <3> QED
      BY <2>5, <3>1 DEF Drawn
  <2> QED
    BY <2>1, <2>5, <2>6 DEF Programs!Watched, Programs!OutputComplete
<1>3. CASE Programs!Exec
  <2>1. /\ prog.state = "none" /\ killed' = killed
        /\ watch' = [Programs!NoDescr EXCEPT !.open = TRUE, !.toClose = TRUE,
                       !.queued = FALSE, !.epid = TRUE, !.mask = Programs!Pipes]
        /\ \E seen \in BOOLEAN :
             prog' = [Programs!NoProg EXCEPT !.state = "running", !.seen = seen]
    BY <1>3 DEF Programs!Exec
  <2>2. watch' \in Watchers /\ watch'.epid /\ watch'.open /\ ~watch'.queued
    BY <1>a, <2>1 DEF Watchers, Programs!NoDescr
  <2>3. prog' \in Runnables /\ Drawn(prog') /\ prog'.state = "running"
    <3> DEFINE none == [p \in Programs!Pipes |-> 0]
    <3>1. none \in [Programs!Pipes -> 0..MaxOutput] /\ \A p \in Programs!Pipes : none[p] = 0
      BY <1>a
    <3>2. PICK seen \in BOOLEAN :
            prog' = [Programs!NoProg EXCEPT !.state = "running", !.seen = seen]
      BY <2>1
    <3>3. prog' = [state |-> "running", next |-> "none", seen |-> seen, closed |-> {},
                   made |-> none, got |-> none, timedOut |-> FALSE]
      BY <3>2 DEF Programs!NoProg
    <3> HIDE DEF none
    <3>4. /\ prog' \in Runnables /\ prog'.state = "running" /\ prog'.next = "none"
          /\ prog'.made = none /\ prog'.got = none
      BY <3>1, <3>3 DEF Runnables
    <3> QED
      BY <3>1, <3>4 DEF Drawn, Programs!Pipes
  <2> QED
    BY <2>1, <2>2, <2>3 DEF Programs!Watched, Programs!OutputComplete
<1>4. CASE Programs!Flush
  <2>1. /\ watch.queued /\ UNCHANGED <<prog, killed>>
        /\ watch' = IF watch.toClose THEN Programs!NoDescr
                    ELSE [watch EXCEPT !.queued = FALSE]
    BY <1>4 DEF Programs!Flush
  <2>2. watch' \in Watchers /\ watch'.epid = watch.epid /\ ~watch'.queued
        /\ (watch'.epid => watch'.open)
    BY <1>a, <2>1 DEF Watchers, Programs!NoDescr
  <2> QED
    BY <2>1, <2>2 DEF Programs!Watched, Programs!OutputComplete, Drawn, Programs!Pending
<1>5. CASE Programs!Tick
  <2>1. /\ watch.elapsed < TimeLimit /\ UNCHANGED <<prog, killed>>
        /\ watch' = [watch EXCEPT !.elapsed = @ + 1]
    BY <1>5 DEF Programs!Tick
  <2>2. /\ watch' \in Watchers /\ watch'.epid = watch.epid
        /\ watch'.open = watch.open /\ watch'.queued = watch.queued
        /\ watch'.toClose = watch.toClose
    BY <1>a, <2>1 DEF Watchers
  <2> QED
    BY <2>1, <2>2 DEF Programs!Watched, Programs!OutputComplete, Drawn, Programs!Pending
<1>6. CASE Programs!LoopTimeout
  <2>1. PICK w \in Programs!Writes(looping) :
          Programs!Finish(w, [prog EXCEPT !.timedOut = TRUE])
    BY <1>6 DEF Programs!LoopTimeout, looping
  <2>2. watch.epid
    BY <1>6 DEF Programs!LoopTimeout
  <2>3. w \in Watchers /\ w.epid /\ w.open
    BY <1>l, <2>1, <2>2, WritesStay
  <2> DEFINE g == [prog EXCEPT !.timedOut = TRUE]
  <2>4. /\ g \in Runnables /\ g.timedOut /\ g.made = prog.made /\ g.got = prog.got
        /\ g.next = prog.next
    BY DEF Runnables
  <2>5. Programs!Finish(w, g)
    BY <2>1
  <2> HIDE DEF g
  <2>6. Drawn(g)
    BY <2>4 DEF Drawn
  <2> HIDE DEF WatchInv
  <2> QED
    BY <2>3, <2>4, <2>5, <2>6, Finishes
<1>7. CASE Programs!LoopNothing
  <2>1. watch' = looping /\ UNCHANGED <<prog, killed>> /\ watch.epid
    BY <1>7 DEF Programs!LoopNothing, looping
  <2> QED
    BY <1>l, <2>1 DEF Programs!Watched, Programs!OutputComplete, Drawn, Programs!Pending
<1>8. CASE Programs!LoopRead
  <2>1. PICK w \in Programs!Writes(looping) : watch' = [w EXCEPT !.total = 1]
    BY <1>8 DEF Programs!LoopRead, looping
  <2>2. /\ watch.epid /\ killed' = killed
        /\ \E p \in Programs!Pipes : prog' = Programs!Read(prog, p)
    BY <1>8, <1>p DEF Programs!LoopRead, Programs!NextPipe
  <2>3. w \in Watchers /\ w.epid /\ w.open /\ ~w.toClose
    BY <1>l, <2>1, <2>2, WritesStay
  <2>4. watch' \in Watchers /\ watch'.epid /\ watch'.open /\ ~watch'.toClose
    BY <1>a, <2>1, <2>3 DEF Watchers
  <2>5. prog' \in Runnables /\ Drawn(prog') /\ prog'.state = prog.state
    BY <2>2, ReadsAll
  <2> QED
    BY <2>2, <2>4, <2>5 DEF Programs!Watched, Programs!OutputComplete
<1>9. CASE Programs!LoopEnd
  <2> DEFINE w == [looping EXCEPT !.mask = @ \ {"out"}]
  <2>1. /\ watch.epid /\ Programs!Pending(prog, "out") = 0
        /\ Programs!Finish(w, prog)
    BY <1>9 DEF Programs!LoopEnd, Programs!AtEnd, looping
  <2>2. w \in Watchers /\ w.epid /\ w.open
    BY <1>l, <2>1 DEF Watchers
  <2> HIDE DEF w
  <2>3. prog \in Runnables /\ Drawn(prog)
    OBVIOUS
  <2> HIDE DEF WatchInv
  <2> QED
    BY <2>1, <2>2, <2>3, Finishes
<1>10. CASE Programs!LoopErrEnd
  <2>1. /\ watch.epid /\ UNCHANGED <<prog, killed>>
        /\ watch' = [looping EXCEPT !.mask = @ \ {"err"}]
    BY <1>10 DEF Programs!LoopErrEnd, looping
  <2>2. watch' \in Watchers /\ watch'.epid /\ watch'.open /\ ~watch'.toClose
    BY <1>l, <2>1 DEF Watchers
  <2> QED
    BY <2>1, <2>2 DEF Programs!Watched, Programs!OutputComplete, Drawn, Programs!Pending
<1> QED
  BY <1>1, <1>2, <1>3, <1>4, <1>5, <1>6, <1>7, <1>8, <1>9, <1>10
  DEF Programs!Next, Programs!Loop

\* A descriptor watches a program exactly while there is one to reap, and one
\* that ends by itself has had its standard output passed on (axil_exec(),
\* axil_exec_loop()), for a handler that writes nothing first and a peer that
\* stays.
THEOREM WatchedToTheEndTheorem == FairSpec => []WatchedToTheEnd
<1>1. ProgressInit => WatchInv
  <2>1. 0 \in 0..TimeLimit /\ 0 \in 0..1 /\ 0 \in 0..MaxOutput
    BY ProgressAssumption DEF Programs!ExecAssumption
  <2> SUFFICES ASSUME ProgressInit PROVE WatchInv
    OBVIOUS
  <2>2. watch = Programs!NoDescr /\ prog = Programs!NoProg /\ killed = {}
    BY DEF ProgressInit, Programs!Init
  <2>3. watch \in Watchers /\ ~watch.epid
    BY <2>1, <2>2 DEF Programs!NoDescr, Watchers
  <2>4. prog \in Runnables /\ Drawn(prog) /\ prog.state = "none"
    BY <2>1, <2>2 DEF Programs!NoProg, Runnables, Drawn, Programs!Pipes
  <2> QED
    BY <2>2, <2>3, <2>4 DEF WatchInv, Programs!Watched, Programs!OutputComplete
<1>2. WatchInv /\ [ProgressNext]_ProgressVars => WatchInv'
  <2> SUFFICES ASSUME WatchInv, [ProgressNext]_ProgressVars PROVE WatchInv'
    OBVIOUS
  <2>1. CASE Programs!Next
    BY <2>1, WatchStep
  <2>2. CASE UNCHANGED execVars
    BY <2>2 DEF execVars, WatchInv, Programs!Watched, Programs!OutputComplete, Drawn,
                Programs!Pending
  <2> QED
    BY <2>1, <2>2 DEF ProgressNext, ProgressVars
<1>3. WatchInv => WatchedToTheEnd
  <2> SUFFICES ASSUME WatchInv PROVE Programs!TypeOK
    BY DEF WatchInv, WatchedToTheEnd
  <2>1. \A p \in Programs!Pipes : prog.got[p] \in 0..prog.made[p] /\ prog.made[p] <= MaxOutput
    <3>1. prog.made \in [Programs!Pipes -> 0..MaxOutput] /\ MaxOutput \in Nat
          /\ prog.got \in [Programs!Pipes -> 0..MaxOutput]
      BY ProgressAssumption DEF WatchInv, Runnables, Programs!ExecAssumption
    <3> QED
      BY <3>1 DEF WatchInv, Drawn
  <2> QED
    BY <2>1 DEF WatchInv, Watchers, Runnables, Programs!TypeOK
<1> QED
  BY <1>1, <1>2, <1>3, PTL DEF FairSpec

-----------------------------------------------------------------------------
(* The items of records.                                                    *)

\* f is m, and what the first k of n records hold.
IsSum(f, n, m, w) ==
  /\ f[0] = m
  /\ \A k \in 0..n : f[k] \in Nat
  /\ \A k \in 1..n : w[k] \in Nat /\ f[k] = f[k - 1] + w[k]

\* Items() adds up.
LEMMA ItemsUnfold ==
  ASSUME NEW m \in Nat, NEW w \in Seq(Nat)
  PROVE  \E f : IsSum(f, Len(w), m, w) /\ Tls!Items(m, w) = f[Len(w)]
<1> DEFINE n == Len(w)
           IsAll(f) == f = [k \in 0..n |-> IF k = 0 THEN m ELSE f[k - 1] + w[k]]
           all == CHOOSE f : IsAll(f)
<1>1. n \in Nat /\ w \in [1..n -> Nat]
  BY LenProperties
<1>2. Tls!Items(m, w) = all[n]
  BY DEF Tls!Items
<1> HIDE DEF n
<1>3. PICK h \in [0..n -> Nat] : h[0] = 0 /\ \A k \in 1..n : h[k] = h[k - 1] + w[k]
  <2>1. \E h \in [0..n -> Nat] : h[0] = 0 /\ \A k \in 1..n : h[k] = h[k - 1] + w[k]
    BY <1>1, Sums, Zenon
  <2> QED
    BY <2>1, Zenon
<1> DEFINE g == [k \in 0..n |-> m + h[k]]
<1>4. g \in [0..n -> Nat] /\ g[0] = m /\ \A k \in 1..n : g[k] = g[k - 1] + w[k]
  <2>1. g \in [0..n -> Nat] /\ g[0] = m
    BY <1>1, <1>3
  <2>2. ASSUME NEW k \in 1..n PROVE g[k] = g[k - 1] + w[k]
    <3>1. k \in 0..n /\ k - 1 \in 0..n /\ w[k] \in Nat
      BY <1>1
    <3>2. h[k] = h[k - 1] + w[k] /\ h[k - 1] \in Nat
      BY <1>3, <3>1
    <3>3. g[k] = m + h[k] /\ g[k - 1] = m + h[k - 1]
      BY <3>1
    <3> QED
      BY <3>1, <3>2, <3>3
  <2> QED
    BY <2>1, <2>2
<1> HIDE DEF g
<1>5. IsAll(g)
  <2>1. ASSUME NEW k \in 0..n
        PROVE  g[k] = IF k = 0 THEN m ELSE g[k - 1] + w[k]
    <3>1. k = 0 \/ k \in 1..n
      BY <1>1
    <3> QED
      BY <1>4, <3>1
  <2> QED
    BY <1>4, <2>1
<1> HIDE DEF IsAll
<1>6. IsAll(all)
  BY <1>5
<1> HIDE DEF all
<1>7. \A k \in 0..n : all[k] = IF k = 0 THEN m ELSE all[k - 1] + w[k]
  <2>1. all = [k \in 0..n |-> IF k = 0 THEN m ELSE all[k - 1] + w[k]]
    BY <1>6 DEF IsAll
  <2> QED
    BY <2>1, Zenon
<1>8. \A k \in 0..n : all[k] = g[k]
  <2> DEFINE S == {k \in Nat : k <= n => all[k] = g[k]}
  <2>1. 0 \in S
    BY <1>1, <1>4, <1>7
  <2>2. ASSUME NEW k \in Nat, k \in S
        PROVE  k + 1 \in S
    <3> SUFFICES ASSUME k + 1 <= n
                 PROVE  all[k + 1] = g[k + 1]
      OBVIOUS
    <3>1. /\ k + 1 \in 1..n /\ k + 1 \in 0..n /\ (k + 1) - 1 = k /\ k + 1 # 0
          /\ all[k] = g[k]
      <4>1. k <= n => all[k] = g[k]
        BY <2>2
      <4>2. n \in Nat /\ k \in Nat /\ k + 1 <= n
        BY <1>1
      <4>3. k <= n
        BY <4>2
      <4>4. k + 1 \in 1..n /\ k + 1 \in 0..n /\ (k + 1) - 1 = k /\ k + 1 # 0
        BY <4>2
      <4> QED
        BY <4>1, <4>3, <4>4
    <3>2. all[k + 1] = all[k] + w[k + 1]
      BY <1>7, <3>1
    <3>3. g[k + 1] = g[k] + w[k + 1]
      BY <1>4, <3>1
    <3> QED
      BY <3>1, <3>2, <3>3
  <2> HIDE DEF S
  <2>3. Nat \subseteq S
    BY <2>1, <2>2, Successors
  <2> QED
    BY <1>1, <2>3 DEF S
<1>9. Tls!Items(m, w) = g[n]
  BY <1>1, <1>2, <1>8
<1>10. IsSum(g, n, m, w)
  BY <1>1, <1>4 DEF IsSum
<1> QED
  BY <1>9, <1>10, Zenon DEF n

\* There is one sum.
Agree(f, g, n) == f[n] = g[n]

LEMMA SumsAgree ==
  ASSUME NEW n \in Nat, NEW m, NEW w, NEW f, NEW g, IsSum(f, n, m, w), IsSum(g, n, m, w)
  PROVE  Agree(f, g, n)
<1> DEFINE S == {k \in Nat : k <= n => g[k] = f[k]}
<1>1. 0 \in S
  BY DEF IsSum
<1>2. ASSUME NEW k \in Nat, k \in S
      PROVE  k + 1 \in S
  <2> SUFFICES ASSUME k + 1 <= n
               PROVE  g[k + 1] = f[k + 1]
    OBVIOUS
  <2>1. PICK j \in 1..n : j = k + 1
    OBVIOUS
  <2>2. j - 1 = k /\ k \in 0..n /\ j \in 0..n
    BY <2>1
  <2>3. g[k] = f[k]
    BY <1>2, <2>2
  <2>4. g[j] = g[k] + w[j] /\ f[j] = f[k] + w[j]
    BY <2>2, Zenon DEF IsSum
  <2> QED
    BY <2>1, <2>3, <2>4
<1> HIDE DEF S
<1>3. n \in S
  BY <1>1, <1>2, Successors
<1> QED
  BY <1>3 DEF S, Agree

\* The start counts with the rest.
LEMMA ItemsFrom ==
  ASSUME NEW m \in Nat, NEW e \in Nat, NEW w \in Seq(Nat)
  PROVE  /\ Tls!Items(m, w) \in Nat
         /\ Tls!Items(m + e, w) = Tls!Items(m, w) + e
<1>1. PICK n \in Nat : n = Len(w)
  BY LenProperties
<1>2. PICK f : IsSum(f, n, m, w) /\ Tls!Items(m, w) = f[n]
  BY <1>1, ItemsUnfold, Zenon
<1>3. PICK y \in Nat : y = m + e
  OBVIOUS
<1>4. PICK g : IsSum(g, n, y, w) /\ Tls!Items(y, w) = g[n]
  BY <1>1, ItemsUnfold, Zenon
<1>5. PICK h : \A k \in 0..n : h[k] = f[k] + e
  <2> DEFINE q == [k \in 0..n |-> f[k] + e]
  <2>1. \A k \in 0..n : q[k] = f[k] + e
    OBVIOUS
  <2> HIDE DEF q
  <2> QED
    BY <2>1
<1>6. IsSum(h, n, y, w)
  <2>1. ASSUME NEW k \in 1..n
        PROVE  w[k] \in Nat /\ h[k] = h[k - 1] + w[k]
    <3>1. k \in 0..n /\ k - 1 \in 0..n
      OBVIOUS
    <3>2. h[k] = f[k] + e /\ h[k - 1] = f[k - 1] + e
      BY <1>5, <3>1
    <3>3. f[k] = f[k - 1] + w[k] /\ w[k] \in Nat /\ f[k - 1] \in Nat
      BY <1>2, <3>1 DEF IsSum
    <3> QED
      BY <3>2, <3>3
  <2>2. ASSUME NEW k \in 0..n PROVE h[k] \in Nat
    <3>1. f[k] \in Nat
      BY <1>2 DEF IsSum
    <3> QED
      BY <1>5, <3>1
  <2>3. h[0] = y
    BY <1>2, <1>3, <1>5 DEF IsSum
  <2> QED
    BY <2>1, <2>2, <2>3 DEF IsSum
<1>7. g[n] = h[n]
  <2>1. Agree(h, g, n)
    BY <1>1, <1>3, <1>4, <1>6, SumsAgree, Zenon
  <2> QED
    BY <2>1 DEF Agree
<1>8. h[n] = f[n] + e /\ f[n] \in Nat
  BY <1>2, <1>5 DEF IsSum
<1> QED
  BY <1>2, <1>3, <1>4, <1>7, <1>8

LEMMA ItemsNone ==
  ASSUME NEW m \in Nat PROVE Tls!Items(m, <<>>) = m
<1> DEFINE w == <<>>
<1>1. w \in Seq(Nat) /\ Len(w) = 0
  OBVIOUS
<1> HIDE DEF w
<1>2. PICK f : IsSum(f, Len(w), m, w) /\ Tls!Items(m, w) = f[Len(w)]
  BY <1>1, ItemsUnfold, Zenon
<1>3. Tls!Items(m, w) = m
  BY <1>1, <1>2 DEF IsSum
<1> QED
  BY <1>3 DEF w

\* One more record counts for what it holds.
LEMMA ItemsAppend ==
  ASSUME NEW m \in Nat, NEW w \in Seq(Nat), NEW x \in Nat
  PROVE  Tls!Items(m, Append(w, x)) = Tls!Items(m, w) + x
<1> DEFINE v == Append(w, x)
<1>1. Len(w) \in Nat /\ v \in Seq(Nat) /\ Len(v) = Len(w) + 1 /\ v[Len(w) + 1] = x
  OBVIOUS
<1>2. \A k \in 1..Len(w) : v[k] = w[k]
  OBVIOUS
<1> HIDE DEF v
<1>3. PICK n : n = Len(w)
  OBVIOUS
<1>4. PICK f : IsSum(f, n, m, w) /\ Tls!Items(m, w) = f[n]
  BY <1>3, ItemsUnfold, Zenon
<1>5. PICK l \in Nat : l = n + 1 /\ l = Len(v) /\ v[l] = x
  BY <1>1, <1>3
<1>6. PICK g : IsSum(g, l, m, v) /\ Tls!Items(m, v) = g[l]
  BY <1>1, <1>5, ItemsUnfold, Zenon
<1>7. n \in Nat
  BY <1>1, <1>3
<1>8. IsSum(g, n, m, w)
  <2>1. ASSUME NEW k \in 1..n
        PROVE  w[k] \in Nat /\ g[k] = g[k - 1] + w[k]
    <3>1. k \in 1..l /\ v[k] = w[k]
      BY <1>2, <1>3, <1>5, <1>7
    <3> QED
      BY <1>6, <3>1 DEF IsSum
  <2>2. \A k \in 0..n : g[k] \in Nat
    BY <1>5, <1>6, <1>7 DEF IsSum
  <2>3. g[0] = m
    BY <1>6, <1>7 DEF IsSum
  <2> QED
    BY <2>1, <2>2, <2>3 DEF IsSum
<1>9. g[n] = f[n]
  <2>1. Agree(f, g, n)
    BY <1>4, <1>7, <1>8, SumsAgree, Zenon
  <2> QED
    BY <2>1 DEF Agree
<1>10. g[l] = g[n] + x
  <2>1. l \in 1..l /\ l - 1 = n
    BY <1>5, <1>7
  <2>2. g[l] = g[l - 1] + v[l]
    BY <1>6, <2>1 DEF IsSum
  <2> QED
    BY <1>5, <2>1, <2>2
<1> QED
  BY <1>4, <1>6, <1>9, <1>10 DEF v

\* Taking the first record out leaves the others.
LEMMA ItemsTail ==
  ASSUME NEW m \in Nat, NEW w \in Seq(Nat), w # <<>>
  PROVE  Tls!Items(m + Head(w), Tail(w)) = Tls!Items(m, w)
<1> DEFINE v == Tail(w)
           x == Head(w)
<1>1. /\ v \in Seq(Nat) /\ Len(v) \in Nat /\ Len(w) = Len(v) + 1
      /\ x = w[1] /\ x \in Nat
  OBVIOUS
<1>2. \A k \in 1..Len(v) : v[k] = w[k + 1]
  OBVIOUS
<1> HIDE DEF v, x
<1>3. PICK n \in Nat : n = Len(v)
  BY <1>1
<1>4. PICK l \in Nat : l = n + 1 /\ l = Len(w)
  BY <1>1, <1>3
<1>5. PICK f : IsSum(f, l, m, w) /\ Tls!Items(m, w) = f[l]
  BY <1>4, ItemsUnfold, Zenon
<1>6. PICK y \in Nat : y = m + x
  BY <1>1
<1>7. PICK g : IsSum(g, n, y, v) /\ Tls!Items(y, v) = g[n]
  BY <1>1, <1>3, ItemsUnfold, Zenon
<1>8. PICK h : \A k \in 0..n : h[k] = f[k + 1]
  <2> DEFINE q == [k \in 0..n |-> f[k + 1]]
  <2>1. \A k \in 0..n : q[k] = f[k + 1]
    OBVIOUS
  <2> HIDE DEF q
  <2> QED
    BY <2>1
<1>9. IsSum(h, n, y, v)
  <2>1. ASSUME NEW k \in 1..n
        PROVE  v[k] \in Nat /\ h[k] = h[k - 1] + v[k]
    <3>1. PICK j \in 1..l : j = k + 1
      BY <1>4
    <3>2. k \in 0..n /\ k - 1 \in 0..n /\ j - 1 = k /\ (k - 1) + 1 = k
      BY <3>1
    <3>3. h[k] = f[j] /\ h[k - 1] = f[k]
      BY <1>8, <3>1, <3>2
    <3>4. w[j] \in Nat /\ f[j] = f[k] + w[j]
      BY <1>5, <3>2, Zenon DEF IsSum
    <3>5. v[k] = w[j]
      BY <1>2, <1>3, <3>1
    <3> QED
      BY <3>3, <3>4, <3>5
  <2>2. ASSUME NEW k \in 0..n PROVE h[k] \in Nat
    <3>1. k + 1 \in 0..l
      BY <1>4
    <3> QED
      BY <1>5, <1>8, <3>1 DEF IsSum
  <2>3. h[0] = y
    <3>1. PICK j \in 1..l : j = 1
      BY <1>4
    <3>2. j - 1 = 0 /\ 0 \in 0..n /\ j = 0 + 1
      BY <3>1
    <3>3. f[j] = f[j - 1] + w[j] /\ f[0] = m
      BY <1>5 DEF IsSum
    <3>4. h[0] = f[j]
      BY <1>8, <3>2
    <3> QED
      BY <1>1, <1>6, <3>1, <3>2, <3>3, <3>4
  <2> QED
    BY <2>1, <2>2, <2>3 DEF IsSum
<1>10. g[n] = h[n]
  <2>1. Agree(h, g, n)
    BY <1>3, <1>7, <1>9, SumsAgree, Zenon
  <2> QED
    BY <2>1 DEF Agree
<1>11. h[n] = f[l]
  BY <1>4, <1>8
<1> QED
  BY <1>5, <1>6, <1>7, <1>10, <1>11 DEF v, x

-----------------------------------------------------------------------------
(* The TLS transport.                                                       *)

Links ==
  [open : BOOLEAN, accepted : BOOLEAN, left : 0..Flights, here : BOOLEAN,
   stuck : BOOLEAN, net : Seq(Records), held : Nat, sent : Nat, records : Nat,
   read : Nat, pending : [len : Nat, at : {"nowhere", "queue", "caller"}],
   full : BOOLEAN, taken : Nat, out : Nat, queue : Nat, failed : BOOLEAN]

\* What was sent was read or is on its way up.
InStep(e) == e.open => Tls!Items(e.read + e.held, e.net) = e.sent

\* What was accepted was sent or is queued.
Once(e) == e.open => e.out + e.queue = e.taken

\* A flight of the client is one that is left; who has been accepted has none.
Link(e) ==
  /\ e \in Links /\ InStep(e) /\ Once(e)
  /\ e.here => e.left > 0
  /\ e.accepted => e.open /\ e.left = 0 /\ ~e.stuck

LEMMA TlsConstants ==
  /\ Flights \in Nat \ {0} /\ Records \subseteq Nat \ {0} /\ Records \subseteq Nat
  /\ HandshakeBlocks \in BOOLEAN
BY ProgressAssumption DEF Tls!TlsAssumption

\* What the fields hold.
LEMMA LinkTyped ==
  ASSUME NEW d1 \in Links
  PROVE  /\ d1.left \in 0..Flights /\ d1.net \in Seq(Records) /\ d1.net \in Seq(Nat)
         /\ d1.held \in Nat /\ d1.sent \in Nat /\ d1.read \in Nat
         /\ d1.taken \in Nat /\ d1.out \in Nat /\ d1.queue \in Nat
<1>1. d1.left \in 0..Flights /\ d1.net \in Seq(Records)
  BY DEF Links
<1>2. d1.held \in Nat /\ d1.sent \in Nat /\ d1.read \in Nat
  BY DEF Links
<1>3. d1.taken \in Nat /\ d1.out \in Nat /\ d1.queue \in Nat
  BY DEF Links
<1>4. d1.net \in Seq(Nat)
  <2>1. PICK w \in Seq(Records) : w = d1.net
    BY <1>1
  <2>2. PICK n \in Nat : n = Len(w)
    BY <2>1
  <2>3. \A k \in 1..n : w[k] \in Records
    BY <2>2
  <2>4. \A k \in 1..n : w[k] \in Nat
    BY <2>3, TlsConstants
  <2>5. w = [k \in 1..n |-> w[k]]
    BY <2>2
  <2>6. [k \in 1..n |-> w[k]] \in Seq(Nat)
    BY <2>4
  <2> QED
    BY <2>1, <2>5, <2>6
<1> QED
  BY <1>1, <1>2, <1>3, <1>4

\* Only what these conjuncts name can disturb them.
LEMMA LinkKept ==
  ASSUME NEW d1, Link(d1), NEW e \in Links, e.open => d1.open,
         e.read = d1.read, e.held = d1.held, e.net = d1.net, e.sent = d1.sent,
         e.out = d1.out, e.queue = d1.queue, e.taken = d1.taken
  PROVE  InStep(e) /\ Once(e)
BY DEF Link, InStep, Once

\* axil_close() of a connection, failed or not.
LEMMA LinkClosed ==
  ASSUME NEW d1 \in Links PROVE Link(Tls!Close(d1))
<1>1. <<>> \in Seq(Records)
  OBVIOUS
<1>2. Tls!Close(d1) \in Links /\ ~Tls!Close(d1).open /\ ~Tls!Close(d1).here
      /\ ~Tls!Close(d1).accepted
  BY <1>1 DEF Tls!Close, Links
<1> QED
  BY <1>2 DEF Link, InStep, Once

\* SSL_accept(), and ssl_accept() around it.
LEMMA LinkAccepts ==
  ASSUME NEW d1, Link(d1), d1.open, NEW e \in Tls!SslAccepts(d1)
  PROVE  Link(e)
<1>1. CASE e \in {Tls!Close([d1 EXCEPT !.failed = TRUE])}
  <2>1. [d1 EXCEPT !.failed = TRUE] \in Links
    BY DEF Link, Links
  <2> QED
    BY <1>1, <2>1, LinkClosed
<1>2. CASE e \notin {Tls!Close([d1 EXCEPT !.failed = TRUE])}
  <2>1. PICK f \in Tls!Resumes(d1) :
          e = [f EXCEPT !.accepted = f.left = 0 /\ ~f.stuck /\ f.open]
    BY <1>2 DEF Tls!SslAccepts
  <2>2. /\ f \in Links /\ f.open /\ (f.here => f.left > 0)
        /\ f.read = d1.read /\ f.held = d1.held /\ f.net = d1.net /\ f.sent = d1.sent
        /\ f.out = d1.out /\ f.queue = d1.queue /\ f.taken = d1.taken
    <3>1. CASE d1.stuck
      <4>1. f = d1 \/ f = [d1 EXCEPT !.stuck = FALSE]
        BY <2>1, <3>1 DEF Tls!Resumes
      <4> QED
        BY <4>1 DEF Link, Links
    <3>2. CASE ~d1.stuck /\ d1.here
      <4>1. PICK l \in 0..Flights : l = d1.left - 1
        <5>1. d1.left \in 0..Flights /\ d1.left > 0 /\ Flights \in Nat
          BY <3>2, LinkTyped, TlsConstants DEF Link
        <5> QED
          BY <5>1
      <4> DEFINE g == [d1 EXCEPT !.left = l, !.here = FALSE]
      <4>2. f = g \/ f = [g EXCEPT !.stuck = TRUE]
        BY <2>1, <3>2, <4>1 DEF Tls!Resumes, Tls!Processed
      <4>3. /\ g \in Links /\ g.open /\ ~g.here
            /\ g.read = d1.read /\ g.held = d1.held /\ g.net = d1.net
            /\ g.sent = d1.sent /\ g.out = d1.out /\ g.queue = d1.queue
            /\ g.taken = d1.taken
        BY <4>1 DEF Link, Links
      <4> HIDE DEF g
      <4>4. PICK b \in BOOLEAN : f = g \/ f = [g EXCEPT !.stuck = b]
        BY <4>2
      <4>5. f \in Links
        BY <4>3, <4>4 DEF Links
      <4>6. f.open = g.open /\ f.here = g.here
        BY <4>3, <4>4 DEF Links
      <4>7. /\ f.read = g.read /\ f.held = g.held /\ f.net = g.net
            /\ f.sent = g.sent /\ f.out = g.out /\ f.queue = g.queue
            /\ f.taken = g.taken
        BY <4>3, <4>4 DEF Links
      <4> QED
        BY <4>3, <4>5, <4>6, <4>7
    <3>3. CASE ~d1.stuck /\ ~d1.here
      <4>1. f = d1
        BY <2>1, <3>3 DEF Tls!Resumes
      <4> QED
        BY <4>1 DEF Link
    <3> QED
      BY <3>1, <3>2, <3>3
  <2> DEFINE a == f.left = 0 /\ ~f.stuck /\ f.open
  <2>3. a \in BOOLEAN /\ e = [f EXCEPT !.accepted = a]
    BY <2>1
  <2>4. a => f.left = 0 /\ ~f.stuck /\ f.open
    OBVIOUS
  <2> HIDE DEF a
  <2>5. /\ e \in Links /\ e.open /\ e.accepted = a /\ e.left = f.left
        /\ e.stuck = f.stuck /\ e.here = f.here
        /\ e.read = d1.read /\ e.held = d1.held /\ e.net = d1.net /\ e.sent = d1.sent
        /\ e.out = d1.out /\ e.queue = d1.queue /\ e.taken = d1.taken
    BY <2>2, <2>3 DEF Links
  <2>6. InStep(e) /\ Once(e)
    BY <2>5, LinkKept
  <2> QED
    BY <2>2, <2>4, <2>5, <2>6 DEF Link
<1> QED
  BY <1>1, <1>2

\* The first statement of descr_proc_writes().
LEMMA LinkProcWrites ==
  ASSUME NEW d1, Link(d1), NEW e \in Tls!ProcWrites(d1) PROVE Link(e)
BY LinkAccepts DEF Tls!ProcWrites

-----------------------------------------------------------------------------

\* SSL_read() of one item.
LEMMA LinkReadsOne ==
  ASSUME NEW d1, Link(d1), d1.accepted, d1.held > 0 \/ d1.net # <<>>
  PROVE  Link(Tls!SslRead(d1))
<1>1. d1 \in Links /\ d1.open
  BY DEF Link
<1>2. /\ d1.read \in Nat /\ d1.held \in Nat /\ d1.net \in Seq(Records)
      /\ d1.net \in Seq(Nat)
  BY <1>1, LinkTyped
<1>3. PICK m \in Nat : m = d1.read + d1.held
  BY <1>2
<1>4. Tls!Items(m, d1.net) = d1.sent
  BY <1>1, <1>3 DEF Link, InStep
<1>5. PICK r \in Nat : r = d1.read + 1
  BY <1>2
<1>6. ASSUME NEW w \in Seq(Records), NEW h \in Nat,
             Tls!Items(r + h, w) = Tls!Items(m, d1.net)
      PROVE  Link([d1 EXCEPT !.net = w, !.held = h, !.read = r])
  <2> DEFINE e == [d1 EXCEPT !.net = w, !.held = h, !.read = r]
  <2>1. e \in Links
    BY <1>1 DEF Links
  <2>2. /\ e.open /\ e.read = r /\ e.held = h /\ e.net = w /\ e.sent = d1.sent
        /\ e.out = d1.out /\ e.queue = d1.queue /\ e.taken = d1.taken
        /\ e.here = d1.here /\ e.left = d1.left /\ e.accepted = d1.accepted
        /\ e.stuck = d1.stuck
    BY <1>1 DEF Links
  <2> HIDE DEF e
  <2>3. InStep(e)
    BY <1>4, <1>6, <2>2 DEF InStep
  <2>4. Once(e)
    BY <1>1, <2>2 DEF Link, Once
  <2>5. Link(e)
    BY <2>1, <2>2, <2>3, <2>4 DEF Link
  <2> QED
    BY <2>5 DEF e
<1>7. CASE d1.held > 0
  <2>1. PICK h \in Nat : h = d1.held - 1
    BY <1>2, <1>7
  <2>2. PICK w \in Seq(Records) : w = d1.net
    BY <1>2
  <2>3. Tls!SslRead(d1) = [d1 EXCEPT !.net = w, !.held = h, !.read = r]
    BY <1>1, <1>5, <1>7, <2>1, <2>2 DEF Tls!SslRead, Links
  <2>4. r + h = m
    BY <1>2, <1>3, <1>5, <2>1
  <2> QED
    BY <1>6, <2>2, <2>3, <2>4
<1>8. CASE ~(d1.held > 0)
  <2>1. d1.held = 0 /\ d1.net # <<>>
    BY <1>2, <1>8
  <2>2. Head(d1.net) \in Nat \ {0} /\ Tail(d1.net) \in Seq(Records)
    BY <1>2, <2>1, HeadTailProperties, TlsConstants
  <2>3. PICK h \in Nat : h = Head(d1.net) - 1
    BY <2>2
  <2>4. PICK w \in Seq(Records) : w = Tail(d1.net)
    BY <2>2
  <2>5. Tls!SslRead(d1) = [d1 EXCEPT !.net = w, !.held = h, !.read = r]
    BY <1>5, <1>8, <2>3, <2>4 DEF Tls!SslRead
  <2>6. d1.read + Head(d1.net) = r + h /\ d1.read = m
    <3>1. PICK x \in Nat : x = Head(d1.net)
      BY <2>2
    <3>2. PICK y \in Nat : y = d1.read
      BY <1>2
    <3>3. h = x - 1 /\ r = y + 1
      BY <1>5, <2>3, <3>1, <3>2
    <3>4. y + x = r + h
      BY <3>3
    <3>5. y = m
      BY <1>3, <2>1, <3>2
    <3> QED
      BY <3>1, <3>2, <3>4, <3>5
  <2>7. Tls!Items(d1.read + Head(d1.net), Tail(d1.net)) = Tls!Items(d1.read, d1.net)
    BY <1>2, <2>1, ItemsTail
  <2>8. Tls!Items(r + h, w) = Tls!Items(m, d1.net)
    BY <2>4, <2>6, <2>7
  <2> QED
    BY <1>6, <2>5, <2>8
<1> QED
  BY <1>7, <1>8

\* axil_read() until SSL_read() would block.
LEMMA LinkReadsAll ==
  ASSUME NEW d1, Link(d1), d1.accepted PROVE Link(Tls!ReadHead(d1))
<1>1. d1 \in Links /\ d1.open
  BY DEF Link
<1>2. d1.read \in Nat /\ d1.held \in Nat /\ d1.net \in Seq(Nat)
  BY <1>1, LinkTyped
<1>3. PICK n \in Nat : n = Tls!Items(d1.held, d1.net)
  BY <1>2, ItemsFrom
<1>4. PICK w \in Seq(Records) : w = <<>>
  <2>1. <<>> \in Seq(Records)
    OBVIOUS
  <2> QED
    BY <2>1
<1>5. PICK r \in Nat : r = d1.read + n
  BY <1>2
<1> DEFINE e == [d1 EXCEPT !.net = w, !.held = 0, !.read = r]
<1>6. Tls!ReadHead(d1) = e
  BY <1>3, <1>4, <1>5 DEF Tls!ReadHead
<1>7. e \in Links
  BY <1>1 DEF Links
<1>8. /\ e.open /\ e.read = r /\ e.held = 0 /\ e.net = w /\ e.sent = d1.sent
      /\ e.out = d1.out /\ e.queue = d1.queue /\ e.taken = d1.taken
      /\ e.here = d1.here /\ e.left = d1.left /\ e.accepted = d1.accepted
      /\ e.stuck = d1.stuck
  BY <1>1 DEF Links
<1> HIDE DEF e
<1>9. InStep(e)
  <2>1. Tls!Items(d1.held + d1.read, d1.net) = n + d1.read
    BY <1>2, <1>3, ItemsFrom
  <2>2. d1.held + d1.read = d1.read + d1.held /\ n + d1.read = r /\ r + 0 = r
    BY <1>2, <1>5
  <2>3. Tls!Items(d1.read + d1.held, d1.net) = d1.sent
    BY <1>1 DEF Link, InStep
  <2>4. Tls!Items(r, w) = r
    BY <1>4, ItemsNone
  <2>5. e.read + e.held = r
    BY <1>8, <2>2
  <2>6. Tls!Items(e.read + e.held, e.net) = r
    BY <1>8, <2>4, <2>5
  <2> QED
    BY <1>8, <2>1, <2>2, <2>3, <2>6 DEF InStep
<1>10. Once(e)
  BY <1>1, <1>8 DEF Link, Once
<1>11. Link(e)
  BY <1>7, <1>8, <1>9, <1>10 DEF Link
<1> QED
  BY <1>6, <1>11

\* descr_proc_reads().
LEMMA LinkProcReads ==
  ASSUME NEW d1, Link(d1), NEW b PROVE Link(Tls!ProcReads(d1, b))
BY LinkReadsAll, LinkReadsOne DEF Tls!ProcReads, Tls!ReadOne

-----------------------------------------------------------------------------

\* What a write leaves alone.
Keeps(e, d1) ==
  /\ e \in Links
  /\ e.open = d1.open /\ e.here = d1.here /\ e.left = d1.left
  /\ e.accepted = d1.accepted /\ e.stuck = d1.stuck
  /\ e.read = d1.read /\ e.held = d1.held /\ e.net = d1.net /\ e.sent = d1.sent

\* Such a connection has all of Link but for the items that were accepted.
LEMMA KeptLink ==
  ASSUME NEW d1, Link(d1), NEW e, Keeps(e, d1), Once(e) PROVE Link(e)
BY DEF Keeps, Link, InStep

\* SSL_write() sends all of a buffer or none.
LEMMA SslWritesAllOrNone ==
  ASSUME NEW d1 \in Links, NEW n \in Nat, NEW at \in {"queue", "caller"},
         NEW r \in Tls!SslWrites(d1, n, at)
  PROVE  /\ Keeps(r.d, d1) /\ r.d.taken = d1.taken /\ r.d.queue = d1.queue
         /\ \/ r.ret = -1 /\ r.d.out = d1.out
            \/ r.ret = n /\ r.d.out = d1.out + n
<1>1. \/ r.d = d1 /\ r.ret = -1
      \/ r.d = [d1 EXCEPT !.pending = [len |-> n, at |-> at]] /\ r.ret = -1
      \/ r.d = [d1 EXCEPT !.out = @ + n, !.pending = [len |-> 0, at |-> "nowhere"]]
         /\ r.ret = n
  BY DEF Tls!SslWrites, Tls!Fresh
<1>2. CASE r.d = d1 /\ r.ret = -1
  BY <1>2 DEF Keeps
<1>3. CASE r.d = [d1 EXCEPT !.pending = [len |-> n, at |-> at]] /\ r.ret = -1
  <2> DEFINE p == [len |-> n, at |-> at]
  <2>1. p \in [len : Nat, at : {"nowhere", "queue", "caller"}]
    OBVIOUS
  <2>2. r.d = [d1 EXCEPT !.pending = p]
    BY <1>3
  <2> HIDE DEF p
  <2>3. r.d \in Links
    BY <2>1, <2>2 DEF Links
  <2>4. Keeps(r.d, d1)
    BY <2>2, <2>3 DEF Keeps, Links
  <2>5. r.d.taken = d1.taken /\ r.d.queue = d1.queue /\ r.d.out = d1.out
    BY <2>2 DEF Links
  <2> QED
    BY <1>3, <2>4, <2>5
<1>4. CASE /\ r.d = [d1 EXCEPT !.out = @ + n,
                               !.pending = [len |-> 0, at |-> "nowhere"]]
           /\ r.ret = n
  <2>1. PICK o \in Nat : o = d1.out + n
    BY LinkTyped
  <2> DEFINE p == [len |-> 0, at |-> "nowhere"]
  <2>2. r.d = [d1 EXCEPT !.out = o, !.pending = p]
    BY <1>4, <2>1
  <2>3. p \in [len : Nat, at : {"nowhere", "queue", "caller"}]
    OBVIOUS
  <2> HIDE DEF p
  <2>4. r.d \in Links
    BY <2>2, <2>3 DEF Links
  <2>5. Keeps(r.d, d1)
    BY <2>2, <2>4 DEF Keeps, Links
  <2>6. r.d.taken = d1.taken /\ r.d.queue = d1.queue /\ r.d.out = o
    BY <2>2 DEF Links
  <2> QED
    BY <1>4, <2>1, <2>5, <2>6
<1> QED
  BY <1>1, <1>2, <1>3, <1>4

\* axil_write_remaining().
LEMMA LinkWriteRemaining ==
  ASSUME NEW d1, Link(d1), NEW e \in Tls!WriteRemaining(d1) PROVE Link(e)
<1>1. d1 \in Links /\ d1.queue \in Nat /\ d1.out \in Nat /\ d1.taken \in Nat
  BY LinkTyped DEF Link
<1>2. CASE d1.queue = 0
  BY <1>2 DEF Tls!WriteRemaining
<1>3. CASE d1.queue # 0
  <2>1. PICK r \in Tls!SslWrites(d1, d1.queue, "queue") :
          e = IF r.ret >= 0 THEN [r.d EXCEPT !.queue = @ - r.ret]
              ELSE IF r.errno = "EAGAIN" THEN r.d
              ELSE Tls!Close(r.d)
    BY <1>3 DEF Tls!WriteRemaining
  <2>2. /\ Keeps(r.d, d1) /\ r.d.taken = d1.taken /\ r.d.queue = d1.queue
        /\ \/ r.ret = -1 /\ r.d.out = d1.out
           \/ r.ret = d1.queue /\ r.d.out = d1.out + d1.queue
    BY <1>1, SslWritesAllOrNone
  <2>3. CASE r.ret = d1.queue /\ r.d.out = d1.out + d1.queue
    <3>1. r.ret >= 0 /\ r.d.queue - r.ret = 0
      BY <1>1, <2>2, <2>3
    <3>2. e = [r.d EXCEPT !.queue = 0]
      BY <2>1, <3>1
    <3>3. Keeps(e, d1) /\ e.open = d1.open /\ e.taken = d1.taken /\ e.out = r.d.out
          /\ e.queue = 0
      BY <2>2, <3>2 DEF Keeps, Links
    <3>4. e.out + e.queue = d1.out + d1.queue
      BY <1>1, <2>3, <3>3
    <3>5. Once(e)
      BY <3>3, <3>4 DEF Link, Once
    <3> QED
      BY <3>3, <3>5, KeptLink
  <2>4. CASE r.ret = -1 /\ r.d.out = d1.out
    <3>1. e = r.d \/ e = Tls!Close(r.d)
      BY <2>1, <2>4
    <3>2. Once(r.d)
      BY <2>2, <2>4 DEF Keeps, Link, Once
    <3>3. Link(r.d) /\ Link(Tls!Close(r.d))
      BY <2>2, <3>2, KeptLink, LinkClosed DEF Keeps
    <3> QED
      BY <3>1, <3>3
  <2> QED
    BY <2>2, <2>3, <2>4
<1> QED
  BY <1>2, <1>3

\* axil_low_write() of one item, on an open connection.
LEMMA LinkLowWrites ==
  ASSUME NEW d1, Link(d1), d1.open, NEW e \in Tls!LowWrites(d1) PROVE Link(e)
<1>1. d1 \in Links /\ d1.queue \in Nat /\ d1.out \in Nat /\ d1.taken \in Nat
  BY LinkTyped DEF Link
<1>2. PICK t \in Nat : t = d1.taken + 1
  BY <1>1
<1>3. PICK q \in Nat : q = d1.queue + 1
  BY <1>1
<1> DEFINE a == [d1 EXCEPT !.taken = t]
<1>4. a = [d1 EXCEPT !.taken = @ + 1]
  BY <1>2
<1>5. /\ Keeps(a, d1) /\ a.taken = t /\ a.queue = d1.queue /\ a.out = d1.out
  BY <1>1 DEF Keeps, Links
<1>6. d1.out + d1.queue = d1.taken
  BY DEF Link, Once
<1> HIDE DEF a
<1>7. CASE d1.queue > 0
  <2> DEFINE b == [a EXCEPT !.queue = q]
  <2>1. e \in Tls!WriteRemaining(b)
    <3>1. [a EXCEPT !.queue = @ + 1] = b
      BY <1>3, <1>5
    <3> QED
      BY <1>4, <1>7, <3>1 DEF Tls!LowWrites
  <2>2. Keeps(b, d1) /\ b.taken = t /\ b.queue = q /\ b.out = d1.out
    BY <1>5 DEF Keeps, Links
  <2> HIDE DEF b
  <2>3. d1.out + q = t
    BY <1>1, <1>2, <1>3, <1>6
  <2>4. Once(b)
    BY <2>2, <2>3 DEF Once
  <2>5. Link(b)
    BY <2>2, <2>4, KeptLink
  <2> QED
    BY <2>1, <2>5, LinkWriteRemaining
<1>8. CASE ~(d1.queue > 0)
  <2>1. PICK r \in Tls!SslWrites(a, 1, "caller") :
          e = IF r.ret >= 0 THEN r.d
              ELSE IF r.errno = "EAGAIN" THEN [r.d EXCEPT !.queue = 1]
              ELSE Tls!Close(r.d)
    BY <1>4, <1>8 DEF Tls!LowWrites
  <2>2. /\ Keeps(r.d, a) /\ r.d.taken = t /\ r.d.queue = d1.queue
        /\ \/ r.ret = -1 /\ r.d.out = d1.out
           \/ r.ret = 1 /\ r.d.out = d1.out + 1
    <3>1. a \in Links /\ 1 \in Nat
      BY <1>5 DEF Keeps
    <3>2. /\ Keeps(r.d, a) /\ r.d.taken = a.taken /\ r.d.queue = a.queue
          /\ \/ r.ret = -1 /\ r.d.out = a.out
             \/ r.ret = 1 /\ r.d.out = a.out + 1
      BY <3>1, SslWritesAllOrNone
    <3> QED
      BY <1>5, <3>2
  <2>3. Keeps(r.d, d1)
    BY <1>5, <2>2 DEF Keeps
  <2>4. d1.queue = 0 /\ d1.out + 1 = t
    BY <1>1, <1>2, <1>6, <1>8
  <2>5. CASE r.ret = 1 /\ r.d.out = d1.out + 1
    <3>1. e = r.d
      BY <2>1, <2>5
    <3>2. r.d.out + r.d.queue = t
      BY <1>1, <2>2, <2>4, <2>5
    <3>3. Once(r.d)
      BY <2>2, <3>2 DEF Once
    <3> QED
      BY <2>3, <3>1, <3>3, KeptLink
  <2>6. CASE r.ret = -1 /\ r.d.out = d1.out
    <3>1. e = [r.d EXCEPT !.queue = 1] \/ e = Tls!Close(r.d)
      BY <2>1, <2>6
    <3>2. CASE e = [r.d EXCEPT !.queue = 1]
      <4>1. Keeps(e, d1) /\ e.taken = t /\ e.out = d1.out /\ e.queue = 1
        BY <2>2, <2>3, <2>6, <3>2 DEF Keeps, Links
      <4>2. Once(e)
        BY <2>4, <4>1 DEF Once
      <4> QED
        BY <4>1, <4>2, KeptLink
    <3>3. CASE e = Tls!Close(r.d)
      BY <2>3, <3>3, LinkClosed DEF Keeps
    <3> QED
      BY <3>1, <3>2, <3>3
  <2> QED
    BY <2>2, <2>5, <2>6
<1> QED
  BY <1>7, <1>8

-----------------------------------------------------------------------------

\* accept(), with or without the client's first flight at hand.
LEMMA LinkFresh == Link(Tls!Fresh) /\ Link([Tls!Fresh EXCEPT !.here = TRUE])
<1> DEFINE e == Tls!Fresh
           h == [e EXCEPT !.here = TRUE]
<1>1. e \in Links
  <2>1. <<>> \in Seq(Records) /\ Flights \in 0..Flights
    BY TlsConstants
  <2>2. [len |-> 0, at |-> "nowhere"]
          \in [len : Nat, at : {"nowhere", "queue", "caller"}]
    OBVIOUS
  <2> QED
    BY <2>1, <2>2 DEF Tls!Fresh, Links
<1>2. /\ e.left = Flights /\ ~e.here /\ ~e.accepted
      /\ e.read = 0 /\ e.held = 0 /\ e.net = <<>> /\ e.sent = 0
      /\ e.out = 0 /\ e.queue = 0 /\ e.taken = 0
  BY DEF Tls!Fresh
<1>3. InStep(e)
  <2>1. Tls!Items(0, <<>>) = 0 /\ 0 + 0 = 0
    BY ItemsNone
  <2> QED
    BY <1>2, <2>1 DEF InStep
<1>4. Once(e)
  BY <1>2 DEF Once
<1> HIDE DEF e
<1>5. /\ h \in Links /\ h.left = Flights /\ ~h.accepted /\ h.open = e.open
      /\ h.read = e.read /\ h.held = e.held /\ h.net = e.net /\ h.sent = e.sent
      /\ h.out = e.out /\ h.queue = e.queue /\ h.taken = e.taken
  BY <1>1, <1>2 DEF Links
<1> HIDE DEF h
<1>6. InStep(h) /\ Once(h)
  BY <1>3, <1>4, <1>5 DEF InStep, Once
<1>7. Flights > 0
  BY TlsConstants
<1>8. Link(e) /\ Link(h)
  BY <1>1, <1>2, <1>3, <1>4, <1>5, <1>6, <1>7 DEF Link
<1> QED
  BY <1>8 DEF e, h

\* Every step of the transport.
LEMMA LinkStep == Link(c) /\ Tls!Next => Link(c')
<1> SUFFICES ASSUME Link(c), Tls!Next PROVE Link(c')
  OBVIOUS
<1>1. CASE Tls!ClientFlight
  <2>1. /\ c.left > 0 /\ c' = [c EXCEPT !.here = TRUE] /\ c \in Links
        /\ c.accepted => c.left = 0
    BY <1>1, LinkTyped DEF Tls!ClientFlight, Link
  <2>2. /\ c' \in Links /\ c'.open = c.open /\ c'.left = c.left
        /\ c'.accepted = c.accepted /\ c'.stuck = c.stuck
        /\ c'.read = c.read /\ c'.held = c.held /\ c'.net = c.net /\ c'.sent = c.sent
        /\ c'.out = c.out /\ c'.queue = c.queue /\ c'.taken = c.taken
    BY <2>1 DEF Links
  <2>3. InStep(c') /\ Once(c')
    BY <2>2, LinkKept
  <2> QED
    BY <2>1, <2>2, <2>3 DEF Link
<1>2. CASE Tls!ClientSends
  <2>1. PICK n \in Records :
          c' = [c EXCEPT !.net = Append(@, n), !.sent = @ + n, !.records = @ + 1]
    BY <1>2 DEF Tls!ClientSends
  <2>2. /\ c.open /\ c \in Links /\ n \in Nat /\ c.read \in Nat /\ c.held \in Nat
        /\ c.net \in Seq(Nat) /\ c.net \in Seq(Records) /\ c.sent \in Nat
    <3>1. c.open /\ c \in Links /\ n \in Nat
      BY <1>2, TlsConstants DEF Tls!ClientSends, Link
    <3> QED
      BY <3>1, LinkTyped
  <2>3. PICK w \in Seq(Records) : w = Append(c.net, n)
    <3>1. PICK v \in Seq(Records) : v = c.net
      BY <2>2
    <3>2. Append(v, n) \in Seq(Records)
      BY <3>1
    <3> QED
      BY <3>1, <3>2
  <2>4. PICK q \in Nat : q = c.sent + n
    BY <2>2
  <2>5. PICK r \in Nat : r = c.records + 1
    BY <2>2 DEF Links
  <2>6. PICK m \in Nat : m = c.read + c.held
    BY <2>2
  <2>7. c' = [c EXCEPT !.net = w, !.sent = q, !.records = r]
    BY <2>1, <2>3, <2>4, <2>5
  <2>8. c' \in Links
    BY <2>2, <2>7 DEF Links
  <2>9. /\ c'.open = c.open /\ c'.left = c.left /\ c'.here = c.here
        /\ c'.accepted = c.accepted /\ c'.stuck = c.stuck
        /\ c'.read = c.read /\ c'.held = c.held /\ c'.net = w /\ c'.sent = q
        /\ c'.out = c.out /\ c'.queue = c.queue /\ c'.taken = c.taken
    BY <2>2, <2>7 DEF Links
  <2>10. Tls!Items(m, c.net) = c.sent
    BY <2>2, <2>6 DEF Link, InStep
  <2>11. Tls!Items(m, Append(c.net, n)) = Tls!Items(m, c.net) + n
    BY <2>2, ItemsAppend
  <2>12. Tls!Items(m, w) = q
    BY <2>3, <2>4, <2>10, <2>11
  <2>13. InStep(c') /\ Once(c')
    BY <2>6, <2>9, <2>12 DEF Link, InStep, Once
  <2> QED
    BY <2>8, <2>9, <2>13 DEF Link
<1>3. CASE Tls!Turn
  <2>1. PICK d1 \in Tls!ProcWrites(c) : c' = Tls!ProcReads(d1, d1.open)
    BY <1>3 DEF Tls!Turn
  <2>2. Link(d1)
    BY LinkProcWrites
  <2> QED
    BY <2>1, <2>2, LinkProcReads
<1>4. CASE Tls!OtherTurn
  BY <1>4, LinkProcWrites DEF Tls!OtherTurn
<1>5. CASE Tls!Flush
  BY <1>5, LinkWriteRemaining DEF Tls!Flush
<1>6. CASE Tls!AppWrite
  BY <1>6, LinkLowWrites DEF Tls!AppWrite
<1>7. CASE Tls!Fills \/ Tls!Drains
  <2>1. PICK b \in BOOLEAN : c' = [c EXCEPT !.full = b]
    BY <1>7 DEF Tls!Fills, Tls!Drains
  <2>2. /\ c' \in Links /\ c'.open = c.open /\ c'.left = c.left /\ c'.here = c.here
        /\ c'.accepted = c.accepted /\ c'.stuck = c.stuck
        /\ c'.read = c.read /\ c'.held = c.held /\ c'.net = c.net /\ c'.sent = c.sent
        /\ c'.out = c.out /\ c'.queue = c.queue /\ c'.taken = c.taken
    BY <2>1 DEF Link, Links
  <2>3. InStep(c') /\ Once(c')
    BY <2>2, LinkKept
  <2> QED
    BY <2>2, <2>3 DEF Link
<1>8. CASE Tls!Reset
  <2>1. [c EXCEPT !.failed = TRUE] \in Links
    BY DEF Link, Links
  <2> QED
    BY <1>8, <2>1, LinkClosed DEF Tls!Reset
<1>9. CASE Tls!Closed
  BY <1>9 DEF Tls!Closed
<1> QED
  BY <1>1, <1>2, <1>3, <1>4, <1>5, <1>6, <1>7, <1>8, <1>9 DEF Tls!Next

\* Nothing the peer sent is skipped or read twice between OpenSSL's buffer and
\* the readers, and what axil_low_write() accepted is on the wire or queued,
\* once, whatever OpenSSL makes of a retry (axil_ssl_low_read(),
\* axil_ssl_lower_write()): for either reader, a handshake that blocks or not,
\* and any number of records and writes.
THEOREM TransportExactTheorem == FairSpec => []TransportExact
<1>1. ProgressInit => Link(c)
  <2>1. CASE part = "tls"
    <3>1. Tls!Fresh.open /\ [Tls!Fresh EXCEPT !.here = TRUE].open
      BY DEF Tls!Fresh
    <3> QED
      BY <2>1, <3>1, LinkFresh, LinkAccepts DEF ProgressInit, Tls!Init
  <2>2. CASE part # "tls"
    <3> DEFINE e == [Tls!Fresh EXCEPT !.open = FALSE]
    <3>1. Tls!Fresh \in Links /\ ~Tls!Fresh.here /\ ~Tls!Fresh.accepted
      BY LinkFresh DEF Link, Tls!Fresh
    <3>2. e \in Links /\ ~e.open /\ ~e.here /\ ~e.accepted
      BY <3>1 DEF Links
    <3>3. Link(e)
      BY <3>2 DEF Link, InStep, Once
    <3> QED
      BY <2>2, <3>3 DEF ProgressInit
  <2> QED
    BY <2>1, <2>2
<1>2. Link(c) /\ [ProgressNext]_ProgressVars => Link(c)'
  BY LinkStep DEF ProgressNext, ProgressVars, tlsVars
<1>3. Link(c) => TransportExact
  <2> SUFFICES ASSUME Link(c) PROVE TransportExact
    OBVIOUS
  <2>1. c \in Links
    BY DEF Link
  <2>2. Tls!TypeOK
    BY <2>1, LinkTyped DEF Link, Tls!TypeOK
  <2>3. Tls!ReadInStep /\ Tls!SentOnce
    BY DEF Link, InStep, Once, Tls!ReadInStep, Tls!SentOnce
  <2> QED
    BY <2>2, <2>3 DEF TransportExact
<1> QED
  BY <1>1, <1>2, <1>3, PTL DEF FairSpec
=============================================================================
