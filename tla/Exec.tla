-------------------------------- MODULE Exec --------------------------------
(***************************************************************************)
(* A program run for a request (axil-posix.c): axil_exec() forks it with   *)
(* its output in two pipes, and every turn of the event loop in which the  *)
(* client's socket is writable calls axil_exec_loop(), which passes what   *)
(* the pipes hold to a callback, and at the end of standard output, or     *)
(* after 40 seconds, kills and reaps the program.                          *)
(*                                                                         *)
(* The program writes to either pipe as it likes; a full pipe blocks it.   *)
(* The callback writes what it is given to the client: each write is       *)
(* taken, queued, or (PeerFails) the error that makes axil_low_write()     *)
(* close the descriptor under axil_exec_loop().  popen2() succeeds.        *)
(***************************************************************************)
EXTENDS Integers

CONSTANTS
  PipeSize,    \* what a pipe holds before the program blocks
  MaxOutput,   \* bound: what the program writes to each pipe
  TimeLimit,   \* total_timeout
  PeerFails,   \* may a write to the client fail?
  EarlyOutput  \* may the handler have queued output before axil_exec()?

ExecAssumption ==
  /\ PipeSize \in Nat \ {0} /\ MaxOutput \in Nat /\ TimeLimit \in Nat \ {0}
  /\ PeerFails \in BOOLEAN /\ EarlyOutput \in BOOLEAN

VARIABLES
  d,       \* the descriptor: descr_map[cfd]
  prog,    \* the program and the read ends of its pipes
  killed   \* what kill() was sent to: the program, the server's own group

vars == <<d, prog, killed>>

Pipes == {"out", "err"}

\* What memset() leaves in axil_close().
NoDescr == [open |-> FALSE, toClose |-> FALSE, queued |-> FALSE,
            epid |-> FALSE, mask |-> {}, total |-> 0, elapsed |-> 0]

\* made and got count what went into and came out of each pipe; next is what
\* the program is doing; seen, whether select()'s first argument, the number
\* of standard output plus one, covers standard error.
NoProg == [state |-> "none", next |-> "none", seen |-> FALSE,
           closed |-> {}, made |-> [p \in Pipes |-> 0], got |-> [p \in Pipes |-> 0],
           timedOut |-> FALSE]

Init ==
  /\ d = NoDescr
  /\ prog = NoProg
  /\ killed = {}

-----------------------------------------------------------------------------
(* The program.                                                             *)

Pending(g, p) == g.made[p] - g.got[p]

\* It sets about writing to a pipe, closing one, or exiting.
ProgTurn ==
  /\ prog.state = "running" /\ prog.next = "none"
  /\ \/ \E p \in Pipes \ prog.closed :
          /\ prog.made[p] < MaxOutput
          /\ prog' = [prog EXCEPT !.next = p]
     \/ \E p \in Pipes : prog' = [prog EXCEPT !.closed = @ \cup {p}]
     \/ prog' = [prog EXCEPT !.state = "exited", !.closed = Pipes]
  /\ UNCHANGED <<d, killed>>

\* The write goes in once the pipe has room.
ProgWrite(p) ==
  /\ prog.state = "running" /\ prog.next = p
  /\ Pending(prog, p) < PipeSize
  /\ prog' = [prog EXCEPT !.next = "none", !.made[p] = @ + 1]
  /\ UNCHANGED <<d, killed>>

-----------------------------------------------------------------------------
(* The descriptor.                                                          *)

\* axil_write() to the client: the states it returns in.
Writes(c) ==
  IF ~c.open THEN {c}
  ELSE {c, [c EXCEPT !.queued = TRUE]} \cup (IF PeerFails THEN {NoDescr} ELSE {})

\* axil_exec(), in a handler: request_handle() has set DF_TO_CLOSE.
Exec ==
  /\ prog.state = "none"
  /\ \E early \in IF EarlyOutput THEN BOOLEAN ELSE {FALSE}, seen \in BOOLEAN :
       /\ d' = [NoDescr EXCEPT !.open = TRUE, !.toClose = TRUE, !.queued = early,
                               !.epid = TRUE, !.mask = Pipes]
       /\ prog' = [NoProg EXCEPT !.state = "running", !.seen = seen]
  /\ UNCHANGED killed

\* axil_write_remaining() at the start of a turn sends the last of the queue.
Flush ==
  /\ d.open /\ d.queued
  /\ d' = IF d.toClose THEN NoDescr ELSE [d EXCEPT !.queued = FALSE]
  /\ UNCHANGED <<prog, killed>>

Tick ==
  /\ d.epid /\ d.elapsed < TimeLimit
  /\ d' = [d EXCEPT !.elapsed = @ + 1]
  /\ UNCHANGED <<prog, killed>>

-----------------------------------------------------------------------------
(* axil_exec_loop().                                                        *)

\* cb_proc(): one read of a pipe takes all it holds, and the callback writes.
Read(g, p) == [g EXCEPT !.got[p] = g.made[p]]

\* kill() and waitpid().
KillEnd(g) == [g EXCEPT !.state = "reaped", !.next = "none"]

\* The end of the loop: a 500 when nothing was passed on, else one last read
\* of standard error; then kill(-d->epid), which after axil_close() is kill(0).
Finish(c, g) ==
  LET last == IF c.total > 0 THEN Read(g, "err") ELSE g
      wrote == IF c.total > 0 /\ Pending(g, "err") = 0 THEN {c} ELSE Writes(c)
  IN  \E w \in wrote :
        /\ killed' = killed \cup {IF w.epid THEN "program" ELSE "server"}
        /\ prog' = IF w.epid THEN KillEnd(last) ELSE last
        /\ d' = IF ~w.open \/ ~w.queued THEN NoDescr
                ELSE [w EXCEPT !.epid = FALSE, !.mask = {}, !.toClose = TRUE,
                               !.elapsed = 0]

\* Mutant of Timeout: only a silent program is timed out.
TimeoutSilent(c) == c.elapsed >= TimeLimit /\ c.total = 0

Timeout(c) == c.elapsed >= TimeLimit

\* select() finds a pipe readable: it holds something, or has ended.
ReadyOut(c, g) == "out" \in c.mask /\ (Pending(g, "out") > 0 \/ "out" \in g.closed)
ReadyErr(c, g) == "err" \in c.mask /\ g.seen /\ (Pending(g, "err") > 0 \/ "err" \in g.closed)

\* A loop that has not ended clears DF_TO_CLOSE.
Looping == [d EXCEPT !.toClose = FALSE]

\* A 504, then the end: with nothing passed on, the 500 as well.
LoopTimeout ==
  /\ d.epid /\ Timeout(d)
  /\ \E w \in Writes(Looping) : Finish(w, [prog EXCEPT !.timedOut = TRUE])

NextPipe ==
  IF ReadyOut(d, prog) THEN "out" ELSE IF ReadyErr(d, prog) THEN "err" ELSE "none"

LoopNothing ==
  /\ d.epid /\ ~Timeout(d) /\ NextPipe = "none"
  /\ d' = Looping
  /\ UNCHANGED <<prog, killed>>

\* A pipe holds something: one read, one call of the callback.
LoopRead ==
  /\ d.epid /\ ~Timeout(d) /\ NextPipe # "none"
  /\ Pending(prog, NextPipe) > 0
  /\ prog' = Read(prog, NextPipe)
  /\ \E w \in Writes(Looping) : d' = [w EXCEPT !.total = 1]
  /\ UNCHANGED killed

\* Mutant of AtEnd: closed, whatever the pipe still holds.
AtEndClosed(g, p) == p \in g.closed

AtEnd(g, p) == Pending(g, p) = 0

\* Standard output has ended: so has the loop.
LoopEnd ==
  /\ d.epid /\ ~Timeout(d) /\ NextPipe = "out"
  /\ AtEnd(prog, "out")
  /\ Finish([Looping EXCEPT !.mask = @ \ {"out"}], prog)

\* Standard error has ended: it is not looked at again.
LoopErrEnd ==
  /\ d.epid /\ ~Timeout(d) /\ NextPipe = "err"
  /\ AtEnd(prog, "err")
  /\ d' = [Looping EXCEPT !.mask = @ \ {"err"}]
  /\ UNCHANGED <<prog, killed>>

Loop == LoopTimeout \/ LoopNothing \/ LoopRead \/ LoopEnd \/ LoopErrEnd

Next ==
  \/ ProgTurn
  \/ \E p \in Pipes : ProgWrite(p)
  \/ Exec
  \/ Flush
  \/ Tick
  \/ Loop

Spec == Init /\ [][Next]_vars

\* The clock runs, the client reads what is queued for it, so that its socket
\* becomes writable, and then each turn of the event loop calls the loop.
Fairness == WF_vars(Flush) /\ WF_vars(Tick) /\ WF_vars(Loop)

FairSpec == Spec /\ Fairness

-----------------------------------------------------------------------------
(* Properties.                                                              *)

\* Every variable has its type.
TypeOK ==
  /\ d.open \in BOOLEAN /\ d.toClose \in BOOLEAN /\ d.queued \in BOOLEAN
  /\ d.epid \in BOOLEAN /\ d.mask \subseteq Pipes
  /\ d.total \in 0..1 /\ d.elapsed \in 0..TimeLimit
  /\ prog.state \in {"none", "running", "exited", "reaped"}
  /\ prog.next \in Pipes \cup {"none"}
  /\ prog.closed \subseteq Pipes
  /\ \A p \in Pipes : prog.got[p] \in 0..prog.made[p] /\ prog.made[p] <= MaxOutput
  /\ killed \subseteq {"program", "server"}

\* A program that was started is killed or has ended, and is reaped, even when
\* it is silent, or blocked on a standard error that nobody reads while the
\* loop waits for its standard output (the 40 seconds of axil_exec_loop()).
ProgramReaped == prog.state = "running" ~> prog.state = "reaped"

\* A program that ends by itself has had all its standard output passed on by
\* the time it is reaped.
OutputComplete ==
  prog.state = "reaped" /\ ~prog.timedOut => Pending(prog, "out") = 0

\* The descriptor and the program end together: no program runs that no
\* descriptor watches, and no descriptor watches one already reaped.  axil.h
\* says that axil_exec() will "Execute a command and stream output via
\* callback", which takes a descriptor that lives as long as the program.
Watched == d.epid <=> prog.state \in {"running", "exited"}

=============================================================================
