----------------------------- MODULE MCProgress -----------------------------
(***************************************************************************)
(* Instances, for one run of TLC, of programs, as whom they run, and of    *)
(* the components of which something must eventually come: the programs,   *)
(* the TLS transport, the bodies the loop waits for, and a page's bridge.  *)
(* A behaviour is a behaviour of one part; no fair action of the others is *)
(* enabled where they start, so that the conjunction of the parts'         *)
(* fairness is the fairness of that part.                                  *)
(***************************************************************************)
EXTENDS Identity, Sequences

CONSTANTS
  Flights, Records, MaxRecords, MaxWrites,            \* Tls
  Reader, HandshakeBlocks, WriteBlocks, PeerFails,
  PipeSize, MaxOutput, TimeLimit,                     \* Exec
  Conns,            \* one connection for Requests
  Modules,          \* one bridge
  Sockets, None

VARIABLES
  part,
  c,                      \* Tls
  watch, prog, killed,    \* Exec
  conn, input, reader,    \* Requests
  sock, bus, br, calls    \* Bridge

-----------------------------------------------------------------------------

\* For TLC, a program that reads request heads, whose handshake never finds its
\* socket full.
Tls == INSTANCE Tls

\* A handler that writes nothing before axil_exec(), to a client that stays.
Programs == INSTANCE Exec WITH d <- watch, PeerFails <- FALSE, EarlyOutput <- FALSE

\* A body that may stall, and responses that may stay queued.
Bodies == INSTANCE Requests WITH
  Streams <- {<<"b", "c", "c", "r", "n", "r", "n", "x", "x", "x">>},
  BufSize <- 2, FirstSize <- 2, MaxHead <- 8, MaxBody <- 2, MaxStalls <- 2,
  Slow <- TRUE

Page == INSTANCE Bridge WITH
  Bridges <- Modules, MaxDelay <- 4, MaxCalls <- 5

ASSUME ProgressAssumption ==
  /\ Tls!TlsAssumption /\ Programs!ExecAssumption /\ Bodies!RequestsAssumption
  /\ Page!BridgeAssumption

-----------------------------------------------------------------------------

ProgressInit ==
  /\ part \in {"identity", "tls", "exec", "bodies", "page"}
  /\ IF part = "identity" THEN Init
     ELSE /\ server = [root |-> TRUE, chroot |-> TRUE, auto |-> TRUE, hooked |-> TRUE]
          /\ d = Closed /\ child = [as |-> "nobody", of |-> Closed]
  /\ IF part = "tls" THEN Tls!Init ELSE c = [Tls!Fresh EXCEPT !.open = FALSE]
  /\ Programs!Init
  /\ Bodies!Init
  /\ Page!Init

tlsVars == <<c>>
execVars == <<watch, prog, killed>>
bodiesVars == <<conn, input, reader>>
pageVars == <<sock, bus, br, calls>>

ProgressNext ==
  \/ /\ part = "identity" /\ Next
     /\ UNCHANGED <<part, tlsVars, execVars, bodiesVars, pageVars>>
  \/ /\ part = "tls" /\ Tls!Next
     /\ UNCHANGED <<part, vars, execVars, bodiesVars, pageVars>>
  \/ /\ part = "exec" /\ Programs!Next
     /\ UNCHANGED <<part, vars, tlsVars, bodiesVars, pageVars>>
  \/ /\ part = "bodies" /\ Bodies!Next
     /\ UNCHANGED <<part, vars, tlsVars, execVars, pageVars>>
  \/ /\ part = "page" /\ Page!Next
     /\ UNCHANGED <<part, vars, tlsVars, execVars, bodiesVars>>

ProgressVars == <<part, vars, tlsVars, execVars, bodiesVars, pageVars>>

FairSpec ==
  /\ ProgressInit /\ [][ProgressNext]_ProgressVars
  /\ Tls!Fairness /\ Programs!Fairness /\ Bodies!Fairness /\ Page!Fairness

-----------------------------------------------------------------------------
(* Properties, each of one part; Identity's own are checked by their names. *)

\* Nothing the peer sent is skipped or read twice between OpenSSL's buffer and
\* axil_read(), and what axil_low_write() accepted is on the wire or queued,
\* once, whatever OpenSSL makes of a retry (axil_ssl_low_read(),
\* axil_ssl_lower_write()).
TransportExact == Tls!TypeOK /\ Tls!ReadInStep /\ Tls!SentOnce

\* A handshake ends with no other traffic to wake the loop, if the server's
\* flight fits its socket (ssl_accept(), descr_proc_writes()); and everything
\* sent is read with no further byte from the peer, by a reader that goes on
\* until SSL_read() would block (axil_read()).
TransportGoesOn == (part = "tls" => Tls!HandshakeEnds) /\ Tls!SentIsRead

\* A descriptor watches a program exactly while there is one to reap, and one
\* that ends by itself has had its standard output passed on (axil_exec(),
\* axil_exec_loop()).
WatchedToTheEnd == Programs!TypeOK /\ Programs!Watched /\ Programs!OutputComplete

\* A program is killed or ends, and is reaped, silent or blocked as it may be
\* (the 40 seconds of axil_exec_loop()).
ProgramReaped == Programs!ProgramReaped

\* The loop gets back to select() whatever bodies stall
\* (MAX_BODY_STALL_RETRIES).
LoopReturns == Bodies!LoopReturns

\* The one module of a page that wants a connection gets one (onclose and
\* its timer in bridge.js).
Reconnects == Page!Reconnects
=============================================================================
