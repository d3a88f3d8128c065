------------------------------- MODULE Bridge -------------------------------
(***************************************************************************)
(* bridge.js in one page: the bridges of a page (createAxilBridge(), one    *)
(* for each module) share one WebSocket, the bus of their host, and each    *)
(* has its own reconnect timer, delay and idea of being closed.  What the   *)
(* messages are and who subscribes to them is left out.                     *)
(***************************************************************************)
EXTENDS Naturals, FiniteSets

CONSTANTS
  Bridges, Sockets, None,
  MaxDelay,   \* 16000, in seconds
  MaxCalls    \* bound: calls of the modules

BridgeAssumption ==
  None \notin Sockets /\ MaxDelay \in Nat \ {0} /\ MaxCalls \in Nat

VARIABLES
  sock,    \* the WebSocket objects and which bridge's handlers they have
  bus,     \* window.__axil_ws: its socket and its status
  br,      \* the bridges
  calls    \* calls left to the modules

vars == <<sock, bus, br, calls>>

Unused == [state |-> "unused", by |-> None]

\* url, pending: lastUrl and pendingUrl are set. explicit: explicitClose.
Created ==
  [mounted |-> FALSE, pending |-> FALSE, url |-> FALSE, explicit |-> FALSE,
   timer |-> FALSE, delay |-> 1]

Init ==
  /\ sock = [s \in Sockets |-> Unused]
  /\ bus = [socket |-> None, status |-> "closed"]
  /\ br = [b \in Bridges |-> Created]
  /\ calls = MaxCalls

-----------------------------------------------------------------------------

\* bus.socket.close(), if there is one.
Hung == [s \in Sockets |->
           IF s = bus.socket THEN [sock[s] EXCEPT !.state = "closing"] ELSE sock[s]]

\* Mutant of Replaced: the socket that is replaced is not closed.
ReplacedOnly(s, b) == [sock EXCEPT ![s] = [state |-> "connecting", by |-> b]]

\* connect(): the old socket is closed, whoever opened it.
Replaced(s, b) == [Hung EXCEPT ![s] = [state |-> "connecting", by |-> b]]

\* connect() by bridge b, whose variables are r by then.
Connect(b, r) ==
  IF ~r.mounted
  THEN br' = [br EXCEPT ![b] = [r EXCEPT !.pending = TRUE]] /\ UNCHANGED <<sock, bus>>
  ELSE \E s \in Sockets :
         /\ sock[s] = Unused
         /\ br' = [br EXCEPT ![b] = [r EXCEPT !.url = TRUE, !.explicit = FALSE]]
         /\ sock' = Replaced(s, b)
         /\ bus' = [socket |-> s, status |-> "connecting"]

\* A module's call.
Call == calls > 0 /\ calls' = calls - 1

Mount(b) ==
  /\ Call /\ ~br[b].mounted
  /\ LET r == [br[b] EXCEPT !.mounted = TRUE] IN
       IF r.pending THEN Connect(b, [r EXCEPT !.pending = FALSE])
       ELSE br' = [br EXCEPT ![b] = r] /\ UNCHANGED <<sock, bus>>

WsConnect(b) == Call /\ Connect(b, br[b])

\* explicitClose, and the timer is cleared.
Quit(b) == [br[b] EXCEPT !.explicit = TRUE, !.timer = FALSE]

\* ws_close(): the socket of the bus is closed, whoever opened it.
WsClose(b) ==
  /\ Call
  /\ br' = [br EXCEPT ![b] = Quit(b)]
  /\ sock' = Hung
  /\ bus' = [socket |-> None, status |-> "closed"]

Destroy(b) ==
  /\ Call /\ br[b].mounted
  /\ br' = [br EXCEPT ![b] = [Quit(b) EXCEPT !.mounted = FALSE, !.pending = FALSE]]
  /\ sock' = Hung
  /\ bus' = [socket |-> None, status |-> "closed"]

\* bus.socket === sock.
IsCurrent(s) == bus.socket = s

\* onopen.
Opened(s) ==
  /\ sock[s].state = "connecting"
  /\ sock' = [sock EXCEPT ![s].state = "open"]
  /\ IF IsCurrent(s)
       THEN /\ bus' = [bus EXCEPT !.status = "open"]
            /\ br' = [br EXCEPT ![sock[s].by].delay = 1]
       ELSE UNCHANGED <<bus, br>>
  /\ UNCHANGED calls

\* Mutant of Lost: no timer after a connection that had opened.
LostForGood(r) == [r EXCEPT !.timer = @ \/ (~r.explicit /\ r.url /\ bus.status # "open")]

\* onclose: the bridge that opened the socket connects again, later.
Lost(r) == [r EXCEPT !.timer = @ \/ (~r.explicit /\ r.url)]

\* A close, a failure to connect or a loss, and onclose for it. The handlers
\* of a failure run onerror first, whose close() finds the socket closed.
Closed(s) ==
  /\ sock[s].state # "unused"
  /\ sock' = [sock EXCEPT ![s] = Unused]
  /\ IF IsCurrent(s)
       THEN /\ bus' = [socket |-> None, status |-> "closed"]
            /\ br' = [br EXCEPT ![sock[s].by] = Lost(@)]
       ELSE UNCHANGED <<bus, br>>
  /\ UNCHANGED calls

\* The delay of the attempt after this one.
Backoff(delay) == IF 2 * delay < MaxDelay THEN 2 * delay ELSE MaxDelay

\* The reconnect timer.
Reconnect(b) ==
  /\ br[b].timer
  /\ Connect(b, [br[b] EXCEPT !.timer = FALSE, !.delay = Backoff(@)])
  /\ UNCHANGED calls

Next ==
  \/ \E b \in Bridges : Mount(b) \/ WsConnect(b) \/ WsClose(b) \/ Destroy(b) \/ Reconnect(b)
  \/ \E s \in Sockets : Opened(s) \/ Closed(s)

Spec == Init /\ [][Next]_vars

\* Timers fire, a close() ends, and a server that is asked again and again
\* answers in the end.
Fairness ==
  /\ \A b \in Bridges : WF_vars(Reconnect(b))
  /\ \A s \in Sockets :
       SF_vars(Opened(s)) /\ WF_vars(sock[s].state = "closing" /\ Closed(s))

FairSpec == Spec /\ Fairness

-----------------------------------------------------------------------------
(* Properties.                                                              *)

\* Every variable has its type.
TypeOK ==
  /\ sock \in [Sockets -> [state : {"unused", "connecting", "open", "closing"},
                           by : Bridges \cup {None}]]
  /\ bus \in [socket : Sockets \cup {None}, status : {"closed", "connecting", "open"}]
  /\ \A b \in Bridges : br[b].delay \in 1..MaxDelay

\* The page has one connection, and ws_status() tells how it is, whatever
\* replaced sockets have yet to report (connect(), onopen, onclose).
StatusIsTheSockets ==
  /\ \A s \in Sockets : sock[s].state \in {"connecting", "open"} => bus.socket = s
  /\ bus.status = IF bus.socket = None THEN "closed" ELSE sock[bus.socket].state

\* A bridge that was told to close has no timer left that would undo it
\* (ws_close(), destroy(), onclose).
ExplicitIsFinal == \A b \in Bridges : br[b].explicit => ~br[b].timer

\* A module that wants a connection gets one: CHANGELOG.md promises a
\* "WebSocket bus with auto-reconnect, exponential backoff".
Wants(b) == br[b].mounted /\ br[b].url /\ ~br[b].explicit

Reconnects == \A b \in Bridges : Wants(b) ~> (bus.status = "open" \/ ~Wants(b))

=============================================================================
