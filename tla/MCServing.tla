------------------------------ MODULE MCServing ------------------------------
(***************************************************************************)
(* Instances, for one run of TLC, of the components that serve a           *)
(* connection.  They share no state in the code but the descriptor's, of   *)
(* which each module keeps what it needs: a behaviour is a behaviour of    *)
(* one part, and the others stay where they start.                         *)
(***************************************************************************)
EXTENDS Requests, TLC

CONSTANTS
  Names, Late, MaxLookups,                     \* Params
  MaxPayload, MaxFrames, AppCloses,            \* WsWrites
  Modules, Sockets, None, MaxDelay, MaxCalls,  \* Bridge, and its Bridges
  MaxFd, Announces, MaxConnections, MaxDepth   \* Broadcast

VARIABLES
  part,
  sent, db, phase, lookups, strays, last,                  \* Params
  c,                                                       \* WsWrites
  sock, bus, br, calls,                                    \* Bridge
  loop, kernel, slot, ready, stack, accepted, dead, wall   \* Broadcast

-----------------------------------------------------------------------------

Blank == <<"r", "n", "r", "n">>

\* A GET that declares a body and the start of another request, a POST and a body
\* with an overshoot, a head that never ends, a body too large.
ServedStreams ==
  {<<"x", "c">> \o Blank \o <<"x">>,
   <<"b", "c", "c">> \o Blank \o <<"x", "x", "x">>,
   [i \in 1..10 |-> "x"], <<"b", "c", "c", "c">> \o Blank}

Lookups == INSTANCE Params

Writes == INSTANCE WsWrites

Page == INSTANCE Bridge WITH Bridges <- Modules

Walls == INSTANCE Broadcast

ASSUME ServingAssumption ==
  /\ RequestsAssumption /\ CrLf /\ Lookups!ParamsAssumption
  /\ Writes!WsWritesAssumption /\ Page!BridgeAssumption
  /\ Walls!BroadcastAssumption

\* Params tells neither connections nor names apart, Requests no connections.
ConnSymmetry == Permutations(Conns)

-----------------------------------------------------------------------------

ServingInit ==
  /\ part \in {"heads", "lookups", "writes", "page", "walls"}
  /\ Init
  /\ IF part = "lookups" THEN Lookups!Init
     ELSE /\ sent = [e \in Conns |-> [s \in Lookups!Sources |-> {}]]
          /\ db = Lookups!Empty /\ phase = [e \in Conns |-> "new"]
          /\ lookups = [e \in Conns |-> 0] /\ strays = {}
          /\ last = Lookups!NoLookup
  /\ Writes!Init
  /\ Page!Init
  /\ Walls!Init

lookupsVars == <<sent, db, phase, lookups, strays, last>>
writesVars == <<c>>
pageVars == <<sock, bus, br, calls>>
wallsVars == <<loop, kernel, slot, ready, stack, accepted, dead, wall>>

\* What is left alone by a step of one part.
NotHeads == UNCHANGED <<part, lookupsVars, writesVars, pageVars, wallsVars>>
NotLookups == UNCHANGED <<part, vars, writesVars, pageVars, wallsVars>>
NotWrites == UNCHANGED <<part, vars, lookupsVars, pageVars, wallsVars>>
NotPage == UNCHANGED <<part, vars, lookupsVars, writesVars, wallsVars>>
NotWalls == UNCHANGED <<part, vars, lookupsVars, writesVars, pageVars>>

ServingNext ==
  \/ part = "heads" /\ Next /\ NotHeads
  \/ part = "lookups" /\ Lookups!Next /\ NotLookups
  \/ part = "writes" /\ Writes!Next /\ NotWrites
  \/ part = "page" /\ Page!Next /\ NotPage
  \/ part = "walls" /\ Walls!Next /\ NotWalls

ServingVars == <<part, vars, lookupsVars, writesVars, pageVars, wallsVars>>

ServingSpec == ServingInit /\ [][ServingNext]_ServingVars

-----------------------------------------------------------------------------
(* Properties, each of one part; Requests' own are checked by their names. *)

\* Every variable has its type, and the bytes that wait are their connection's.
TypesOK ==
  CASE part = "heads" -> TypeOK /\ BytesOwned /\ HeadsCut /\ BodyKnown
    [] part = "lookups" -> Lookups!TypeOK
    [] part = "page" -> Page!TypeOK /\ Page!ExplicitIsFinal
    [] part = "walls" -> Walls!TypeOK
    [] OTHER -> TRUE

\* A lookup finds a value if any of its sources has one, and another request's
\* only where a deferred handler's lookup came between two handlers and left it:
\* what a handler parses into the one query table is gone when it has returned
\* (axil_query_param(), axil_req_param(), corm_drop() in do_GET() and the others).
FindsItsOwn ==
  part = "lookups" => Lookups!NoneButStrays /\ Lookups!FoundIfSent

\* Until a Close is sent, the peer gets ws_write()'s two writes as whole messages,
\* in order, with nothing inside them.  A Close may come inside a message that is
\* still queued; then the other bytes are still in order, none lost or repeated.
MessagesWhole == part = "writes" => Writes!MessagesWhole

\* ws_write() reports a message as written only if it was sent or queued whole.
HonestReturn == Writes!HonestReturn

\* The page has one socket and ws_status() is its state, whatever replaced
\* sockets report later (connect(), onopen, onclose of bridge.js).
StatusIsTheSockets == part = "page" => Page!StatusIsTheSockets

\* axil_wall() writes to everyone select() reported and who is still connected,
\* though a failed write closes descriptors while it iterates.
ReportedHear == part = "walls" => Walls!ReportedHear

\* No descriptor is torn down twice, however calls that may close are nested
\* (axil_close(), axil_wall(), cleanup()).
NeverClosesTheDead == part = "walls" => Walls!NeverClosesTheDead
=============================================================================
