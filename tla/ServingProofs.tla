--------------------------- MODULE ServingProofs ---------------------------
(***************************************************************************)
(* Proofs about the parts of MCServing: what each component promises holds *)
(* of it in the composition, for every value of the constants.  A          *)
(* behaviour of MCServing is one of each part, so that a theorem about a   *)
(* component's Spec is one about the part; what no component's module      *)
(* proves (look-ups, the page, messages over a WebSocket) is proved here.   *)
(***************************************************************************)
EXTENDS MCServing, RequestsProofs

\* What is proved of Broadcast.
Broadcasts == INSTANCE BroadcastProofs

-----------------------------------------------------------------------------
(* Each part takes its own steps, and no other's.                           *)

\* A behaviour of the parts is one of request heads and bodies.
LEMMA HeadsAreHeads == ServingSpec => Spec
<1>1. ServingInit => Init
  BY DEF ServingInit
<1>2. [ServingNext]_ServingVars => [Next]_vars
  BY DEF ServingNext, ServingVars, NotLookups, NotWrites, NotPage, NotWalls
<1> QED
  BY <1>1, <1>2, PTL DEF ServingSpec, Spec

\* A behaviour of the parts is one of broadcasts.
LEMMA WallsAreWalls == ServingSpec => Walls!Spec
<1>1. ServingInit => Walls!Init
  BY DEF ServingInit
<1>2. [ServingNext]_ServingVars => [Walls!Next]_(Walls!vars)
  BY DEF ServingNext, ServingVars, NotHeads, NotLookups, NotWrites, NotPage,
         wallsVars, Walls!vars
<1> QED
  BY <1>1, <1>2, PTL DEF ServingSpec, Walls!Spec

-----------------------------------------------------------------------------

\* What is proved of Broadcast is proved of Walls: the definitions are the same.
LEMMA WallsAreBroadcasts ==
  /\ Walls!Spec => Broadcasts!Spec
  /\ Broadcasts!TypeOK => Walls!TypeOK
  /\ Broadcasts!ReportedHear => Walls!ReportedHear
  /\ Broadcasts!NeverClosesTheDead => Walls!NeverClosesTheDead
<1> USE DEF Broadcasts!Fds, Walls!Fds, Broadcasts!NoSlot, Walls!NoSlot,
           Broadcasts!NoWall, Walls!NoWall, Broadcasts!Call, Walls!Call,
           Broadcasts!Idle, Walls!Idle, Broadcasts!Top, Walls!Top, Broadcasts!F,
           Walls!F, Broadcasts!Then, Walls!Then, Broadcasts!Active, Walls!Active,
           Broadcasts!Iterated, Walls!Iterated, Broadcasts!Closable, Walls!Closable,
           Broadcasts!AfterWrite, Walls!AfterWrite, Broadcasts!Reset, Walls!Reset
<1>1. Walls!Init => Broadcasts!Init
  BY DEF Broadcasts!Init, Walls!Init
<1>2. Walls!Next => Broadcasts!Next
  BY DEF Broadcasts!Next, Walls!Next, Broadcasts!Accept, Walls!Accept,
         Broadcasts!Connect, Walls!Connect, Broadcasts!Select, Walls!Select,
         Broadcasts!Shutdown, Walls!Shutdown, Broadcasts!StartWall, Walls!StartWall,
         Broadcasts!StartRespond, Walls!StartRespond, Broadcasts!Write, Walls!Write,
         Broadcasts!Wall, Walls!Wall, Broadcasts!Cleanup, Walls!Cleanup,
         Broadcasts!Close, Walls!Close, Broadcasts!Rest, Walls!Rest
<1>3. UNCHANGED Walls!vars => UNCHANGED Broadcasts!vars
  BY DEF Broadcasts!vars, Walls!vars
<1>4. /\ Broadcasts!TypeOK => Walls!TypeOK
      /\ Broadcasts!ReportedHear => Walls!ReportedHear
      /\ Broadcasts!NeverClosesTheDead => Walls!NeverClosesTheDead
  BY DEF Broadcasts!TypeOK, Walls!TypeOK, Broadcasts!ReportedHear,
         Walls!ReportedHear, Broadcasts!NeverClosesTheDead, Walls!NeverClosesTheDead
<1>5. [Walls!Next]_(Walls!vars) => [Broadcasts!Next]_(Broadcasts!vars)
  BY <1>2, <1>3
<1> QED
  BY <1>1, <1>4, <1>5, PTL DEF Walls!Spec, Broadcasts!Spec

\* axil_wall() writes to everyone who was reported and is still connected.
THEOREM EveryoneHears ==
  ASSUME ~Announces PROVE ServingSpec => []ReportedHear
<1>1. Broadcasts!BroadcastAssumption
  BY ServingAssumption DEF Walls!BroadcastAssumption, Broadcasts!BroadcastAssumption
<1>2. Broadcasts!Spec => []Broadcasts!ReportedHear
  BY <1>1, Broadcasts!EveryoneIsTried DEF Broadcasts!EveryoneIsTried
<1>3. Walls!ReportedHear => ReportedHear
  BY DEF ReportedHear
<1> QED
  BY <1>2, <1>3, WallsAreWalls, WallsAreBroadcasts, PTL

\* No descriptor is torn down twice, however calls that may close are nested.
THEOREM NobodyClosesTheDead ==
  ASSUME ~Announces PROVE ServingSpec => []NeverClosesTheDead
<1>1. Broadcasts!BroadcastAssumption
  BY ServingAssumption DEF Walls!BroadcastAssumption, Broadcasts!BroadcastAssumption
<1>2. Broadcasts!Spec => []Broadcasts!NeverClosesTheDead
  BY <1>1, Broadcasts!TornDownOnce DEF Broadcasts!TornDownOnce
<1>3. Walls!NeverClosesTheDead => NeverClosesTheDead
  BY DEF NeverClosesTheDead
<1> QED
  BY <1>2, <1>3, WallsAreWalls, WallsAreBroadcasts, PTL

-----------------------------------------------------------------------------
(* Parameters.                                                              *)

\* What is in query_db was sent by the request being handled, or by one whose
\* continuation looked something up since a handler last returned.
OwnTable ==
  /\ Lookups!TypeOK
  /\ sent \in [Conns -> [Lookups!Sources -> SUBSET Names]]
  /\ phase \in [Conns -> {"new", "handling", "deferred", "answered"}]
  /\ \A e, f \in Conns : phase[e] = "handling" /\ phase[f] = "handling" => e = f
  /\ \A n \in Names : db[n] # Lookups!Nothing =>
       db[n].conn \in strays \cup {e \in Conns : phase[e] = "handling"}

LookupsInv == OwnTable /\ Lookups!NoneButStrays /\ Lookups!FoundIfSent

\* What one source of a request parses to.
LEMMA ParsedFrom ==
  ASSUME OwnTable, NEW e \in Conns, NEW s \in Lookups!Sources
  PROVE  /\ Lookups!From(e, s) \in [Names -> Lookups!Values \cup {Lookups!Nothing}]
         /\ \A n \in Names :
              IF n \in sent[e][s] THEN Lookups!From(e, s)[n].conn = e
              ELSE Lookups!From(e, s)[n] = Lookups!Nothing
         /\ \A n \in sent[e][s] : Lookups!From(e, s)[n] # Lookups!Nothing
<1>1. s # "none"
  BY DEF Lookups!Sources
<1>2. [conn |-> e, source |-> s] # Lookups!Nothing
  BY <1>1 DEF Lookups!Nothing
<1>3. [conn |-> e, source |-> s] \in Lookups!Values
  BY DEF Lookups!Values
<1>4. sent[e][s] \subseteq Names
  BY DEF OwnTable
<1> QED
  BY <1>2, <1>3, <1>4 DEF Lookups!From

\* A table that is one source's does not mix what two parses left.
LEMMA OneSource ==
  ASSUME OwnTable, NEW e \in Conns, NEW s \in Lookups!Sources,
         db' = Lookups!From(e, s)
  PROVE  Lookups!TypeOK'
<1>1. db' \in [Names -> Lookups!Values \cup {Lookups!Nothing}]
  BY ParsedFrom
<1>2. \A n \in Names : db'[n] \in {Lookups!Nothing, [conn |-> e, source |-> s]}
  BY DEF Lookups!From
<1> QED
  BY <1>1, <1>2 DEF Lookups!TypeOK, Lookups!Values, Lookups!Nothing, Lookups!Sources

\* axil_req_param(): the table is as it was or of this request, the value is
\* from the table or this request's, and there is none only if it was not sent.
LEMMA LookupFinds ==
  ASSUME OwnTable, NEW e \in Conns, NEW n \in Names, NEW w \in BOOLEAN
  PROVE  LET r == Lookups!Lookup(e, n, w)
         IN  /\ r.db \in {db, Lookups!From(e, "body"), Lookups!From(e, "query")}
             /\ \/ r.value \in {Lookups!Nothing, db[n]}
                \/ r.value.conn = e
             /\ r.value = Lookups!Nothing =>
                  /\ n \notin sent[e]["query"] \cup sent[e]["path"]
                  /\ w => n \notin sent[e]["body"]
<1> DEFINE d1 == IF w THEN Lookups!Parsed(db, e, "body") ELSE db
           d2 == Lookups!Parsed(d1, e, "query")
           r == Lookups!Lookup(e, n, w)
<1>1. {"body", "query", "path"} \subseteq Lookups!Sources
  BY DEF Lookups!Sources
<1>2. /\ d1 \in {db, Lookups!From(e, "body")}
      /\ w /\ d1 = db => sent[e]["body"] = {} \/ db = Lookups!From(e, "body")
      /\ w /\ d1 # db => d1 = Lookups!From(e, "body")
  BY DEF Lookups!Parsed
<1>3. /\ d2 \in {d1, Lookups!From(e, "query")}
      /\ d2 = Lookups!From(e, "query") \/ sent[e]["query"] = {}
  BY DEF Lookups!Parsed
<1>4. r = IF db[n] # Lookups!Nothing THEN [db |-> db, value |-> db[n]]
          ELSE IF d1[n] # Lookups!Nothing THEN [db |-> d1, value |-> d1[n]]
          ELSE IF d2[n] # Lookups!Nothing THEN [db |-> d2, value |-> d2[n]]
          ELSE [db |-> d2, value |-> Lookups!From(e, "path")[n]]
  BY DEF Lookups!Lookup
<1> HIDE DEF d1, d2, r
<1> DEFINE b == Lookups!From(e, "body")
           q == Lookups!From(e, "query")
           p == Lookups!From(e, "path")
<1>5. /\ IF n \in sent[e]["body"] THEN b[n].conn = e /\ b[n] # Lookups!Nothing
         ELSE b[n] = Lookups!Nothing
      /\ IF n \in sent[e]["query"] THEN q[n].conn = e /\ q[n] # Lookups!Nothing
         ELSE q[n] = Lookups!Nothing
      /\ IF n \in sent[e]["path"] THEN p[n].conn = e /\ p[n] # Lookups!Nothing
         ELSE p[n] = Lookups!Nothing
  BY <1>1, ParsedFrom
<1> HIDE DEF b, q, p
<1> SUFFICES /\ r.db \in {db, b, q}
             /\ r.value \in {Lookups!Nothing, db[n]} \/ r.value.conn = e
             /\ r.value = Lookups!Nothing =>
                  /\ n \notin sent[e]["query"] \cup sent[e]["path"]
                  /\ w => n \notin sent[e]["body"]
  BY DEF r, b, q
<1>6. d1 = db \/ d1 = b
  BY <1>2 DEF b
<1>7. (d2 = d1 \/ d2 = q) /\ (d2 = q \/ sent[e]["query"] = {})
  BY <1>3 DEF q
<1>8. w => d1 = b \/ sent[e]["body"] = {}
  BY <1>2 DEF b
<1>9. r = IF db[n] # Lookups!Nothing THEN [db |-> db, value |-> db[n]]
           ELSE IF d1[n] # Lookups!Nothing THEN [db |-> d1, value |-> d1[n]]
           ELSE IF d2[n] # Lookups!Nothing THEN [db |-> d2, value |-> d2[n]]
           ELSE [db |-> d2, value |-> p[n]]
  BY <1>4 DEF p
<1>10. CASE db[n] # Lookups!Nothing
  BY <1>9, <1>10
<1>11. CASE db[n] = Lookups!Nothing /\ d1[n] # Lookups!Nothing
  BY <1>5, <1>6, <1>11, <1>9
<1>12. CASE /\ db[n] = Lookups!Nothing /\ d1[n] = Lookups!Nothing
            /\ d2[n] # Lookups!Nothing
  BY <1>5, <1>6, <1>7, <1>12, <1>9
<1>13. CASE /\ db[n] = Lookups!Nothing /\ d1[n] = Lookups!Nothing
            /\ d2[n] = Lookups!Nothing
  BY <1>5, <1>6, <1>7, <1>13, <1>8, <1>9
<1> QED
  BY <1>10, <1>11, <1>12, <1>13

\* Every step of the requests and their handlers accounts for the table.
LEMMA LookupsStep ==
  ASSUME LookupsInv, Lookups!Next PROVE LookupsInv'
<1> USE DEF LookupsInv
\* A step that makes no lookup leaves what was said of the last one.
<1>l. ASSUME last' = last, sent' = sent
      PROVE  Lookups!NoneButStrays' /\ Lookups!FoundIfSent'
  BY <1>l DEF Lookups!NoneButStrays, Lookups!FoundIfSent, Lookups!Asked,
              Lookups!Nothing
<1>1. ASSUME NEW e \in Conns, Lookups!Handle(e) PROVE LookupsInv'
  <2>1. /\ db' = db /\ sent' = sent /\ last' = last /\ strays' = strays
        /\ phase' = [phase EXCEPT ![e] = "handling"]
        /\ \A f \in Conns : phase[f] # "handling"
    BY <1>1 DEF Lookups!Handle, Lookups!Idle
  <2>2. Lookups!TypeOK'
    BY <2>1 DEF OwnTable, Lookups!TypeOK, Lookups!Values, Lookups!Nothing,
                Lookups!Sources
  <2>3. OwnTable'
    BY <2>1, <2>2 DEF OwnTable, Lookups!Sources, Lookups!Nothing
  <2> QED
    BY <2>1, <2>3, <1>l
<1>2. ASSUME NEW e \in Conns, Lookups!Ask(e) PROVE LookupsInv'
  <2>1. PICK n \in Names, w \in {phase[e] = "handling", FALSE} :
          /\ db' = Lookups!Lookup(e, n, w).db
          /\ last' = [conn |-> e, name |-> n, withBody |-> w,
                      value |-> Lookups!Lookup(e, n, w).value, strays |-> strays]
    BY <1>2 DEF Lookups!Ask
  <2> DEFINE r == Lookups!Lookup(e, n, w)
  <2>2. /\ r.db \in {db, Lookups!From(e, "body"), Lookups!From(e, "query")}
        /\ r.value \in {Lookups!Nothing, db[n]} \/ r.value.conn = e
        /\ r.value = Lookups!Nothing =>
             /\ n \notin sent[e]["query"] \cup sent[e]["path"]
             /\ w => n \notin sent[e]["body"]
    <3>1. w \in BOOLEAN
      BY <2>1
    <3> QED
      BY <3>1, LookupFinds
  <2>3. db' = r.db
    BY <2>1
  <2> HIDE DEF r
  <2>4. /\ sent' = sent /\ phase' = phase
        /\ \/ phase[e] = "handling" /\ strays' = strays
           \/ /\ strays' = strays \cup {e}
              /\ phase[e] = "deferred" /\ \A f \in Conns : phase[f] # "handling"
    BY <1>2 DEF Lookups!Ask, Lookups!Idle
  <2>5. \/ db' = db
        \/ \E s \in Lookups!Sources : db' = Lookups!From(e, s)
    BY <2>2, <2>3 DEF Lookups!Sources
  <2>6. Lookups!TypeOK'
    BY <2>5, OneSource DEF OwnTable, Lookups!TypeOK
  <2> DEFINE Mine == strays \cup {f \in Conns : phase[f] = "handling"}
             Theirs == strays' \cup {f \in Conns : phase'[f] = "handling"}
  <2>7. Mine \subseteq {e} \cup strays /\ Mine \cup {e} \subseteq Theirs
    BY <2>4 DEF OwnTable
  <2>8. \A k \in Names : db[k] # Lookups!Nothing => db[k].conn \in Mine
    BY DEF OwnTable
  <2> HIDE DEF Mine, Theirs
  <2>9. \A k \in Names : db'[k] # Lookups!Nothing => db'[k].conn \in Theirs
    <3>1. CASE db' = db
      BY <2>7, <2>8, <3>1
    <3>2. ASSUME NEW s \in Lookups!Sources, db' = Lookups!From(e, s)
          PROVE  \A k \in Names : db'[k] # Lookups!Nothing => db'[k].conn \in Theirs
      BY <2>7, <3>2, ParsedFrom
    <3> QED
      BY <2>5, <3>1, <3>2
  <2>10. OwnTable'
    BY <2>4, <2>6, <2>9 DEF OwnTable, Theirs, Lookups!Sources, Lookups!Nothing
  <2>11. /\ last'.conn = e /\ last'.name = n /\ last'.strays = strays
         /\ last'.withBody = w /\ last'.value = r.value
    BY <2>1 DEF r
  <2>12. r.value # Lookups!Nothing => r.value.conn \in {e} \cup strays
    BY <2>2, <2>7, <2>8
  <2> QED
    BY <2>2, <2>4, <2>10, <2>11, <2>12
    DEF Lookups!NoneButStrays, Lookups!FoundIfSent, Lookups!Asked, Lookups!Nothing
<1>3. ASSUME NEW e \in Conns, Lookups!Parse(e) PROVE LookupsInv'
  <2>1. /\ db' = Lookups!From(e, "body") /\ sent' = sent /\ last' = last
        /\ phase' = phase /\ phase[e] = "handling" /\ "body" \in Lookups!Sources
        /\ strays' = strays
    BY <1>3 DEF Lookups!Parse, Lookups!Sources
  <2>2. Lookups!TypeOK'
    BY <2>1, OneSource DEF Lookups!TypeOK
  <2>3. \A k \in Names : db'[k] # Lookups!Nothing => db'[k].conn = e
    BY <2>1, ParsedFrom
  <2>4. OwnTable'
    BY <2>1, <2>2, <2>3 DEF OwnTable, Lookups!Sources, Lookups!Nothing
  <2> QED
    BY <2>1, <2>4, <1>l
<1>4. ASSUME NEW e \in Conns, Lookups!Return(e) PROVE LookupsInv'
  <2>1. PICK p \in {"deferred", "answered"} : phase' = [phase EXCEPT ![e] = p]
    BY <1>4 DEF Lookups!Return
  <2>2. db' = Lookups!Empty /\ strays' = {} /\ sent' = sent /\ last' = last
    BY <1>4 DEF Lookups!Return, Lookups!Dropped
  <2>3. \A n \in Names : db'[n] = Lookups!Nothing
    BY <2>2 DEF Lookups!Empty
  <2>4. Lookups!TypeOK'
    BY <2>2, <2>3 DEF Lookups!TypeOK, Lookups!Empty, Lookups!Nothing, Lookups!Values
  <2>5. OwnTable'
    BY <2>1, <2>2, <2>3, <2>4 DEF OwnTable, Lookups!Sources, Lookups!Nothing
  <2> QED
    BY <2>2, <2>5, <1>l
<1>5. ASSUME NEW e \in Conns, Lookups!Finish(e) PROVE LookupsInv'
  <2>1. /\ phase' = [phase EXCEPT ![e] = "answered"] /\ phase[e] = "deferred"
        /\ db' = db /\ strays' = strays /\ sent' = sent /\ last' = last
    BY <1>5 DEF Lookups!Finish
  <2>2. Lookups!TypeOK'
    BY <2>1 DEF OwnTable, Lookups!TypeOK, Lookups!Values, Lookups!Nothing,
                Lookups!Sources
  <2>3. \A f \in Conns : (phase'[f] = "handling") = (phase[f] = "handling")
    BY <2>1 DEF OwnTable
  <2>4. OwnTable'
    BY <2>1, <2>2, <2>3 DEF OwnTable, Lookups!Sources, Lookups!Nothing
  <2> QED
    BY <2>1, <2>4, <1>l
<1>6. CASE UNCHANGED Lookups!vars
  BY <1>6, <1>l DEF Lookups!vars, OwnTable, Lookups!TypeOK, Lookups!Nothing,
                    Lookups!Values, Lookups!Sources
<1> QED
  BY <1>1, <1>2, <1>3, <1>4, <1>5, <1>6 DEF Lookups!Next

\* Whose values the requests' table holds, in a behaviour of theirs: those of
\* the request being handled, and of the deferred ones that looked something up
\* since a handler last returned.
THEOREM TablesAreOwn == ServingSpec => [](part = "lookups" => LookupsInv)
<1> DEFINE I == part = "lookups" => LookupsInv
<1>1. ServingInit => I
  <2> SUFFICES ASSUME ServingInit, part = "lookups" PROVE LookupsInv
    OBVIOUS
  <2>1. Lookups!Init
    BY DEF ServingInit
  <2>2. Lookups!TypeOK
    BY <2>1 DEF Lookups!Init, Lookups!Empty, Lookups!TypeOK
  <2>3. OwnTable
    BY <2>1, <2>2 DEF Lookups!Init, Lookups!Empty, OwnTable
  <2> QED
    BY <2>1, <2>3 DEF Lookups!Init, LookupsInv, Lookups!NoLookup, Lookups!Asked,
                      Lookups!NoneButStrays, Lookups!FoundIfSent
<1>2. I /\ [ServingNext]_ServingVars => I'
  <2> SUFFICES ASSUME I, [ServingNext]_ServingVars, part' = "lookups"
               PROVE  LookupsInv'
    OBVIOUS
  <2>1. part = "lookups" /\ LookupsInv
    BY DEF ServingNext, ServingVars, NotHeads, NotLookups, NotWrites, NotPage, NotWalls
  <2>2. CASE Lookups!Next
    BY <2>1, <2>2, LookupsStep
  <2>3. CASE UNCHANGED lookupsVars
    BY <2>1, <2>3 DEF lookupsVars, LookupsInv, OwnTable, Lookups!TypeOK, Lookups!Asked,
      Lookups!NoneButStrays, Lookups!FoundIfSent, Lookups!Nothing, Lookups!Values,
      Lookups!Sources
  <2> QED
    BY <2>1, <2>2, <2>3 DEF ServingNext, ServingVars, NotHeads
<1> QED
  BY <1>1, <1>2, PTL DEF ServingSpec

\* A lookup finds a value if any of its sources has one, and another request's
\* only where a deferred handler's lookup came between two handlers and left it,
\* though all requests share one query table.
THEOREM LookupsFindTheirOwn == ServingSpec => []FindsItsOwn
<1>1. (part = "lookups" => LookupsInv) => FindsItsOwn
  BY DEF LookupsInv, FindsItsOwn
<1> QED
  BY <1>1, TablesAreOwn, PTL

\* Nobody looks anything up between two handlers.
NoStrays == part = "lookups" => strays = {} /\ last.strays = {}

\* If a handler that deferred its answer never looks anything up after it has
\* returned, no lookup returns another request's value.
THEOREM NoLateNoLeak ==
  ASSUME ~Late
  PROVE  ServingSpec =>
           [](part = "lookups" /\ Lookups!Asked /\ last.value # Lookups!Nothing
                => last.value.conn = last.conn)
<1>1. ServingInit => NoStrays
  <2> SUFFICES ASSUME Lookups!Init PROVE strays = {} /\ last.strays = {}
    BY DEF NoStrays, ServingInit
  <2> QED
    BY DEF Lookups!Init, Lookups!NoLookup
<1>2. NoStrays /\ (part = "lookups" => LookupsInv) /\ [ServingNext]_ServingVars
        => NoStrays'
  <2> SUFFICES ASSUME NoStrays, part = "lookups" => LookupsInv,
                      [ServingNext]_ServingVars, part' = "lookups"
               PROVE  strays' = {} /\ last'.strays = {}
    BY DEF NoStrays
  <2>1. part = "lookups" /\ strays = {} /\ last.strays = {} /\ LookupsInv
    BY DEF NoStrays, ServingNext, ServingVars, NotHeads, NotLookups, NotWrites,
           NotPage, NotWalls
  <2>2. CASE UNCHANGED <<strays, last>>
    BY <2>1, <2>2
  <2>3. ASSUME NEW e \in Conns, Lookups!Ask(e) PROVE strays' = {} /\ last'.strays = {}
    <3>1. strays' = strays
      BY <2>3 DEF Lookups!Ask
    <3>2. last'.strays = strays
      BY <2>3 DEF Lookups!Ask
    <3> QED
      BY <2>1, <3>1, <3>2
  <2>4. ASSUME NEW e \in Conns, Lookups!Return(e)
        PROVE  strays' = {} /\ last'.strays = {}
    BY <2>1, <2>4 DEF Lookups!Return
  <2>5. CASE Lookups!Next
    BY <2>2, <2>3, <2>4, <2>5
    DEF Lookups!Next, Lookups!Handle, Lookups!Parse, Lookups!Finish, Lookups!vars
  <2> QED
    BY <2>1, <2>2, <2>5 DEF ServingNext, ServingVars, lookupsVars, NotHeads
<1>3. NoStrays /\ FindsItsOwn =>
        (part = "lookups" /\ Lookups!Asked /\ last.value # Lookups!Nothing
           => last.value.conn = last.conn)
  BY DEF NoStrays, FindsItsOwn, Lookups!NoneButStrays
<1> QED
  BY <1>1, <1>2, <1>3, TablesAreOwn, LookupsFindTheirOwn, PTL DEF ServingSpec

-----------------------------------------------------------------------------
(* The bridges of a page.                                                   *)

BridgeStates ==
  [mounted : BOOLEAN, pending : BOOLEAN, url : BOOLEAN, explicit : BOOLEAN,
   timer : BOOLEAN, delay : 1..MaxDelay]

\* A bridge as it may be between two calls.
Settled(r) == r \in BridgeStates /\ (r.explicit => ~r.timer)

\* The bus is the one socket that is not on its way out, and whoever has a
\* socket's handlers is a bridge.
PageInv ==
  /\ Page!TypeOK /\ Page!StatusIsTheSockets
  /\ br \in [Modules -> BridgeStates]
  /\ \A b \in Modules : Settled(br[b])
  /\ \A s \in Sockets : sock[s].state # "unused" => sock[s].by \in Modules

\* What replaces a bridge's state, with sockets and bus as they were.
LEMMA BridgeSettles ==
  ASSUME PageInv, NEW b \in Modules, NEW r, Settled(r),
         br' = [br EXCEPT ![b] = r], UNCHANGED <<sock, bus>>
  PROVE  PageInv'
BY DEF PageInv, Page!TypeOK, Page!StatusIsTheSockets, Settled, BridgeStates

\* bus.socket.close(): nothing is connecting or open after it.
LEMMA HungSockets ==
  ASSUME PageInv
  PROVE  /\ DOMAIN Page!Hung = Sockets
         /\ \A s \in Sockets :
              /\ Page!Hung[s] \in [state : {"unused", "closing"}, by : Modules \cup {None}]
              /\ Page!Hung[s].state # "unused" => Page!Hung[s].by \in Modules
<1>1. None \notin Sockets
  BY ServingAssumption DEF Page!BridgeAssumption
<1> SUFFICES ASSUME NEW s \in Sockets
             PROVE  /\ Page!Hung[s] \in [state : {"unused", "closing"},
                                         by : Modules \cup {None}]
                    /\ Page!Hung[s].state # "unused" => Page!Hung[s].by \in Modules
  BY DEF Page!Hung
<1>2. sock[s] \in [state : {"unused", "connecting", "open", "closing"},
                   by : Modules \cup {None}]
  BY DEF PageInv, Page!TypeOK
<1>3. CASE s = bus.socket
  <2>1. Page!Hung[s] = [sock[s] EXCEPT !.state = "closing"]
    BY <1>3 DEF Page!Hung
  <2>2. sock[s].state # "unused"
    BY <1>1, <1>3 DEF PageInv, Page!StatusIsTheSockets, Page!TypeOK
  <2> QED
    BY <1>2, <2>1, <2>2 DEF PageInv
<1>4. CASE s # bus.socket
  BY <1>2, <1>4 DEF Page!Hung, PageInv, Page!StatusIsTheSockets
<1> QED
  BY <1>3, <1>4

\* connect(): the bridge waits for its mount, or its new socket is the bus's.
LEMMA ConnectSettles ==
  ASSUME PageInv, NEW b \in Modules, NEW r, Settled(r), Page!Connect(b, r)
  PROVE  PageInv'
<1>1. CASE ~r.mounted
  <2> DEFINE t == [r EXCEPT !.pending = TRUE]
  <2>1. br' = [br EXCEPT ![b] = t] /\ UNCHANGED <<sock, bus>>
    BY <1>1 DEF Page!Connect
  <2>2. Settled(t)
    BY DEF Settled, BridgeStates
  <2> HIDE DEF t
  <2> QED
    BY <2>1, <2>2, BridgeSettles
<1>2. CASE r.mounted
  <2> DEFINE t == [r EXCEPT !.url = TRUE, !.explicit = FALSE]
  <2>1. PICK s \in Sockets :
          /\ br' = [br EXCEPT ![b] = t]
          /\ sock' = [Page!Hung EXCEPT ![s] = [state |-> "connecting", by |-> b]]
          /\ bus' = [socket |-> s, status |-> "connecting"]
    BY <1>2 DEF Page!Connect, Page!Replaced
  <2>2. Settled(t)
    BY DEF Settled, BridgeStates
  <2> HIDE DEF t
  <2>3. br' \in [Modules -> BridgeStates] /\ \A a \in Modules : Settled(br'[a])
    BY <2>1, <2>2 DEF PageInv, Settled
  <2>4. s # None
    BY ServingAssumption DEF Page!BridgeAssumption
  <2>5. /\ DOMAIN sock' = Sockets
        /\ sock'[s] = [state |-> "connecting", by |-> b]
        /\ \A q \in Sockets \ {s} :
             /\ sock'[q] \in [state : {"unused", "closing"}, by : Modules \cup {None}]
             /\ sock'[q].state # "unused" => sock'[q].by \in Modules
    BY <2>1, HungSockets
  <2>6. sock' \in [Sockets -> [state : {"unused", "connecting", "open", "closing"},
                               by : Modules \cup {None}]]
    <3>1. \A q \in Sockets :
            sock'[q] \in [state : {"unused", "connecting", "open", "closing"},
                          by : Modules \cup {None}]
      BY <2>5
    <3>2. sock' = [q \in Sockets |-> sock'[q]]
      BY <2>1, HungSockets
    <3> HIDE DEF PageInv
    <3> QED
      BY <3>1, <3>2
  <2>7. Page!TypeOK'
    BY <2>1, <2>3, <2>6 DEF Page!TypeOK, BridgeStates
  <2>8. Page!StatusIsTheSockets'
    BY <2>1, <2>4, <2>5 DEF Page!StatusIsTheSockets
  <2> QED
    BY <2>3, <2>5, <2>7, <2>8 DEF PageInv
<1> QED
  BY <1>1, <1>2

\* ws_close() and destroy(): nothing is left on the bus.
LEMMA HangSettles ==
  ASSUME PageInv, NEW b \in Modules, NEW r, Settled(r),
         br' = [br EXCEPT ![b] = r], sock' = Page!Hung,
         bus' = [socket |-> None, status |-> "closed"]
  PROVE  PageInv'
<1>1. br' \in [Modules -> BridgeStates] /\ \A a \in Modules : Settled(br'[a])
  BY DEF PageInv, Settled
<1>2. \A q \in Sockets :
        /\ sock'[q] \in [state : {"unused", "closing"}, by : Modules \cup {None}]
        /\ sock'[q].state # "unused" => sock'[q].by \in Modules
  BY HungSockets
<1>3. sock' \in [Sockets -> [state : {"unused", "connecting", "open", "closing"},
                             by : Modules \cup {None}]]
  BY <1>2, HungSockets DEF Page!Hung
<1>4. Page!TypeOK'
  BY <1>1, <1>3 DEF Page!TypeOK, BridgeStates
<1>5. Page!StatusIsTheSockets'
  BY <1>2 DEF Page!StatusIsTheSockets
<1> QED
  BY <1>1, <1>2, <1>4, <1>5 DEF PageInv

\* onopen: of the bus's socket, since any other is on its way out.
LEMMA OpenedSettles ==
  ASSUME PageInv, NEW s \in Sockets, Page!Opened(s) PROVE PageInv'
<1> DEFINE b == sock[s].by
           t == [br[b] EXCEPT !.delay = 1]
<1>1. /\ sock[s].state = "connecting" /\ bus.socket = s
      /\ sock' = [sock EXCEPT ![s].state = "open"]
      /\ bus' = [bus EXCEPT !.status = "open"] /\ br' = [br EXCEPT ![b] = t]
  BY DEF Page!Opened, Page!IsCurrent, PageInv, Page!StatusIsTheSockets
<1>2. b \in Modules
  BY <1>1 DEF PageInv
<1> HIDE DEF b
<1>3. Settled(t)
  <2>1. 1 \in 1..MaxDelay
    BY ServingAssumption DEF Page!BridgeAssumption
  <2> QED
    BY <1>2, <2>1 DEF PageInv, Settled, BridgeStates
<1> HIDE DEF t
<1>4. br' \in [Modules -> BridgeStates] /\ \A a \in Modules : Settled(br'[a])
  BY <1>1, <1>2, <1>3 DEF PageInv, Settled
<1>5. Page!TypeOK'
  BY <1>1, <1>4 DEF PageInv, Page!TypeOK, BridgeStates
<1>6. /\ \A q \in Sockets \ {s} : sock'[q] = sock[q]
      /\ sock'[s].state = "open" /\ sock'[s].by = sock[s].by
      /\ bus'.socket = s /\ bus'.status = "open"
  BY <1>1 DEF PageInv, Page!TypeOK
<1>7. s # None
  BY ServingAssumption DEF Page!BridgeAssumption
<1>8. Page!StatusIsTheSockets'
  BY <1>1, <1>6, <1>7 DEF PageInv, Page!StatusIsTheSockets
<1>9. \A q \in Sockets : sock'[q].state # "unused" => sock'[q].by \in Modules
  BY <1>1, <1>6 DEF PageInv
<1> QED
  BY <1>4, <1>5, <1>8, <1>9 DEF PageInv

\* onclose: of the bus's socket, or of one that was replaced.
LEMMA ClosedSettles ==
  ASSUME PageInv, NEW s \in Sockets, Page!Closed(s) PROVE PageInv'
<1> DEFINE b == sock[s].by
           t == Page!Lost(br[b])
<1>1. sock[s].state # "unused" /\ sock' = [sock EXCEPT ![s] = Page!Unused]
  BY DEF Page!Closed
<1>2. b \in Modules
  BY <1>1 DEF PageInv
<1>3. CASE bus.socket = s
  <2>1. bus' = [socket |-> None, status |-> "closed"] /\ br' = [br EXCEPT ![b] = t]
    BY <1>3 DEF Page!Closed, Page!IsCurrent
  <2> HIDE DEF b
  <2>2. Settled(t)
    BY <1>2 DEF PageInv, Settled, BridgeStates, Page!Lost
  <2> HIDE DEF t
  <2>3. br' \in [Modules -> BridgeStates] /\ \A a \in Modules : Settled(br'[a])
    BY <1>2, <2>1, <2>2 DEF PageInv, Settled
  <2>4. Page!TypeOK'
    BY <1>1, <2>1, <2>3 DEF PageInv, Page!TypeOK, BridgeStates, Page!Unused
  <2>5. Page!StatusIsTheSockets'
    BY <1>1, <1>3, <2>1 DEF PageInv, Page!TypeOK, Page!StatusIsTheSockets, Page!Unused
  <2> QED
    BY <1>1, <2>3, <2>4, <2>5 DEF PageInv, Page!TypeOK, Page!Unused
<1>4. CASE bus.socket # s
  <2>1. UNCHANGED <<bus, br>>
    BY <1>4 DEF Page!Closed, Page!IsCurrent
  <2>2. Page!TypeOK'
    BY <1>1, <2>1 DEF PageInv, Page!TypeOK, Page!Unused
  <2>3. Page!StatusIsTheSockets'
    BY <1>1, <1>4, <2>1 DEF PageInv, Page!TypeOK, Page!StatusIsTheSockets, Page!Unused
  <2> QED
    BY <1>1, <2>1, <2>2, <2>3 DEF PageInv, Page!TypeOK, Page!Unused, Settled
<1> QED
  BY <1>3, <1>4

\* Whatever a module, a socket or a timer does next, the page is as it should be.
LEMMA PageStep ==
  ASSUME PageInv, Page!Next PROVE PageInv'
<1>1. ASSUME NEW b \in Modules, Page!Mount(b) PROVE PageInv'
  <2> DEFINE r == [br[b] EXCEPT !.mounted = TRUE]
             t == [r EXCEPT !.pending = FALSE]
  <2>1. Settled(r) /\ Settled(t)
    BY DEF PageInv, Settled, BridgeStates
  <2>2. CASE r.pending
    <3>1. Page!Connect(b, t)
      BY <1>1, <2>2 DEF Page!Mount
    <3> HIDE DEF r, t
    <3> QED
      BY <2>1, <3>1, ConnectSettles
  <2>3. CASE ~r.pending
    <3>1. br' = [br EXCEPT ![b] = r] /\ UNCHANGED <<sock, bus>>
      BY <1>1, <2>3 DEF Page!Mount
    <3> HIDE DEF r, t
    <3> QED
      BY <2>1, <3>1, BridgeSettles
  <2> QED
    BY <2>2, <2>3
<1>2. ASSUME NEW b \in Modules, Page!WsConnect(b) PROVE PageInv'
  <2>1. Page!Connect(b, br[b]) /\ Settled(br[b])
    BY <1>2 DEF Page!WsConnect, PageInv
  <2> QED
    BY <2>1, ConnectSettles
<1>3. ASSUME NEW b \in Modules, Page!WsClose(b) \/ Page!Destroy(b) PROVE PageInv'
  <2> DEFINE t == [Page!Quit(b) EXCEPT !.mounted = FALSE, !.pending = FALSE]
  <2>1. Settled(Page!Quit(b)) /\ Settled(t)
    BY DEF PageInv, Settled, BridgeStates, Page!Quit
  <2>2. PICK r \in {Page!Quit(b), t} : br' = [br EXCEPT ![b] = r]
    BY <1>3 DEF Page!WsClose, Page!Destroy
  <2>3. sock' = Page!Hung /\ bus' = [socket |-> None, status |-> "closed"]
    BY <1>3 DEF Page!WsClose, Page!Destroy
  <2> HIDE DEF t
  <2>4. Settled(r)
    BY <2>1
  <2> QED
    BY <2>2, <2>3, <2>4, HangSettles
<1>4. ASSUME NEW b \in Modules, Page!Reconnect(b) PROVE PageInv'
  <2> DEFINE k == Page!Backoff(br[b].delay)
             r == [br[b] EXCEPT !.timer = FALSE, !.delay = k]
  <2>1. k \in 1..MaxDelay
    <3>1. MaxDelay \in Nat \ {0} /\ br[b].delay \in 1..MaxDelay
      BY ServingAssumption DEF Page!BridgeAssumption, PageInv, BridgeStates
    <3> QED
      BY <3>1 DEF Page!Backoff
  <2>2. Page!Connect(b, r)
    BY <1>4 DEF Page!Reconnect
  <2> HIDE DEF k
  <2>3. Settled(r)
    BY <2>1 DEF PageInv, Settled, BridgeStates
  <2> HIDE DEF r
  <2> QED
    BY <2>2, <2>3, ConnectSettles
<1> QED
  BY <1>1, <1>2, <1>3, <1>4, OpenedSettles, ClosedSettles DEF Page!Next

\* The page's invariant holds throughout, whoever calls and whatever is lost.
THEOREM PageStaysSettled == ServingSpec => []PageInv
<1>1. ServingInit => PageInv
  <2> SUFFICES ASSUME Page!Init PROVE PageInv
    BY DEF ServingInit
  <2>1. 1 \in 1..MaxDelay
    BY ServingAssumption DEF Page!BridgeAssumption
  <2>2. Page!Created \in BridgeStates /\ Settled(Page!Created)
    BY <2>1 DEF Page!Created, BridgeStates, Settled
  <2> QED
    BY <2>1, <2>2 DEF Page!Init, PageInv, Page!TypeOK, Page!StatusIsTheSockets,
                      Page!Unused, Page!Created
<1>2. PageInv /\ [ServingNext]_ServingVars => PageInv'
  <2> SUFFICES ASSUME PageInv, [ServingNext]_ServingVars PROVE PageInv'
    OBVIOUS
  <2>1. CASE Page!Next
    BY <2>1, PageStep
  <2>2. CASE UNCHANGED pageVars
    BY <2>2 DEF pageVars, PageInv, Page!TypeOK, Page!StatusIsTheSockets, Settled
  <2> QED
    BY <2>1, <2>2
    DEF ServingNext, ServingVars, NotHeads, NotLookups, NotWrites, NotWalls
<1> QED
  BY <1>1, <1>2, PTL DEF ServingSpec

\* The page has one socket and ws_status() is its state, whatever replaced
\* sockets report later (connect(), onopen, onclose of bridge.js).
THEOREM StatusIsTrue == ServingSpec => []StatusIsTheSockets
<1>1. PageInv => StatusIsTheSockets
  BY DEF PageInv, StatusIsTheSockets
<1> QED
  BY <1>1, PageStaysSettled, PTL

\* Every variable has its type, the bytes that wait are their connection's, and
\* a bridge told to close has no timer left that would undo it.
THEOREM TypesHold ==
  ASSUME ~Slow, ~Announces PROVE ServingSpec => []TypesOK
<1>1. RequestsAssumption /\ CrLf /\ Broadcasts!BroadcastAssumption
  BY ServingAssumption DEF Walls!BroadcastAssumption, Broadcasts!BroadcastAssumption
<1>2. Broadcasts!Spec => []Broadcasts!TypeOK
  BY <1>1, Broadcasts!TypeCorrect DEF Broadcasts!TypeCorrect
<1>3. Spec => []Inv /\ []Whole
  BY <1>1, InvHolds, WholeHolds, PTL
<1>4. /\ Inv /\ Whole /\ (part = "lookups" => LookupsInv) /\ PageInv /\ Walls!TypeOK
      => TypesOK
  BY DEF TypesOK, Inv, Whole, LookupsInv, OwnTable, PageInv, Settled, Page!ExplicitIsFinal
<1> QED
  BY <1>2, <1>3, <1>4, HeadsAreHeads, WallsAreWalls, WallsAreBroadcasts, TablesAreOwn,
     PageStaysSettled, PTL

-----------------------------------------------------------------------------
(* Messages over a WebSocket.                                               *)

\* Flat() puts sequences one after the other.
LEMMA FlatUnfolds ==
  ASSUME NEW B, NEW w \in Seq(Seq(B))
  PROVE  \E f \in [0..Len(w) -> Seq(B)] :
           /\ f[0] = <<>> /\ \A k \in 1..Len(w) : f[k] = f[k - 1] \o w[k]
           /\ Writes!Flat(w) = f[Len(w)]
<1> DEFINE n == Len(w)
           IsAll(f) == f = [k \in 0..n |-> IF k = 0 THEN <<>> ELSE f[k - 1] \o w[k]]
           all == CHOOSE f : IsAll(f)
<1>1. n \in Nat /\ w \in [1..n -> Seq(B)]
  BY LenProperties
<1>2. Writes!Flat(w) = all[n]
  BY DEF Writes!Flat
<1> HIDE DEF n
<1>3. PICK g \in [0..n -> Seq(B)] :
        g[0] = <<>> /\ \A k \in 1..n : g[k] = g[k - 1] \o w[k]
  <2>1. \E g \in [0..n -> Seq(B)] :
          g[0] = <<>> /\ \A k \in 1..n : g[k] = g[k - 1] \o w[k]
    BY <1>1, Concats, ZenonT(60)
  <2> QED
    BY <2>1, Zenon
<1>4. IsAll(g)
  <2>1. ASSUME NEW k \in 0..n
        PROVE  g[k] = IF k = 0 THEN <<>> ELSE g[k - 1] \o w[k]
    <3>1. k = 0 \/ k \in 1..n
      BY <1>1
    <3> QED
      BY <1>3, <3>1
  <2> QED
    BY <1>3, <2>1
<1> HIDE DEF IsAll
<1>5. IsAll(all)
  BY <1>4
<1> HIDE DEF all
<1>6. /\ all[0] = <<>> /\ \A k \in 1..n : all[k] = all[k - 1] \o w[k]
      /\ DOMAIN all = 0..n /\ all = [k \in 0..n |-> all[k]]
  <2>1. all = [k \in 0..n |-> IF k = 0 THEN <<>> ELSE all[k - 1] \o w[k]]
    BY <1>5 DEF IsAll
  <2>2. \A k \in 0..n : all[k] = IF k = 0 THEN <<>> ELSE all[k - 1] \o w[k]
    BY <2>1, Zenon
  <2>3. all[0] = <<>>
    BY <1>1, <2>2
  <2>4. ASSUME NEW k \in 1..n
        PROVE  all[k] = all[k - 1] \o w[k]
    <3>1. k \in 0..n /\ k # 0
      BY <1>1
    <3> QED
      BY <2>2, <3>1
  <2>5. DOMAIN all = 0..n /\ all = [k \in 0..n |-> all[k]]
    BY <2>1, Zenon
  <2> QED
    BY <2>3, <2>4, <2>5
<1>7. \A k \in 0..n : all[k] = g[k]
  <2> DEFINE S == {k \in Nat : k <= n => all[k] = g[k]}
  <2>1. 0 \in S
    BY <1>3, <1>6
  <2>2. ASSUME NEW k \in Nat, k \in S
        PROVE  k + 1 \in S
    <3> SUFFICES ASSUME k + 1 <= n
                 PROVE  all[k + 1] = g[k + 1]
      OBVIOUS
    <3>1. k + 1 \in 1..n /\ (k + 1) - 1 = k /\ all[k] = g[k]
      BY <1>1, <2>2
    <3> QED
      BY <1>3, <1>6, <3>1
  <2> HIDE DEF S
  <2>3. Nat \subseteq S
    BY <2>1, <2>2, Successors
  <2> QED
    BY <1>1, <2>3 DEF S
<1>8. all \in [0..n -> Seq(B)]
  BY <1>3, <1>6, <1>7
<1> QED
  BY <1>2, <1>6, <1>8 DEF n

LEMMA FlatEmpty == Writes!Flat(<<>>) = <<>>
<1> DEFINE w == <<>>
<1>1. w \in Seq(Seq(Nat)) /\ Len(w) = 0
  OBVIOUS
<1> HIDE DEF w
<1>2. PICK f \in [0..Len(w) -> Seq(Nat)] : f[0] = <<>> /\ Writes!Flat(w) = f[Len(w)]
  BY <1>1, FlatUnfolds
<1>3. Writes!Flat(w) = <<>>
  BY <1>1, <1>2
<1> QED
  BY <1>3 DEF w

LEMMA FlatAppend ==
  ASSUME NEW B, NEW w \in Seq(Seq(B)), NEW x \in Seq(B)
  PROVE  /\ Writes!Flat(w) \in Seq(B)
         /\ Writes!Flat(Append(w, x)) = Writes!Flat(w) \o x
<1> DEFINE n == Len(w)
           v == Append(w, x)
<1>1. n \in Nat /\ v \in Seq(Seq(B)) /\ Len(v) = n + 1 /\ v[n + 1] = x
  OBVIOUS
<1>2. \A k \in 1..n : v[k] = w[k]
  OBVIOUS
<1>3. PICK f \in [0..n -> Seq(B)] :
        /\ f[0] = <<>> /\ \A k \in 1..n : f[k] = f[k - 1] \o w[k]
        /\ Writes!Flat(w) = f[n]
  BY FlatUnfolds
<1> HIDE DEF v
<1>4. PICK g \in [0..Len(v) -> Seq(B)] :
        /\ g[0] = <<>> /\ \A k \in 1..Len(v) : g[k] = g[k - 1] \o v[k]
        /\ Writes!Flat(v) = g[Len(v)]
  BY <1>1, FlatUnfolds
<1> HIDE DEF n
<1>5. f[n] = g[n]
  <2> DEFINE S == {k \in Nat : k <= n => f[k] = g[k]}
  <2>1. 0 \in S
    BY <1>3, <1>4
  <2>2. ASSUME NEW k \in Nat, k \in S
        PROVE  k + 1 \in S
    <3> SUFFICES ASSUME k + 1 <= n
                 PROVE  f[k + 1] = g[k + 1]
      OBVIOUS
    <3>1. /\ k + 1 \in 1..n /\ k + 1 \in 1..Len(v) /\ (k + 1) - 1 = k
          /\ f[k] = g[k]
      BY <1>1, <2>2
    <3>2. f[k + 1] = f[k] \o w[k + 1]
      BY <1>3, <3>1
    <3>3. g[k + 1] = g[k] \o v[k + 1]
      BY <1>4, <3>1
    <3> QED
      BY <1>2, <3>1, <3>2, <3>3
  <2> HIDE DEF S
  <2>3. Nat \subseteq S
    BY <2>1, <2>2, Successors
  <2> QED
    BY <1>1, <2>3 DEF S
<1>6. g[n + 1] = g[n] \o x
  <2>1. n + 1 \in 1..Len(v) /\ (n + 1) - 1 = n
    BY <1>1
  <2> QED
    BY <1>1, <1>4, <2>1
<1>7. f[n] \in Seq(B)
  BY <1>1, <1>3
<1> QED
  BY <1>1, <1>3, <1>4, <1>5, <1>6, <1>7 DEF v

-----------------------------------------------------------------------------

\* The bytes of messages, and all that ws.c sends.
MessageBytes == (Nat \ {0}) \X Nat
SentBytes == Nat \X Nat

\* What a byte adds to the messages' bytes.
LEMMA DataAppend ==
  ASSUME NEW s \in Seq(SentBytes), NEW b \in SentBytes
  PROVE  /\ Writes!Data(s) \in Seq(MessageBytes)
         /\ Writes!Data(Append(s, b)) =
              IF Writes!IsData(b) THEN Writes!Data(s) \o <<b>> ELSE Writes!Data(s)
<1> DEFINE one(e) == IF Writes!IsData(e) THEN <<e>> ELSE <<>>
           w == [k \in 1..Len(s) |-> one(s[k])]
           t == Append(s, b)
           v == [k \in 1..Len(t) |-> one(t[k])]
<1>1. ASSUME NEW e \in SentBytes
      PROVE  one(e) \in Seq(MessageBytes)
  <2>1. Writes!IsData(e) => e \in MessageBytes
    BY DEF Writes!IsData, SentBytes, MessageBytes
  <2> HIDE DEF MessageBytes
  <2> QED
    BY <2>1
<1>2. Writes!Data(s) = Writes!Flat(w) /\ Writes!Data(t) = Writes!Flat(v)
  BY DEF Writes!Data
<1> HIDE DEF one
<1>3. w \in Seq(Seq(MessageBytes)) /\ Len(w) = Len(s)
  BY <1>1
<1>4. v = Append(w, one(b))
  <2>1. /\ Len(t) = Len(s) + 1 /\ t[Len(s) + 1] = b
        /\ \A k \in 1..Len(s) : t[k] = s[k]
    OBVIOUS
  <2> HIDE DEF t
  <2>2. Len(s) \in Nat
    OBVIOUS
  <2>3. Append(w, one(b)) = [k \in 1..(Len(s) + 1) |-> IF k = Len(s) + 1 THEN one(b) ELSE w[k]]
    BY <1>3
  <2>4. \A k \in 1..(Len(s) + 1) : one(t[k]) = IF k = Len(s) + 1 THEN one(b) ELSE w[k]
    BY <2>1, <2>2
  <2> QED
    BY <2>1, <2>3, <2>4
<1> HIDE DEF v, w, t
<1>5. /\ Writes!Flat(w) \in Seq(MessageBytes)
      /\ Writes!Flat(Append(w, one(b))) = Writes!Flat(w) \o one(b)
  BY <1>1, <1>3, FlatAppend
<1>6. Writes!Data(s) \o <<>> = Writes!Data(s)
  BY <1>2, <1>5
<1> QED
  BY <1>2, <1>4, <1>5, <1>6 DEF one, t

LEMMA Regrouped ==
  ASSUME NEW B, NEW s \in Seq(B), NEW t \in Seq(B), NEW u \in Seq(B)
  PROVE  (s \o t) \o u = s \o (t \o u)
OBVIOUS

\* One byte more of a message counts.
LEMMA DataOfOne ==
  ASSUME NEW s \in Seq(SentBytes), NEW x \in Seq(MessageBytes),
         x \in Seq(SentBytes), NEW b \in MessageBytes,
         Writes!Data(s \o x) = Writes!Data(s) \o x
  PROVE  Writes!Data(s \o (x \o <<b>>)) = Writes!Data(s) \o (x \o <<b>>)
<1>1. b \in SentBytes /\ Writes!IsData(b)
  BY DEF SentBytes, MessageBytes, Writes!IsData
<1>2. <<b>> \in Seq(SentBytes) /\ <<b>> \in Seq(MessageBytes)
  BY <1>1
<1>3. s \o x \in Seq(SentBytes)
  OBVIOUS
<1>4. s \o (x \o <<b>>) = (s \o x) \o <<b>>
  BY <1>2, Regrouped
<1>5. (s \o x) \o <<b>> = Append(s \o x, b)
  BY <1>1, <1>3, AppendIsConcat
<1>6. Writes!Data(Append(s \o x, b)) = (Writes!Data(s) \o x) \o <<b>>
  BY <1>1, <1>3, DataAppend
<1>7. Writes!Data(s) \in Seq(MessageBytes)
  BY <1>1, DataAppend
<1>8. (Writes!Data(s) \o x) \o <<b>> = Writes!Data(s) \o (x \o <<b>>)
  BY <1>2, <1>7, Regrouped
<1> QED
  BY <1>4, <1>5, <1>6, <1>8

\* Bytes of messages all count.
LEMMA DataOfMessages ==
  ASSUME NEW s \in Seq(SentBytes), NEW t \in Seq(MessageBytes)
  PROVE  s \o t \in Seq(SentBytes) /\ Writes!Data(s \o t) = Writes!Data(s) \o t
<1>1. t \in Seq(SentBytes) /\ MessageBytes \subseteq SentBytes
  BY DEF SentBytes, MessageBytes
<1>2. Writes!Data(s) \in Seq(MessageBytes)
  <2>1. <<0, 0>> \in SentBytes
    BY DEF SentBytes
  <2> QED
    BY <2>1, DataAppend
<1> DEFINE u(m) == SubSeq(t, 1, m)
           S == {m \in Nat : m <= Len(t) => Writes!Data(s \o u(m)) = Writes!Data(s) \o u(m)}
<1>3. 0 \in S
  <2>1. u(0) = <<>>
    BY SubSeqEmpty
  <2>2. s \o <<>> = s /\ Writes!Data(s) \o <<>> = Writes!Data(s)
    BY <1>2, ConcatEmptySeq
  <2> HIDE DEF u
  <2> QED
    BY <2>1, <2>2
<1>4. ASSUME NEW m \in Nat, m \in S
      PROVE  m + 1 \in S
  <2> SUFFICES ASSUME m + 1 <= Len(t)
               PROVE  Writes!Data(s \o u(m + 1)) = Writes!Data(s) \o u(m + 1)
    OBVIOUS
  <2>1. t[m + 1] \in MessageBytes
    OBVIOUS
  <2>2. u(m) \in Seq(MessageBytes) /\ u(m) \in Seq(SentBytes)
    <3>1. \A i \in 1..m : t[i] \in MessageBytes /\ t[i] \in SentBytes
      BY <1>1
    <3> QED
      BY <3>1, SubSeqProperties
  <2>3. u(m + 1) = u(m) \o <<t[m + 1]>>
    <3>1. /\ 1 \in 1..Len(t) /\ m + 1 \in 1..Len(t) /\ (m + 1) - 1 = m
      OBVIOUS
    <3> QED
      BY <3>1, SubSeqRecursiveSecond
  <2>4. Writes!Data(s \o u(m)) = Writes!Data(s) \o u(m)
    BY <1>4
  <2> HIDE DEF u
  <2> QED
    BY <2>1, <2>2, <2>3, <2>4, DataOfOne
<1>5. Len(t) \in S
  <2>1. Len(t) \in Nat
    OBVIOUS
  <2> HIDE DEF S
  <2>2. Nat \subseteq S
    BY <1>3, <1>4, Successors
  <2> QED
    BY <2>1, <2>2
<1>6. u(Len(t)) = t
  BY SubSeqFull
<1> HIDE DEF u
<1> QED
  BY <1>1, <1>5, <1>6, ConcatProperties

\* Where there is nothing else, they are all there is.
LEMMA DataIsItself ==
  ASSUME NEW t \in Seq(MessageBytes) PROVE Writes!Data(t) = t
<1>1. <<>> \in Seq(SentBytes) /\ <<>> \o t = t
  BY ConcatEmptySeq
<1>2. Writes!Data(<<>>) = <<>>
  BY FlatEmpty DEF Writes!Data
<1>3. Writes!Data(<<>> \o t) = Writes!Data(<<>>) \o t
  BY <1>1, DataOfMessages
<1> QED
  BY <1>1, <1>2, <1>3

\* Bytes of a Close do not.
LEMMA DataOfClose ==
  ASSUME NEW s \in Seq(SentBytes), NEW k \in 0..Len(Writes!CloseFrame)
  PROVE  LET t == s \o SubSeq(Writes!CloseFrame, 1, k)
         IN  t \in Seq(SentBytes) /\ Writes!Data(t) = Writes!Data(s)
<1> DEFINE a == <<0, 1>>
           b == <<0, 2>>
<1>1. /\ a \in SentBytes /\ b \in SentBytes
      /\ ~Writes!IsData(a) /\ ~Writes!IsData(b)
  BY DEF SentBytes, Writes!IsData
<1>2. Writes!CloseFrame = <<a, b>>
  BY DEF Writes!CloseFrame
<1> HIDE DEF a, b
<1>3. k \in {0, 1, 2}
  BY <1>2
<1>4. /\ SubSeq(<<a, b>>, 1, 0) = <<>> /\ SubSeq(<<a, b>>, 1, 1) = <<a>>
      /\ SubSeq(<<a, b>>, 1, 2) = <<a, b>>
  <2> DEFINE t == <<a, b>>
  <2>1. t \in Seq(SentBytes) /\ Len(t) = 2 /\ t[1] = a
    BY <1>1
  <2> HIDE DEF t
  <2>2. SubSeq(t, 1, 0) = <<>> /\ SubSeq(t, 1, 2) = t
    BY <2>1, SubSeqEmpty, SubSeqFull
  <2>3. SubSeq(t, 1, 1) = <<t[1]>>
    <3>1. 1 \in 1..Len(t) /\ 1 - 1 = 0
      BY <2>1
    <3>2. SubSeq(t, 1, 1) = SubSeq(t, 1, 0) \o <<t[1]>>
      BY <2>1, <3>1, SubSeqRecursiveSecond
    <3>3. <<t[1]>> \in Seq(SentBytes)
      BY <1>1, <2>1
    <3>4. <<>> \o <<t[1]>> = <<t[1]>>
      BY <3>3, ConcatEmptySeq
    <3> QED
      BY <2>2, <3>2, <3>4
  <2> QED
    BY <2>1, <2>2, <2>3 DEF t
<1>5. /\ s \o <<>> = s /\ s \o <<a>> = Append(s, a)
      /\ s \o <<a, b>> = Append(Append(s, a), b)
  OBVIOUS
<1>6. /\ Append(s, a) \in Seq(SentBytes) /\ Writes!Data(Append(s, a)) = Writes!Data(s)
  BY <1>1, DataAppend, AppendProperties
<1>7. /\ Append(Append(s, a), b) \in Seq(SentBytes)
      /\ Writes!Data(Append(Append(s, a), b)) = Writes!Data(Append(s, a))
  BY <1>1, <1>6, DataAppend, AppendProperties
<1> QED
  BY <1>2, <1>3, <1>4, <1>5, <1>6, <1>7

-----------------------------------------------------------------------------

\* A connection, its queue messages' bytes only: a Close goes past it.  Until
\* there is one, so is its wire.
Writer(d) ==
  /\ d \in [open : BOOLEAN, queue : Seq(MessageBytes), wire : Seq(SentBytes),
            sizes : Seq(0..MaxPayload), closeSent : BOOLEAN, ret : Int]
  /\ ~d.closeSent => d.wire \in Seq(MessageBytes)

\* Of these bytes, those not on the wire are in the queue, or gone with it.
Owes(d, all) ==
  \E rest \in Seq(MessageBytes) :
    Writes!Data(d.wire) \o rest = all /\ (d.open => rest = d.queue)

\* A connection is not torn down without a Close.
Parted(d) == d.open \/ d.closeSent

\* What a function of ws.c or libaxil.c makes of a connection that owed all.
Leaves(d, e, all) == Writer(e) /\ Owes(e, all) /\ e.sizes = d.sizes /\ Parted(e)

\* Data of a wire is messages' bytes.
LEMMA DataTyped ==
  ASSUME NEW s \in Seq(SentBytes) PROVE Writes!Data(s) \in Seq(MessageBytes)
<1>1. <<0, 0>> \in SentBytes
  BY DEF SentBytes
<1> QED
  BY <1>1, DataAppend

\* What comes first is a prefix.
LEMMA ConcatPrefix ==
  ASSUME NEW B, NEW s \in Seq(B), NEW t \in Seq(B), NEW all, s \o t = all
  PROVE  s = SubSeq(all, 1, Len(s))
<1>1. /\ all \in Seq(B) /\ Len(s) \in Nat /\ Len(s) <= Len(all)
      /\ \A k \in 1..Len(s) : all[k] = s[k]
  <2>1. /\ s \o t \in Seq(B) /\ Len(s) \in Nat /\ Len(t) \in Nat
        /\ Len(s \o t) = Len(s) + Len(t)
        /\ \A k \in 1..Len(s) : (s \o t)[k] = s[k]
    <3>1. /\ s \o t \in Seq(B) /\ Len(s) \in Nat /\ Len(t) \in Nat
          /\ Len(s \o t) = Len(s) + Len(t)
      BY ConcatProperties, LenProperties
    <3>2. ASSUME NEW k \in 1..Len(s) PROVE (s \o t)[k] = s[k]
      BY <3>1
    <3> QED
      BY <3>1, <3>2
  <2> QED
    BY <2>1
<1>2. /\ SubSeq(all, 1, Len(s)) \in Seq(B) /\ Len(SubSeq(all, 1, Len(s))) = Len(s)
      /\ \A k \in 1..Len(s) : SubSeq(all, 1, Len(s))[k] = all[k]
  BY <1>1
<1> QED
  BY <1>1, <1>2, SeqEqual

\* These bytes, and then those.
Follows(x, y, all) ==
  x \in Seq(MessageBytes) /\ y \in Seq(MessageBytes) /\ all = x \o y

LEMMA FollowsAgain ==
  ASSUME NEW x, NEW y, NEW z, NEW xy, NEW yz, NEW all,
         Follows(x, y, xy), Follows(y, z, yz), Follows(xy, z, all)
  PROVE  Follows(x, yz, all)
<1>1. /\ x \in Seq(MessageBytes) /\ y \in Seq(MessageBytes)
      /\ z \in Seq(MessageBytes)
  BY DEF Follows
<1>2. (x \o y) \o z = x \o (y \o z)
  BY <1>1, Regrouped
<1>3. yz \in Seq(MessageBytes)
  BY <1>1 DEF Follows
<1> QED
  BY <1>1, <1>2, <1>3 DEF Follows

\* ws_close_status() of a connection that is, or is not, being torn down.
LEMMA ClosesStatus ==
  ASSUME NEW d, Writer(d), NEW all, Owes(d, all), NEW e \in Writes!CloseStatuses(d)
  PROVE  Leaves(d, e, all) /\ e.open = d.open
<1>1. CASE d.closeSent
  BY <1>1 DEF Writes!CloseStatuses, Leaves, Parted
<1>2. CASE ~d.closeSent
  <2>1. PICK k \in 0..Len(Writes!CloseFrame) :
          e = Writes!Took([d EXCEPT !.closeSent = TRUE], Writes!CloseFrame, k)
    BY <1>2 DEF Writes!CloseStatuses
  <2> DEFINE w == d.wire \o SubSeq(Writes!CloseFrame, 1, k)
  <2>2. e = [d EXCEPT !.closeSent = TRUE, !.wire = w]
    BY <2>1 DEF Writes!Took, Writer
  <2>3. w \in Seq(SentBytes) /\ Writes!Data(w) = Writes!Data(d.wire)
    BY DataOfClose DEF Writer
  <2> HIDE DEF w
  <2>4. /\ Writer(e) /\ e.wire = w /\ e.sizes = d.sizes /\ e.open = d.open
        /\ e.queue = d.queue /\ e.closeSent
    BY <2>2, <2>3 DEF Writer
  <2>5. Owes(e, all)
    BY <2>3, <2>4 DEF Owes
  <2> QED
    BY <2>4, <2>5 DEF Leaves, Parted
<1> QED
  BY <1>1, <1>2

\* axil_close(): the queue is gone.
LEMMA ClosesWriter ==
  ASSUME NEW d, Writer(d), NEW all, Owes(d, all), NEW e \in Writes!Closes(d)
  PROVE  Leaves(d, e, all) /\ ~e.open
<1> DEFINE f == [d EXCEPT !.open = FALSE, !.queue = <<>>]
<1>1. e \in Writes!CloseStatuses(f)
  BY DEF Writes!Closes
<1>2. <<>> \in Seq(MessageBytes)
  OBVIOUS
<1>3. Writer(f) /\ ~f.open /\ f.sizes = d.sizes /\ f.wire = d.wire
  BY <1>2 DEF Writer
<1> HIDE DEF f
<1>4. Owes(f, all)
  BY <1>3 DEF Owes
<1> QED
  BY <1>1, <1>3, <1>4, ClosesStatus DEF Leaves

\* send() takes some of these bytes, and what it leaves is queued.
LEMMA TakesSome ==
  ASSUME NEW d, Writer(d), d.open, NEW q \in Seq(MessageBytes), NEW k \in 0..Len(q),
         NEW e, e = [Writes!Took(d, q, k) EXCEPT !.queue = Writes!After(q, k)]
  PROVE  Leaves(d, e, Writes!Data(d.wire) \o q)
<1> DEFINE x == SubSeq(q, 1, k)
           y == SubSeq(q, k + 1, Len(q))
           w == d.wire \o x
<1>1. e = [d EXCEPT !.wire = w, !.queue = y]
  BY DEF Writes!Took, Writes!After, Writer
<1>2. x \in Seq(MessageBytes) /\ y \in Seq(MessageBytes) /\ x \o y = q
  <2>1. Len(q) \in Nat /\ k \in 0..Len(q) /\ 1 \in 1..(Len(q) + 1)
    OBVIOUS
  <2>2. k \in (1 - 1)..Len(q) /\ Len(q) \in k..Len(q)
    BY <2>1
  <2>3. x \o y = SubSeq(q, 1, Len(q))
    BY <2>1, <2>2, ConcatAdjacentSubSeq
  <2>4. SubSeq(q, 1, Len(q)) = q
    BY SubSeqFull
  <2>5. x \in Seq(MessageBytes) /\ y \in Seq(MessageBytes)
    BY <2>1, SubSeqProperties
  <2> QED
    BY <2>3, <2>4, <2>5
<1> HIDE DEF x, y
<1>3. /\ d.wire \in Seq(SentBytes) /\ w \in Seq(SentBytes)
      /\ Writes!Data(w) = Writes!Data(d.wire) \o x
      /\ ~d.closeSent => w \in Seq(MessageBytes)
  BY <1>2, DataOfMessages, ConcatProperties DEF Writer
<1> HIDE DEF w
<1>4. /\ Writer(e) /\ e.wire = w /\ e.queue = y /\ e.sizes = d.sizes
      /\ e.open = d.open
  BY <1>1, <1>2, <1>3 DEF Writer
<1>5. Writes!Data(w) \o y = Writes!Data(d.wire) \o q
  <2> DEFINE z == Writes!Data(d.wire)
             all == Writes!Data(w) \o y
  <2>1. z \in Seq(MessageBytes) /\ Writes!Data(w) \in Seq(MessageBytes)
    BY <1>3, DataTyped
  <2>2. Follows(z, x, Writes!Data(w)) /\ Follows(x, y, q)
    BY <1>2, <1>3, <2>1, Zenon DEF Follows
  <2>3. Follows(Writes!Data(w), y, all)
    BY <1>2, <2>1, Zenon DEF Follows
  <2> HIDE DEF all, z
  <2>4. Follows(z, q, all)
    BY <2>2, <2>3, FollowsAgain, Zenon
  <2>5. all = z \o q
    BY <2>4, Zenon DEF Follows
  <2> QED
    BY <2>5, Zenon DEF all, z
<1> QED
  BY <1>2, <1>4, <1>5 DEF Leaves, Owes, Parted

\* axil_write_remaining().
LEMMA FlushesWriter ==
  ASSUME NEW d, Writer(d), d.open, NEW all, Owes(d, all), NEW e \in Writes!Flushes(d)
  PROVE  Leaves(d, e, all)
<1>1. CASE e \in Writes!Closes(d)
  BY <1>1, ClosesWriter
<1>2. CASE e \notin Writes!Closes(d)
  <2>1. PICK k \in 0..Len(d.queue) :
          e = [Writes!Took(d, d.queue, k) EXCEPT !.queue = Writes!After(d.queue, k)]
    BY <1>2 DEF Writes!Flushes
  <2>2. d.queue \in Seq(MessageBytes) /\ Writes!Data(d.wire) \o d.queue = all
    BY DEF Writer, Owes
  <2> QED
    BY <2>1, <2>2, TakesSome
<1> QED
  BY <1>1, <1>2

\* To a connection that is gone, nothing more can be lost.
LEMMA GoneOwesMore ==
  ASSUME NEW e, Writer(e), ~e.open, NEW all, Owes(e, all), NEW b \in Seq(MessageBytes)
  PROVE  Owes(e, all \o b)
<1>1. PICK rest \in Seq(MessageBytes) : Writes!Data(e.wire) \o rest = all
  BY DEF Owes
<1>2. Writes!Data(e.wire) \in Seq(MessageBytes)
  BY DataTyped DEF Writer
<1>3. (Writes!Data(e.wire) \o rest) \o b = Writes!Data(e.wire) \o (rest \o b)
  BY <1>2, Regrouped
<1>4. rest \o b \in Seq(MessageBytes)
  OBVIOUS
<1> QED
  BY <1>1, <1>3, <1>4 DEF Owes

\* axil_low_write() owes its bytes as well, whether they were sent or queued; if
\* the descriptor is gone, they are gone with it.
LEMMA LowWritesOwe ==
  ASSUME NEW d, Writer(d), d.open, NEW all \in Seq(MessageBytes), Owes(d, all),
         NEW b \in Seq(MessageBytes), NEW e \in Writes!LowWrites(d, b)
  PROVE  Leaves(d, e, all \o b)
<1>1. /\ d.queue \in Seq(MessageBytes) /\ Writes!Data(d.wire) \o d.queue = all
      /\ d.wire \in Seq(SentBytes) /\ Writes!Data(d.wire) \in Seq(MessageBytes)
  BY DataTyped DEF Writer, Owes
<1>2. ASSUME NEW f, Leaves(d, f, all), ~f.open
      PROVE  Leaves(d, f, all \o b)
  BY <1>2, GoneOwesMore DEF Leaves
<1>3. CASE e \in Writes!Closes(d)
  BY <1>2, <1>3, ClosesWriter
<1>4. CASE e \notin Writes!Closes(d) /\ d.queue # <<>>
  <2> DEFINE q == d.queue \o b
             f == [d EXCEPT !.queue = q]
  <2>1. e \in Writes!Flushes(f)
    BY <1>4 DEF Writes!LowWrites, Writes!Queues
  <2>2. Follows(Writes!Data(d.wire), q, all \o b)
    <3> DEFINE z == Writes!Data(d.wire)
               more == all \o b
    <3>1. Follows(z, d.queue, all)
      BY <1>1, Zenon DEF Follows
    <3>2. Follows(d.queue, b, q) /\ Follows(all, b, more)
      BY <1>1, Zenon DEF Follows
    <3> HIDE DEF q, z, more
    <3>3. Follows(z, q, more)
      BY <3>1, <3>2, FollowsAgain, Zenon
    <3> QED
      BY <3>3 DEF z, more
  <2>3. q \in Seq(MessageBytes) /\ Writes!Data(d.wire) \o q = all \o b
    BY <2>2, Zenon DEF Follows
  <2> HIDE DEF q
  <2>4. Writer(f) /\ f.open /\ f.sizes = d.sizes /\ f.wire = d.wire /\ f.queue = q
    BY <2>3 DEF Writer
  <2> HIDE DEF f
  <2>5. Owes(f, all \o b)
    BY <2>3, <2>4 DEF Owes
  <2> QED
    BY <2>1, <2>4, <2>5, FlushesWriter DEF Leaves
<1>5. CASE e \notin Writes!Closes(d) /\ d.queue = <<>>
  <2>1. PICK k \in 0..Len(b) :
          e = [Writes!Took(d, b, k) EXCEPT !.queue = Writes!After(b, k)]
    BY <1>5 DEF Writes!LowWrites, Writes!Sends
  <2>2. Writes!Data(d.wire) = all
    BY <1>1, <1>5, ConcatEmptySeq
  <2> QED
    BY <2>1, <2>2, TakesSome
<1> QED
  BY <1>3, <1>4, <1>5

\* The bytes of the messages written, and what one message more adds.
LEMMA MessageTyped ==
  ASSUME NEW i \in Nat \ {0}, NEW n \in 0..MaxPayload
  PROVE  /\ Writes!Header(i) \in Seq(MessageBytes)
         /\ Writes!Payload(i, n) \in Seq(MessageBytes)
         /\ Writes!Header(i) \o Writes!Payload(i, n) \in Seq(MessageBytes)
         /\ n = 0 => Writes!Payload(i, n) = <<>>
<1>1. Writes!Header(i) \in Seq(MessageBytes)
  <2>1. <<i, 0>> \in MessageBytes
    BY DEF MessageBytes
  <2> QED
    BY <2>1 DEF Writes!Header
<1>2. Writes!Payload(i, n) \in Seq(MessageBytes)
  <2>1. \A k \in 1..n : <<i, k>> \in MessageBytes
    BY DEF MessageBytes
  <2> QED
    BY <2>1 DEF Writes!Payload
<1>3. n = 0 => Writes!Payload(i, n) = <<>>
  BY DEF Writes!Payload
<1> QED
  BY <1>1, <1>2, <1>3, ConcatProperties

LEMMA MessagesEmpty == Writes!Messages(<<>>) = <<>>
<1> DEFINE s == <<>>
           w == [k \in 1..Len(s) |-> Writes!Header(k) \o Writes!Payload(k, s[k])]
<1>1. w = <<>>
  OBVIOUS
<1>2. Writes!Messages(s) = Writes!Flat(w)
  BY DEF Writes!Messages
<1> HIDE DEF w
<1> QED
  BY <1>1, <1>2, FlatEmpty

LEMMA MessagesAppend ==
  ASSUME NEW s \in Seq(0..MaxPayload), NEW n \in 0..MaxPayload
  PROVE  LET i == Len(s) + 1
         IN  /\ Writes!Messages(s) \in Seq(MessageBytes)
             /\ Writes!Messages(Append(s, n)) =
                  Writes!Messages(s) \o (Writes!Header(i) \o Writes!Payload(i, n))
<1> DEFINE one(k, m) == Writes!Header(k) \o Writes!Payload(k, m)
           w == [k \in 1..Len(s) |-> one(k, s[k])]
           t == Append(s, n)
           v == [k \in 1..Len(t) |-> one(k, t[k])]
           i == Len(s) + 1
<1>1. \A k \in Nat \ {0}, m \in 0..MaxPayload : one(k, m) \in Seq(MessageBytes)
  BY MessageTyped
<1>2. /\ Writes!Messages(s) = Writes!Flat(w) /\ Writes!Messages(t) = Writes!Flat(v)
  BY DEF Writes!Messages
<1> HIDE DEF one
<1>3. Len(s) \in Nat /\ i \in Nat \ {0} /\ Len(t) = i
  OBVIOUS
<1>4. w \in Seq(Seq(MessageBytes)) /\ one(i, n) \in Seq(MessageBytes)
  <2>1. \A k \in 1..Len(s) : one(k, s[k]) \in Seq(MessageBytes)
    <3> SUFFICES ASSUME NEW k \in 1..Len(s) PROVE one(k, s[k]) \in Seq(MessageBytes)
      OBVIOUS
    <3>1. s \in [1..Len(s) -> 0..MaxPayload]
      BY LenProperties
    <3>2. k \in Nat \ {0} /\ s[k] \in 0..MaxPayload
      BY <1>3, <3>1
    <3> QED
      BY <1>1, <3>2, Zenon
  <2> QED
    BY <1>1, <1>3, <2>1
<1>5. v = Append(w, one(i, n))
  <2>1. \A k \in 1..Len(s) : t[k] = s[k]
    OBVIOUS
  <2>2. t[i] = n
    OBVIOUS
  <2> QED
    BY <1>3, <2>1, <2>2
<1> HIDE DEF w, v
<1>6. /\ Writes!Flat(w) \in Seq(MessageBytes)
      /\ Writes!Flat(Append(w, one(i, n))) = Writes!Flat(w) \o one(i, n)
  BY <1>4, FlatAppend
<1> QED
  BY <1>2, <1>5, <1>6 DEF one, t

-----------------------------------------------------------------------------

\* The messages written are on the wire, then in the queue, whole and in order;
\* of those of a connection that is gone, the wire has the beginning.
WriterInv == Writer(c) /\ Owes(c, Writes!Written) /\ Parted(c)

\* A new connection owes nothing.
LEMMA FreshOwesNothing ==
  /\ Writer(Writes!Fresh) /\ Owes(Writes!Fresh, <<>>) /\ Parted(Writes!Fresh)
  /\ Writes!Messages(Writes!Fresh.sizes) = <<>>
<1> DEFINE d == Writes!Fresh
<1>1. /\ d.wire = <<>> /\ d.queue = <<>> /\ d.sizes = <<>> /\ Writer(d) /\ Parted(d)
  <2>1. /\ <<>> \in Seq(MessageBytes) /\ <<>> \in Seq(SentBytes)
        /\ <<>> \in Seq(0..MaxPayload)
    OBVIOUS
  <2> QED
    BY <2>1 DEF Writes!Fresh, Writer, Parted
<1> HIDE DEF d
<1>2. Writes!Data(d.wire) = <<>>
  <2>1. Writes!Data(<<>>) = Writes!Flat(<<>>)
    BY DEF Writes!Data
  <2> QED
    BY <1>1, <2>1, FlatEmpty
<1>3. <<>> \in Seq(MessageBytes) /\ <<>> \o <<>> = <<>>
  OBVIOUS
<1>4. Owes(d, <<>>)
  BY <1>1, <1>2, <1>3 DEF Owes
<1> QED
  BY <1>1, <1>4, MessagesEmpty DEF d

\* A step that writes no message leaves the messages written as they are.
LEMMA LeavesWritten ==
  ASSUME WriterInv, Leaves(c, c', Writes!Written) PROVE WriterInv'
BY DEF WriterInv, Leaves, Writes!Written

\* ws_write(): the header, then the payload, or neither of a connection gone.
LEMMA WritesWhole ==
  ASSUME WriterInv, NEW n \in 0..MaxPayload, Writes!WsWrite(n)
  PROVE  /\ WriterInv' /\ c'.sizes = Append(c.sizes, n)
         /\ c'.ret = Writes!Return(c', n)
<1> DEFINE i == Len(c.sizes) + 1
           d == [c EXCEPT !.sizes = Append(@, n)]
           head == Writes!Header(i)
           body == Writes!Payload(i, n)
           all == Writes!Messages(c.sizes)
<1>1. c.sizes \in Seq(0..MaxPayload) /\ Append(c.sizes, n) \in Seq(0..MaxPayload)
  BY AppendProperties DEF WriterInv, Writer
<1>2. /\ head \in Seq(MessageBytes) /\ body \in Seq(MessageBytes)
      /\ head \o body \in Seq(MessageBytes) /\ n = 0 => body = <<>>
  <2>1. i \in Nat \ {0}
    BY <1>1
  <2> QED
    BY <2>1, MessageTyped
<1>3. /\ all \in Seq(MessageBytes)
      /\ Writes!Messages(Append(c.sizes, n)) = all \o (head \o body)
  BY <1>1, MessagesAppend
<1>4. PICK h \in Writes!LowWrites(d, head) :
        \E p \in (IF h.open /\ n > 0 THEN Writes!LowWrites(h, body) ELSE {h}) :
          c' = [p EXCEPT !.ret = Writes!Return(p, n)]
  BY DEF Writes!WsWrite
<1>5. PICK p \in (IF h.open /\ n > 0 THEN Writes!LowWrites(h, body) ELSE {h}) :
        c' = [p EXCEPT !.ret = Writes!Return(p, n)]
  BY <1>4
<1>6. /\ Writer(d) /\ d.open /\ d.sizes = Append(c.sizes, n)
      /\ d.wire = c.wire /\ d.queue = c.queue
  BY <1>1 DEF WriterInv, Writer, Writes!WsWrite
<1> HIDE DEF i, d, head, body, all
<1>7. Owes(d, all)
  <2>1. Owes(c, all) /\ d.open /\ c.open
    BY <1>6 DEF WriterInv, Writes!Written, all, Writes!WsWrite
  <2> QED
    BY <1>6, <2>1 DEF Owes
<1>8. Leaves(d, h, all \o head)
  BY <1>2, <1>3, <1>4, <1>6, <1>7, LowWritesOwe
<1>9. Writer(h) /\ Owes(h, all \o head) /\ h.sizes = d.sizes /\ Parted(h)
  BY <1>8 DEF Leaves
<1>10. all \o head \in Seq(MessageBytes)
  BY <1>2, <1>3, ConcatProperties
<1>11. /\ Writer(p) /\ Owes(p, (all \o head) \o body) /\ p.sizes = d.sizes
       /\ Parted(p)
  <2>1. CASE h.open /\ n > 0
    <3>1. p \in Writes!LowWrites(h, body)
      BY <1>5, <2>1
    <3> QED
      BY <1>2, <1>9, <1>10, <2>1, <3>1, LowWritesOwe DEF Leaves
  <2>2. CASE ~h.open
    <3>1. p = h
      BY <1>5, <2>2
    <3> QED
      BY <1>2, <1>9, <2>2, <3>1, GoneOwesMore
  <2>3. CASE h.open /\ n = 0
    <3>1. p = h
      BY <1>5, <2>3
    <3>2. (all \o head) \o body = all \o head
      BY <1>2, <1>10, <2>3, ConcatEmptySeq
    <3> QED
      BY <1>9, <3>1, <3>2
  <2> QED
    BY <2>1, <2>2, <2>3
<1>12. (all \o head) \o body = all \o (head \o body)
  BY <1>2, <1>3, Regrouped
<1>13. Writes!Return(p, n) \in Int
  BY DEF Writes!Return
<1>14. /\ Writer(c') /\ c'.sizes = p.sizes /\ c'.wire = p.wire /\ c'.queue = p.queue
       /\ c'.open = p.open /\ c'.closeSent = p.closeSent
       /\ c'.ret = Writes!Return(p, n)
  <2> DEFINE r == Writes!Return(p, n)
  <2> SUFFICES /\ Writer(c') /\ c'.sizes = p.sizes /\ c'.wire = p.wire
               /\ c'.queue = p.queue /\ c'.open = p.open
               /\ c'.closeSent = p.closeSent /\ c'.ret = r
    OBVIOUS
  <2>1. r \in Int /\ c' = [p EXCEPT !.ret = r]
    BY <1>5, <1>13
  <2> HIDE DEF r
  <2> QED
    BY <1>11, <2>1 DEF Writer
<1>15. Owes(c', all \o (head \o body))
  <2>1. Owes(p, all \o (head \o body))
    BY <1>11, <1>12
  <2> QED
    BY <1>14, <2>1 DEF Owes
<1>16. Writes!Written' = all \o (head \o body)
  BY <1>3, <1>6, <1>11, <1>14 DEF Writes!Written
<1>17. c'.ret = Writes!Return(c', n)
  BY <1>14 DEF Writes!Return
<1> QED
  BY <1>6, <1>11, <1>14, <1>15, <1>16, <1>17 DEF WriterInv, Parted

\* What the WebSocket connection's steps keep.
LEMMA WriterStep ==
  ASSUME WriterInv, Writes!Next PROVE WriterInv'
<1>1. ASSUME NEW n \in 0..MaxPayload, Writes!WsWrite(n)
      PROVE  WriterInv'
  BY <1>1, WritesWhole
<1>2. CASE Writes!Flush
  BY <1>2, FlushesWriter, LeavesWritten DEF Writes!Flush, WriterInv
<1>3. CASE Writes!AppClose
  BY <1>3, ClosesStatus, LeavesWritten DEF Writes!AppClose, WriterInv
<1>4. CASE Writes!Teardown
  BY <1>4, ClosesWriter, LeavesWritten DEF Writes!Teardown, WriterInv
<1>5. CASE Writes!Upgrade
  <2>1. c' = Writes!Fresh
    BY <1>5 DEF Writes!Upgrade
  <2> QED
    BY <2>1, FreshOwesNothing DEF WriterInv, Writes!Written
<1> QED
  BY <1>1, <1>2, <1>3, <1>4, <1>5 DEF Writes!Next

\* The connection's invariant, in every behaviour of the parts.
LEMMA WriterHolds == ServingSpec => []WriterInv
<1>1. ServingInit => WriterInv
  BY FreshOwesNothing DEF ServingInit, Writes!Init, WriterInv, Writes!Written
<1>2. WriterInv /\ [ServingNext]_ServingVars => WriterInv'
  <2> SUFFICES ASSUME WriterInv, [ServingNext]_ServingVars PROVE WriterInv'
    OBVIOUS
  <2>1. CASE Writes!Next
    BY <2>1, WriterStep
  <2>2. CASE c' = c
    BY <2>2 DEF WriterInv, Parted, Writes!Written
  <2> QED
    BY <2>1, <2>2 DEF ServingNext, ServingVars, NotHeads, NotLookups, NotPage, NotWalls,
                      writesVars
<1> QED
  BY <1>1, <1>2, PTL DEF ServingSpec

\* Until a Close is sent on a WebSocket connection, its wire and its queue are
\* together the messages the program wrote, whole, in order and once, and nothing
\* else; afterwards so are they without the Close's bytes, which may have come
\* inside a message, and when the connection is gone the wire has a beginning of
\* them (ws_write() over axil_low_write(), ws_close_status()).
THEOREM MessagesStayWhole == ServingSpec => []MessagesWhole
<1>1. WriterInv => MessagesWhole
  <2> SUFFICES ASSUME WriterInv PROVE Writes!MessagesWhole
    BY DEF MessagesWhole
  <2> DEFINE data == Writes!Data(c.wire)
             all == Writes!Written
  <2>1. PICK rest \in Seq(MessageBytes) :
          data \o rest = all /\ (c.open => rest = c.queue)
    BY DEF WriterInv, Owes
  <2>2. data \in Seq(MessageBytes)
    BY DataTyped DEF WriterInv, Writer
  <2>3. ~c.closeSent => c.open /\ data = c.wire
    BY DataIsItself DEF WriterInv, Writer, Parted
  <2> HIDE DEF data, all
  <2>4. data = SubSeq(all, 1, Len(data))
    BY <2>1, <2>2, ConcatPrefix
  <2>5. ~c.closeSent => c.wire \o c.queue = all
    BY <2>1, <2>3
  <2> QED
    BY <2>1, <2>4, <2>5 DEF Writes!MessagesWhole, data, all
<1> QED
  BY <1>1, WriterHolds, PTL

\* ws_write() returns -1 exactly when the connection is gone, and otherwise the
\* size of the frame that was written or queued whole.
THEOREM ReturnsAreHonest == ServingSpec => HonestReturn
<1> DEFINE A == c.open /\ Len(c'.sizes) > Len(c.sizes)
                  => IF c'.open THEN c'.ret = c'.sizes[Len(c'.sizes)] + 1
                     ELSE c'.ret = -1
<1>1. WriterInv /\ [ServingNext]_ServingVars => [A]_(Writes!vars)
  <2> SUFFICES ASSUME WriterInv, Writes!Next PROVE A
    BY DEF ServingNext, ServingVars, NotHeads, NotLookups, NotPage, NotWalls,
           writesVars, Writes!vars
  <2>1. ASSUME NEW n \in 0..MaxPayload, Writes!WsWrite(n)
        PROVE  A
    <3>1. c'.sizes = Append(c.sizes, n) /\ c.sizes \in Seq(0..MaxPayload)
      BY <2>1, WritesWhole DEF WriterInv, Writer
    <3>2. c'.sizes[Len(c'.sizes)] = n
      BY <3>1
    <3>3. c'.ret = Writes!Return(c', n)
      BY <2>1, WritesWhole
    <3> QED
      BY <3>2, <3>3 DEF Writes!Return
  <2>2. ASSUME Leaves(c, c', Writes!Written)
        PROVE  A
    <3>1. c'.sizes = c.sizes /\ Len(c.sizes) \in Nat
      BY <2>2 DEF Leaves, WriterInv, Writer
    <3> QED
      BY <3>1
  <2>3. CASE Writes!Flush
    BY <2>2, <2>3, FlushesWriter DEF Writes!Flush, WriterInv
  <2>4. CASE Writes!AppClose
    BY <2>2, <2>4, ClosesStatus DEF Writes!AppClose, WriterInv
  <2>5. CASE Writes!Teardown
    BY <2>2, <2>5, ClosesWriter DEF Writes!Teardown, WriterInv
  <2>6. CASE Writes!Upgrade
    BY <2>6 DEF Writes!Upgrade
  <2> HIDE DEF A
  <2> QED
    BY <2>1, <2>3, <2>4, <2>5, <2>6 DEF Writes!Next
<1>2. [][A]_(Writes!vars) => HonestReturn
  BY DEF HonestReturn, Writes!HonestReturn
<1> QED
  BY <1>1, <1>2, WriterHolds, PTL DEF ServingSpec
=============================================================================
