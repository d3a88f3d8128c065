------------------------------- MODULE Params -------------------------------
(***************************************************************************)
(* Request parameters.  axil_query_parse() fills query_db, one table for   *)
(* the whole process; axil_req_param() looks there first and parses the    *)
(* body and the query string into it on demand; the do_GET() family drops  *)
(* it when request_handle() has returned.  Handlers of several connections *)
(* run one after another, and a handler that deferred its answer looks     *)
(* parameters up again later, between them: what that leaves in the table  *)
(* is there when the next handler starts.                                  *)
(***************************************************************************)
EXTENDS FiniteSets, Naturals

CONSTANTS
  Conns,       \* connections, each with one request
  Names,       \* parameter names
  Late,        \* may a deferred handler look parameters up?
  MaxLookups   \* bound: lookups by one handler

ParamsAssumption == Late \in BOOLEAN /\ MaxLookups \in Nat

VARIABLES
  sent,     \* what each request has in its body, query and path
  db,       \* query_db
  phase,    \* of each request: "new", "handling", "deferred", "answered"
  lookups,  \* lookups made
  strays,   \* history: who looked something up between two handlers, since
            \* the last one returned
  last      \* the last lookup: whose, of what, its result, and strays then

vars == <<sent, db, phase, lookups, strays, last>>

Sources == {"body", "query", "path"}

\* A value tells its request and source; axil_req_param() takes an empty one
\* for a missing one.  In a multipart body nothing is found.
Values == [conn : Conns, source : Sources]
Nothing == [conn |-> "none", source |-> "none"]
Empty == [n \in Names |-> Nothing]
NoLookup == [conn |-> "none", name |-> "none", withBody |-> FALSE,
             value |-> Nothing, strays |-> {}]

\* The table of one source of a request.
From(c, source) ==
  [n \in Names |-> IF n \in sent[c][source] THEN [conn |-> c, source |-> source]
                   ELSE Nothing]

Init ==
  /\ sent \in [Conns -> [Sources -> SUBSET Names]]
  /\ db = Empty /\ phase = [c \in Conns |-> "new"]
  /\ lookups = [c \in Conns |-> 0] /\ strays = {} /\ last = NoLookup

-----------------------------------------------------------------------------

\* Mutant of Dropped: what the last request parsed is kept.
DroppedNever(d) == d

\* corm_drop(query_db).
Dropped(d) == Empty

\* The loop runs one handler at a time, to its return.
Idle == \A c \in Conns : phase[c] # "handling"

\* do_GET() and the others, up to the handler: query_db is as it was left.
Handle(c) ==
  /\ Idle /\ phase[c] = "new"
  /\ phase' = [phase EXCEPT ![c] = "handling"]
  /\ UNCHANGED <<sent, db, lookups, strays, last>>

\* axil_query_parse() of a non-empty text: the table is dropped and filled.
Parsed(d, c, source) == IF sent[c][source] = {} THEN d ELSE From(c, source)

\* axil_req_param(), or axil_param() without a body: query_db as it is, the
\* body, the query string, the route's captures.
Lookup(c, name, withBody) ==
  LET d1 == IF withBody THEN Parsed(db, c, "body") ELSE db
      d2 == Parsed(d1, c, "query")
  IN  IF db[name] # Nothing THEN [db |-> db, value |-> db[name]]
      ELSE IF d1[name] # Nothing THEN [db |-> d1, value |-> d1[name]]
      ELSE IF d2[name] # Nothing THEN [db |-> d2, value |-> d2[name]]
      ELSE [db |-> d2, value |-> From(c, "path")[name]]

\* A handler, or what continues it, asks for a parameter.
Ask(c) ==
  /\ phase[c] = "handling" \/ (Late /\ Idle /\ phase[c] = "deferred")
  /\ lookups[c] < MaxLookups
  /\ \E name \in Names, withBody \in {phase[c] = "handling", FALSE} :
       LET r == Lookup(c, name, withBody)
       IN  /\ db' = r.db
           /\ last' = [conn |-> c, name |-> name, withBody |-> withBody,
                       value |-> r.value, strays |-> strays]
  /\ lookups' = [lookups EXCEPT ![c] = @ + 1]
  /\ strays' = IF phase[c] = "deferred" THEN strays \cup {c} ELSE strays
  /\ UNCHANGED <<sent, phase>>

\* axil_query_parse() by the handler itself, as axil.h has it.
Parse(c) ==
  /\ phase[c] = "handling"
  /\ db' = From(c, "body")
  /\ UNCHANGED <<sent, phase, lookups, strays, last>>

\* The handler returns; it has answered, or deferred its answer.  Then do_GET()
\* or its like drops the table.
Return(c) ==
  /\ phase[c] = "handling"
  /\ \E p \in {"deferred", "answered"} : phase' = [phase EXCEPT ![c] = p]
  /\ db' = Dropped(db) /\ strays' = {}
  /\ UNCHANGED <<sent, lookups, last>>

\* A deferred request is answered.
Finish(c) ==
  /\ Idle /\ phase[c] = "deferred"
  /\ phase' = [phase EXCEPT ![c] = "answered"]
  /\ UNCHANGED <<sent, db, lookups, strays, last>>

Done == \A c \in Conns : phase[c] = "answered"

Next ==
  \/ \E c \in Conns : Handle(c) \/ Ask(c) \/ Parse(c) \/ Return(c) \/ Finish(c)
  \/ Done /\ UNCHANGED vars

Spec == Init /\ [][Next]_vars

-----------------------------------------------------------------------------

Asked == last.conn # "none"

\* Types: query_db never mixes what two parses left.
TypeOK ==
  /\ db \in [Names -> Values \cup {Nothing}]
  /\ \A m, n \in Names : Nothing \notin {db[m], db[n]} => db[m] = db[n]

\* The only values of another request that a lookup can return are those of one
\* whose handler had deferred its answer and whose continuation looked something
\* up since a handler last returned: what handlers parse never outlives them,
\* though query_db is one for all (do_GET() and the others drop it).  Without
\* such lookups (~Late) every value is the request's own.
NoneButStrays ==
  Asked /\ last.value # Nothing => last.value.conn \in {last.conn} \cup last.strays

\* A lookup finds a parameter that any of the sources it is given has, whatever
\* lookups came before it.
FoundIfSent ==
  Asked /\ last.value = Nothing =>
    /\ last.name \notin sent[last.conn]["query"] \cup sent[last.conn]["path"]
    /\ last.withBody => last.name \notin sent[last.conn]["body"]

=============================================================================
