------------------------------ MODULE MCRouting ------------------------------
(***************************************************************************)
(* Instances, for one run of TLC, of what reads frames and requests and    *)
(* finds who answers: ws_read(), the scans of a head, its dates and        *)
(* encodings, patterns, and the order of request_handle().  Each works on  *)
(* its own input: a behaviour is a behaviour of one part, and the others   *)
(* are off.                                                                *)
(***************************************************************************)
EXTENDS WsFrames

CONSTANTS
  Registered, Asked, MaxParams, MaxValue,         \* PatternMatch: its Patterns, Paths
  FirstYear, LastYear,                            \* HttpDate
  Routed, Methods, Routes, Patterns, Trees,       \* Dispatch; Routed: its Paths
  Servers, MaxRequests

VARIABLES
  part,
  head, text, at, scan, words, key, value, env,   \* HeadText
  pat, path, i, j, m, pc,                         \* PatternMatch
  step, road, given, outlen, wire, ret, seen,     \* Codec
  year, month, day, days,                         \* HttpDate
  program, conn, req, stage, match, answer        \* Dispatch

-----------------------------------------------------------------------------

F(op, form, pl) == [masked |-> TRUE, op |-> op, form |-> form, pl |-> pl]
Unmasked == [masked |-> FALSE, op |-> "data", form |-> 0, pl |-> 1]

\* Every form of length, a payload at the cap, past it and past the buffer,
\* an empty frame, a long control frame, a frame without a mask, a Close.
Sendable ==
  {F("data", 0, 0), F("data", 0, 2), F("data", 2, 1), F("data", 8, 3),
   F("data", 0, 4), F("data", 8, 5), F("control", 0, 1), F("control", 2, 1),
   F("close", 0, 2), Unmasked}

\* Any frame, with two behind it or one before.
SentFrames ==
  {<<f, F("data", 2, 1), F("data", 0, 2)>> : f \in Sendable} \cup
  {<<F("data", 0, 2), f>> : f \in Sendable}

X == <<"x">>

\* First lines of one to three words; a colon and a space after a field's
\* name, as every client in the tests sends it.
Scans == INSTANCE HeadText WITH
  Words <- {<<X>>, <<X, X>>, <<X, <<"x", "x">>, X>>},
  Fields <- [name : {X, <<"x", "x">>}, gap : {<<" ">>},
             value : {<<>>, X, <<"x", ":", "x">>, <<"x", " ", "x">>}],
  Bodies <- {<<>>, X, <<"x", ":">>, <<"x", "r", "n", "x">>},
  MaxFields <- 3, LineEnds <- {"crlf"}, ArgMax <- 4

Strings(chars, n) == UNION {[1..k -> chars] : k \in 0..n}

\* No program registers a pattern with an empty segment in the middle.
ShortPatterns ==
  {s \in Strings({"/", ":", "*", "a"}, 5) :
     \A k \in 1..(Len(s) - 1) : ~(s[k] = "/" /\ s[k + 1] = "/")}

ShortPaths == Strings({"/", "?", "a", "b"}, 4)

Pattern == INSTANCE PatternMatch WITH Patterns <- Registered, Paths <- Asked

\* Two digits that "%" is escaped with, each character with a meaning, and one
\* ("!") that has none.
Code == INSTANCE Codec WITH
  value <- given,
  Plain <- {"2", "5"}, Special <- {"%", "+", "&", " ", "!"},
  Quote <- "q", Control <- "c", Insane <- {"!", "c"},
  HexOf <- [c \in {"%", "+", "&", " ", "!", "q", "c"} |->
              CASE c = "%" -> <<"2", "5">> [] c = "+" -> <<"2", "B">>
                [] c = "&" -> <<"2", "6">> [] c = " " -> <<"2", "0">>
                [] c = "!" -> <<"2", "1">> [] c = "q" -> <<"2", "2">>
                [] c = "c" -> <<"0", "1">>],
  MaxText <- 3, MaxOut <- 14

Date == INSTANCE HttpDate

\* Paths that routes and patterns share, a tree with an index, a listing and a
\* file that has a route's name, a server with HTTPS, a default route and a
\* proxy.
RoutedPaths == {<<>>, <<"a">>, <<"a", "b">>, <<"b", "b">>}

ExactRoutes ==
  {[method |-> "GET", path |-> <<"a">>], [method |-> "any", path |-> <<"a", "b">>]}

RoutePatterns ==
  {[method |-> "any", segs |-> <<":x">>], [method |-> "any", segs |-> <<"*">>],
   [method |-> "any", segs |-> <<":x", "*">>],
   [method |-> "GET", segs |-> <<":x", ":y">>],
   [method |-> "any", segs |-> <<"a", ":x">>]}

FileTrees ==
  {[files |-> {}, dirs |-> {}, listed |-> {}],
   [files |-> {<<"b", "index.html">>, <<"a">>}, dirs |-> {<<>>, <<"b">>},
    listed |-> {<<>>}]}

Configurations ==
  {[sslOnly |-> FALSE, default |-> FALSE, proxied |-> {}],
   [sslOnly |-> TRUE, default |-> TRUE, proxied |-> {<<"b", "b">>}]}

Table == INSTANCE Dispatch WITH Paths <- Routed

ASSUME RoutingAssumption ==
  /\ WsFramesAssumption
  /\ Scans!HeadTextAssumption /\ Pattern!MatchAssumption /\ Code!CodecAssumption
  /\ Date!HttpDateAssumption /\ Table!DispatchAssumption

-----------------------------------------------------------------------------

HeadOff ==
  /\ head = "off" /\ text = "off" /\ at = "off" /\ scan = "off"
  /\ words = "off" /\ key = "off" /\ value = "off" /\ env = "off"
PatternOff ==
  /\ pat = "off" /\ path = "off" /\ i = "off" /\ j = "off" /\ m = "off"
  /\ pc = "off"
CodeOff ==
  /\ step = "off" /\ road = "off" /\ given = "off" /\ outlen = "off"
  /\ wire = "off" /\ ret = "off" /\ seen = "off"
TableOff ==
  /\ program = "off" /\ conn = "off" /\ req = "off" /\ stage = "off"
  /\ match = "off" /\ answer = "off"

RoutingInit ==
  /\ part \in {"frames", "head", "pattern", "code", "date", "table"}
  /\ Init
  /\ IF part = "head" THEN Scans!Init ELSE HeadOff
  /\ IF part = "pattern" THEN Pattern!Init ELSE PatternOff
  /\ IF part = "code" THEN Code!Init ELSE CodeOff
  /\ Date!Init
  /\ IF part = "table" THEN Table!Init ELSE TableOff

headVars == <<head, text, at, scan, words, key, value, env>>
patternVars == <<pat, path, i, j, m, pc>>
codeVars == <<step, road, given, outlen, wire, ret, seen>>
dateVars == <<year, month, day, days>>
tableVars == <<program, conn, req, stage, match, answer>>

RoutingNext ==
  \/ /\ part = "frames" /\ Next
     /\ UNCHANGED <<part, headVars, patternVars, codeVars, dateVars, tableVars>>
  \/ /\ part = "head" /\ Scans!Next
     /\ UNCHANGED <<part, vars, patternVars, codeVars, dateVars, tableVars>>
  \/ /\ part = "pattern" /\ Pattern!Next
     /\ UNCHANGED <<part, vars, headVars, codeVars, dateVars, tableVars>>
  \/ /\ part = "code" /\ Code!Next
     /\ UNCHANGED <<part, vars, headVars, patternVars, dateVars, tableVars>>
  \/ /\ part = "date" /\ Date!Next
     /\ UNCHANGED <<part, vars, headVars, patternVars, codeVars, tableVars>>
  \/ /\ part = "table" /\ Table!Next
     /\ UNCHANGED <<part, vars, headVars, patternVars, codeVars, dateVars>>

RoutingVars ==
  <<part, vars, headVars, patternVars, codeVars, dateVars, tableVars>>

RoutingSpec == RoutingInit /\ [][RoutingNext]_RoutingVars

-----------------------------------------------------------------------------
(* Properties, each of one part; WsFrames' own are checked by their names.  *)

\* Every variable has its type, and the counters of a frame what the header and
\* the connection let them be, whoever closes.
TypesOK ==
  /\ part = "pattern" => Pattern!TypeOK
  /\ TypeOK /\ PartsInOrder /\ InPlace /\ HeldForAFrame /\ CloseFlagged

\* The in-place scans of cmd_new() and headers_get() stay in the text, and the
\* words, fields and body they leave are the ones that were sent.
HeadIsRead ==
  part = "head" =>
    Scans!InText /\ Scans!WordsRead /\ Scans!FieldsRead /\ Scans!BodyFound

\* pattern_match(), with a query string and a final "*" that end it early,
\* matches what a definition by whole segments matches, and captures the
\* segments its parameters stand for, within params[].
MatchesSegments ==
  part = "pattern" =>
    Pattern!MatchesSegments /\ Pattern!CapturesSegments

\* What a client encodes in a form arrives as it was (axil_url_encode(),
\* axil_query_parse(), axil_url_decode()); an encoder whose buffer is too small
\* stops between two characters, never within an escape.
FormArrives == part = "code" => Code!FormArrives /\ Code!CutBetweenChars

\* tm_to_time_t_utc() of every day is the number of days counted one by one.
DateReadsBack == part = "date" => Date!DateReadsBack

\* Whatever order the table is iterated in, a pattern never answers where a
\* strictly narrower one matches in the same round, but for a catch-all with as
\* many literals and more captures; and a HEAD comes to the default handler, the
\* fallbacks or 404 only where a GET would.  (A HEAD may be answered by another
\* pattern than the GET: one of any method goes before one of GET's.)
\* pattern_better_match() and the two rounds of request_handle().
WhoAnswers == part = "table" => Table!NarrowestWins /\ Table!HeadFindsGet
=============================================================================
