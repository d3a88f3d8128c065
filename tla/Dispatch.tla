------------------------------ MODULE Dispatch ------------------------------
(***************************************************************************)
(* request_handle(): the order in which a request is offered to the file   *)
(* tree, the proxy routes, the redirects, the exact routes, the patterns,  *)
(* the default handler and the fallbacks, and what of it stays on a        *)
(* connection that is read again while its answer is still queued.         *)
(*                                                                         *)
(* A path is its sequence of segments and whether it ends in a slash, as   *)
(* PatternMatch shows that the matcher sees it.  A step is one of the      *)
(* tests, in the code's order; nothing else runs between them.             *)
(***************************************************************************)
EXTENDS Naturals, Sequences, FiniteSets

CONSTANTS
  Paths,         \* the paths requests name
  Methods,       \* the methods of the requests
  Routes,        \* exact routes a program may register: [method, path]
  Patterns,      \* patterns it may register: [method, segs]
  Trees,         \* file trees: [files, dirs, listed], sets of paths
  Servers,       \* the rest of the configuration: [sslOnly, default, proxied]
  MaxRequests    \* bound: requests read on one connection

DispatchAssumption ==
  /\ "none" \notin Methods
  /\ \A r \in Routes : r.method \in Methods \cup {"any"} /\ r.path \in Seq(STRING)
  /\ \A p \in Patterns : p.method \in Methods \cup {"any"} /\ p.segs \in Seq(STRING)
  /\ MaxRequests \in Nat \ {0}

VARIABLES
  program,  \* what is registered, and the tree: chosen once
  conn,     \* the descriptor: tls, open, flags, queue, environment
  req,      \* the request in request_handle()
  stage,    \* the next test, "idle" before and between requests
  match,    \* axil_match_pattern(): patterns not yet tried, and the best
  answer    \* how the last request was answered

vars == <<program, conn, req, stage, match, answer>>

NoPattern == [method |-> "none", segs |-> <<>>]
NoMatching == [todo |-> {}, best |-> NoPattern, as |-> "none"]
NoAnswer == [by |-> "none", to |-> NoPattern, body |-> FALSE]
NoRequest == [method |-> "none", path |-> <<>>, slash |-> FALSE]

-----------------------------------------------------------------------------
(* Patterns.                                                                *)

Wild(p) == IF p.segs # <<>> /\ p.segs[Len(p.segs)] = "*" THEN 1 ELSE 0

IsCapture(seg) == seg \in {":x", ":y"}

\* The positions a match compares; a method prefix adds four literals.
Fixed(p) == 1..(Len(p.segs) - Wild(p))

Literals(p) ==
  Cardinality({k \in Fixed(p) : ~IsCapture(p.segs[k])})
    + (IF p.method = "any" THEN 0 ELSE 4)

CapturesOf(p) == {p.segs[k] : k \in {k \in Fixed(p) : IsCapture(p.segs[k])}}

\* axil_match_pattern() skips the keys of hdlr_hd that have neither ":" nor "*":
\* an exact route with a method has its colon, and is a pattern as well.
Tried == program.patterns \cup
  {[method |-> r.method, segs |-> r.path] :
     r \in {r \in program.routes : r.method # "any"}}

\* pattern_match(), as PatternMatch has it.
PathMatches(p, path) ==
  /\ IF Wild(p) = 1 THEN Len(path) >= Len(p.segs) ELSE Len(path) = Len(p.segs)
  /\ \A k \in Fixed(p) : IsCapture(p.segs[k]) \/ p.segs[k] = path[k]

\* axil_match_pattern() tries path_with_method, then document_uri.
Matches(p, method, path) == p.method \in {method, "any"} /\ PathMatches(p, path)

\* Mutant of Better: the literals compared the wrong way round.
BetterSwapped(p, q) ==
  \/ q = NoPattern
  \/ Wild(p) < Wild(q)
  \/ Wild(p) = Wild(q) /\ Literals(p) < Literals(q)

\* pattern_better_match().
Better(p, q) ==
  \/ q = NoPattern
  \/ Wild(p) < Wild(q)
  \/ Wild(p) = Wild(q) /\ Literals(p) > Literals(q)
  \/ /\ Wild(p) = Wild(q) /\ Literals(p) = Literals(q)
     /\ Cardinality(CapturesOf(p)) < Cardinality(CapturesOf(q))

-----------------------------------------------------------------------------

\* One request of a connection that descr_new() made.
Init ==
  /\ program \in [routes : SUBSET Routes, patterns : SUBSET Patterns,
                  tree : Trees, server : Servers]
  /\ conn \in [tls : BOOLEAN, open : {TRUE}, head : {FALSE}, toClose : {FALSE},
               env : {{}}, requests : {0}]
  /\ req = NoRequest /\ stage = "idle"
  /\ match = NoMatching /\ answer = NoAnswer

\* The method, and DF_HEAD, which is set and never taken back.
Entered(method) ==
  [conn EXCEPT !.requests = @ + 1, !.head = @ \/ method = "HEAD"]

\* descr_read() up to request_handle(), with a target the checks let through,
\* its headers read and its body complete.
Request ==
  /\ stage = "idle" /\ conn.open /\ conn.requests < MaxRequests
  /\ \E method \in Methods, path \in Paths, slash \in BOOLEAN :
       /\ req' = [method |-> method, path |-> path,
                  slash |-> slash \/ path = <<>>]
       /\ conn' = Entered(method)
  /\ stage' = "slash" /\ answer' = NoAnswer
  /\ UNCHANGED <<program, match>>

\* A target that request_path_is_safe(), BUFSIZ or a decoded NUL rules out, or
\* a body that buffer_post_body() gave up.
Refuse ==
  /\ stage = "idle" /\ conn.open /\ conn.requests < MaxRequests
  /\ conn' = [conn EXCEPT !.requests = @ + 1, !.open = FALSE]
  /\ UNCHANGED <<program, req, stage, match, answer>>

\* An answer is written; the connection closes now, or when the queue drains.
Answers(by, to, body) ==
  /\ answer' = [by |-> by, to |-> to, body |-> body]
  /\ stage' = "idle" /\ match' = NoMatching
  /\ \E drained \in BOOLEAN :
       conn' = [conn EXCEPT !.toClose = TRUE, !.open = ~drained]
  /\ UNCHANGED <<program, req>>

Goes(next) == stage' = next /\ UNCHANGED <<program, conn, req, match, answer>>

\* request_handle_trailing_slash(): a directory by its bare name.
SlashRedirect ==
  /\ stage = "slash"
  /\ IF ~req.slash /\ req.path \in program.tree.dirs
       THEN Answers("slash", NoPattern, FALSE)
       ELSE Goes("proxy")

\* A registered proxy route: the request ends there, with a pair (and then the
\* connection is Descriptors') or without an answer.
Proxy ==
  /\ stage = "proxy"
  /\ IF req.path \in program.server.proxied
       THEN /\ answer' = [NoAnswer EXCEPT !.by = "proxy"] /\ stage' = "idle"
            /\ \E paired \in BOOLEAN : conn' = [conn EXCEPT !.open = ~paired]
            /\ UNCHANGED <<program, req, match>>
       ELSE Goes("file")

\* request_handle_static(): 304, or 200 with the file unless DF_HEAD is set.  A
\* path that ends in a slash stands for its index.html.
StaticFile ==
  /\ stage = "file"
  /\ LET file == IF req.slash THEN Append(req.path, "index.html") ELSE req.path
     IN  IF file \in program.tree.files
           THEN \E notModified \in BOOLEAN :
                  Answers("file", NoPattern, ~notModified /\ ~conn.head)
           ELSE Goes("listing")

\* autoindex_allowed() and request_handle_autoindex(), which does not ask for
\* DF_HEAD.
Listing ==
  /\ stage = "listing"
  /\ IF req.path \in program.tree.listed
       THEN Answers("listing", NoPattern, TRUE)
       ELSE Goes("https")

\* request_handle_redirect().
HttpsRedirect ==
  /\ stage = "https"
  /\ IF program.server.sslOnly /\ ~conn.tls
       THEN Answers("https", NoPattern, FALSE)
       ELSE Goes("route")

\* A handler answers through axil_respond(), which asks for DF_HEAD.
Handler(by, to) == Answers(by, to, ~conn.head)

Route(method) == [method |-> method, path |-> req.path]

\* The exact keys that are looked up, for a path without its last slash.
ExactKeys ==
  ({Route(req.method), Route("any")} \cup
     {Route("GET") : m \in {req.method} \cap {"HEAD"}}) \cap program.routes

\* The lookups in hdlr_hd.
ExactRoute ==
  /\ stage = "route"
  /\ IF ExactKeys # {} /\ ~(req.slash /\ req.path # <<>>)
       THEN Handler("route", NoPattern)
       ELSE /\ stage' = "pattern"
            /\ match' = [todo |-> Tried, best |-> NoPattern,
                         as |-> req.method]
            /\ UNCHANGED <<program, conn, req, answer>>

\* One turn of the loop in axil_match_pattern(), in the order of a hash table.
TryPattern ==
  /\ stage = "pattern"
  /\ \E p \in match.todo :
       match' = [match EXCEPT
         !.todo = @ \ {p},
         !.best = IF Matches(p, match.as, req.path) /\ Better(p, @) THEN p ELSE @]
  /\ UNCHANGED <<program, conn, req, stage, answer>>

\* pattern_commit_params(): only the winner's, on top of what is there.
Committed == conn.env \cup CapturesOf(match.best)

\* A HEAD that no pattern took is matched as a GET.
HeadFallback == req.method = "HEAD" /\ match.as = "HEAD"

\* The end of the loop.
Matched ==
  /\ stage = "pattern" /\ match.todo = {}
  /\ IF match.best # NoPattern
       THEN /\ answer' = [by |-> "pattern", to |-> match.best,
                          body |-> ~conn.head]
            /\ stage' = "idle" /\ match' = NoMatching
            /\ \E drained \in BOOLEAN :
                 conn' = [conn EXCEPT !.env = Committed, !.toClose = TRUE,
                                      !.open = ~drained]
            /\ UNCHANGED <<program, req>>
     ELSE IF HeadFallback
       THEN /\ match' = [todo |-> Tried, best |-> NoPattern,
                         as |-> "GET"]
            /\ UNCHANGED <<program, conn, req, stage, answer>>
     ELSE Goes("rest")

\* default_handler, else the fallbacks in the order of their registration, of
\* which any may decline, else 404.
Rest ==
  /\ stage = "rest"
  /\ IF program.server.default THEN Handler("default", NoPattern)
     ELSE \E declined \in BOOLEAN :
            Handler(IF declined THEN "notFound" ELSE "fallback", NoPattern)

\* axil_write_remaining() and DF_TO_CLOSE.
Drain ==
  /\ stage = "idle" /\ conn.open /\ conn.toClose
  /\ conn' = [conn EXCEPT !.open = FALSE]
  /\ UNCHANGED <<program, req, stage, match, answer>>

\* Nothing more on this connection, in the bound: no request is left in a stage.
Ended ==
  /\ stage = "idle" /\ (conn.open => conn.requests = MaxRequests)
  /\ UNCHANGED vars

Next ==
  \/ Request \/ Refuse \/ SlashRedirect \/ Proxy \/ StaticFile \/ Listing
  \/ HttpsRedirect \/ ExactRoute \/ TryPattern \/ Matched \/ Rest \/ Drain \/ Ended

Spec == Init /\ [][Next]_vars

-----------------------------------------------------------------------------

Answered == stage = "idle" /\ answer.by # "none"

\* The method the patterns are looked up by in the end: a HEAD that none of
\* them matches is looked up again as a GET.
MatchedAs ==
  IF req.method = "HEAD" /\ \A p \in Tried : ~Matches(p, "HEAD", req.path)
    THEN "GET" ELSE req.method

\* Whatever order the hash table gives, the pattern that axil_match_pattern()
\* returns is not one that strictly contains another that matches in the same
\* round: the narrower route wins.  The exception is the code's: a catch-all
\* loses to a wider one with as many literals and fewer captures.
NarrowestWins ==
  Answered /\ answer.by = "pattern" =>
    LET takes(p) == {q \in Methods \X Paths : Matches(p, q[1], q[2])}
    IN  \A p \in Tried :
          /\ Matches(p, MatchedAs, req.path)
          /\ takes(p) \subseteq takes(answer.to) /\ takes(p) # takes(answer.to)
          => Wild(p) = 1 /\ CapturesOf(p) # CapturesOf(answer.to)

\* The two rounds of lookups of request_handle(): a HEAD request comes to the
\* end of the tables only where a GET of the same path would.
HeadFindsGet ==
  Answered /\ req.method = "HEAD" /\ answer.by \in {"default", "fallback", "notFound"} =>
    /\ \A p \in Tried : ~Matches(p, "GET", req.path)
    /\ Route("GET") \notin program.routes

=============================================================================
