------------------------------ MODULE Identity ------------------------------
(***************************************************************************)
(* Who a descriptor speaks for: axil_auth(), called by the authentication  *)
(* hook for a request, by a program, and by AXIL_AUTOAUTH (-A) for every   *)
(* WebSocket upgrade; the flags, REMOTE_USER and passwd entry it leaves    *)
(* behind; and drop_priviledges(), which a program run for the descriptor  *)
(* goes by.  One number is followed through the connections that get it.   *)
(***************************************************************************)
EXTENDS Naturals

CONSTANTS
  Known,      \* names getpwnam() finds
  Unknown,    \* names it does not
  MaxCopies,  \* bound: calls of axil_auth() on one connection
  Spoken      \* may an upgraded connection send requests with a body?

ASSUME IdentityAssumption ==
  /\ Known \cap Unknown = {} /\ {"none", "server"} \cap (Known \cup Unknown) = {}
  /\ MaxCopies \in Nat \ {0} /\ Spoken \in BOOLEAN

VARIABLES
  server,  \* the configuration and the account the server runs as
  d,       \* the slot: flags, REMOTE_USER, d->pw
  child    \* the last program run: whose uid it got, and what d was

vars == <<server, d, child>>

\* copies: axil_pw_copy() results that are the slot's, or that no pointer
\* leads to any more.  source is history: where REMOTE_USER came from.
Closed ==
  [open |-> FALSE, accepted |-> FALSE, ws |-> FALSE, connected |-> FALSE,
   authenticated |-> FALSE, auto |-> FALSE, user |-> "none", pw |-> "none",
   copies |-> 0, source |-> "nobody"]

\* axil_platform_init_pre_bind(): axil_pw is the account of geteuid(), and a
\* server that is not root has a chroot, if only ".".  hooked: axil.c's
\* axil_connect() is linked in.
Init ==
  /\ server \in {s \in [root : BOOLEAN, chroot : BOOLEAN, auto : BOOLEAN,
                        hooked : BOOLEAN] : s.root \/ s.chroot}
  /\ d = Closed /\ child = [as |-> "nobody", of |-> Closed]

-----------------------------------------------------------------------------

\* Mutant of PwOf: an unknown name leaves the entry of an earlier login.
PwOfKept(c, name) ==
  IF name \in Known THEN name ELSE IF c.pw = "none" THEN "server" ELSE c.pw

\* The entry axil_auth() leaves: axil_pw for a name the system does not have.
PwOf(c, name) == IF name \in Unknown THEN "server" ELSE name

\* axil_auth(): a new copy each time.
Auth(c, name, source) ==
  [c EXCEPT !.authenticated = TRUE, !.connected = TRUE, !.user = name,
            !.pw = PwOf(c, name), !.copies = @ + 1, !.source = source]

\* Mutant of AutoAuth: the published name is not marked.
AutoAuthUnmarked(c) ==
  IF server.auto THEN Auth(c, "server", "published") ELSE c

\* axil_autoauth_apply(): the server's own name, marked as published.
AutoAuth(c) ==
  IF server.auto THEN [Auth(c, "server", "published") EXCEPT !.auto = TRUE] ELSE c

\* axil_close(), or the other end of a pair's axil_raw_descr_reset(): the
\* environment and the slot are cleared.
Cleared(c) == Closed

Accept ==
  /\ ~d.open
  /\ d' = [d EXCEPT !.open = TRUE, !.accepted = TRUE]
  /\ UNCHANGED <<server, child>>

Close ==
  /\ d.open
  /\ d' = Cleared(d)
  /\ UNCHANGED <<server, child>>

\* auth_try(), in request_handle(): axil_auth_check() names a user or nobody.
\* A request may also be the text of a frame.
Request ==
  /\ d.open /\ d.accepted
  /\ \E name \in Known \cup Unknown :
       /\ d.copies < MaxCopies
       /\ d' = Auth(d, name, "proven")
  /\ UNCHANGED <<server, child>>

\* A program's own call of axil_auth().
Login ==
  /\ d.open
  /\ \E name \in Known \cup Unknown :
       /\ d.copies < MaxCopies
       /\ d' = Auth(d, name, "proven")
  /\ UNCHANGED <<server, child>>

\* buffer_post_body()'s 413: axil_set_flags() assigns DF_TO_CLOSE; then
\* axil_respond() closes, or leaves the rest of the response queued.
TooLarge ==
  /\ d.open /\ d.accepted
  /\ Spoken \/ ~d.ws
  /\ \/ d' = Cleared(d)
     \/ d' = [d EXCEPT !.accepted = FALSE, !.ws = FALSE, !.connected = FALSE,
                       !.authenticated = FALSE, !.auto = FALSE]
  /\ UNCHANGED <<server, child>>

\* axil_ws_upgrade(), in a handler: -A, and then the hook, which does it again.
Upgrade ==
  /\ d.open /\ d.accepted /\ ~d.ws
  /\ d.copies + 2 <= MaxCopies
  /\ LET c == AutoAuth([d EXCEPT !.ws = TRUE])
     IN  d' = IF server.hooked
                THEN [AutoAuth(c) EXCEPT !.connected = @ \/ server.auto]
                ELSE [c EXCEPT !.connected = TRUE]
  /\ UNCHANGED <<server, child>>

\* Mutant of Dropped: where there is no jail, -A is not looked at.
DroppedJailFirst ==
  LET pw == IF d.authenticated THEN d.pw ELSE "server"
  IN  IF ~server.chroot THEN "server"
      ELSE IF d.auto /\ server.root THEN "refused"
      ELSE IF server.root THEN pw ELSE "server"

\* drop_priviledges(), in the child: the account it goes on as.
Dropped ==
  LET pw == IF d.authenticated THEN d.pw ELSE "server"
  IN  IF d.auto THEN (IF server.root THEN "refused" ELSE "server")
      ELSE IF server.root /\ server.chroot THEN pw
      ELSE "server"

\* axil_exec() for this descriptor.
Exec ==
  /\ d.open
  /\ child' = [as |-> Dropped, of |-> d]
  /\ UNCHANGED <<server, d>>

Next == Accept \/ Close \/ Request \/ Login \/ TooLarge \/ Upgrade \/ Exec

Spec == Init /\ [][Next]_vars

-----------------------------------------------------------------------------
(* Properties.                                                              *)

\* Every variable has its type.
TypeOK ==
  /\ {d.open, d.accepted, d.ws, d.connected, d.authenticated, d.auto} \subseteq BOOLEAN
  /\ {d.user, d.pw} \subseteq Known \cup Unknown \cup {"none", "server"}
  /\ d.copies \in 0..MaxCopies /\ d.source \in {"nobody", "proven", "published"}
  /\ child.as \in Known \cup {"nobody", "server", "refused"}

\* On a connection whose requests are still read, an identity that -A published
\* is marked, whatever logins and upgrades came before (DF_AUTH_AUTO).
PublishedIsMarked ==
  d.open /\ d.accepted /\ d.source = "published" => d.auto

\* A connection that authenticated nobody speaks for nobody, whoever had its
\* number before.
NothingInherited ==
  d.source = "nobody" => ~d.authenticated /\ ~d.auto /\ d.user = "none"

\* Who a connection speaks for is its own affair, from the first request to the
\* last, whatever logins, upgrades and connections came before (auth_try(),
\* axil_auth(), the memset of axil_close()).
SpeaksForItself == TypeOK /\ PublishedIsMarked /\ NothingInherited

\* While a connection's requests are read, a root server runs no program for it
\* once the name it goes by is one that -A published, whatever logins, upgrades
\* and connections of its number came before: by where the name came from, not
\* by DF_AUTH_AUTO, which drop_priviledges() has to go by and the 413 takes away.
NoPublishedChild ==
  server.root /\ child.of.accepted /\ child.of.source = "published"
    => child.as = "refused"

\* A program runs as the server or as the user REMOTE_USER names, never as one
\* an earlier login named.
ChildIsItsUser ==
  child.as \in {"nobody", "refused", "server", child.of.user}

=============================================================================
