----------------------------- MODULE ByteStream -----------------------------
(***************************************************************************)
(* What axil's write side promises the peer of one connection: the bytes   *)
(* that axil_write() accepted reach the wire in the order they were        *)
(* accepted, each once and none invented, and a connection that the server *)
(* closes because it has nothing left to send has sent them all.  Bytes    *)
(* are named by the order in which axil_write() accepted them: 1, 2, ...   *)
(* WriteQueue implements this specification.                               *)
(***************************************************************************)
EXTENDS Naturals, Sequences

VARIABLES
  accepted,   \* how many bytes axil_write() has taken on this connection
  wire,       \* the bytes the kernel has taken, in order
  ended       \* "no", "flushed" (all was sent) or "cut" (given up)

vars == <<accepted, wire, ended>>

\* The first n bytes, in order: the only thing the peer may ever have seen.
FirstBytes(n) == [i \in 1..n |-> i]

Init ==
  /\ accepted = 0
  /\ wire = <<>>
  /\ ended = "no"

\* Bytes are accepted, or sent, or both; the connection may end, and may call
\* that end flushed only if every accepted byte has been sent.
Advance ==
  /\ ended = "no"
  /\ accepted' \in Nat
  /\ accepted' >= accepted
  /\ wire' = FirstBytes(Len(wire'))
  /\ Len(wire') >= Len(wire)
  /\ Len(wire') <= accepted'
  /\ ended' \in {"no", "flushed", "cut"}
  /\ ended' = "flushed" => Len(wire') = accepted'

\* The number is reused by a new connection, which starts from nothing.
Reuse ==
  /\ ended # "no"
  /\ accepted' = 0
  /\ wire' = <<>>
  /\ ended' = "no"

Next == Advance \/ Reuse

Spec == Init /\ [][Next]_vars

=============================================================================
