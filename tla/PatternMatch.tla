---------------------------- MODULE PatternMatch ----------------------------
(***************************************************************************)
(* pattern_match(): a registered pattern against a path, with two pointers *)
(* that skip slashes, take a segment each, capture, and stop at a "?", at  *)
(* the end or at a terminal "*".  One step is one turn of its loop.  It is *)
(* checked against a definition that has no pointers: the segments of the  *)
(* two strings, compared one by one.                                       *)
(***************************************************************************)
EXTENDS Naturals, Sequences, FiniteSetsExt, SequencesExt

CONSTANTS
  Patterns,   \* the patterns that may be registered, sequences of characters
  Paths,      \* the paths a request may name
  MaxParams,  \* the entries of axil_pattern_match_t.params[]
  MaxValue    \* the size of an entry's value[]

MatchAssumption ==
  /\ Patterns \subseteq Seq(STRING) /\ Paths \subseteq Seq(STRING)
  /\ MaxParams \in Nat /\ MaxValue \in Nat

VARIABLES
  pat,   \* the pattern and the path, which do not change
  path,
  i,     \* the two pointers, as positions
  j,
  m,     \* axil_pattern_match_t
  pc     \* "loop", or "end" with the verdict in m.matched

vars == <<pat, path, i, j, m, pc>>

\* The character at k, or the terminator.
At(s, k) == IF k <= Len(s) THEN s[k] ELSE "nul"

Ends(ch) == ch \in {"nul", "?"}

\* A slash before another one, or the last.
Redundant(s, k) == At(s, k) = "/" /\ (At(s, k + 1) = "/" \/ Ends(At(s, k + 1)))

\* Mutant of Skipped: one slash at a time.
SkippedOne(s, k) == IF Redundant(s, k) THEN k + 1 ELSE k

\* The two loops that skip redundant slashes.
Skipped(s, k) == Min({l \in k..(Len(s) + 1) : ~Redundant(s, l)})

\* Where the segment that starts at k ends.
SegmentEnd(s, k) ==
  Min({l \in k..(Len(s) + 1) : At(s, l) = "/" \/ Ends(At(s, l))})

\* A "*" that is the rest of the pattern.
Terminal(s, k) ==
  At(s, k) = "*" /\ \/ Ends(At(s, k + 1))
                    \/ At(s, k + 1) = "/" /\ Ends(At(s, k + 2))

NoMatch == [matched |-> FALSE, literals |-> 0, params |-> <<>>, wild |-> FALSE]

Init ==
  /\ pat \in Patterns /\ path \in Paths
  /\ i = 1 /\ j = 1 /\ m = NoMatch /\ pc = "loop"

-----------------------------------------------------------------------------

Return(r) == pc' = "end" /\ m' = r /\ UNCHANGED <<pat, path, i, j>>

Yes(r) == [r EXCEPT !.matched = TRUE]

\* Both strings are done, or one of them.
AtTheEnd(p, u) ==
  /\ Ends(At(pat, p)) \/ Ends(At(path, u))
  /\ Return(IF Ends(At(pat, p)) /\ Ends(At(path, u)) THEN Yes(m) ELSE m)

\* A terminal "*" takes the rest of the path, which is not looked at.
Wildcard(p, u) == Terminal(pat, p) /\ Return([Yes(m) EXCEPT !.wild = TRUE])

\* A slash on one side needs one on the other.
Slash(p, u) ==
  /\ ~Terminal(pat, p)
  /\ At(pat, p) = "/" \/ At(path, u) = "/"
  /\ IF At(pat, p) = At(path, u)
       THEN i' = p + 1 /\ j' = u + 1 /\ UNCHANGED <<pat, path, m, pc>>
       ELSE Return(m)

\* The entry's value.
Captured(u, v) == SubSeq(path, u, v - 1)

\* All entries are used, or a value of n characters does not fit one.
NoEntry(n) == Len(m.params) >= MaxParams \/ n >= MaxValue

\* One segment of each: a capture, or two literals.  A capture that finds no
\* entry, or one too short, ends the match.
Segment(p, u) ==
  LET q == SegmentEnd(pat, p)
      v == SegmentEnd(path, u)
      literal == SubSeq(pat, p, q - 1)
  IN  /\ ~Terminal(pat, p) /\ "/" \notin {At(pat, p), At(path, u)}
      /\ IF At(pat, p) = ":"
           THEN IF NoEntry(v - u) THEN Return(m)
                ELSE /\ m' = [m EXCEPT !.params = Append(@, Captured(u, v))]
                     /\ i' = q /\ j' = v /\ UNCHANGED <<pat, path, pc>>
         ELSE IF literal # SubSeq(path, u, v - 1) THEN Return(m)
         ELSE /\ m' = [m EXCEPT !.literals = @ + Len(literal)]
              /\ i' = q /\ j' = v /\ UNCHANGED <<pat, path, pc>>

Turn ==
  /\ pc = "loop"
  /\ LET p == Skipped(pat, i)
         u == Skipped(path, j)
     IN  \/ AtTheEnd(p, u)
         \/ /\ ~Ends(At(pat, p)) /\ ~Ends(At(path, u))
            /\ Wildcard(p, u) \/ Slash(p, u) \/ Segment(p, u)

Returned == pc = "end" /\ UNCHANGED vars

Next == Turn \/ Returned

Spec == Init /\ [][Next]_vars

-----------------------------------------------------------------------------
(* The reference: segments.                                                 *)

\* What is compared of a string: up to the first "?".
Compared(s) ==
  SubSeq(s, 1, Min({k \in 1..(Len(s) + 1) : Ends(At(s, k))}) - 1)

\* The non-empty segments, in order.
Segments(s) ==
  LET t == Compared(s)
      starts == {k \in 1..Len(t) : t[k] # "/" /\ (k = 1 \/ t[k - 1] = "/")}
  IN  [n \in 1..Cardinality(starts) |->
         LET k == SetToSortSeq(starts, <)[n]
         IN  SubSeq(t, k, SegmentEnd(t, k) - 1)]

Rooted(s) == s # <<>> /\ s[1] = "/"

Fits(p, u) == IF p[1] = ":" THEN Len(u) < MaxValue ELSE p = u

Captures(P) == SelectSeq(P, LAMBDA p : p[1] = ":")

\* The pattern's segments are those of the path, or its last is a "*" and the
\* path has at least as many.
SegmentsMatch ==
  LET P == Segments(pat)
      U == Segments(path)
      wild == P # <<>> /\ P[Len(P)] = <<"*">>
      fixed == IF wild THEN Len(P) - 1 ELSE Len(P)
  IN  /\ IF wild THEN Len(U) > fixed ELSE Len(U) = fixed
      /\ \A n \in 1..fixed : Fits(P[n], U[n])
      /\ Len(Captures(SubSeq(P, 1, fixed))) <= MaxParams
      /\ Rooted(pat) = Rooted(path) \/ U = <<>> \/ (wild /\ fixed = 0 /\ ~Rooted(pat))

-----------------------------------------------------------------------------

\* Types; the pointers stay within the strings and their terminators.
TypeOK ==
  /\ pc \in {"loop", "end"} /\ m.matched \in BOOLEAN /\ m.wild \in BOOLEAN
  /\ i \in 1..(Len(pat) + 1) /\ j \in 1..(Len(path) + 1)
  /\ Len(m.params) <= MaxParams /\ \A n \in DOMAIN m.params : Len(m.params[n]) < MaxValue

\* pattern_match() says yes exactly when the segments match: a trailing or a
\* doubled slash of the path, a "?" in either and a slash before the "*" make
\* no difference but the one stated.
MatchesSegments == pc = "end" => (m.matched <=> SegmentsMatch)

\* What a match captures is the path's own segments at the places of the
\* pattern's ":"s, and its literals are counted once, whichever way the
\* slashes fell: what pattern_better_match() will compare.
CapturesSegments ==
  pc = "end" /\ m.matched =>
    LET P == Segments(pat)
        U == Segments(path)
        at == {n \in 1..Len(P) : P[n][1] = ":"}
        literal == {n \in 1..Len(P) : P[n][1] # ":" /\ ~(m.wild /\ n = Len(P))}
    IN  /\ m.params = [n \in 1..Cardinality(at) |-> U[SetToSortSeq(at, <)[n]]]
        /\ m.literals = FoldSet(LAMBDA n, sum : Len(P[n]) + sum, 0, literal)
=============================================================================
