------------------------------- MODULE Codec -------------------------------
(***************************************************************************)
(* A value on its way to a handler or a page: axil_url_encode(), then       *)
(* axil_url_decode(), env_sane() and axil_query_parse() as a form's body or *)
(* a target takes them; or axil_json_escape().  Characters stand for their  *)
(* kinds.  The client's own part, and a JSON parser, are assumed to be the  *)
(* inverse of the escapes.                                                  *)
(***************************************************************************)
EXTENDS Integers, Sequences, SequencesExt

CONSTANTS
  Plain,     \* characters that are never escaped
  Special,   \* characters of a URL: "%", "+", "&", " " and one of no meaning
  Quote, Control,
  Insane,    \* those of Special \cup {Control} env_sane() stops at
  HexOf,     \* the hex digits of what is not plain
  MaxText,   \* bound: length of a value
  MaxOut     \* bound: size of a buffer

Chars == Plain \cup Special \cup {Quote, Control}

CodecAssumption ==
  /\ {"%", "+", "&", " "} \subseteq Special /\ Insane \subseteq Special \cup {Control}
  /\ DOMAIN HexOf = Chars \ Plain
  /\ \A c, e \in DOMAIN HexOf : HexOf[c] = HexOf[e] => c = e
  /\ MaxText \in Nat /\ MaxOut \in Nat

VARIABLES
  step,     \* "given", "sent", "target", "seen"
  road,     \* "form", "target", "json"
  value,
  outlen,   \* the buffer the encoder is given
  wire,     \* what it wrote
  ret,      \* what it returned
  seen      \* what the reader gets

vars == <<step, road, value, outlen, wire, ret, seen>>

Init ==
  /\ step = "given" /\ road \in {"form", "target", "json"}
  /\ value \in UNION {[1..k -> Chars] : k \in 0..MaxText}
  /\ outlen \in 1..MaxOut
  /\ wire = <<>> /\ ret = 0 /\ seen = <<>>

-----------------------------------------------------------------------------

\* snprintf() into what is left after j characters.
Printed(s, j) == SubSeq(s, 1, IF outlen - j - 1 < Len(s) THEN outlen - j - 1 ELSE Len(s))

\* axil_url_encode(): an escape and the NUL fit.
UrlRoom(j) == j + 4 < outlen

UrlEncoded ==
  LET enc[i \in 0..Len(value)] ==
        IF i = 0 THEN [out |-> <<>>, full |-> FALSE]
        ELSE LET e == enc[i - 1]
                 c == value[i]
                 j == Len(e.out)
             IN  IF e.full \/ ~UrlRoom(j) THEN [e EXCEPT !.full = TRUE]
                 ELSE [e EXCEPT !.out = @ \o
                         (IF c \in Plain THEN <<c>> ELSE Printed(<<"%">> \o HexOf[c], j))]
  IN  enc[Len(value)].out

\* axil_json_escape(): a \u escape fits.
ControlRoom(j) == j + 6 < outlen

JsonEscaped ==
  LET enc[i \in 0..Len(value)] ==
        IF i = 0 THEN [out |-> <<>>, full |-> FALSE]
        ELSE LET e == enc[i - 1]
                 c == value[i]
                 j == Len(e.out)
             IN  IF e.full \/ j + 2 >= outlen \/ (c = Control /\ ~ControlRoom(j))
                 THEN [e EXCEPT !.full = TRUE]
                 ELSE [e EXCEPT !.out = @ \o
                         (IF c = Control THEN Printed(<<"\\", "u", "0", "0">> \o HexOf[c], j)
                          ELSE IF c = Quote THEN <<"\\", c>> ELSE <<c>>)]
  IN  enc[Len(value)].out

Encode ==
  /\ step = "given" /\ step' = "sent"
  /\ wire' = IF road = "json" THEN JsonEscaped ELSE UrlEncoded
  /\ ret' = IF road = "json" THEN 0 ELSE Len(wire')
  /\ UNCHANGED <<road, value, outlen, seen>>

\* The character of two hex digits; "?" if they are of none here.
CharOf(h) == IF \E c \in DOMAIN HexOf : HexOf[c] = h
             THEN CHOOSE c \in DOMAIN HexOf : HexOf[c] = h ELSE "?"

\* axil_url_decode(), and what axil_query_parse() does with a value: the same
\* for what axil_url_encode() writes.
UrlDecoded(s) ==
  LET dec[i \in 1..(Len(s) + 3)] ==
        IF i > Len(s) THEN <<>>
        ELSE IF s[i] = "+" THEN <<" ">> \o dec[i + 1]
        ELSE IF s[i] = "%" /\ i + 2 <= Len(s)
             THEN <<CharOf(<<s[i + 1], s[i + 2]>>)>> \o dec[i + 3]
        ELSE <<s[i]>> \o dec[i + 1]
  IN  dec[1]

\* The longest prefix without a character of S.
UpTo(s, S) ==
  LET ends == {i \in 1..Len(s) : s[i] \in S}
  IN  IF ends = {} THEN s ELSE SubSeq(s, 1, (CHOOSE i \in ends : \A k \in ends : i <= k) - 1)

\* request_handle() decodes the whole target; _env_prep() puts what is sane of
\* its query into QUERY_STRING.
Target ==
  /\ step = "sent" /\ road = "target"
  /\ step' = "target" /\ seen' = UpTo(UrlDecoded(wire), Insane)
  /\ UNCHANGED <<road, value, outlen, wire, ret>>

\* Mutant of FirstValue: decoded before it is cut.
FirstValueLate(s) == UpTo(UrlDecoded(s), {"&"})

\* Pairs end at "&", and then their values are decoded.
FirstValue(s) == UrlDecoded(UpTo(s, {"&"}))

\* axil_query_parse(), of a body or of QUERY_STRING.
QueryParse ==
  /\ \/ step = "sent" /\ road = "form"
     \/ step = "target"
  /\ step' = "seen"
  /\ seen' = FirstValue(IF road = "form" THEN wire ELSE seen)
  /\ UNCHANGED <<road, value, outlen, wire, ret>>

Next == Encode \/ Target \/ QueryParse

Spec == Init /\ [][Next]_vars

-----------------------------------------------------------------------------
(* Properties.                                                              *)

\* What a JSON parser makes of wire.
JsonRead ==
  LET read[i \in 1..(Len(wire) + 6)] ==
        IF i > Len(wire) THEN <<>>
        ELSE IF wire[i] # "\\" THEN <<wire[i]>> \o read[i + 1]
        ELSE IF i + 5 <= Len(wire) /\ wire[i + 1] = "u"
             THEN <<CharOf(<<wire[i + 4], wire[i + 5]>>)>> \o read[i + 6]
        ELSE IF i < Len(wire) /\ wire[i + 1] = Quote THEN <<Quote>> \o read[i + 2]
        ELSE <<"?">>
  IN  read[1]

\* The encoders stop between two characters, never inside an escape, and the
\* NUL fits, whatever the buffer (axil_url_encode(), axil_json_escape()).
CutBetweenChars ==
  step = "sent" =>
    /\ Len(wire) < outlen
    /\ IsPrefix(IF road = "json" THEN JsonRead ELSE UrlDecoded(wire), value)

Whole == UrlDecoded(wire) = value

\* A form's value arrives as it was meant, "&", "%" and "+" included.
FormArrives == step = "seen" /\ road = "form" /\ Whole => seen = value

=============================================================================
